-------------------------- MODULE ParallelSignals ---------------------------
(***************************************************************************)
(* The parallel signals of the index stage (index_stage/parallel_signals.py*)
(* and parallel_runtime.py).  A plan call submits the collection of its    *)
(* docs and of its worktree signals to one executor that all calls of the  *)
(* process share, waits for the docs and then for the worktree under one   *)
(* deadline, and goes on without what is not there.  A task that is late   *)
(* is cancelled, which takes effect only while it is queued.               *)
(***************************************************************************)
EXTENDS Naturals, FiniteSets, SequencesExt

CONSTANTS Calls,    \* calls of collect_parallel_signals
          Requests, \* the ways they are made
          Workers   \* threads of the executor (2)

Kinds == {"docs", "worktree"}
Tasks == Calls \X Kinds

(* How a call is made: which signals its policy wants, whether in parallel,*)
(* and whether with a time budget (a budget of 0 is none).                 *)
Plans == [wants : SUBSET Kinds, parallel : BOOLEAN, budget : BOOLEAN]

ASSUME SignalsConstants ==
    /\ Workers \in Nat \ {0}
    /\ Requests \subseteq Plans

VARIABLES stage,   \* call -> where it is
          plan,    \* call -> how it was made
          due,     \* calls whose deadline has passed
          signal,  \* task -> what its call takes for it: "", "result", "fallback"
          queue,   \* the work queue of the executor, the cancelled included
          running, \* tasks a worker runs
          ended,   \* tasks that have run to their end
          dropped, \* tasks cancelled in the queue
          hangs    \* tasks that never end once they run

signalsVars == <<stage, plan, due, signal, queue, running, ended, dropped, hangs>>
executor == <<queue, running, ended, dropped, hangs>>

SignalsInit ==
    /\ stage = [c \in Calls |-> "idle"]
    /\ plan \in [Calls -> Requests]
    /\ due = {}
    /\ signal = [t \in Tasks |-> ""]
    /\ queue = << >>
    /\ running = {}
    /\ ended = {}
    /\ dropped = {}
    /\ hangs \in SUBSET Tasks

Goto(c, s) == stage' = [stage EXCEPT ![c] = s]
Given(c, k, s) == signal' = [signal EXCEPT ![<<c, k>>] = s]

-----------------------------------------------------------------------------
(* The call.                                                               *)
Enter(c) ==
    /\ stage[c] = "idle"
    /\ Goto(c, IF plan[c].parallel /\ plan[c].wants # {}
               THEN "submit docs" ELSE "run docs")
    /\ UNCHANGED <<plan, due, signal, executor>>

Submit(c, k, next) ==
    /\ Goto(c, next)
    /\ queue' = IF k \in plan[c].wants THEN Append(queue, <<c, k>>) ELSE queue
    /\ UNCHANGED <<plan, due, signal, running, ended, dropped, hangs>>

SubmitDocs(c) ==
    stage[c] = "submit docs" /\ Submit(c, "docs", "submit worktree")
SubmitWorktree(c) ==
    stage[c] = "submit worktree" /\ Submit(c, "worktree", "await docs")

Awaiting(c) == stage[c] \in {"await docs", "cancel docs", "await worktree"}

(* The deadline is set after both are submitted, if there is a budget.     *)
Deadline(c) ==
    /\ Awaiting(c)
    /\ plan[c].budget
    /\ c \notin due
    /\ due' = due \cup {c}
    /\ UNCHANGED <<stage, plan, signal, executor>>

(* resolve_parallel_future: a signal not wanted has no future, and takes   *)
(* its place-holder at once; result() takes a future that has ended, even  *)
(* when no time is left, and else waits until the deadline.                *)
Unwanted(c, k, next) ==
    /\ k \notin plan[c].wants
    /\ Given(c, k, "fallback")
    /\ Goto(c, next)
    /\ UNCHANGED <<plan, due, executor>>

Result(c, k, next) ==
    /\ <<c, k>> \in ended
    /\ Given(c, k, "result")
    /\ Goto(c, next)
    /\ UNCHANGED <<plan, due, executor>>

(* Mutant: the time left is computed once for both signals, so it has run  *)
(* out only for the first.                                                 *)
LateDocs(c, k, cancel) ==
    /\ k = "docs"
    /\ k \in plan[c].wants
    /\ <<c, k>> \notin ended
    /\ c \in due
    /\ Goto(c, cancel)
    /\ UNCHANGED <<plan, due, signal, executor>>

Late(c, k, cancel) ==
    /\ k \in plan[c].wants
    /\ <<c, k>> \notin ended
    /\ c \in due
    /\ Goto(c, cancel)
    /\ UNCHANGED <<plan, due, signal, executor>>

Waiting(t) == t \notin running \cup ended

(* Mutant: a late task is left to itself. *)
GiveUp(c, k, next) ==
    /\ Given(c, k, "fallback")
    /\ Goto(c, next)
    /\ UNCHANGED <<plan, due, executor>>

Cancel(c, k, next) ==
    /\ dropped' = IF Waiting(<<c, k>>) THEN dropped \cup {<<c, k>>} ELSE dropped
    /\ Given(c, k, "fallback")
    /\ Goto(c, next)
    /\ UNCHANGED <<plan, due, queue, running, ended, hangs>>

AwaitDocs(c) ==
    /\ stage[c] = "await docs"
    /\ \/ Unwanted(c, "docs", "await worktree")
       \/ Result(c, "docs", "await worktree")
       \/ Late(c, "docs", "cancel docs")

CancelDocs(c) ==
    stage[c] = "cancel docs" /\ Cancel(c, "docs", "await worktree")

AwaitWorktree(c) ==
    /\ stage[c] = "await worktree"
    /\ \/ Unwanted(c, "worktree", "done")
       \/ Result(c, "worktree", "done")
       \/ Late(c, "worktree", "cancel worktree")

CancelWorktree(c) ==
    stage[c] = "cancel worktree" /\ Cancel(c, "worktree", "done")

(* Without parallel signals the call collects them itself, one after the   *)
(* other, for as long as they take; it asks for the docs in any case.      *)
RunDocs(c) ==
    /\ stage[c] = "run docs"
    /\ <<c, "docs">> \notin hangs
    /\ Given(c, "docs", "result")
    /\ Goto(c, "run worktree")
    /\ UNCHANGED <<plan, due, executor>>

RunWorktree(c) ==
    /\ stage[c] = "run worktree"
    /\ \/ /\ "worktree" \in plan[c].wants
          /\ <<c, "worktree">> \notin hangs
          /\ Given(c, "worktree", "result")
       \/ /\ "worktree" \notin plan[c].wants
          /\ Given(c, "worktree", "fallback")
    /\ Goto(c, "done")
    /\ UNCHANGED <<plan, due, executor>>

Step(c) ==
    \/ Enter(c)
    \/ SubmitDocs(c)
    \/ SubmitWorktree(c)
    \/ AwaitDocs(c)
    \/ CancelDocs(c)
    \/ AwaitWorktree(c)
    \/ CancelWorktree(c)
    \/ RunDocs(c)
    \/ RunWorktree(c)

-----------------------------------------------------------------------------
(* The executor.  A free worker takes the next task and passes over it if  *)
(* it was cancelled; what it runs cannot be stopped.                       *)
Take ==
    /\ queue # << >>
    /\ Cardinality(running) < Workers
    /\ queue' = Tail(queue)
    /\ running' = running \cup ({Head(queue)} \ dropped)
    /\ UNCHANGED <<stage, plan, due, signal, ended, dropped, hangs>>

Finish(t) ==
    /\ t \in running \ hangs
    /\ running' = running \ {t}
    /\ ended' = ended \cup {t}
    /\ UNCHANGED <<stage, plan, due, signal, queue, dropped, hangs>>

SignalsNext ==
    \/ \E c \in Calls : Step(c) \/ Deadline(c)
    \/ Take
    \/ \E t \in Tasks : Finish(t)

(* Threads get to run, clocks advance, and a task that does not hang ends. *)
SignalsFair ==
    /\ \A c \in Calls : WF_signalsVars(Step(c)) /\ WF_signalsVars(Deadline(c))
    /\ WF_signalsVars(Take)
    /\ \A t \in Tasks : WF_signalsVars(Finish(t))

SignalsSpec == SignalsInit /\ [][SignalsNext]_signalsVars /\ SignalsFair

-----------------------------------------------------------------------------
(* A worker is never given a task whose call has gone on without it: once  *)
(* a call has taken anything for a signal, its task is not waiting in the  *)
(* queue except cancelled.  Two workers serve every call of the process,   *)
(* and cannot be had back from a task that runs.                           *)
NoWorkForNobody ==
    \A t \in Range(queue) : signal[t] # "" => t \in dropped

(* A call that waits ends: within its budget whatever hangs, its own tasks *)
(* or those of others that hold the workers; without one, if nothing does. *)
SignalsEnd ==
    \A c \in Calls :
        Awaiting(c) /\ (plan[c].budget \/ hangs = {}) ~> stage[c] = "done"
=============================================================================
