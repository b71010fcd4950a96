--------------------------- MODULE PlanLifecycle ---------------------------
(***************************************************************************)
(* The life of a plan request: the timed call that submits it to a worker  *)
(* thread (plan_timeout.py), the nine pipeline stages the worker runs in   *)
(* order (orchestrator_runtime_lifecycle.py), the replay of a cached       *)
(* source plan (orchestrator_runtime_source_plan.py) and the bounded agent *)
(* loop that reruns a suffix of the pipeline                               *)
(* (orchestrator_runtime_post_source.py, agent_loop/controller.py).        *)
(*                                                                         *)
(* A worker whose caller gave up is not stopped: it runs on, beside the    *)
(* workers of later calls, and stores its source plan in the replay cache  *)
(* they read.  The cache is the abstract LossyCache that StageArtifactCache *)
(* implements.                                                             *)
(*                                                                         *)
(* A stage payload is abstracted to what the properties tell apart: how    *)
(* many refinements its query carried (level), which pass wrote it (pass), *)
(* and, for a stage that reads the repository or the memory store, the     *)
(* version of the world it read (saw).  A source plan is the inputs it was *)
(* made from.                                                              *)
(***************************************************************************)
EXTENDS Naturals

CONSTANTS Calls,     \* timed plan calls, each with a worker thread of its own
          Impatient, \* calls that may take longer than their timeout
          Queries,   \* normalized query texts
          Configs,   \* call -> the cache and agent loop settings it may have
          Flawed,    \* stages whose payload may break its contract
          MaxWorld,  \* bound on the versions of the repository and the memory
          None

ASSUME LifecycleConstants ==
    /\ Impatient \subseteq Calls
    /\ MaxWorld \in Nat \ {0}
    /\ Configs \in [Calls -> SUBSET [replay : BOOLEAN, loop : BOOLEAN, max : Nat]]
    /\ Flawed \subseteq 1 .. 9

(***************************************************************************)
(* CORE_PIPELINE_ORDER: 1 memory, 2 index, 3 repomap, 4 augment, 5 skills, *)
(* 6 history_channel, 7 context_refine, 8 source_plan, 9 validation.       *)
(***************************************************************************)
Stages == 1 .. 9
Index == 2
ContextRefine == 7
SourcePlan == 8
Validation == 9
Readers == {1, 2, 4}   \* memory, index and augment read outside the context

Actions ==
    {"request_more_context", "request_source_plan_retry",
     "request_validation_retry"}

(* Mutant: more context is asked for and the retrieval is not rerun. *)
RerunFromWithoutRetrieval(action) ==
    CASE action = "request_more_context"      -> SourcePlan
      [] action = "request_source_plan_retry" -> SourcePlan
      [] action = "request_validation_retry"  -> Validation

(* The first stage of the suffix an action reruns. *)
RerunFrom(action) ==
    CASE action = "request_more_context"      -> Index
      [] action = "request_source_plan_retry" -> SourcePlan
      [] action = "request_validation_retry"  -> Validation

Worlds == 1 .. MaxWorld
Inputs == [query : Queries, level : Nat, saw : [Readers -> Worlds]]
ReplayKeys == [query : Queries, saw : [Readers -> Worlds], files : Worlds]
Payloads == [level : Nat, pass : Nat, saw : {0} \cup Worlds]

(* AGENT_LOOP_STOP_REASONS, but for "disabled": no action is selected then. *)
Stops == {"no_action", "completed", "max_iterations", "stage_contract_error"}

ASSUME NoneIsNothing == None \notin Actions \cup Payloads \cup Stops

VARIABLES plan,    \* call -> the worker's progress through plan()
          caller,  \* call -> what the caller of execute_with_timeout knows
          world,   \* the version of the repository and the memory store
          given,   \* replay key -> source plans handed to the cache
          answer   \* call -> the cache entry the worker was answered with

vars == <<plan, caller, world, given, answer>>

Replay == INSTANCE LossyCache
          WITH Keys <- ReplayKeys, Contents <- Inputs, Threads <- Calls

Fresh(q, cf) ==
    [query |-> q, config |-> cf, pc |-> "queued", next |-> 1,
     out |-> [s \in Stages |-> None], made |-> None, key |-> None,
     error |-> 0, level |-> 0, refinement |-> 0, action |-> None,
     requested |-> 0, executed |-> 0, stop |-> None]

Init ==
    /\ plan = [c \in Calls |-> None]
    /\ caller = [c \in Calls |-> "idle"]
    /\ world = 1
    /\ Replay!Init

(***************************************************************************)
(* The caller: submit, wait for the future, give up after the timeout.     *)
(***************************************************************************)
Submit(c, q, cf) ==
    /\ caller[c] = "idle"
    /\ plan' = [plan EXCEPT ![c] = Fresh(q, cf)]
    /\ caller' = [caller EXCEPT ![c] = "waiting"]
    /\ UNCHANGED <<world, given, answer>>

(* The payload, or the exception that left plan(): a TimeoutError is taken *)
(* for the expiry of the wait.                                             *)
Deliver(c) ==
    /\ caller[c] = "waiting"
    /\ \/ plan[c].pc = "done" /\ caller' = [caller EXCEPT ![c] = "answered"]
       \/ /\ plan[c].pc = "raised"
          /\ \E result \in {"failed", "timed_out"} :
                caller' = [caller EXCEPT ![c] = result]
    /\ UNCHANGED <<plan, world, given, answer>>

(* Mutant: the caller's timeout also empties the worker's context. *)
TimeoutResets(c) ==
    /\ c \in Impatient
    /\ caller[c] = "waiting"
    /\ plan[c].pc \notin {"done", "raised"}
    /\ caller' = [caller EXCEPT ![c] = "timed_out"]
    /\ plan' = [plan EXCEPT ![c].pc = IF @ = "queued" THEN "cancelled" ELSE @,
                            ![c].out = <<>>]
    /\ UNCHANGED <<world, given, answer>>

(* future.cancel() only stops a worker that has not begun. *)
Timeout(c) ==
    /\ c \in Impatient
    /\ caller[c] = "waiting"
    /\ plan[c].pc \notin {"done", "raised"}
    /\ caller' = [caller EXCEPT ![c] = "timed_out"]
    /\ plan' = [plan EXCEPT ![c].pc = IF @ = "queued" THEN "cancelled" ELSE @]
    /\ UNCHANGED <<world, given, answer>>

(***************************************************************************)
(* The worker: stages.                                                     *)
(***************************************************************************)
At(c, pc) == plan[c] # None /\ plan[c].pc = pc

(* agent_loop_iteration of the pass in progress, 0 for the first one. *)
Pass(p) == IF p.action = None THEN 0 ELSE p.executed + 1

Start(c) ==
    /\ At(c, "queued")
    /\ plan' = [plan EXCEPT ![c].pc = "stage"]
    /\ UNCHANGED <<caller, world, given, answer>>

(* Mutant: the source plan of a rerun is stored like the first one. *)
AfterStageStoringReruns(p) ==
    CASE p.next = Validation ->
            IF p.action # None THEN "record"
            ELSE IF p.config.loop THEN "select" ELSE "finalize"
      [] p.next = ContextRefine /\ p.action = None -> "prepare"
      [] p.next = SourcePlan /\ p.config.replay -> "store"
      [] OTHER -> "stage"

(* Where the worker is after a stage: the lookup comes before the first    *)
(* source plan, and only that one is stored.                               *)
AfterStage(p) ==
    CASE p.next = Validation ->
            IF p.action # None THEN "record"
            ELSE IF p.config.loop THEN "select" ELSE "finalize"
      [] p.next = ContextRefine /\ p.action = None -> "prepare"
      [] p.next = SourcePlan /\ p.action = None /\ p.config.replay -> "store"
      [] OTHER -> "stage"

(* The inputs a source plan made from this context is made from. *)
InputsOf(p) ==
    [query |-> p.query, level |-> p.level,
     saw |-> [r \in Readers |-> p.out[r].saw]]

RunStage(c) ==
    LET p == plan[c] IN
    /\ At(c, "stage")
    /\ plan' = [plan EXCEPT
         ![c].out[p.next] = [level |-> p.level, pass |-> Pass(p),
                               saw |-> IF p.next \in Readers THEN world ELSE 0],
         ![c].made = IF p.next = SourcePlan THEN InputsOf(p) ELSE @,
         ![c].next = p.next + 1,
         ![c].pc = AfterStage(p)]
    /\ UNCHANGED <<caller, world, given, answer>>

(* The stage ran and its payload broke the contract: the payload is not    *)
(* kept.  Before the source plan the replay lookup still happens.          *)
RejectStage(c) ==
    LET p == plan[c] IN
    /\ At(c, "stage")
    /\ p.next \in Flawed
    /\ plan' = [plan EXCEPT
         ![c].error = p.next,
         ![c].stop = IF p.action # None THEN "stage_contract_error" ELSE @,
         ![c].pc = IF p.action = None /\ p.next <= ContextRefine
                   THEN "prepare" ELSE "finalize"]
    /\ UNCHANGED <<caller, world, given, answer>>

(***************************************************************************)
(* The worker: replay of the source plan.                                  *)
(***************************************************************************)

(* Mutant: the key leaves out what the augment stage read. *)
KeyOfWithoutAugment(p) ==
    [query |-> p.query,
     saw |-> [r \in Readers |->
                IF r = 4 \/ p.out[r] = None THEN 1 ELSE p.out[r].saw],
     files |-> world]

(* The key: the query, the payloads of the stages before, and the contents *)
(* of the candidate files now.  A stage that left no payload counts as one *)
(* that read version 1: such a lookup may hit more often than in the code, *)
(* and what it finds is dropped.                                           *)
KeyOf(p) ==
    [query |-> p.query,
     saw |-> [r \in Readers |-> IF p.out[r] = None THEN 1 ELSE p.out[r].saw],
     files |-> world]

SkipReplay(c) ==
    /\ At(c, "prepare")
    /\ ~plan[c].config.replay
    /\ plan' = [plan EXCEPT
         ![c].pc = IF plan[c].error # 0 THEN "finalize" ELSE "stage"]
    /\ UNCHANGED <<caller, world, given, answer>>

LookupMiss(c) ==
    /\ At(c, "prepare")
    /\ plan[c].config.replay
    /\ plan' = [plan EXCEPT
         ![c].key = KeyOf(plan[c]),
         ![c].pc = IF plan[c].error # 0 THEN "finalize" ELSE "stage"]
    /\ UNCHANGED <<caller, world, given, answer>>

LookupHit(c) ==
    /\ At(c, "prepare")
    /\ plan[c].config.replay
    /\ Replay!Answer(c, KeyOf(plan[c]))
    /\ plan' = [plan EXCEPT ![c].pc = "replay"]
    /\ UNCHANGED <<caller, world>>

Reuse(c) ==
    /\ At(c, "replay")
    /\ IF plan[c].error # 0
       THEN plan' = [plan EXCEPT ![c].pc = "finalize"]
       ELSE plan' = [plan EXCEPT
              ![c].out[SourcePlan] = [level |-> 0, pass |-> 0, saw |-> 0],
              ![c].made = answer[c].content,
              ![c].next = Validation,
              ![c].pc = "stage"]
    /\ Replay!Forget({c})
    /\ UNCHANGED <<caller, world>>

Store(c) ==
    /\ At(c, "store")
    /\ Replay!Store(plan[c].key, plan[c].made)
    /\ plan' = [plan EXCEPT ![c].pc = "stage"]
    /\ UNCHANGED <<caller, world>>

(***************************************************************************)
(* The worker: the agent loop.                                             *)
(***************************************************************************)

(* What the validation and source plan payloads ask for is left open. *)
Select(c) ==
    /\ At(c, "select")
    /\ \/ \E a \in Actions :
             plan' = [plan EXCEPT ![c].requested = @ + 1, ![c].action = a,
                                  ![c].pc = "iterate"]
       \/ plan' = [plan EXCEPT
             ![c].stop = IF plan[c].action = None THEN "no_action"
                         ELSE "completed",
             ![c].pc = "finalize"]
    /\ UNCHANGED <<caller, world, given, answer>>

(* Mutant: one iteration more than the bound. *)
CanContinueOnceMore(p) == p.executed <= p.config.max

CanContinue(p) == p.executed < p.config.max

(* Mutant: the refinement of an earlier iteration stays in the context. *)
IterateKeepingRefinement(c, hinted) ==
    LET p == plan[c]
        more == p.action = "request_more_context" /\ hinted
    IN
    /\ At(c, "iterate")
    /\ CanContinue(p)
    /\ plan' = [plan EXCEPT
         ![c].refinement = IF more THEN p.executed + 1 ELSE @,
         ![c].level = IF more THEN @ + 1 ELSE @,
         ![c].next = RerunFrom(p.action),
         ![c].pc = "stage"]
    /\ UNCHANGED <<caller, world, given, answer>>

(* A request for more context that hints at something (a phrase or files)  *)
(* sets the refinement and lengthens the query; any other action drops the *)
(* refinement and keeps the query.                                         *)
Iterate(c, hinted) ==
    LET p == plan[c]
        more == p.action = "request_more_context" /\ hinted
    IN
    /\ At(c, "iterate")
    /\ CanContinue(p)
    /\ plan' = [plan EXCEPT
         ![c].refinement = IF more THEN p.executed + 1 ELSE 0,
         ![c].level = IF more THEN @ + 1 ELSE @,
         ![c].next = RerunFrom(p.action),
         ![c].pc = "stage"]
    /\ UNCHANGED <<caller, world, given, answer>>

Exhaust(c) ==
    /\ At(c, "iterate")
    /\ ~CanContinue(plan[c])
    /\ plan' = [plan EXCEPT ![c].stop = "max_iterations",
                            ![c].pc = "finalize"]
    /\ UNCHANGED <<caller, world, given, answer>>

(* Mutant: the iteration is not counted, and the next one begins at once. *)
RecordIterationUncounted(c) ==
    /\ At(c, "record")
    /\ plan' = [plan EXCEPT ![c].pc = "iterate"]
    /\ UNCHANGED <<caller, world, given, answer>>

RecordIteration(c) ==
    /\ At(c, "record")
    /\ plan' = [plan EXCEPT ![c].executed = @ + 1, ![c].pc = "select"]
    /\ UNCHANGED <<caller, world, given, answer>>

(* plan() ends, and its context goes with it. *)
Ended(p, pc) == [Fresh(p.query, p.config) EXCEPT !.pc = pc]

Finalize(c) ==
    /\ At(c, "finalize")
    /\ plan' = [plan EXCEPT ![c] = Ended(@, "done")]
    /\ UNCHANGED <<caller, world, given, answer>>

(* Any other exception (a handler, a database, the payload validation)     *)
(* leaves plan() as it is.                                                 *)
Raise(c) ==
    /\ plan[c] # None
    /\ plan[c].pc \in {"stage", "prepare", "store", "finalize"}
    /\ plan' = [plan EXCEPT ![c] = Ended(@, "raised")]
    /\ UNCHANGED <<caller, world, given, answer>>

(***************************************************************************)
(* The repository is edited, or the memory store written, at any time.     *)
(***************************************************************************)
Edit ==
    /\ world < MaxWorld
    /\ world' = world + 1
    /\ UNCHANGED <<plan, caller, given, answer>>

Work(c) ==
    \/ Start(c) \/ RunStage(c) \/ RejectStage(c)
    \/ SkipReplay(c) \/ LookupMiss(c) \/ LookupHit(c) \/ Reuse(c) \/ Store(c)
    \/ Select(c) \/ (\E hinted \in BOOLEAN : Iterate(c, hinted))
    \/ Exhaust(c) \/ RecordIteration(c)
    \/ Finalize(c)

Next ==
    \/ \E c \in Calls : \E q \in Queries, cf \in Configs[c] : Submit(c, q, cf)
    \/ \E c \in Calls : Deliver(c) \/ Timeout(c) \/ Work(c) \/ Raise(c)
    \/ Edit

Spec == Init /\ [][Next]_vars

(* The operating system runs every worker, and every stage returns: each   *)
(* handler has a time budget of its own or reads local files.              *)
FairSpec == Spec /\ \A c \in Calls : WF_vars(Work(c))

(***************************************************************************)
(* Properties.                                                             *)
(***************************************************************************)
PCs == {"queued", "stage", "prepare", "replay", "store", "select", "iterate",
        "record", "finalize", "done", "raised", "cancelled"}

Plans ==
    [query : Queries, config : [replay : BOOLEAN, loop : BOOLEAN, max : Nat],
     pc : PCs, next : 1 .. 10,
     out : [Stages -> Payloads \cup {None}], made : Inputs \cup {None},
     key : ReplayKeys \cup {None}, error : {0} \cup Stages, level : Nat,
     refinement : Nat, action : Actions \cup {None}, requested : Nat,
     executed : Nat, stop : Stops \cup {None}]

ASSUME NoneIsNoPlan == None \notin Plans

TypeOK ==
    /\ plan \in [Calls -> Plans \cup {None}]
    /\ caller \in [Calls -> {"idle", "waiting", "answered", "failed", "timed_out"}]
    /\ world \in 1 .. MaxWorld
    /\ given \in [ReplayKeys -> SUBSET Inputs]
    /\ answer \in [Calls -> [key : ReplayKeys, content : Inputs] \cup {None}]

(* A pass over the pipeline has ended without error: the payload is built  *)
(* from such a state, or the next iteration begins in it.                  *)
Settled(p) ==
    p.error = 0 /\ p.pc \in {"select", "iterate", "finalize"}

(* The nine payloads of a settled plan belong together: every stage has    *)
(* left one, none was written by an earlier pass than a stage before it,   *)
(* and all after memory answer one query.  What could break it is the      *)
(* partial rerun of execute_post_source_plan_agent_loop, over a context    *)
(* shared by the passes.                                                   *)
PayloadsBelongTogether ==
    \A c \in Calls : plan[c] # None /\ Settled(plan[c]) =>
        LET p == plan[c] IN
        /\ \A s \in Stages : p.out[s] # None
        /\ \A s \in Stages, t \in Stages :
              s < t => p.out[s].pass <= p.out[t].pass
        /\ \A s \in Index .. Validation : p.out[s].level = p.level

(* The source plan of a settled plan, replayed or made, is the one the     *)
(* payloads beside it give, whatever was edited, and stored by which late  *)
(* worker, in between.                                                     *)
SourcePlanIsCurrent ==
    \A c \in Calls : plan[c] # None /\ Settled(plan[c]) =>
        plan[c].made = InputsOf(plan[c])

(* The replay cache holds, under each key, only the source plan of the     *)
(* inputs the key fingerprints: never one of a rerun with a longer query.  *)
StoredUnderItsInputs ==
    \A k \in ReplayKeys : \A i \in given[k] :
        i = [query |-> k.query, level |-> 0, saw |-> k.saw]

(* The agent loop summary accounts for every requested action: executed,   *)
(* refused at the bound, or cut short by a contract error; and the bound   *)
(* holds.  (select_action counts before can_continue, record_iteration     *)
(* after the stages.)                                                      *)
ActionsAddUp ==
    \A c \in Calls : plan[c] # None =>
        LET p == plan[c] IN
        /\ p.executed <= p.config.max
        /\ p.pc = "finalize" =>
              /\ p.requested = p.executed +
                   (IF p.stop \in {"max_iterations", "stage_contract_error"}
                    THEN 1 ELSE 0)
              /\ p.stop = "completed" => p.executed > 0
              /\ p.stop = "max_iterations" => p.executed = p.config.max

(* The stages of a rerun are handed no refinement but that of the action   *)
(* being carried out: never the one of an earlier iteration, which a       *)
(* request without hints, or a retry, must drop from the shared context.   *)
RefinementIsCurrent ==
    \A c \in Calls : plan[c] # None /\ plan[c].pc = "stage" =>
        LET p == plan[c] IN
        p.refinement # 0 =>
           p.action = "request_more_context" /\ p.refinement = Pass(p)

(* Every plan submitted ends (each call is made once, so it is enough that *)
(* at some later time none is running), though its caller may have given   *)
(* up and each validation may ask for one more iteration.                  *)
PlansEnd ==
    []<>(\A c \in Calls :
            plan[c] = None \/ plan[c].pc \in {"cancelled", "done", "raised"})
=============================================================================
