---------------------- MODULE IndexingResilienceProofs ----------------------
(***************************************************************************)
(* Proofs about the resumable index build for every finite set of files,   *)
(* all settings and any number of runs, kills and edits.                   *)
(***************************************************************************)
EXTENDS IndexingResilience, FiniteSetTheorems, TLAPS

Paths == Files \cup {Unnamed, Blank}

Events == [parsed : SUBSET Files, timeouts : SUBSET Files,
           errors : SUBSET Paths, read : [Files -> Nat]]

Jobs == [list : SUBSET Files, phase : {"index", "retry"},
         resumed : BOOLEAN, cfg : Config]

Results == [built : BOOLEAN, list : SUBSET Files, resumed : BOOLEAN,
            entries : [Files -> Nat], at : Progress]

------------------------------------------------------------------------------
(* Lemmas about the values the state is made of.                           *)

LEMMA Constructors ==
    /\ \A list \in SUBSET Files : Fresh(list) \in Progress
    /\ NoState \in [exists : BOOLEAN, list : SUBSET Files, at : Progress]
    /\ NoEvents \in Events /\ NoJob \in Jobs /\ NoResult \in Results
<1>1. NoTallies \in Tallies
  BY DEF NoTallies, Tallies
<1>2. \A list \in SUBSET Files : Fresh(list) \in Progress
  BY <1>1 DEF Fresh, Progress
<1>3. Fresh({}) \in Progress
  BY <1>2
<1>4. NoJob \in Jobs
  BY DEF NoJob, Jobs, Config
<1>5. NoResult \in Results
  BY <1>3 DEF NoResult, Results
<1> QED
  BY <1>2, <1>3, <1>4, <1>5 DEF NoState, NoEvents, Events

(* A batch is of files left to the phase.                                  *)
LEMMA BatchIsTodo == Batch \subseteq Todo
  BY DEF Batch, Prefix

LEMMA TodoIsFiles ==
    ASSUME TypeOK
    PROVE  Todo \subseteq Files /\ Batch \subseteq Files
  BY BatchIsTodo DEF Todo, TypeOK, Progress

LEMMA OutcomesTyped ==
    ASSUME TypeOK,
           NEW e \in Outcomes(Batch, job.cfg.timeout) \cup {AllFailed(Batch)}
                        \cup WorkerFailed \cup {AllTimedOut(Batch)}
    PROVE  e \in Events
<1>1. CASE e \in Outcomes(Batch, job.cfg.timeout)
  BY <1>1, TodoIsFiles DEF Outcomes, Events, Paths, TypeOK
<1>2. CASE e \in {AllFailed(Batch), AllTimedOut(Batch)}
  BY <1>2, Constructors, TodoIsFiles DEF AllFailed, AllTimedOut, NoEvents, Events, Paths
<1>3. CASE e \in WorkerFailed
  BY <1>3, Constructors DEF WorkerFailed, NoEvents, Events, Paths
<1> QED
  BY <1>1, <1>2, <1>3

LEMMA FiniteEvents ==
    ASSUME NEW e \in Events
    PROVE  /\ IsFiniteSet(e.parsed) /\ IsFiniteSet(e.timeouts)
           /\ IsFiniteSet(e.errors)
<1>1. IsFiniteSet(Paths)
  <2>1. IsFiniteSet({Unnamed, Blank})
    <3>1. {Unnamed, Blank} = {Unnamed} \cup {Blank}
      OBVIOUS
    <3>2. IsFiniteSet({Unnamed}) /\ IsFiniteSet({Blank})
      BY FS_Singleton
    <3>3. IsFiniteSet({Unnamed} \cup {Blank})
      BY <3>2, FS_Union
    <3> QED
      BY <3>1, <3>3
  <2> QED
    BY <2>1, FS_Union, FilesAssumption DEF Paths
<1> QED
  BY <1>1, FS_Subset, FilesAssumption DEF Events

LEMMA LineCounts ==
    ASSUME TypeOK
    PROVE  /\ IsFiniteSet(Lines) /\ Cardinality(Lines) \in Nat
           /\ Cardinality(events.parsed) \in Nat
           /\ Cardinality(events.timeouts) \in Nat
           /\ Cardinality(events.errors) \in Nat
           /\ Cardinality(events.parsed \cup events.errors) \in Nat
<1>1. events \in Events
  BY DEF TypeOK, Events, Paths
<1>2. IsFiniteSet(Lines) /\ IsFiniteSet(events.parsed \cup events.errors)
  BY <1>1, FiniteEvents, FS_Union DEF Lines
<1>3. /\ IsFiniteSet(events.parsed) /\ IsFiniteSet(events.timeouts)
      /\ IsFiniteSet(events.errors)
  BY <1>1, FiniteEvents
<1>4. \A S : IsFiniteSet(S) => Cardinality(S) \in Nat
  BY FS_CardinalityType
<1> QED
  BY <1>2, <1>3, <1>4

(* What the two kinds of checkpoint make of each count.                    *)
LEMMA TalliesTyped ==
    ASSUME TypeOK, NEW s \in Tallies
    PROVE  Counted(s) \in Tallies /\ Recounted(s) \in Tallies
<1> DEFINE n == Cardinality(Lines)
           p == Cardinality(events.parsed)
           t == Cardinality(events.timeouts)
           e == Cardinality(events.errors)
           m == s.timedOut - Cardinality(events.parsed \cup events.errors)
<1>1. /\ n \in Nat /\ p \in Nat /\ t \in Nat /\ e \in Nat
      /\ Cardinality(events.parsed \cup events.errors) \in Nat
  BY LineCounts
<1>2. /\ s.processed \in Nat /\ s.parsed \in Nat /\ s.timedOut \in Nat
      /\ s.failed \in Nat /\ s.retried \in Nat /\ s.retryOk \in Nat
  BY DEF Tallies
<1>3. m \in Int
  BY <1>1, <1>2
<1>4. /\ s.processed + n \in Nat /\ s.parsed + p \in Nat
      /\ s.timedOut + t \in Nat /\ s.failed + e \in Nat
      /\ s.retried + n \in Nat /\ s.retryOk + p \in Nat
      /\ (IF m < 0 THEN 0 ELSE m) \in Nat
  BY <1>1, <1>2, <1>3
<1> HIDE DEF n, p, t, e, m
<1>5. Counted(s) = [s EXCEPT !.processed = s.processed + n, !.parsed = s.parsed + p,
                             !.timedOut = s.timedOut + t, !.failed = s.failed + e]
  BY DEF Counted, n, p, t, e
<1>6. Recounted(s) = [s EXCEPT !.retried = s.retried + n, !.retryOk = s.retryOk + p,
                               !.parsed = s.parsed + p,
                               !.timedOut = IF m < 0 THEN 0 ELSE m,
                               !.failed = s.failed + e]
  BY DEF Recounted, n, p, e, m
<1> DEFINE u == IF m < 0 THEN 0 ELSE m
<1>7. u \in Nat
  BY <1>4
<1> HIDE DEF u
<1>8. Counted(s) \in Tallies
  BY <1>4, <1>5 DEF Tallies
<1>9. Recounted(s) \in Tallies
  <2>1. Recounted(s) = [s EXCEPT !.retried = s.retried + n, !.retryOk = s.retryOk + p,
                                 !.parsed = s.parsed + p, !.timedOut = u,
                                 !.failed = s.failed + e]
    BY <1>6 DEF u
  <2> QED
    BY <2>1, <1>4, <1>7 DEF Tallies
<1> QED
  BY <1>8, <1>9

------------------------------------------------------------------------------
(* The state is well typed in every reachable state.                       *)

LEMMA TypeInit == Init => TypeOK
<1> SUFFICES ASSUME Init PROVE TypeOK
  OBVIOUS
<1>1. /\ saved \in [exists : BOOLEAN, list : SUBSET Files, at : Progress]
      /\ job \in Jobs /\ events \in Events /\ result \in Results
      /\ mem \in Progress
  BY Constructors DEF Init
<1>2. /\ present \subseteq Files /\ version \in [Files -> Nat \ {0}]
      /\ entries \in [Files -> Nat] /\ since \in [Files -> Nat \ {0}]
  BY DEF Init
<1>3. /\ torn \in BOOLEAN /\ garbled \in BOOLEAN /\ queue \subseteq Files
      /\ pc = "idle" /\ child = "none" /\ runs \in Nat
  BY DEF Init
<1> QED
  BY <1>1, <1>2, <1>3 DEF TypeOK, Events, Paths, Jobs, Results

(* What a step makes of the variables that hold structured values.         *)
LEMMA TypeStart ==
    ASSUME TypeOK, Start
    PROVE  TypeOK'
<1>1. ASSUME NEW c \in Configs, StartFresh(c)
      PROVE  TypeOK'
  <2>1. Fresh(present) \in Progress
    BY Constructors DEF TypeOK
  <2>2. job' \in Jobs
    BY <1>1, Constructors, BoundsAssumption DEF StartFresh, Begin, NoJob, Jobs, TypeOK
  <2> QED
    BY <1>1, <2>1, <2>2, Constructors
    DEF StartFresh, Begin, TypeOK, Events, Paths, Jobs, Results, repo
<1>2. ASSUME NEW c \in Configs, StartResume(c)
      PROVE  TypeOK'
  <2>1. Loaded(saved.at) \in Progress
    BY DEF Loaded, TypeOK, Progress
  <2>2. job' \in Jobs
    BY <1>2, Constructors, BoundsAssumption DEF StartResume, Begin, NoJob, Jobs, TypeOK
  <2> QED
    BY <1>2, <2>1, <2>2, Constructors
    DEF StartResume, Begin, TypeOK, Events, Paths, Jobs, Results, repo, disk
<1>3. CASE RejectResume
  BY <1>3, Constructors DEF RejectResume, TypeOK, Results, repo, disk
<1> QED
  BY <1>1, <1>2, <1>3 DEF Start

LEMMA TypeAdvance ==
    ASSUME TypeOK, Advance \/ Worker
    PROVE  TypeOK'
<1>1. CASE Truncate
  BY <1>1 DEF Truncate, TypeOK, repo
<1>2. CASE Parse \/ ChildExit \/ BatchTimeout
  <2>1. events' \in Events
    BY <1>2, OutcomesTyped DEF Parse, ChildExit, BatchTimeout
  <2> QED
    BY <1>2, <2>1 DEF Parse, ChildExit, BatchTimeout, TypeOK, Events, Paths, repo, disk
<1>3. CASE Spawn \/ ChildFlush \/ JoinExited
  BY <1>3 DEF Spawn, ChildFlush, JoinExited, TypeOK, repo, disk
<1>4. CASE AppendJournal
  <2>1. Journalled(Lines) \in [Files -> Nat]
    BY DEF Journalled, TypeOK
  <2> QED
    BY <1>4, <2>1 DEF AppendJournal, TypeOK, repo
<1>5. CASE CheckpointBatch
  <2>1. Indexed \in Progress
    BY TalliesTyped DEF Indexed, TypeOK, Progress
  <2>2. saved' \in [exists : BOOLEAN, list : SUBSET Files, at : Progress]
    BY <1>5, <2>1 DEF CheckpointBatch, TypeOK
  <2> QED
    BY <1>5, <2>1, <2>2, Constructors
    DEF CheckpointBatch, TypeOK, Events, Paths, repo
<1>6. CASE BeginRetries
  BY <1>6 DEF BeginRetries, TypeOK, Progress, repo, disk
<1>7. CASE CheckpointRetry
  <2>1. mem' \in Progress
    BY <1>7, TalliesTyped DEF CheckpointRetry, TypeOK, Progress
  <2>2. saved' \in [exists : BOOLEAN, list : SUBSET Files, at : Progress]
    BY <1>7, <2>1 DEF CheckpointRetry, TypeOK
  <2> QED
    BY <1>7, <2>1, <2>2, Constructors
    DEF CheckpointRetry, TypeOK, Events, Paths, repo
<1>8. CASE Build
  <2>1. result' \in Results
    BY <1>8, Constructors DEF Build, TypeOK, Results
  <2> QED
    BY <1>8, <2>1, Constructors DEF Build, TypeOK, Jobs, Results, repo, disk
<1> QED
  BY <1>1, <1>2, <1>3, <1>4, <1>5, <1>6, <1>7, <1>8 DEF Advance, Worker

LEMMA TypeOther ==
    ASSUME TypeOK, Crash \/ CrashInAppend \/ Edit \/ UNCHANGED vars
    PROVE  TypeOK'
<1>1. CASE Crash
  BY <1>1, Constructors DEF Crash, Die, TypeOK, Events, Paths, Jobs, repo
<1>2. CASE CrashInAppend
  <2>1. \A lines : Journalled(lines) \in [Files -> Nat]
    BY DEF Journalled, TypeOK
  <2>2. entries' \in [Files -> Nat] /\ torn' \in BOOLEAN /\ garbled' \in BOOLEAN
    <3>1. PICK lines \in SUBSET Lines :
             /\ entries' = Journalled(lines)
             /\ \/ torn' = (torn /\ lines = {}) /\ UNCHANGED garbled
                \/ torn' = TRUE /\ garbled' \in {garbled, TRUE}
      BY <1>2 DEF CrashInAppend
    <3>2. entries' \in [Files -> Nat]
      BY <2>1, <3>1
    <3>3. torn' \in BOOLEAN
      BY <3>1
    <3>4. garbled' \in BOOLEAN
      BY <3>1 DEF TypeOK
    <3> QED
      BY <3>2, <3>3, <3>4
  <2> QED
    BY <1>2, <2>2, Constructors DEF CrashInAppend, Die, TypeOK, Events, Paths, Jobs, repo
<1>3. CASE Edit
  BY <1>3 DEF Edit, Modify, Create, Remove, TypeOK, disk
<1>4. CASE UNCHANGED vars
  BY <1>4 DEF vars, TypeOK
<1> QED
  BY <1>1, <1>2, <1>3, <1>4

THEOREM TypeCorrect == Spec => []TypeOK
<1>1. TypeOK /\ [Next]_vars => TypeOK'
  BY TypeStart, TypeAdvance, TypeOther DEF Next
<1> QED
  BY <1>1, TypeInit, PTL DEF Spec

------------------------------------------------------------------------------
(* The invariant about control: outside "idle" the memory of the run is    *)
(* what the state file holds, a file is retried only while listed as timed *)
(* out, and the events at hand are those of the batch at hand.             *)

BatchEvents(e) ==
    /\ e.parsed \subseteq Batch /\ e.timeouts \subseteq Batch
    /\ e.errors \subseteq Batch \cup {Unnamed, Blank}
    /\ e.parsed \cap e.timeouts = {}
    /\ e.parsed \cap e.errors = {} /\ e.timeouts \cap e.errors = {}
    /\ \/ Batch \subseteq e.parsed \cup e.timeouts \cup e.errors
       \/ e.errors \cap {Unnamed, Blank} # {}
    /\ job.phase = "retry" => e.errors \subseteq Batch
    /\ \A f \in e.parsed : e.read[f] # 0
    /\ "blank" \notin Flaws => Blank \notin e.errors

RunMatches ==
    pc # "idle" =>
        /\ saved.exists /\ job.list = saved.list
        /\ mem.left = saved.at.left /\ mem.timedOut = saved.at.timedOut
        /\ mem.stats = saved.at.stats
        /\ "blank" \notin Flaws => mem.failed = saved.at.failed

SavedOK ==
    /\ saved.at.left \subseteq saved.list
    /\ saved.at.timedOut \cap saved.at.left = {}
    /\ "blank" \notin Flaws => Blank \notin saved.at.failed

ControlOK ==
    /\ pc = "truncate" => job.phase = "index" /\ saved.at.left = saved.list
    /\ job.phase = "retry" => mem.left = {} /\ pc \notin {"truncate", "join"}
    /\ job.phase = "index" => queue = {}
    /\ queue \subseteq mem.timedOut
    /\ child # "none" => pc = "join"

EventsOK ==
    pc \in {"append", "checkpoint"} \/ child = "exited" => BatchEvents(events)

Shape == RunMatches /\ SavedOK /\ ControlOK /\ EventsOK

LEMMA OutcomesOfBatch ==
    ASSUME TypeOK, NEW e,
           \/ e \in Outcomes(Batch, job.cfg.timeout)
           \/ e \in {AllFailed(Batch), AllTimedOut(Batch)}
           \/ e \in WorkerFailed /\ job.phase = "index"
    PROVE  BatchEvents(e)
<1> DEFINE B == Batch
<1>1. B \subseteq Files /\ Unnamed \notin Files /\ Blank \notin Files
      /\ Unnamed # Blank
  BY TodoIsFiles, FilesAssumption DEF Unnamed, Blank
<1> HIDE DEF B
<1>2. CASE e \in Outcomes(B, job.cfg.timeout)
  <2>1. e.read = version
    BY <1>2 DEF Outcomes
  <2>2. \A f \in Files : version[f] # 0
    BY DEF TypeOK
  <2> QED
    BY <1>1, <1>2, <2>1, <2>2 DEF Outcomes, BatchEvents, B
<1>3. CASE e \in {AllFailed(B), AllTimedOut(B)}
  BY <1>1, <1>3 DEF AllFailed, AllTimedOut, NoEvents, BatchEvents, B
<1>4. CASE e \in WorkerFailed /\ job.phase = "index"
  BY <1>1, <1>4 DEF WorkerFailed, NoEvents, BatchEvents
<1> QED
  BY <1>2, <1>3, <1>4 DEF B

LEMMA BatchSame ==
    ASSUME UNCHANGED <<job, mem, queue>>
    PROVE  Batch' = Batch /\ Todo' = Todo
  BY DEF Batch, Todo, Prefix

LEMMA EventsSame ==
    ASSUME UNCHANGED <<job, mem, queue, events>>, BatchEvents(events)
    PROVE  BatchEvents(events)'
  BY BatchSame DEF BatchEvents

LEMMA ShapeInit == Init => Shape
  BY DEF Init, Shape, RunMatches, SavedOK, ControlOK, EventsOK, NoState, Fresh, NoJob

LEMMA ShapeStart ==
    ASSUME TypeOK, Shape, Start
    PROVE  Shape'
<1>1. ASSUME NEW c \in Configs, StartFresh(c)
      PROVE  Shape'
  <2>1. child = "none"
    BY <1>1 DEF StartFresh, Shape, ControlOK
  <2> QED
    BY <1>1, <2>1 DEF StartFresh, Begin, NoJob, Fresh, Shape, RunMatches,
                      SavedOK, ControlOK, EventsOK
<1>2. ASSUME NEW c \in Configs, StartResume(c)
      PROVE  Shape'
  <2>1. child = "none"
    BY <1>2 DEF StartResume, Shape, ControlOK
  <2>2. /\ Loaded(saved.at).left = saved.at.left
        /\ Loaded(saved.at).timedOut = saved.at.timedOut
        /\ Loaded(saved.at).stats = saved.at.stats
        /\ Loaded(saved.at).failed = saved.at.failed \ {Blank}
    BY DEF Loaded, TypeOK, Progress
  <2> QED
    BY <1>2, <2>1, <2>2 DEF StartResume, Begin, NoJob, Shape, RunMatches, SavedOK,
                            ControlOK, EventsOK, disk
<1>3. CASE RejectResume
  BY <1>3, EventsSame DEF RejectResume, Shape, RunMatches, SavedOK, ControlOK,
                          EventsOK, disk
<1> QED
  BY <1>1, <1>2, <1>3 DEF Start

LEMMA ShapeAdvance ==
    ASSUME TypeOK, Shape, Advance \/ Worker
    PROVE  Shape'
<1> USE DEF Shape, RunMatches, SavedOK, ControlOK
<1>1. CASE Truncate
  BY <1>1 DEF Truncate, EventsOK
<1>2. CASE Parse \/ ChildExit \/ BatchTimeout
  <2>1. BatchEvents(events')
    <3>1. CASE Parse
      BY <3>1, OutcomesOfBatch DEF Parse
    <3>2. CASE ChildExit
      <4>1. job.phase = "index"
        BY <3>2 DEF ChildExit, TypeOK, Jobs
      <4> QED
        BY <3>2, <4>1, OutcomesOfBatch DEF ChildExit
    <3>3. CASE BatchTimeout
      BY <3>3, OutcomesOfBatch DEF BatchTimeout
    <3> QED
      BY <1>2, <3>1, <3>2, <3>3
  <2>2. UNCHANGED <<job, mem, queue>>
    BY <1>2 DEF Parse, ChildExit, BatchTimeout
  <2>3. BatchEvents(events)'
    BY <2>1, <2>2, BatchSame DEF BatchEvents
  <2> QED
    BY <1>2, <2>3 DEF Parse, ChildExit, BatchTimeout, EventsOK, disk
<1>3. CASE Spawn \/ ChildFlush \/ JoinExited
  <2>1. UNCHANGED <<job, mem, queue, events>>
    BY <1>3 DEF Spawn, ChildFlush, JoinExited
  <2> QED
    BY <1>3, <2>1, EventsSame DEF Spawn, ChildFlush, JoinExited, Subprocess, EventsOK, disk
<1>4. CASE AppendJournal
  BY <1>4, EventsSame DEF AppendJournal, EventsOK
<1>5. CASE CheckpointBatch
  <2>1. BatchEvents(events)
    BY <1>5 DEF CheckpointBatch, EventsOK
  <2>2. saved' = [saved EXCEPT !.at = Indexed]
    BY <1>5 DEF CheckpointBatch
  <2>3. saved'.at = mem' /\ saved'.list = saved.list /\ saved'.exists = saved.exists
    BY <1>5, <2>2 DEF CheckpointBatch, TypeOK
  <2>4. Batch \subseteq mem.left
    BY <1>5, BatchIsTodo DEF CheckpointBatch, Todo
  <2>5. /\ mem'.left = mem.left \ Batch
        /\ mem'.timedOut = mem.timedOut \cup events.timeouts
        /\ mem'.failed = mem.failed \cup events.errors
    BY <1>5 DEF CheckpointBatch, Indexed
  <2> QED
    BY <1>5, <2>1, <2>3, <2>4, <2>5 DEF CheckpointBatch, BatchEvents, EventsOK
<1>6. CASE BeginRetries
  <2>1. job'.phase = "retry" /\ job'.list = job.list
    BY <1>6 DEF BeginRetries, TypeOK
  <2> QED
    BY <1>6, <2>1 DEF BeginRetries, EventsOK, disk
<1>7. CASE CheckpointRetry
  <2>1. BatchEvents(events)
    BY <1>7 DEF CheckpointRetry, EventsOK
  <2>2. saved'.at = mem' /\ saved'.list = saved.list /\ saved'.exists = saved.exists
    BY <1>7 DEF CheckpointRetry, TypeOK
  <2>3. /\ mem'.left = mem.left
        /\ mem'.timedOut = mem.timedOut \ (events.parsed \cup events.errors)
        /\ mem'.failed = mem.failed \cup events.errors
    BY <1>7 DEF CheckpointRetry
  <2>4. Batch \subseteq queue
    BY <1>7, BatchIsTodo DEF CheckpointRetry, Todo
  <2>5. events.parsed \subseteq Batch /\ events.errors \subseteq Batch
    BY <1>7, <2>1 DEF CheckpointRetry, BatchEvents
  <2>6. queue' \subseteq mem'.timedOut
    BY <1>7, <2>3, <2>5 DEF CheckpointRetry
  <2>7. "blank" \notin Flaws => Blank \notin mem'.failed
    BY <1>7, <2>1, <2>3 DEF CheckpointRetry, BatchEvents
  <2> QED
    BY <1>7, <2>2, <2>3, <2>6, <2>7 DEF CheckpointRetry, EventsOK
<1>8. CASE Build
  BY <1>8 DEF Build, EventsOK, NoJob, Fresh, disk
<1> QED
  BY <1>1, <1>2, <1>3, <1>4, <1>5, <1>6, <1>7, <1>8 DEF Advance, Worker

LEMMA ShapeOther ==
    ASSUME TypeOK, Shape, Crash \/ CrashInAppend \/ Edit \/ UNCHANGED vars
    PROVE  Shape'
<1>1. CASE Crash \/ CrashInAppend
  <2>1. Die
    BY <1>1 DEF Crash, CrashInAppend
  <2> QED
    BY <2>1 DEF Die, NoJob, Fresh, Shape, RunMatches, SavedOK, ControlOK, EventsOK
<1>2. CASE Edit \/ UNCHANGED vars
  <2>1. UNCHANGED <<disk, pc, job, mem, queue, events, child>>
    BY <1>2 DEF Edit, Modify, Create, Remove, vars, disk
  <2> QED
    BY <2>1, EventsSame DEF Shape, RunMatches, SavedOK, ControlOK, EventsOK, disk
<1> QED
  BY <1>1, <1>2

LEMMA ShapeInvariant == Spec => [](TypeOK /\ Shape)
<1>1. Init => TypeOK /\ Shape
  BY TypeInit, ShapeInit
<1>2. TypeOK /\ Shape /\ [Next]_vars => (TypeOK /\ Shape)'
  BY TypeStart, TypeAdvance, TypeOther, ShapeStart, ShapeAdvance, ShapeOther DEF Next
<1> QED
  BY <1>1, <1>2, PTL DEF Spec

------------------------------------------------------------------------------
(* The counts.  Every file of a batch has one line, so the lines add up to *)
(* the three outcomes, and a batch without an unnamed failure is counted   *)
(* in full.                                                                *)

LEMMA DisjointUnion ==
    ASSUME NEW S, NEW T, IsFiniteSet(S), IsFiniteSet(T), S \cap T = {}
    PROVE  /\ IsFiniteSet(S \cup T)
           /\ Cardinality(S \cup T) = Cardinality(S) + Cardinality(T)
<1>1. Cardinality(S \cup T) = Cardinality(S) + Cardinality(T) - Cardinality(S \cap T)
  BY FS_Union
<1>2. Cardinality(S \cap T) = 0
  BY FS_EmptySet
<1>3. Cardinality(S) \in Nat /\ Cardinality(T) \in Nat
  BY FS_CardinalityType
<1>4. IsFiniteSet(S \cup T)
  BY FS_Union
<1> QED
  BY <1>1, <1>2, <1>3, <1>4

LEMMA LineSums ==
    ASSUME TypeOK, BatchEvents(events)
    PROVE  /\ Cardinality(Lines) = Cardinality(events.parsed)
                 + Cardinality(events.timeouts) + Cardinality(events.errors)
           /\ Cardinality(events.parsed \cup events.errors)
                 = Cardinality(events.parsed) + Cardinality(events.errors)
<1> DEFINE P == events.parsed
           T == events.timeouts
           E == events.errors
<1>1. IsFiniteSet(P) /\ IsFiniteSet(T) /\ IsFiniteSet(E)
  BY FiniteEvents DEF TypeOK, Events, Paths
<1>2. P \cap T = {} /\ P \cap E = {} /\ T \cap E = {}
  BY DEF BatchEvents
<1>3. Lines = (P \cup T) \cup E
  BY DEF Lines
<1> HIDE DEF P, T, E
<1>4. IsFiniteSet(P \cup T) /\ Cardinality(P \cup T) = Cardinality(P) + Cardinality(T)
  BY <1>1, <1>2, DisjointUnion
<1>5. (P \cup T) \cap E = {}
  BY <1>2
<1>6. Cardinality((P \cup T) \cup E) = Cardinality(P \cup T) + Cardinality(E)
  BY <1>1, <1>4, <1>5, DisjointUnion
<1>7. Cardinality(P \cup E) = Cardinality(P) + Cardinality(E)
  BY <1>1, <1>2, DisjointUnion
<1> QED
  BY <1>3, <1>4, <1>6, <1>7 DEF P, T, E

LEMMA CountedCounts ==
    ASSUME NEW s \in Tallies
    PROVE  /\ Counted(s).processed = s.processed + Cardinality(Lines)
           /\ Counted(s).parsed = s.parsed + Cardinality(events.parsed)
           /\ Counted(s).timedOut = s.timedOut + Cardinality(events.timeouts)
           /\ Counted(s).failed = s.failed + Cardinality(events.errors)
           /\ Counted(s).retried = s.retried /\ Counted(s).retryOk = s.retryOk
  BY DEF Counted, Tallies

LEMMA RecountedCounts ==
    ASSUME NEW s \in Tallies
    PROVE  /\ Recounted(s).processed = s.processed
           /\ Recounted(s).parsed = s.parsed + Cardinality(events.parsed)
           /\ Recounted(s).timedOut =
                 LET n == s.timedOut - Cardinality(events.parsed \cup events.errors)
                 IN  IF n < 0 THEN 0 ELSE n
           /\ Recounted(s).failed = s.failed + Cardinality(events.errors)
           /\ Recounted(s).retried = s.retried + Cardinality(Lines)
           /\ Recounted(s).retryOk = s.retryOk + Cardinality(events.parsed)
  BY DEF Recounted, Tallies

(* TalliesAddUp of a progress record.                                      *)
AddsUp(at) ==
    /\ at.stats.parsed + at.stats.timedOut + at.stats.failed = at.stats.processed
    /\ at.stats.timedOut = Cardinality(at.timedOut)
    /\ at.stats.retryOk <= at.stats.retried

LEMMA AddsUpFresh == \A list : AddsUp(Fresh(list))
  BY FS_EmptySet DEF AddsUp, Fresh, NoTallies

LEMMA AddsUpBatch ==
    ASSUME TypeOK, Shape, AddsUp(saved.at), CheckpointBatch
    PROVE  AddsUp(saved'.at)
<1> DEFINE p == Cardinality(events.parsed)
           t == Cardinality(events.timeouts)
           e == Cardinality(events.errors)
           s == saved.at.stats
<1>1. BatchEvents(events) /\ mem.stats = s /\ mem.timedOut = saved.at.timedOut
  BY DEF CheckpointBatch, Shape, EventsOK, RunMatches
<1>2. s \in Tallies /\ saved'.at = Indexed
  BY DEF CheckpointBatch, TypeOK, Progress
<1>3. /\ saved'.at.stats = Counted(s)
      /\ saved'.at.timedOut = saved.at.timedOut \cup events.timeouts
  BY <1>1, <1>2 DEF Indexed
<1>4. Cardinality(saved'.at.timedOut) = Cardinality(saved.at.timedOut) + t
  <2>1. events.timeouts \subseteq mem.left
    BY <1>1, BatchIsTodo DEF CheckpointBatch, Todo, BatchEvents
  <2>2. saved.at.timedOut \cap events.timeouts = {}
    BY <2>1 DEF Shape, SavedOK, RunMatches, CheckpointBatch
  <2>3. IsFiniteSet(saved.at.timedOut) /\ IsFiniteSet(events.timeouts)
    BY FS_Subset, FilesAssumption DEF TypeOK, Progress
  <2> QED
    BY <1>3, <2>2, <2>3, DisjointUnion
<1>5. p \in Nat /\ t \in Nat /\ e \in Nat /\ Cardinality(Lines) = p + t + e
  BY <1>1, LineCounts, LineSums
<1> HIDE DEF p, t, e
<1>6. /\ Counted(s).processed = s.processed + (p + t + e)
      /\ Counted(s).parsed = s.parsed + p /\ Counted(s).timedOut = s.timedOut + t
      /\ Counted(s).failed = s.failed + e
      /\ Counted(s).retried = s.retried /\ Counted(s).retryOk = s.retryOk
  BY <1>2, <1>5, CountedCounts DEF p, t, e
<1>7. /\ s.processed \in Nat /\ s.parsed \in Nat /\ s.timedOut \in Nat
      /\ s.failed \in Nat
  BY <1>2 DEF Tallies
<1> QED
  BY <1>3, <1>4, <1>5, <1>6, <1>7 DEF AddsUp

LEMMA AddsUpRetry ==
    ASSUME TypeOK, Shape, AddsUp(saved.at), CheckpointRetry
    PROVE  AddsUp(saved'.at)
<1> DEFINE p == Cardinality(events.parsed)
           t == Cardinality(events.timeouts)
           e == Cardinality(events.errors)
           s == saved.at.stats
           Gone == events.parsed \cup events.errors
<1>1. BatchEvents(events) /\ mem.stats = s /\ mem.timedOut = saved.at.timedOut
  BY DEF CheckpointRetry, Shape, EventsOK, RunMatches
<1>2. s \in Tallies
  BY DEF TypeOK, Progress
<1>3. /\ saved'.at.stats = Recounted(s)
      /\ saved'.at.timedOut = saved.at.timedOut \ Gone
  BY <1>1 DEF CheckpointRetry, TypeOK
<1>4. p \in Nat /\ t \in Nat /\ e \in Nat
      /\ Cardinality(Lines) = p + t + e /\ Cardinality(Gone) = p + e
  BY <1>1, LineCounts, LineSums
<1>5. Gone \subseteq saved.at.timedOut
  BY <1>1, BatchIsTodo DEF CheckpointRetry, Todo, BatchEvents, Shape, ControlOK
<1>6. /\ Cardinality(saved.at.timedOut) = Cardinality(saved'.at.timedOut) + (p + e)
      /\ Cardinality(saved'.at.timedOut) \in Nat
  <2>1. IsFiniteSet(saved.at.timedOut)
    BY FS_Subset, FilesAssumption DEF TypeOK, Progress
  <2>2. IsFiniteSet(Gone) /\ IsFiniteSet(saved.at.timedOut \ Gone)
    BY <1>5, <2>1, FS_Subset
  <2>3. saved.at.timedOut = (saved.at.timedOut \ Gone) \cup Gone
    BY <1>5
  <2>4. Cardinality((saved.at.timedOut \ Gone) \cup Gone)
          = Cardinality(saved.at.timedOut \ Gone) + Cardinality(Gone)
    BY <2>2, DisjointUnion
  <2>5. Cardinality(saved.at.timedOut \ Gone) \in Nat
    BY <2>2, FS_CardinalityType
  <2> QED
    BY <1>3, <1>4, <2>3, <2>4, <2>5
<1> HIDE DEF p, t, e, Gone
<1>7. /\ Recounted(s).processed = s.processed /\ Recounted(s).parsed = s.parsed + p
      /\ Recounted(s).timedOut = LET n == s.timedOut - (p + e)
                                 IN  IF n < 0 THEN 0 ELSE n
      /\ Recounted(s).failed = s.failed + e
      /\ Recounted(s).retried = s.retried + (p + t + e)
      /\ Recounted(s).retryOk = s.retryOk + p
  BY <1>2, <1>4, RecountedCounts DEF p, e, Gone
<1>8. /\ s.processed \in Nat /\ s.parsed \in Nat /\ s.timedOut \in Nat
      /\ s.failed \in Nat /\ s.retried \in Nat /\ s.retryOk \in Nat
  BY <1>2 DEF Tallies
<1>9. s.timedOut = Cardinality(saved'.at.timedOut) + (p + e)
  BY <1>6 DEF AddsUp
<1>10. Recounted(s).timedOut = Cardinality(saved'.at.timedOut)
  BY <1>4, <1>6, <1>7, <1>9
<1> QED
  BY <1>3, <1>4, <1>6, <1>7, <1>8, <1>9, <1>10 DEF AddsUp

(* Only a checkpoint or a run from scratch changes the state file.         *)
LEMMA SavedSteps ==
    ASSUME [Next]_vars
    PROVE  \/ saved' = saved
           \/ \E c \in Configs : StartFresh(c)
           \/ CheckpointBatch
           \/ CheckpointRetry
<1>1. CASE Start
  BY <1>1 DEF Start, StartResume, RejectResume, disk
<1>2. CASE Advance \/ Worker
  BY <1>2 DEF Advance, Worker, Truncate, Parse, Spawn, JoinExited, BatchTimeout,
              AppendJournal, BeginRetries, Build, ChildExit, ChildFlush, disk
<1>3. CASE Crash \/ CrashInAppend \/ Edit \/ UNCHANGED vars
  BY <1>3 DEF Crash, CrashInAppend, Die, Edit, Modify, Create, Remove, vars, disk
<1> QED
  BY <1>1, <1>2, <1>3 DEF Next

LEMMA AddsUpStep ==
    ASSUME TypeOK, Shape, AddsUp(saved.at), [Next]_vars
    PROVE  AddsUp(saved'.at)
<1>1. CASE saved' = saved
  BY <1>1
<1>2. ASSUME NEW c \in Configs, StartFresh(c)
      PROVE  AddsUp(saved'.at)
  BY <1>2, AddsUpFresh DEF StartFresh
<1> QED
  BY <1>1, <1>2, SavedSteps, AddsUpBatch, AddsUpRetry

(* The counts of the state file add up at every checkpoint, over any       *)
(* number of runs, kills and retries.                                      *)
THEOREM TalliesCorrect == Spec => []TalliesAddUp
<1>1. Init => AddsUp(saved.at)
  BY AddsUpFresh DEF Init, NoState
<1>2. TypeOK /\ Shape /\ AddsUp(saved.at) /\ [Next]_vars => AddsUp(saved.at)'
  BY AddsUpStep DEF AddsUp
<1>3. AddsUp(saved.at) => TalliesAddUp
  BY DEF AddsUp, TalliesAddUp
<1> QED
  BY <1>1, <1>2, <1>3, ShapeInvariant, PTL DEF Spec

------------------------------------------------------------------------------
(* Coverage, of runs whose appends are not cut within a line and whose     *)
(* failures have a message: a batch is in the journal before the state     *)
(* file goes past it.                                                      *)

Untroubled == Flaws \cap {"tear", "blank"} = {}

Covered ==
    /\ torn = FALSE
    /\ CheckpointCovered
    /\ pc = "checkpoint" => \A f \in events.parsed : entries[f] # 0

LEMMA JournalKeeps ==
    ASSUME TypeOK, BatchEvents(events), torn = FALSE, NEW lines
    PROVE  \A f \in Files :
              /\ entries[f] # 0 => Journalled(lines)[f] # 0
              /\ f \in lines \cap events.parsed => Journalled(lines)[f] # 0
  BY DEF Journalled, Legible, BatchEvents

LEMMA AccountedKept ==
    ASSUME NEW f, NEW before, NEW after, NEW old, NEW new,
           before[f] # 0 => after[f] # 0,
           f \in old.timedOut => after[f] # 0 \/ f \in new.timedOut \cup new.failed,
           old.failed \subseteq new.failed,
           Accounted(f, before, old)
    PROVE  Accounted(f, after, new)
  BY DEF Accounted

LEMMA CoveredInit == Init => Covered
  BY DEF Init, Covered, CheckpointCovered, NoState

LEMMA CoveredBatch ==
    ASSUME Untroubled, TypeOK, Shape, Covered, CheckpointBatch
    PROVE  Covered'
<1>1. /\ BatchEvents(events) /\ job.phase = "index"
      /\ mem.left = saved.at.left /\ mem.timedOut = saved.at.timedOut
      /\ mem.failed = saved.at.failed /\ entries' = entries
  BY DEF CheckpointBatch, Shape, EventsOK, RunMatches, Untroubled
<1>2. /\ saved'.list = saved.list /\ saved'.exists = saved.exists
      /\ saved'.at.left = saved.at.left \ Batch
      /\ saved'.at.timedOut = saved.at.timedOut \cup events.timeouts
      /\ saved'.at.failed = saved.at.failed \cup events.errors
  BY <1>1 DEF CheckpointBatch, TypeOK, Indexed
<1>3. ASSUME saved.exists, NEW f \in saved.list \ saved'.at.left
      PROVE  Accounted(f, entries, saved'.at)
  <2>1. CASE f \notin saved.at.left
    BY <1>2, <1>3, <2>1, AccountedKept DEF Covered, CheckpointCovered
  <2>2. CASE f \in Batch
    BY <1>1, <1>2, <2>2
    DEF BatchEvents, Accounted, Untroubled, Covered, CheckpointBatch
  <2> QED
    BY <1>2, <1>3, <2>1, <2>2
<1> QED
  BY <1>1, <1>2, <1>3 DEF Covered, CheckpointCovered, CheckpointBatch

LEMMA CoveredRetry ==
    ASSUME Untroubled, TypeOK, Shape, Covered, CheckpointRetry
    PROVE  Covered'
<1>1. /\ mem.left = saved.at.left /\ mem.timedOut = saved.at.timedOut
      /\ mem.failed = saved.at.failed /\ entries' = entries
  BY DEF CheckpointRetry, Shape, RunMatches, Untroubled
<1>2. /\ saved'.list = saved.list /\ saved'.exists = saved.exists
      /\ saved'.at.left = saved.at.left
      /\ saved'.at.timedOut = saved.at.timedOut \ (events.parsed \cup events.errors)
      /\ saved'.at.failed = saved.at.failed \cup events.errors
  BY <1>1 DEF CheckpointRetry, TypeOK
<1>3. ASSUME saved.exists, NEW f \in saved.list \ saved.at.left
      PROVE  Accounted(f, entries, saved'.at)
  <2>1. Accounted(f, entries, saved.at)
    BY <1>3 DEF Covered, CheckpointCovered
  <2>2. \A g \in events.parsed : entries[g] # 0
    BY DEF Covered, CheckpointRetry
  <2>3. f \in saved.at.timedOut
           => entries[f] # 0 \/ f \in saved'.at.timedOut \cup saved'.at.failed
    BY <1>2, <2>2
  <2> QED
    BY <1>2, <2>1, <2>3, AccountedKept
<1> QED
  BY <1>1, <1>2, <1>3 DEF Covered, CheckpointCovered, CheckpointRetry

LEMMA CoveredJournal ==
    ASSUME Untroubled, TypeOK, Shape, Covered, AppendJournal \/ CrashInAppend
    PROVE  Covered'
<1>1. BatchEvents(events) /\ torn = FALSE /\ saved' = saved
  BY DEF AppendJournal, CrashInAppend, Die, Shape, EventsOK, Covered
<1>2. PICK lines : entries' = Journalled(lines) /\ (AppendJournal => lines = Lines)
  BY DEF AppendJournal, CrashInAppend
<1>3. \A f \in Files :
         /\ entries[f] # 0 => entries'[f] # 0
         /\ f \in lines \cap events.parsed => entries'[f] # 0
  BY <1>1, <1>2, JournalKeeps
<1>4. torn' = FALSE
  BY <1>1 DEF AppendJournal, CrashInAppend, Untroubled
<1>5. CheckpointCovered'
  <2> SUFFICES ASSUME saved.exists, NEW f \in saved.list \ saved.at.left
               PROVE  Accounted(f, entries', saved.at)
    BY <1>1 DEF CheckpointCovered
  <2>1. f \in Files /\ Accounted(f, entries, saved.at)
    BY DEF Covered, CheckpointCovered, TypeOK
  <2> QED
    BY <1>3, <2>1, AccountedKept
<1>6. pc' = "checkpoint" => \A f \in events'.parsed : entries'[f] # 0
  BY <1>2, <1>3 DEF AppendJournal, CrashInAppend, Die, Lines, TypeOK
<1> QED
  BY <1>4, <1>5, <1>6 DEF Covered

LEMMA CoveredStep ==
    ASSUME Untroubled, TypeOK, Shape, Covered, [Next]_vars
    PROVE  Covered'
<1>1. ASSUME NEW c \in Configs, StartFresh(c)
      PROVE  Covered'
  BY <1>1 DEF StartFresh, Fresh, Covered, CheckpointCovered
<1>2. CASE Truncate
  <2>1. saved'.at.left = saved'.list /\ torn' = FALSE /\ pc' = "parse"
    BY <1>2 DEF Truncate, Shape, ControlOK
  <2> QED
    BY <2>1 DEF Covered, CheckpointCovered
<1>3. CASE /\ UNCHANGED disk
           /\ pc' = "checkpoint" => pc = "checkpoint" /\ UNCHANGED events
  BY <1>3 DEF Covered, CheckpointCovered, disk, Accounted
<1>4. CASE Start
  BY <1>1, <1>3, <1>4 DEF Start, StartResume, RejectResume
<1>5. CASE Advance \/ Worker
  <2>1. CASE Truncate \/ AppendJournal \/ CheckpointBatch \/ CheckpointRetry
    BY <1>2, <2>1, CoveredJournal, CoveredBatch, CoveredRetry
  <2>2. CASE Parse \/ Spawn \/ JoinExited \/ BatchTimeout \/ BeginRetries \/ Build
    BY <1>3, <2>2 DEF Parse, Spawn, JoinExited, BatchTimeout, BeginRetries, Build
  <2>3. CASE Worker
    <3>1. pc # "checkpoint" /\ UNCHANGED <<disk, pc>>
      BY <2>3 DEF Worker, ChildExit, ChildFlush, Shape, ControlOK
    <3> QED
      BY <1>3, <3>1
  <2> QED
    BY <1>5, <2>1, <2>2, <2>3 DEF Advance
<1>6. CASE CrashInAppend
  BY <1>6, CoveredJournal
<1>7. CASE Crash
  BY <1>3, <1>7 DEF Crash, Die, disk
<1>8. CASE Edit \/ UNCHANGED vars
  BY <1>3, <1>8 DEF Edit, Modify, Create, Remove, vars, disk
<1> QED
  BY <1>4, <1>5, <1>6, <1>7, <1>8 DEF Next

(* Whenever the process is killed, each file the state file has gone past  *)
(* is accounted for by what is on disk.                                    *)
THEOREM CheckpointsCovered ==
    ASSUME Untroubled
    PROVE  Spec => []CheckpointCovered
<1>1. TypeOK /\ Shape /\ Covered /\ [Next]_vars => Covered'
  BY CoveredStep
<1>2. Covered => CheckpointCovered
  BY DEF Covered
<1> QED
  BY <1>1, <1>2, CoveredInit, ShapeInvariant, PTL DEF Spec

------------------------------------------------------------------------------
(* A complete index is whole: when nothing is left, timed out or failed,   *)
(* coverage leaves only entries, and each file has been counted once.      *)

Unlisted(at, list) ==
    /\ Unnamed \in at.failed \/ at.stats.processed = Cardinality(list \ at.left)
    /\ at.failed = {} => at.stats.failed = 0

LEMMA UnlistedFresh ==
    ASSUME NEW list
    PROVE  Unlisted(Fresh(list), list)
<1>1. list \ list = {}
  OBVIOUS
<1> QED
  BY <1>1, FS_EmptySet DEF Unlisted, Fresh, NoTallies

LEMMA UnlistedBatch ==
    ASSUME Untroubled, TypeOK, Shape, Unlisted(saved.at, saved.list), CheckpointBatch
    PROVE  Unlisted(saved'.at, saved'.list)
<1> DEFINE s == saved.at.stats
           Done == saved.list \ saved.at.left
<1>1. /\ BatchEvents(events) /\ mem.stats = s /\ mem.left = saved.at.left
      /\ mem.failed = saved.at.failed
  BY DEF CheckpointBatch, Shape, EventsOK, RunMatches, Untroubled
<1>2. /\ saved'.list = saved.list /\ saved'.at.left = saved.at.left \ Batch
      /\ saved'.at.failed = saved.at.failed \cup events.errors
      /\ saved'.at.stats = Counted(s)
  BY <1>1 DEF CheckpointBatch, TypeOK, Indexed
<1>3. /\ Counted(s).processed = s.processed + Cardinality(Lines)
      /\ Counted(s).failed = s.failed + Cardinality(events.errors)
  BY CountedCounts DEF TypeOK, Progress
<1>4. Batch \subseteq saved.at.left /\ saved.at.left \subseteq saved.list
  BY <1>1, BatchIsTodo DEF CheckpointBatch, Todo, Shape, SavedOK
<1>5. Blank \notin events.errors
  BY <1>1 DEF BatchEvents, Untroubled
<1>6. CASE Unnamed \in saved.at.failed \cup events.errors
  <2>1. saved'.at.failed # {} /\ Unnamed \in saved'.at.failed
    BY <1>2, <1>6
  <2> QED
    BY <2>1 DEF Unlisted
<1>7. CASE Unnamed \notin saved.at.failed \cup events.errors
  <2>1. Lines = Batch
    BY <1>1, <1>5, <1>7 DEF BatchEvents, Lines
  <2>2. saved'.list \ saved'.at.left = Done \cup Batch /\ Done \cap Batch = {}
    BY <1>2, <1>4
  <2>3. IsFiniteSet(Done) /\ IsFiniteSet(Batch)
    BY TodoIsFiles, FS_Subset, FilesAssumption DEF TypeOK
  <2>4. Cardinality(Done \cup Batch) = Cardinality(Done) + Cardinality(Batch)
    BY <2>2, <2>3, DisjointUnion
  <2>5. s.processed = Cardinality(Done)
    BY <1>7 DEF Unlisted
  <2>6. saved'.at.stats.processed = Cardinality(saved'.list \ saved'.at.left)
    BY <1>2, <1>3, <2>1, <2>2, <2>4, <2>5
  <2>7. ASSUME saved'.at.failed = {}
        PROVE  saved'.at.stats.failed = 0
    <3>1. saved.at.failed = {} /\ events.errors = {}
      BY <1>2, <2>7
    <3>2. s.failed = 0 /\ Cardinality(events.errors) = 0
      BY <3>1, FS_EmptySet DEF Unlisted
    <3> QED
      BY <1>2, <1>3, <3>2
  <2> QED
    BY <2>6, <2>7 DEF Unlisted
<1> QED
  BY <1>6, <1>7

LEMMA UnlistedRetry ==
    ASSUME Untroubled, TypeOK, Shape, Unlisted(saved.at, saved.list), CheckpointRetry
    PROVE  Unlisted(saved'.at, saved'.list)
<1> DEFINE s == saved.at.stats
<1>1. /\ mem.stats = s /\ mem.left = saved.at.left /\ mem.failed = saved.at.failed
  BY DEF CheckpointRetry, Shape, RunMatches, Untroubled
<1>2. /\ saved'.list = saved.list /\ saved'.at.left = saved.at.left
      /\ saved'.at.failed = saved.at.failed \cup events.errors
      /\ saved'.at.stats = Recounted(s)
  BY <1>1 DEF CheckpointRetry, TypeOK
<1>3. /\ Recounted(s).processed = s.processed
      /\ Recounted(s).failed = s.failed + Cardinality(events.errors)
  BY RecountedCounts DEF TypeOK, Progress
<1>4. ASSUME saved'.at.failed = {}
      PROVE  saved'.at.stats.failed = 0
  <2>1. saved.at.failed = {} /\ events.errors = {}
    BY <1>2, <1>4
  <2>2. s.failed = 0 /\ Cardinality(events.errors) = 0
    BY <2>1, FS_EmptySet DEF Unlisted
  <2> QED
    BY <1>2, <1>3, <2>2
<1> QED
  BY <1>2, <1>3, <1>4 DEF Unlisted

LEMMA UnlistedStep ==
    ASSUME Untroubled, TypeOK, Shape, Unlisted(saved.at, saved.list), [Next]_vars
    PROVE  Unlisted(saved'.at, saved'.list)
<1>1. ASSUME NEW c \in Configs, StartFresh(c)
      PROVE  Unlisted(saved'.at, saved'.list)
  <2>1. saved'.at = Fresh(present) /\ saved'.list = present
    BY <1>1 DEF StartFresh
  <2> QED
    BY <2>1, UnlistedFresh
<1> QED
  BY <1>1, SavedSteps, UnlistedBatch, UnlistedRetry

LEMMA BuildIsWhole ==
    ASSUME Untroubled, TypeOK, Shape, Covered, AddsUp(saved.at),
           Unlisted(saved.at, saved.list), Build
    PROVE  CompleteIsWhole'
<1>1. /\ saved.exists /\ job.list = saved.list /\ mem.left = {}
      /\ mem.left = saved.at.left /\ mem.timedOut = saved.at.timedOut
      /\ mem.stats = saved.at.stats /\ mem.failed = saved.at.failed
  BY DEF Build, Shape, RunMatches, ControlOK, Untroubled
<1> SUFFICES ASSUME result'.built, ~Incomplete(result'.at)
             PROVE  /\ \A f \in result'.list : result'.entries[f] # 0
                    /\ result'.at.stats.parsed = Cardinality(result'.list)
                    /\ result'.at.stats.processed = Cardinality(result'.list)
  BY DEF CompleteIsWhole
<1>2. /\ result'.list = saved.list /\ result'.entries = entries
      /\ result'.at = mem
  BY <1>1 DEF Build, NoResult
<1>3. saved.at.timedOut = {} /\ saved.at.failed = {}
  BY <1>1, <1>2 DEF Incomplete
<1>4. \A f \in saved.list : entries[f] # 0
  BY <1>1, <1>3 DEF Covered, CheckpointCovered, Accounted
<1>5. saved.at.stats.processed = Cardinality(saved.list) /\ saved.at.stats.failed = 0
  <2>1. saved.list \ saved.at.left = saved.list
    BY <1>1
  <2> QED
    BY <1>3, <2>1 DEF Unlisted
<1>6. saved.at.stats.timedOut = 0
  BY <1>3, FS_EmptySet DEF AddsUp
<1>7. saved.at.stats.parsed = saved.at.stats.processed
  BY <1>5, <1>6 DEF AddsUp, TypeOK, Progress, Tallies
<1> QED
  BY <1>1, <1>2, <1>4, <1>5, <1>7

LEMMA WholeStep ==
    ASSUME Untroubled, TypeOK, Shape, Covered, AddsUp(saved.at),
           Unlisted(saved.at, saved.list), CompleteIsWhole, [Next]_vars
    PROVE  CompleteIsWhole'
<1>1. CASE Start
  <2>1. result' = NoResult
    BY <1>1 DEF Start, StartFresh, StartResume, RejectResume
  <2> QED
    BY <2>1 DEF CompleteIsWhole, NoResult
<1>2. CASE Build
  BY <1>2, BuildIsWhole
<1>3. CASE result' = result
  BY <1>3 DEF CompleteIsWhole, Incomplete
<1>4. CASE (Advance /\ ~Build) \/ Worker
  BY <1>3, <1>4 DEF Advance, Worker, Truncate, Parse, Spawn, JoinExited, BatchTimeout,
      AppendJournal, CheckpointBatch, BeginRetries, CheckpointRetry, ChildExit, ChildFlush
<1>5. CASE Crash \/ CrashInAppend \/ Edit \/ UNCHANGED vars
  BY <1>3, <1>5 DEF Crash, CrashInAppend, Die, Edit, Modify, Create, Remove, vars
<1> QED
  BY <1>1, <1>2, <1>4, <1>5 DEF Next

(* An index not reported incomplete holds every file of its list and       *)
(* counts each of them once, however many runs were killed on the way.     *)
THEOREM CompleteIndexIsWhole ==
    ASSUME Untroubled
    PROVE  Spec => []CompleteIsWhole
<1> DEFINE IInv == /\ TypeOK /\ Shape /\ Covered /\ AddsUp(saved.at)
                   /\ Unlisted(saved.at, saved.list) /\ CompleteIsWhole
<1>1. Init => IInv
  <2> SUFFICES ASSUME Init PROVE IInv
    OBVIOUS
  <2>1. saved.at = Fresh({}) /\ saved.list = {} /\ result = NoResult
    BY DEF Init, NoState
  <2>2. CompleteIsWhole
    BY <2>1 DEF CompleteIsWhole, NoResult
  <2> QED
    BY <2>1, <2>2, TypeInit, ShapeInit, CoveredInit, AddsUpFresh, UnlistedFresh
<1>2. IInv /\ [Next]_vars => IInv'
  <2> SUFFICES ASSUME IInv, [Next]_vars PROVE IInv'
    OBVIOUS
  <2>1. TypeOK' /\ Shape'
    BY TypeStart, TypeAdvance, TypeOther, ShapeStart, ShapeAdvance, ShapeOther DEF Next
  <2>2. Covered' /\ CompleteIsWhole'
    BY CoveredStep, WholeStep
  <2>3. Unlisted(saved.at, saved.list)'
    BY UnlistedStep DEF Unlisted
  <2>4. AddsUp(saved.at)'
    BY AddsUpStep DEF AddsUp
  <2> QED
    BY <2>1, <2>2, <2>3, <2>4
<1>3. IInv => CompleteIsWhole
  OBVIOUS
<1> QED
  BY <1>1, <1>2, <1>3, PTL DEF Spec

------------------------------------------------------------------------------
(* A run from scratch indexes what it read, whatever the journal held: the *)
(* journal it appends to was emptied, and contents only get newer.         *)

ReadIn(index, list) ==
    \A f \in Files : index[f] # 0 => f \in list /\ index[f] >= since[f]

Scratch == pc \notin {"idle", "truncate"} /\ ~job.resumed /\ job.list # {}

Recent ==
    /\ \A f \in Files : version[f] >= since[f]
    /\ saved.at.timedOut \subseteq saved.list
    /\ pc \in {"append", "checkpoint"} \/ child = "exited"
          => \A f \in events.parsed : events.read[f] >= since[f]
    /\ Scratch => ReadIn(entries, job.list)
    /\ FreshReadsAll

LEMMA RecentInit == Init => Recent
  BY DEF Init, Recent, Scratch, FreshReadsAll, NoState, Fresh, NoResult, NoJob

LEMMA RecentParsed ==
    ASSUME TypeOK, Recent, NEW e,
           \/ e \in Outcomes(Batch, job.cfg.timeout)
           \/ e \in {AllFailed(Batch), AllTimedOut(Batch)}
           \/ e \in WorkerFailed
    PROVE  \A f \in e.parsed : e.read[f] >= since[f]
<1>1. CASE e \in Outcomes(Batch, job.cfg.timeout)
  BY <1>1, TodoIsFiles DEF Outcomes, Recent
<1>2. CASE e \in {AllFailed(Batch), AllTimedOut(Batch)} \/ e \in WorkerFailed
  BY <1>2 DEF AllFailed, AllTimedOut, WorkerFailed, NoEvents
<1> QED
  BY <1>1, <1>2

(* A batch is of files of the run's list.                                  *)
LEMMA BatchIsListed ==
    ASSUME TypeOK, Shape, Recent, pc # "idle"
    PROVE  Batch \subseteq job.list
  BY BatchIsTodo DEF Todo, Shape, RunMatches, SavedOK, ControlOK, Recent, TypeOK, Jobs

LEMMA RecentJournal ==
    ASSUME TypeOK, Shape, Recent, NEW lines, pc = "append", Scratch
    PROVE  ReadIn(Journalled(lines), job.list)
<1>1. \A f \in events.parsed : f \in job.list /\ events.read[f] >= since[f]
  BY BatchIsListed DEF Shape, EventsOK, BatchEvents, Recent
<1>2. ReadIn(entries, job.list)
  BY DEF Recent
<1> QED
  BY <1>1, <1>2 DEF ReadIn, Journalled

LEMMA RecentStart ==
    ASSUME TypeOK, Shape, Recent, Start
    PROVE  Recent'
<1>1. child = "none" /\ result' = NoResult
  BY DEF Start, StartFresh, StartResume, RejectResume, Shape, ControlOK
<1>2. FreshReadsAll'
  BY <1>1 DEF FreshReadsAll, NoResult
<1>3. ASSUME NEW c \in Configs, StartFresh(c)
      PROVE  Recent'
  BY <1>1, <1>2, <1>3 DEF StartFresh, Begin, Fresh, NoJob, Recent, Scratch, TypeOK, repo
<1>4. ASSUME NEW c \in Configs, StartResume(c)
      PROVE  Recent'
  BY <1>1, <1>2, <1>4 DEF StartResume, Begin, NoJob, Recent, Scratch, repo, disk
<1>5. CASE RejectResume
  BY <1>1, <1>2, <1>5 DEF RejectResume, Recent, Scratch, ReadIn, repo, disk
<1> QED
  BY <1>3, <1>4, <1>5 DEF Start

LEMMA RecentAdvance ==
    ASSUME TypeOK, Shape, Recent, Advance \/ Worker
    PROVE  Recent'
<1>1. CASE Truncate
  BY <1>1 DEF Truncate, Recent, Scratch, ReadIn, FreshReadsAll, Shape, ControlOK, repo
<1>2. CASE Parse \/ ChildExit \/ BatchTimeout
  <2>1. \A f \in events'.parsed : events'.read[f] >= since[f]
    BY <1>2, RecentParsed DEF Parse, ChildExit, BatchTimeout
  <2>2. Scratch' => Scratch
    BY <1>2 DEF Parse, ChildExit, BatchTimeout, Scratch
  <2> QED
    BY <1>2, <2>1, <2>2
    DEF Parse, ChildExit, BatchTimeout, Recent, ReadIn, FreshReadsAll, repo, disk
<1>3. CASE Spawn \/ ChildFlush \/ JoinExited
  BY <1>3 DEF Spawn, ChildFlush, JoinExited, Recent, Scratch, ReadIn, FreshReadsAll,
              repo, disk
<1>4. CASE AppendJournal
  <2>1. Scratch' => ReadIn(entries', job.list)
    BY <1>4, RecentJournal DEF AppendJournal, Scratch
  <2> QED
    BY <1>4, <2>1 DEF AppendJournal, Recent, ReadIn, FreshReadsAll, repo
<1>5. CASE CheckpointBatch
  <2>1. /\ saved'.list = saved.list
        /\ saved'.at.timedOut = saved.at.timedOut \cup events.timeouts
    BY <1>5 DEF CheckpointBatch, Indexed, TypeOK, Shape, RunMatches
  <2>2. events.timeouts \subseteq saved.list
    BY <1>5, BatchIsListed
    DEF CheckpointBatch, Shape, EventsOK, BatchEvents, RunMatches
  <2> QED
    BY <1>5, <2>1, <2>2
    DEF CheckpointBatch, Recent, Scratch, ReadIn, FreshReadsAll, Shape, ControlOK, repo
<1>6. CASE BeginRetries
  <2>1. job'.list = job.list /\ job'.resumed = job.resumed
    BY <1>6 DEF BeginRetries, TypeOK
  <2> QED
    BY <1>6, <2>1 DEF BeginRetries, Recent, Scratch, ReadIn, FreshReadsAll, repo, disk
<1>7. CASE CheckpointRetry
  <2>1. /\ saved'.list = saved.list
        /\ saved'.at.timedOut \subseteq saved.at.timedOut
    BY <1>7 DEF CheckpointRetry, TypeOK, Shape, RunMatches
  <2> QED
    BY <1>7, <2>1
    DEF CheckpointRetry, Recent, Scratch, ReadIn, FreshReadsAll, Shape, ControlOK, repo
<1>8. CASE Build
  <2>1. FreshReadsAll'
    BY <1>8 DEF Build, FreshReadsAll, NoResult, Recent, Scratch, ReadIn
  <2> QED
    BY <1>8, <2>1 DEF Build, Recent, Scratch, repo, disk
<1> QED
  BY <1>1, <1>2, <1>3, <1>4, <1>5, <1>6, <1>7, <1>8 DEF Advance, Worker

LEMMA RecentOther ==
    ASSUME TypeOK, Shape, Recent, Crash \/ CrashInAppend \/ Edit \/ UNCHANGED vars
    PROVE  Recent'
<1>1. CASE Crash \/ CrashInAppend
  <2>1. Die
    BY <1>1 DEF Crash, CrashInAppend
  <2> QED
    BY <2>1 DEF Die, Recent, Scratch, FreshReadsAll, repo
<1>2. CASE Edit \/ UNCHANGED vars
  <2>1. \A f \in Files : version'[f] >= since[f]
    BY <1>2 DEF Edit, Modify, Create, Remove, vars, Recent, TypeOK
  <2>2. UNCHANGED <<disk, pc, job, events, child, result, since>>
    BY <1>2 DEF Edit, Modify, Create, Remove, vars, disk
  <2> QED
    BY <2>1, <2>2 DEF Recent, Scratch, ReadIn, FreshReadsAll, disk
<1> QED
  BY <1>1, <1>2

(* The index of a run from scratch over some files holds no other file and *)
(* no content older than the run, whatever was torn or killed before it.   *)
THEOREM FreshRunsReadAll == Spec => []FreshReadsAll
<1>1. TypeOK /\ Shape /\ Recent /\ [Next]_vars => Recent'
  BY RecentStart, RecentAdvance, RecentOther DEF Next
<1>2. Recent => FreshReadsAll
  BY DEF Recent
<1> QED
  BY <1>1, <1>2, RecentInit, ShapeInvariant, PTL DEF Spec
==============================================================================
