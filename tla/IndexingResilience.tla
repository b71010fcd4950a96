------------------------- MODULE IndexingResilience -------------------------
(***************************************************************************)
(* The resumable index build of indexing_resilience.py: a run parses the   *)
(* files of the repository in batches, appends what came of each batch to  *)
(* a journal, then records in a state file how far it got.  A killed run   *)
(* is taken up again from the state file, and the index is what the        *)
(* journal holds in the end.                                               *)
(*                                                                         *)
(* A file is its rank in the sorted list of paths, its content a version   *)
(* number, 0 standing for none.  next_index is kept as the files from it   *)
(* on, the journal as what _load_files_from_journal would read in it: for  *)
(* each file the version of its last legible line.  Writes of the state    *)
(* file are atomic (os.replace), appends to the journal are not.           *)
(***************************************************************************)
EXTENDS Integers, FiniteSets

CONSTANTS Files,        \* the paths, ranked
          Configs,      \* the settings a run may be started with
          MaxVersion,   \* bound on the edits of a file
          MaxRuns,      \* bound on the runs started
          Flaws         \* what may go wrong besides a kill between two writes

VARIABLES present,      \* the files of the repository
          version,      \* file -> the version of its content
          saved,        \* the state file
          entries,      \* file -> version in the journal, or 0
          torn,         \* the journal ends in a line cut short
          garbled,      \* the journal holds bytes that are not UTF-8
          pc,           \* what the run does next
          job,          \* the run's file list, settings and phase
          mem,          \* its progress in memory
          queue,        \* timed-out files it has yet to retry
          events,       \* what came of the batch at hand
          child,        \* the subprocess that parses a batch
          result,       \* the payload of the last run, if it built one
          since,        \* version of each file when the last fresh run began
          runs          \* runs started

disk == <<saved, entries, torn, garbled>>
repo == <<present, version>>
vars == <<present, version, saved, entries, torn, garbled, pc, job, mem,
          queue, events, child, result, since, runs>>

(* The error event of a subprocess that failed as a whole has the path "", *)
(* and its message may be empty as well.                                   *)
Unnamed == 0
Blank == -1

Config == [size : Nat, timeout : BOOLEAN, retry : BOOLEAN,
           subprocess : BOOLEAN, hard : BOOLEAN]

ASSUME FilesAssumption == Files \subseteq Nat \ {0} /\ IsFiniteSet(Files)

ASSUME BoundsAssumption ==
    /\ Configs \subseteq Config
    /\ MaxVersion \in Nat \ {0} /\ MaxRuns \in Nat
    /\ Flaws \subseteq {"tear", "split", "blank", "big"}

Tallies == [processed : Nat, parsed : Nat, timedOut : Nat, failed : Nat,
            retried : Nat, retryOk : Nat]

NoTallies == [processed |-> 0, parsed |-> 0, timedOut |-> 0, failed |-> 0,
              retried |-> 0, retryOk |-> 0]

Fresh(list) == [left |-> list, timedOut |-> {}, failed |-> {},
                stats |-> NoTallies]

NoState == [exists |-> FALSE, list |-> {}, at |-> Fresh({})]

NoEvents == [parsed |-> {}, timeouts |-> {}, errors |-> {},
             read |-> [f \in Files |-> 0]]

NoJob == [list |-> {}, phase |-> "index", resumed |-> FALSE,
          cfg |-> [size |-> 0, timeout |-> FALSE, retry |-> FALSE,
                   subprocess |-> FALSE, hard |-> FALSE]]

NoResult == [built |-> FALSE, list |-> {}, resumed |-> FALSE,
             entries |-> [f \in Files |-> 0], at |-> Fresh({})]

Init ==
    /\ present \in SUBSET Files
    /\ version = [f \in Files |-> 1]
    /\ saved = NoState
    /\ entries = [f \in Files |-> 0]
    /\ torn = FALSE /\ garbled = FALSE
    /\ pc = "idle" /\ job = NoJob /\ mem = Fresh({}) /\ queue = {}
    /\ events = NoEvents /\ child = "none"
    /\ result = NoResult
    /\ since = version
    /\ runs = 0

------------------------------------------------------------------------------
(* The batch at hand: the first files of those left to this phase.         *)

Prefix(list, n) == {f \in list : Cardinality({g \in list : g < f}) < n}

Todo == IF job.phase = "index" THEN mem.left ELSE queue

(* A batch size of zero takes everything.                                  *)
Batch == IF job.cfg.size = 0 THEN Todo ELSE Prefix(Todo, job.cfg.size)

(* The lines an append writes, in the order of the files.                  *)
Lines == events.parsed \cup events.timeouts \cup events.errors

Incomplete(at) == at.timedOut # {} \/ at.failed # {}

------------------------------------------------------------------------------
(* The start of a run: _load_or_init_state, and the journal's truncation.  *)

Begin(list, c, resumed, at) ==
    /\ job' = [NoJob EXCEPT !.list = list, !.cfg = c, !.resumed = resumed]
    /\ mem' = at
    /\ queue' = {} /\ events' = NoEvents

StartFresh(c) ==
    /\ pc = "idle" /\ runs < MaxRuns
    /\ saved' = [exists |-> TRUE, list |-> present, at |-> Fresh(present)]
    /\ Begin(present, c, FALSE, Fresh(present))
    /\ pc' = IF present = {} THEN "parse" ELSE "truncate"
    /\ since' = version
    /\ runs' = runs + 1
    /\ result' = NoResult
    /\ UNCHANGED <<repo, entries, torn, garbled, child>>

(* Mutant: a fresh run appends to the journal it finds. *)
TruncateNothing ==
    /\ pc = "truncate"
    /\ pc' = "parse"
    /\ UNCHANGED <<repo, disk, job, mem, queue, events, child, result, since,
                   runs>>

Truncate ==
    /\ pc = "truncate"
    /\ entries' = [f \in Files |-> 0]
    /\ torn' = FALSE /\ garbled' = FALSE
    /\ pc' = "parse"
    /\ UNCHANGED <<repo, saved, job, mem, queue, events, child, result, since,
                   runs>>

(* Mutant: the counts are not carried over. *)
LoadedWithoutStats(at) ==
    [at EXCEPT !.failed = @ \ {Blank}, !.stats = NoTallies]

(* A failure without path and message does not survive the state file.     *)
Loaded(at) == [at EXCEPT !.failed = @ \ {Blank}]

StartResume(c) ==
    /\ pc = "idle" /\ runs < MaxRuns
    /\ saved.exists /\ saved.list = present
    /\ Begin(present, c, TRUE, Loaded(saved.at))
    /\ pc' = "parse"
    /\ runs' = runs + 1
    /\ result' = NoResult
    /\ UNCHANGED <<repo, disk, child, since>>

(* The state file is of another file list: ValueError.                     *)
RejectResume ==
    /\ pc = "idle" /\ runs < MaxRuns
    /\ saved.exists /\ saved.list # present
    /\ runs' = runs + 1
    /\ result' = NoResult
    /\ UNCHANGED <<repo, disk, pc, job, mem, queue, events, child, since>>

------------------------------------------------------------------------------
(* Parsing a batch, in this process or in a subprocess.                    *)

(* What may come of parsing a batch: a file is parsed, takes too long, or  *)
(* fails; one no longer there cannot be parsed.                            *)
Outcomes(batch, timed) ==
    {e \in [parsed : SUBSET (batch \cap present),
            timeouts : SUBSET (batch \cap present),
            errors : SUBSET batch, read : {version}] :
        /\ e.parsed \cap e.timeouts = {} /\ e.errors \cap e.timeouts = {}
        /\ e.errors = batch \ (e.parsed \cup e.timeouts)
        /\ timed \/ e.timeouts = {}}

AllTimedOut(batch) == [NoEvents EXCEPT !.timeouts = batch]
AllFailed(batch) == [NoEvents EXCEPT !.errors = batch]

(* The worker's own failure is one event for the whole batch.              *)
WorkerFailed ==
    {[NoEvents EXCEPT !.errors = {p}] :
        p \in {Unnamed} \cup (IF "blank" \in Flaws THEN {Blank} ELSE {})}

Subprocess == job.phase = "index" /\ job.cfg.subprocess

(* Mutant: progress is saved before the batch is journalled. *)
ParseCheckpointsEarly ==
    /\ pc = "parse" /\ Todo # {} /\ ~Subprocess
    /\ events' \in Outcomes(Batch, job.cfg.timeout)
    /\ pc' = "append"
    /\ saved' = [saved EXCEPT !.at.left = @ \ Batch]
    /\ UNCHANGED <<repo, entries, torn, garbled, job, mem, queue, child,
                   result, since, runs>>

Parse ==
    /\ pc = "parse" /\ Todo # {} /\ ~Subprocess
    /\ events' \in Outcomes(Batch, job.cfg.timeout)
    /\ pc' = "append"
    /\ UNCHANGED <<repo, disk, job, mem, queue, child, result, since, runs>>

Spawn ==
    /\ pc = "parse" /\ Todo # {} /\ Subprocess
    /\ pc' = "join" /\ child' = "parsing"
    /\ UNCHANGED <<repo, disk, job, mem, queue, events, result, since, runs>>

(* The child leaves its events in the pipe and exits, or dies.             *)
ChildExit ==
    /\ child = "parsing"
    /\ events' \in Outcomes(Batch, job.cfg.timeout) \cup {AllFailed(Batch)}
                     \cup WorkerFailed
    /\ child' = "exited"
    /\ UNCHANGED <<repo, disk, pc, job, mem, queue, result, since, runs>>

(* Events that do not fit the pipe: the child's exit waits for a reader.   *)
ChildFlush ==
    /\ child = "parsing" /\ "big" \in Flaws
    /\ child' = "flushing"
    /\ UNCHANGED <<repo, disk, pc, job, mem, queue, events, result, since, runs>>

(* The parent reads the pipe only after the child has exited.              *)
JoinExited ==
    /\ pc = "join" /\ child = "exited"
    /\ pc' = "append" /\ child' = "none"
    /\ UNCHANGED <<repo, disk, job, mem, queue, events, result, since, runs>>

(* Mutant: only the setting bounds the join. *)
BatchTimeoutNotDerived ==
    /\ pc = "join" /\ child \in {"parsing", "flushing"}
    /\ job.cfg.hard
    /\ events' = AllTimedOut(Batch)
    /\ pc' = "append" /\ child' = "none"
    /\ UNCHANGED <<repo, disk, job, mem, queue, result, since, runs>>

(* A batch timeout is the setting, or derived from the per-file timeout.   *)
BatchTimeout ==
    /\ pc = "join" /\ child \in {"parsing", "flushing"}
    /\ job.cfg.hard \/ job.cfg.timeout
    /\ events' = AllTimedOut(Batch)
    /\ pc' = "append" /\ child' = "none"
    /\ UNCHANGED <<repo, disk, job, mem, queue, result, since, runs>>

------------------------------------------------------------------------------
(* The journal and the state file.                                         *)

(* Lines put after one cut short: the first of them merges with it, and is *)
(* skipped with it when the journal is read.                               *)
Legible(lines) ==
    IF torn THEN {f \in lines : \E g \in lines : g < f} ELSE lines

Journalled(lines) ==
    [f \in Files |-> IF f \in Legible(lines) \cap events.parsed
                     THEN events.read[f] ELSE entries[f]]

AppendJournal ==
    /\ pc = "append"
    /\ entries' = Journalled(Lines)
    /\ torn' = FALSE
    /\ pc' = "checkpoint"
    /\ UNCHANGED <<repo, saved, garbled, job, mem, queue, events, child, result,
                   since, runs>>

Counted(s) ==
    [s EXCEPT !.processed = @ + Cardinality(Lines),
              !.parsed = @ + Cardinality(events.parsed),
              !.timedOut = @ + Cardinality(events.timeouts),
              !.failed = @ + Cardinality(events.errors)]

Indexed ==
    [left |-> mem.left \ Batch,
     timedOut |-> mem.timedOut \cup events.timeouts,
     failed |-> mem.failed \cup events.errors,
     stats |-> Counted(mem.stats)]

CheckpointBatch ==
    /\ pc = "checkpoint" /\ job.phase = "index"
    /\ mem' = Indexed
    /\ saved' = [saved EXCEPT !.at = mem']
    /\ pc' = "parse" /\ events' = NoEvents
    /\ UNCHANGED <<repo, entries, torn, garbled, job, queue, child, result,
                   since, runs>>

(* Timed-out files are retried if the settings of this run have it and     *)
(* bound the time for a file.                                              *)
BeginRetries ==
    /\ pc = "parse" /\ job.phase = "index" /\ mem.left = {}
    /\ job' = [job EXCEPT !.phase = "retry"]
    /\ queue' = IF job.cfg.retry /\ job.cfg.timeout THEN mem.timedOut ELSE {}
    /\ UNCHANGED <<repo, disk, pc, mem, events, child, result, since, runs>>

(* Mutant: a retry that times out again leaves the count too. *)
RecountedTwice(s) ==
    [s EXCEPT !.retried = @ + Cardinality(Lines),
              !.retryOk = @ + Cardinality(events.parsed),
              !.parsed = @ + Cardinality(events.parsed),
              !.timedOut = @ - Cardinality(Lines),
              !.failed = @ + Cardinality(events.errors)]

(* Mutant: a retry that fails is still counted as timed out. *)
RecountedKeepsErrors(s) ==
    [s EXCEPT !.retried = @ + Cardinality(Lines),
              !.retryOk = @ + Cardinality(events.parsed),
              !.parsed = @ + Cardinality(events.parsed),
              !.timedOut = @ - Cardinality(events.parsed),
              !.failed = @ + Cardinality(events.errors)]

Recounted(s) ==
    [s EXCEPT !.retried = @ + Cardinality(Lines),
              !.retryOk = @ + Cardinality(events.parsed),
              !.parsed = @ + Cardinality(events.parsed),
              !.timedOut = LET n == @ - Cardinality(events.parsed \cup events.errors)
                           IN  IF n < 0 THEN 0 ELSE n,
              !.failed = @ + Cardinality(events.errors)]

CheckpointRetry ==
    /\ pc = "checkpoint" /\ job.phase = "retry"
    /\ mem' = [left |-> mem.left,
               timedOut |-> mem.timedOut \ (events.parsed \cup events.errors),
               failed |-> mem.failed \cup events.errors,
               stats |-> Recounted(mem.stats)]
    /\ saved' = [saved EXCEPT !.at = mem']
    /\ queue' = queue \ Batch
    /\ pc' = "parse" /\ events' = NoEvents
    /\ UNCHANGED <<repo, entries, torn, garbled, job, child, result, since, runs>>

(* The index is built from the journal; a journal that is not UTF-8 raises *)
(* instead.                                                                *)
Build ==
    /\ pc = "parse" /\ job.phase = "retry" /\ queue = {}
    /\ result' = IF garbled THEN NoResult
                 ELSE [built |-> TRUE, list |-> job.list, resumed |-> job.resumed,
                       entries |-> entries, at |-> mem]
    /\ pc' = "idle" /\ job' = NoJob /\ mem' = Fresh({})
    /\ UNCHANGED <<repo, disk, queue, events, child, since, runs>>

------------------------------------------------------------------------------
(* A kill, or an exception of a file operation, ends the run.              *)

Die ==
    /\ pc' = "idle" /\ job' = NoJob /\ mem' = Fresh({}) /\ queue' = {}
    /\ events' = NoEvents /\ child' = "none"
    /\ UNCHANGED <<repo, saved, result, since, runs>>

Crash ==
    /\ pc # "idle"
    /\ Die
    /\ UNCHANGED <<entries, torn, garbled>>

(* In the middle of an append some lines are written, and with them        *)
(* perhaps a part of the next one.  A tear that spares all of a line but   *)
(* its end is taken for a shorter one: its file is either parsed again or  *)
(* remains listed as timed out.                                            *)
CrashInAppend ==
    /\ pc = "append"
    /\ Die
    /\ \E lines \in SUBSET Lines :
          /\ \A f \in lines, g \in Lines \ lines : f < g
          /\ entries' = Journalled(lines)
          /\ \/ /\ torn' = (torn /\ lines = {})
                /\ UNCHANGED garbled
             \/ /\ "tear" \in Flaws /\ lines # Lines
                /\ torn' = TRUE
                /\ garbled' \in {garbled} \cup (IF "split" \in Flaws THEN {TRUE} ELSE {})

(* The repository is edited while runs go on.                              *)
Modify(f) ==
    /\ f \in present /\ version[f] < MaxVersion
    /\ version' = [version EXCEPT ![f] = @ + 1]
    /\ UNCHANGED <<present, disk, pc, job, mem, queue, events, child, result,
                   since, runs>>

Create(f) ==
    /\ f \notin present /\ version[f] < MaxVersion
    /\ present' = present \cup {f}
    /\ version' = [version EXCEPT ![f] = @ + 1]
    /\ UNCHANGED <<disk, pc, job, mem, queue, events, child, result, since, runs>>

Remove(f) ==
    /\ f \in present /\ version[f] < MaxVersion
    /\ present' = present \ {f}
    /\ UNCHANGED <<version, disk, pc, job, mem, queue, events, child, result,
                   since, runs>>

Start == (\E c \in Configs : StartFresh(c) \/ StartResume(c)) \/ RejectResume

Advance ==
    \/ Truncate \/ Parse \/ Spawn \/ JoinExited \/ BatchTimeout \/ AppendJournal
    \/ CheckpointBatch \/ BeginRetries \/ CheckpointRetry \/ Build

Worker == ChildExit \/ ChildFlush

Edit == \E f \in Files : Modify(f) \/ Create(f) \/ Remove(f)

Next == Start \/ Advance \/ Worker \/ Crash \/ CrashInAppend \/ Edit

Spec == Init /\ [][Next]_vars

(* A run and its child are scheduled by the operating system.              *)
FairSpec == Spec /\ WF_vars(Advance) /\ WF_vars(Worker)

------------------------------------------------------------------------------
(* Properties.                                                             *)

Progress == [left : SUBSET Files, timedOut : SUBSET Files,
             failed : SUBSET (Files \cup {Unnamed, Blank}), stats : Tallies]

TypeOK ==
    /\ present \subseteq Files /\ version \in [Files -> Nat \ {0}]
    /\ saved \in [exists : BOOLEAN, list : SUBSET Files, at : Progress]
    /\ entries \in [Files -> Nat]
    /\ torn \in BOOLEAN /\ garbled \in BOOLEAN
    /\ pc \in {"idle", "truncate", "parse", "join", "append", "checkpoint"}
    /\ job \in [list : SUBSET Files, phase : {"index", "retry"},
                resumed : BOOLEAN, cfg : Config]
    /\ mem \in Progress /\ queue \subseteq Files
    /\ events \in [parsed : SUBSET Files, timeouts : SUBSET Files,
                   errors : SUBSET (Files \cup {Unnamed, Blank}),
                   read : [Files -> Nat]]
    /\ child \in {"none", "parsing", "flushing", "exited"}
    /\ result \in [built : BOOLEAN, list : SUBSET Files, resumed : BOOLEAN,
                   entries : [Files -> Nat], at : Progress]
    /\ since \in [Files -> Nat \ {0}] /\ runs \in Nat

(* A file is accounted for: it has an entry, is listed as timed out or     *)
(* failed, or was in a batch whose subprocess failed as a whole.           *)
Accounted(f, index, at) ==
    index[f] # 0 \/ f \in at.timedOut \/ {f, Unnamed} \cap at.failed # {}

(* Whenever the process may be killed, every file the state file has gone  *)
(* past is accounted for by the state file and the journal beside it: a    *)
(* resumed run that skips it does not lose it.                             *)
CheckpointCovered ==
    saved.exists =>
        \A f \in saved.list \ saved.at.left : Accounted(f, entries, saved.at)

(* An index that is not reported incomplete holds every file of its list,  *)
(* and its counts say so, over however many runs it was built.             *)
CompleteIsWhole ==
    result.built /\ ~Incomplete(result.at) =>
        /\ \A f \in result.list : result.entries[f] # 0
        /\ result.at.stats.parsed = Cardinality(result.list)
        /\ result.at.stats.processed = Cardinality(result.list)

(* The index of a run that was not resumed and found files holds no other  *)
(* files, and no content older than the run.                               *)
FreshReadsAll ==
    result.built /\ ~result.resumed /\ result.list # {} =>
        \A f \in Files : result.entries[f] # 0 =>
            f \in result.list /\ result.entries[f] >= since[f]

(* The counts in the state file add up at every checkpoint: each file was  *)
(* parsed, timed out or failed once, retries moving it from one count to   *)
(* another, and the timed-out count is that of the files listed.           *)
TalliesAddUp ==
    LET s == saved.at.stats IN
    /\ s.parsed + s.timedOut + s.failed = s.processed
    /\ s.timedOut = Cardinality(saved.at.timedOut)
    /\ s.retryOk <= s.retried

(* A run whose batches are parsed in process, or in a subprocess under     *)
(* some timeout, ends: it builds the index, raises or is killed.           *)
RunsEnd == pc # "idle" ~> pc = "idle"

(* "--resume: Resume a previous batch-mode indexing run": an index built   *)
(* by a resumed run over some files is the one a build from scratch gives. *)
ResumedIsBaseline ==
    result.built /\ result.resumed /\ ~Incomplete(result.at)
    /\ result.list # {} =>
        {f \in Files : result.entries[f] # 0} = result.list

(* The parsed_files of a resumed run that is complete is the number of     *)
(* files in its index.                                                     *)
ResumeCountsFiles ==
    result.built /\ result.resumed /\ ~Incomplete(result.at) =>
        result.at.stats.parsed = Cardinality({f \in Files : result.entries[f] # 0})
==============================================================================
