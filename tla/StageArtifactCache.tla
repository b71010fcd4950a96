-------------------------- MODULE StageArtifactCache --------------------------
(***************************************************************************)
(* The persistent stage artifact cache: a SQLite row per artifact, a       *)
(* payload file per row, a temp file per writer, and a process-wide hot    *)
(* tier.  put_artifact, get_artifact and the collectors of                 *)
(* stage_artifact_cache_gc.py take no common lock: every step below is one *)
(* system call or one SQLite transaction, and the steps of threads of      *)
(* several processes interleave.                                           *)
(*                                                                         *)
(* A file is its bytes and the threads that hold it open for writing,      *)
(* because open("wb") truncates an existing temp file in place and         *)
(* os.replace moves a file that another writer may still hold open.  A     *)
(* SIGKILL of a process is modelled (Crash); the loss of a machine's page  *)
(* cache is not, so fsync is not.                                          *)
(***************************************************************************)
EXTENDS HotTier, FiniteSets

CONSTANTS Contents,     \* serialized payloads
          Empty, Torn,  \* what open("wb") leaves; one payload over a longer one
          Threads, Procs,
          ProcOf,       \* the process a thread runs in
          Tokens,
          TokenOf,      \* the write_token a thread passes to put_artifact
          Ttls,         \* ttl_seconds a put may ask for; 0 is "never expires"
          MaxClock,     \* bound on time
          Weight,       \* token_weight of a content
          Modes,        \* collectors that may run
          MaxDelete,    \* max_delete of the bounded collector
          MaxFaults     \* bound on crashes and on exhausted time budgets

ASSUME CacheAssumption ==
    /\ Empty \notin Contents /\ Torn \notin Contents /\ Empty # Torn
    /\ ProcOf \in [Threads -> Procs]
    /\ TokenOf \in [Threads -> Tokens]
    /\ Ttls \subseteq Nat /\ MaxClock \in Nat /\ MaxDelete \in Nat
    /\ MaxFaults \in Nat
    /\ Weight \in [Contents -> Nat]
    /\ Modes \subseteq {"bounded", "vacuum", "verify", "cleanup"}

VARIABLES row,         \* key -> metadata row; None when there is none
          dbLock,      \* a collector's BEGIN IMMEDIATE is open
          payload,     \* key -> file at the payload path, or None
          temp,        \* key, token -> file at the temp path, or None
          hot,         \* process -> hot tier
          op,          \* thread -> the call it is in
          gc,          \* the collector
          clock,
          faults,
          written      \* history: key -> payloads ever handed to put_artifact

files == <<payload, temp>>
vars == <<row, dbLock, files, hot, op, gc, clock, faults, written>>

Bytes == Contents \cup {Empty, Torn}
File == [bytes : Bytes, open : SUBSET Threads]

(* A metadata row: payload_sha256 (as the content it digests), expires_at  *)
(* (0 for none) and orphaned.                                              *)
Rows == [content : Contents, exp : Nat, orphaned : BOOLEAN]

(* What a hot tier holds under a key. *)
Held == [content : Bytes, weight : Nat]

ASSUME NoneAssumption ==
    /\ None \notin Keys /\ None \notin Bytes /\ None \notin Rows
    /\ None \notin File /\ None \notin Held

Expired(r) == r # None /\ r.exp # 0 /\ r.exp <= clock

(* A row get_artifact may answer from. *)
Ready(r) == r # None /\ ~r.orphaned

NoOp == [pc |-> "idle", key |-> None, content |-> None, exp |-> 0,
         entry |-> None, seen |-> None]

NoGc == [pc |-> "idle", mode |-> "none", left |-> 0, todo |-> {},
         expired |-> {}, deleted |-> {}, refs |-> {}, missing |-> {}]

Init ==
    /\ row = [k \in Keys |-> None]
    /\ dbLock = FALSE
    /\ payload = [k \in Keys |-> None]
    /\ temp = [k \in Keys |-> [w \in Tokens |-> None]]
    /\ hot = [p \in Procs |-> EmptyTier]
    /\ op = [t \in Threads |-> NoOp]
    /\ gc = NoGc
    /\ clock = 0
    /\ faults = 0
    /\ written = [k \in Keys |-> {}]

------------------------------------------------------------------------------
(* Helpers of the calls. *)

At(t, where) == op[t].pc = where

(* The call of t goes on to a step. *)
Goto(t, where) == op' = [op EXCEPT ![t].pc = where]

(* The call of t returns, or raises. *)
Return(t) == op' = [op EXCEPT ![t] = NoOp]

(* load_entry then upsert_entry run in their own connections; an upsert    *)
(* waits for a collector's transaction.                                    *)
Upsert(k, r) == ~dbLock /\ row' = [row EXCEPT ![k] = r]

(* What a write or a close by t does to a file it may hold open. *)
Written(f, t, b) ==
    IF f = None \/ t \notin f.open THEN f
    ELSE [bytes |-> b, open |-> f.open \ {t}]

------------------------------------------------------------------------------
(* put_artifact. *)

PutLoad(t, k, c, ttl) ==
    /\ At(t, "idle")
    /\ op' = [op EXCEPT ![t] = [NoOp EXCEPT !.pc = "put_check", !.key = k,
                                !.content = c, !.exp = ttl, !.entry = row[k]]]
    /\ written' = [written EXCEPT ![k] = @ \cup {c}]
    /\ UNCHANGED <<row, dbLock, files, hot, gc, clock, faults>>

(* A row that is not orphaned and whose file is there is kept as it is,    *)
(* expired or not.                                                         *)
PutKeep(t) ==
    /\ At(t, "put_check")
    /\ Ready(op[t].entry) /\ payload[op[t].key] # None
    /\ Return(t)
    /\ UNCHANGED <<row, dbLock, files, hot, gc, clock, faults, written>>

(* Mutant: the time to live is taken off the clock. *)
PutBeginTtlSign(t) ==
    /\ At(t, "put_check")
    /\ ~(Ready(op[t].entry) /\ payload[op[t].key] # None)
    /\ op' = [op EXCEPT ![t].pc = "put_open", ![t].entry = None,
                        ![t].exp = IF @ = 0 THEN 0 ELSE clock - @]
    /\ UNCHANGED <<row, dbLock, files, hot, gc, clock, faults, written>>

(* Otherwise now is read and the temp directory made. *)
PutBegin(t) ==
    /\ At(t, "put_check")
    /\ ~(Ready(op[t].entry) /\ payload[op[t].key] # None)
    /\ op' = [op EXCEPT ![t].pc = "put_open", ![t].entry = None,
                        ![t].exp = IF @ = 0 THEN 0 ELSE clock + @]
    /\ UNCHANGED <<row, dbLock, files, hot, gc, clock, faults, written>>

(* open("wb"): creates the temp file, or truncates the one that is there.  *)
PutOpen(t) ==
    LET k == op[t].key
        w == TokenOf[t]
        others == IF temp[k][w] = None THEN {} ELSE temp[k][w].open
    IN  /\ At(t, "put_open")
        /\ temp' = [temp EXCEPT ![k][w] = [bytes |-> Empty, open |-> others \cup {t}]]
        /\ Goto(t, "put_write")
        /\ UNCHANGED <<row, dbLock, payload, hot, gc, clock, faults, written>>

(* write, flush and fsync from offset 0, close, and the payload directory. *)
(* Another payload already in the file is overwritten or, when longer,     *)
(* sticks out behind this one.  The file may have been moved to the        *)
(* payload path, or unlinked, since it was opened.                         *)
PutWrite(t) ==
    LET k == op[t].key
        w == TokenOf[t]
        c == op[t].content
        held == IF temp[k][w] # None /\ t \in temp[k][w].open
                THEN temp[k][w] ELSE payload[k]
        over == held # None /\ t \in held.open /\ held.bytes \notin {Empty, c}
    IN  /\ At(t, "put_write")
        /\ \E b \in {c} \cup (IF over THEN {Torn} ELSE {}) :
              /\ temp' = [temp EXCEPT ![k][w] = Written(@, t, b)]
              /\ payload' = [payload EXCEPT ![k] = Written(@, t, b)]
        /\ Goto(t, "put_replace")
        /\ UNCHANGED <<row, dbLock, hot, gc, clock, faults, written>>

(* Mutant: the temp file is renamed before it is written. *)
PutReplaceEarly(t) ==
    LET k == op[t].key
        w == TokenOf[t]
    IN  /\ At(t, "put_write")
        /\ temp[k][w] # None
        /\ payload' = [payload EXCEPT ![k] = temp[k][w]]
        /\ temp' = [temp EXCEPT ![k][w] = None]
        /\ Goto(t, "put_commit")
        /\ UNCHANGED <<row, dbLock, hot, gc, clock, faults, written>>

(* os.replace: the payload path now names whatever the temp path named. *)
PutReplace(t) ==
    LET k == op[t].key
        w == TokenOf[t]
    IN  /\ At(t, "put_replace")
        /\ temp[k][w] # None
        /\ payload' = [payload EXCEPT ![k] = temp[k][w]]
        /\ temp' = [temp EXCEPT ![k][w] = None]
        /\ Goto(t, "put_commit")
        /\ UNCHANGED <<row, dbLock, hot, gc, clock, faults, written>>

(* Mutant: the row is committed before the rename. *)
PutCommitEarly(t) ==
    /\ At(t, "put_replace")
    /\ Upsert(op[t].key, [content |-> op[t].content, exp |-> op[t].exp,
                          orphaned |-> FALSE])
    /\ op' = [op EXCEPT ![t].pc = "put_fill", ![t].exp = 0]
    /\ UNCHANGED <<dbLock, files, hot, gc, clock, faults, written>>

PutCommit(t) ==
    /\ At(t, "put_commit")
    /\ Upsert(op[t].key, [content |-> op[t].content, exp |-> op[t].exp,
                          orphaned |-> FALSE])
    /\ op' = [op EXCEPT ![t].pc = "put_fill", ![t].exp = 0]
    /\ UNCHANGED <<dbLock, files, hot, gc, clock, faults, written>>

PutFill(t) ==
    /\ At(t, "put_fill")
    /\ hot' = [hot EXCEPT ![ProcOf[t]] =
                  HotPut(@, op[t].key, op[t].content, Weight[op[t].content])]
    /\ Return(t)
    /\ UNCHANGED <<row, dbLock, files, gc, clock, faults, written>>

------------------------------------------------------------------------------
(* get_artifact. *)

(* load_entry, then the first early return: no row, orphaned or expired. *)
GetLoad(t, k) ==
    /\ At(t, "idle")
    /\ op' = [op EXCEPT ![t] =
                 IF Ready(row[k]) /\ ~Expired(row[k])
                 THEN [NoOp EXCEPT !.pc = "get_hot", !.key = k, !.entry = row[k]]
                 ELSE NoOp]
    /\ UNCHANGED <<row, dbLock, files, hot, gc, clock, faults, written>>

GetHot(t) ==
    LET k == op[t].key
        p == ProcOf[t]
    IN  /\ At(t, "get_hot")
        /\ hot' = [hot EXCEPT ![p] = HotTouch(@, k)]
        /\ op' = [op EXCEPT ![t] =
                     IF HotLookup(hot[p], k) = None
                     THEN [@ EXCEPT !.pc = "get_stat"]
                     ELSE [@ EXCEPT !.pc = "get_touch",
                                    !.seen = HotLookup(hot[p], k).content]]
        /\ UNCHANGED <<row, dbLock, files, gc, clock, faults, written>>

(* The hot hit refreshes the row it loaded and answers. *)
GetTouch(t) ==
    /\ At(t, "get_touch")
    /\ Upsert(op[t].key, op[t].entry)
    /\ Return(t)
    /\ UNCHANGED <<dbLock, files, hot, gc, clock, faults, written>>

GetStat(t) ==
    /\ At(t, "get_stat")
    /\ Goto(t, IF payload[op[t].key] = None THEN "get_orphan" ELSE "get_read")
    /\ UNCHANGED <<row, dbLock, files, hot, gc, clock, faults, written>>

(* Mutant: whatever bytes the file has are taken for its payload. *)
GetReadUnparsed(t) ==
    LET k == op[t].key
    IN  /\ At(t, "get_read")
        /\ op' = [op EXCEPT ![t] =
                     IF payload[k] = None
                     THEN [@ EXCEPT !.pc = "get_orphan"]
                     ELSE [@ EXCEPT !.pc = "get_refresh", !.seen = payload[k].bytes]]
        /\ UNCHANGED <<row, dbLock, files, hot, gc, clock, faults, written>>

(* _load_payload: a file that has gone, is empty or does not parse is None. *)
GetRead(t) ==
    LET k == op[t].key
        b == IF payload[k] = None THEN Empty ELSE payload[k].bytes
    IN  /\ At(t, "get_read")
        /\ op' = [op EXCEPT ![t] =
                     IF b \in {Empty, Torn}
                     THEN [@ EXCEPT !.pc = "get_orphan"]
                     ELSE [@ EXCEPT !.pc = "get_refresh", !.seen = b]]
        /\ UNCHANGED <<row, dbLock, files, hot, gc, clock, faults, written>>

(* missing_payload or invalid_payload: the row loaded is written back with *)
(* orphaned set, over whatever row is there by now.                        *)
GetOrphan(t) ==
    /\ At(t, "get_orphan")
    /\ Upsert(op[t].key, [op[t].entry EXCEPT !.orphaned = TRUE])
    /\ Return(t)
    /\ UNCHANGED <<dbLock, files, hot, gc, clock, faults, written>>

GetRefresh(t) ==
    /\ At(t, "get_refresh")
    /\ Upsert(op[t].key, op[t].entry)
    /\ Goto(t, "get_fill")
    /\ UNCHANGED <<dbLock, files, hot, gc, clock, faults, written>>

GetFill(t) ==
    /\ At(t, "get_fill")
    /\ hot' = [hot EXCEPT ![ProcOf[t]] =
                  HotPut(@, op[t].key, op[t].seen, Weight[op[t].entry.content])]
    /\ Return(t)
    /\ UNCHANGED <<row, dbLock, files, gc, clock, faults, written>>

------------------------------------------------------------------------------
(* Exceptions that leave a call: a temp file that another writer moved or  *)
(* a collector unlinked, an upsert that outwaits its busy timeout, a torn  *)
(* file that is not UTF-8.                                                 *)
Raises(t) ==
    LET k == op[t].key
    IN  \/ At(t, "put_replace") /\ temp[k][TokenOf[t]] = None
        \/ /\ op[t].pc \in {"put_commit", "get_touch", "get_orphan", "get_refresh"}
           /\ dbLock
        \/ At(t, "get_read") /\ payload[k] # None /\ payload[k].bytes = Torn

Abort(t) ==
    /\ Raises(t)
    /\ Return(t)
    /\ UNCHANGED <<row, dbLock, files, hot, gc, clock, faults, written>>

(* A process is killed: its calls and its hot tier are gone, its handles   *)
(* are closed, files stay.                                                 *)
Crash(p) ==
    LET dead == {t \in Threads : ProcOf[t] = p}
        closed(f) == IF f = None THEN None ELSE [f EXCEPT !.open = @ \ dead]
    IN  /\ faults < MaxFaults
        /\ faults' = faults + 1
        /\ op' = [t \in Threads |-> IF t \in dead THEN NoOp ELSE op[t]]
        /\ hot' = [hot EXCEPT ![p] = EmptyTier]
        /\ payload' = [k \in Keys |-> closed(payload[k])]
        /\ temp' = [k \in Keys |-> [w \in Tokens |-> closed(temp[k][w])]]
        /\ UNCHANGED <<row, dbLock, gc, clock, written>>

Tick ==
    /\ clock < MaxClock
    /\ clock' = clock + 1
    /\ UNCHANGED <<row, dbLock, files, hot, op, gc, faults, written>>

------------------------------------------------------------------------------
(* The collectors.  run_bounded_stage_artifact_cache_gc ("bounded") sweeps *)
(* temp files, then expired rows, then unreferenced payloads;              *)
(* vacuum_stage_artifact_cache ("vacuum") works from one report;           *)
(* verify_stage_artifact_cache ("verify") only reports;                    *)
(* cleanup_temp_payloads ("cleanup") only sweeps temp files.               *)

GcAt(where) == gc.pc = where

Bounded == gc.mode = "bounded"

(* A phase of the bounded collector starts only with budget left; a time   *)
(* budget that ran out is a delete budget of 0.                            *)
HasBudget == Bounded => gc.left > 0

(* Mutant: the sweep looks under the payload root. *)
TempFilesMissed == {f \in Keys \X Tokens : temp[f[1]][f[2]] # None /\ payload[f[1]] # None}

TempFiles == {f \in Keys \X Tokens : temp[f[1]][f[2]] # None}

GcStart(m) ==
    /\ GcAt("idle") /\ m \in Modes
    /\ gc' = [NoGc EXCEPT !.mode = m, !.left = MaxDelete,
                !.pc = IF m \in {"bounded", "cleanup"} THEN "temps" ELSE "load",
                !.todo = IF m \in {"bounded", "cleanup"} THEN TempFiles ELSE {}]
    /\ UNCHANGED <<row, dbLock, files, hot, op, clock, faults, written>>

(* unlink(missing_ok=True) of one temp file, even of one still being written. *)
GcTemp(f) ==
    /\ GcAt("temps") /\ f \in gc.todo /\ HasBudget
    /\ temp' = [temp EXCEPT ![f[1]][f[2]] = None]
    /\ gc' = [gc EXCEPT !.todo = @ \ {f}, !.left = IF Bounded THEN @ - 1 ELSE @]
    /\ UNCHANGED <<row, dbLock, payload, hot, op, clock, faults, written>>

GcTempsDone ==
    /\ GcAt("temps") /\ (gc.todo = {} \/ ~HasBudget)
    /\ gc' = [gc EXCEPT !.pc = IF Bounded /\ HasBudget THEN "load" ELSE "prune",
                        !.todo = {}]
    /\ UNCHANGED <<row, dbLock, files, hot, op, clock, faults, written>>

(* _load_entries: which rows are expired and which payloads are referenced. *)
GcLoad ==
    /\ GcAt("load")
    /\ gc' = [gc EXCEPT !.pc = IF Bounded THEN "begin" ELSE "scan",
                        !.expired = {k \in Keys : Expired(row[k])},
                        !.refs = IF Bounded THEN {}
                                 ELSE {k \in Keys : row[k] # None}]
    /\ UNCHANGED <<row, dbLock, files, hot, op, clock, faults, written>>

(* The report of verify: rows without a payload, payloads without a row.   *)
(* vacuum goes on from it; a verification ends here.                       *)
GcScan ==
    /\ GcAt("scan")
    /\ gc' = [gc EXCEPT
                !.missing = {k \in gc.refs : payload[k] = None},
                !.todo = {k \in Keys : payload[k] # None} \ gc.refs,
                !.refs = {},
                !.pc = IF gc.mode = "verify" THEN "reported"
                       ELSE IF gc.expired = {} THEN "unlink" ELSE "begin"]
    /\ UNCHANGED <<row, dbLock, files, hot, op, clock, faults, written>>

GcReported ==
    /\ GcAt("reported")
    /\ gc' = NoGc
    /\ UNCHANGED <<row, dbLock, files, hot, op, clock, faults, written>>

GcBegin ==
    /\ GcAt("begin") /\ ~dbLock
    /\ dbLock' = TRUE
    /\ gc' = [gc EXCEPT !.pc = "expire"]
    /\ UNCHANGED <<row, files, hot, op, clock, faults, written>>

(* One expired row: its file is unlinked now, its row at COMMIT. *)
GcExpire(k) ==
    /\ GcAt("expire") /\ k \in gc.expired /\ HasBudget
    /\ payload' = [payload EXCEPT ![k] = None]
    /\ gc' = [gc EXCEPT !.expired = @ \ {k}, !.deleted = @ \cup {k},
                        !.left = IF Bounded THEN @ - 1 ELSE @]
    /\ UNCHANGED <<row, dbLock, temp, hot, op, clock, faults, written>>

(* Mutant: the transaction is closed without its COMMIT. *)
GcCommitLost ==
    /\ GcAt("expire") /\ (gc.expired = {} \/ ~HasBudget)
    /\ dbLock' = FALSE
    /\ gc' = [gc EXCEPT !.expired = {}, !.deleted = {},
                        !.pc = IF ~Bounded THEN "unlink"
                               ELSE IF HasBudget THEN "refs" ELSE "prune"]
    /\ UNCHANGED <<row, files, hot, op, clock, faults, written>>

GcCommit ==
    /\ GcAt("expire") /\ (gc.expired = {} \/ ~HasBudget)
    /\ row' = [k \in Keys |-> IF k \in gc.deleted THEN None ELSE row[k]]
    /\ dbLock' = FALSE
    /\ gc' = [gc EXCEPT !.expired = {}, !.deleted = {},
                        !.pc = IF ~Bounded THEN "unlink"
                               ELSE IF HasBudget THEN "refs" ELSE "prune"]
    /\ UNCHANGED <<files, hot, op, clock, faults, written>>

(* The bounded collector reads the referenced set afresh ... *)
GcRefs ==
    /\ GcAt("refs")
    /\ gc' = [gc EXCEPT !.pc = "list", !.refs = {k \in Keys : row[k] # None}]
    /\ UNCHANGED <<row, dbLock, files, hot, op, clock, faults, written>>

(* Mutant: the referenced set is the set of all payloads listed. *)
GcListNothing ==
    /\ GcAt("list")
    /\ gc' = [gc EXCEPT !.pc = "unlink", !.todo = {}, !.refs = {}]
    /\ UNCHANGED <<row, dbLock, files, hot, op, clock, faults, written>>

(* ... and then lists the payload files. *)
GcList ==
    /\ GcAt("list")
    /\ gc' = [gc EXCEPT !.pc = "unlink",
                        !.todo = {k \in Keys : payload[k] # None} \ gc.refs,
                        !.refs = {}]
    /\ UNCHANGED <<row, dbLock, files, hot, op, clock, faults, written>>

GcUnlink(k) ==
    /\ GcAt("unlink") /\ k \in gc.todo /\ HasBudget
    /\ payload' = [payload EXCEPT ![k] = None]
    /\ gc' = [gc EXCEPT !.todo = @ \ {k}, !.left = IF Bounded THEN @ - 1 ELSE @]
    /\ UNCHANGED <<row, dbLock, temp, hot, op, clock, faults, written>>

GcUnlinkDone ==
    /\ GcAt("unlink") /\ (gc.todo = {} \/ ~HasBudget)
    /\ gc' = [gc EXCEPT !.pc = "prune", !.todo = {}]
    /\ UNCHANGED <<row, dbLock, files, hot, op, clock, faults, written>>

(* _prune_empty_dirs: vacuum prunes the payload root, cleanup the temp     *)
(* root, the bounded collector both.  A writer between its mkdir and its   *)
(* open or os.replace loses the empty directory under it and raises,       *)
(* unless another writer makes the directory again in time.                *)
GcPrune ==
    LET exposed ==
          {t \in Threads :
             \/ /\ At(t, "put_open") /\ gc.mode # "vacuum"
                /\ \A w \in Tokens : temp[op[t].key][w] = None
             \/ /\ At(t, "put_replace") /\ gc.mode # "cleanup"
                /\ payload[op[t].key] = None}
    IN  /\ GcAt("prune")
        /\ \E raised \in SUBSET exposed :
              op' = [t \in Threads |-> IF t \in raised THEN NoOp ELSE op[t]]
        /\ gc' = NoGc
        /\ UNCHANGED <<row, dbLock, files, hot, clock, faults, written>>

(* The bounded collector's time runs out before its next deletion. *)
GcExhaust ==
    /\ Bounded /\ gc.pc \in {"temps", "expire", "unlink"} /\ gc.left > 0
    /\ faults < MaxFaults
    /\ faults' = faults + 1
    /\ gc' = [gc EXCEPT !.left = 0]
    /\ UNCHANGED <<row, dbLock, files, hot, op, clock, written>>

(* The collector's process is killed, or an unlink raises: an open         *)
(* transaction rolls back, the files it unlinked stay unlinked.            *)
GcCrash ==
    /\ ~GcAt("idle")
    /\ faults < MaxFaults
    /\ faults' = faults + 1
    /\ gc' = NoGc
    /\ dbLock' = FALSE
    /\ UNCHANGED <<row, files, hot, op, clock, written>>

------------------------------------------------------------------------------
PutStep(t) ==
    \/ PutKeep(t) \/ PutBegin(t) \/ PutOpen(t) \/ PutWrite(t)
    \/ PutReplace(t) \/ PutCommit(t) \/ PutFill(t)

GetStep(t) ==
    \/ GetHot(t) \/ GetTouch(t) \/ GetStat(t) \/ GetRead(t)
    \/ GetOrphan(t) \/ GetRefresh(t) \/ GetFill(t)

GcStep ==
    \/ \E f \in Keys \X Tokens : GcTemp(f)
    \/ \E k \in Keys : GcExpire(k) \/ GcUnlink(k)
    \/ GcTempsDone \/ GcLoad \/ GcScan \/ GcReported \/ GcBegin \/ GcCommit
    \/ GcRefs \/ GcList \/ GcUnlinkDone \/ GcPrune

Next ==
    \/ \E t \in Threads :
          \/ \E k \in Keys, c \in Contents, ttl \in Ttls : PutLoad(t, k, c, ttl)
          \/ \E k \in Keys : GetLoad(t, k)
          \/ PutStep(t) \/ GetStep(t) \/ Abort(t)
    \/ \E m \in Modes : GcStart(m)
    \/ GcStep
    \/ GcExhaust
    \/ GcCrash
    \/ \E p \in Procs : Crash(p)
    \/ Tick

Spec == Init /\ [][Next]_vars

(* Sessions keep ending, so the bounded collector keeps being invoked      *)
(* (the shutdown hook of runtime_manager.py); calls that began go on, and  *)
(* time passes.  No thread is obliged to begin a call.                     *)
Fairness ==
    /\ \A t \in Threads : WF_vars(PutStep(t) \/ GetStep(t) \/ Abort(t))
    /\ WF_vars(GcStep)
    /\ WF_vars(GcStart("bounded"))
    /\ WF_vars(Tick)

FairSpec == Spec /\ Fairness

------------------------------------------------------------------------------
(* What a caller of the cache can rely on: a store of payloads per key     *)
(* that may forget, and whose answers come from the payloads of the key.   *)
Lossy == INSTANCE LossyCache WITH
    given  <- written,
    answer <- [t \in Threads |->
                 IF op[t].seen = None THEN None
                 ELSE [key |-> op[t].key, content |-> op[t].seen]]

(* The cache with its files, rows, hot tiers and collectors implements the *)
(* lossy store: every step of every actor is one of its steps or invisible *)
(* to callers.                                                             *)
LossySpec == Lossy!Spec

------------------------------------------------------------------------------
(* Properties. *)

Ops == [pc : {"idle", "put_check", "put_open", "put_write", "put_replace",
              "put_commit", "put_fill", "get_hot", "get_touch", "get_stat",
              "get_read", "get_orphan", "get_refresh", "get_fill"},
        key : Keys \cup {None}, content : Contents \cup {None}, exp : Nat,
        entry : Rows \cup {None}, seen : Bytes \cup {None}]

(* Every variable has its type. *)
TypeOK ==
    /\ row \in [Keys -> Rows \cup {None}]
    /\ dbLock \in BOOLEAN
    /\ payload \in [Keys -> File \cup {None}]
    /\ temp \in [Keys -> [Tokens -> File \cup {None}]]
    /\ \A p \in Procs :
          hot[p].held \in [Keys -> Held \cup {None}]
    /\ op \in [Threads -> Ops]
    /\ clock \in 0..MaxClock /\ faults \in 0..MaxFaults
    /\ written \in [Keys -> SUBSET Contents]

(* A hit of get_artifact answers with one whole payload that some          *)
(* put_artifact was given for that very key: never a truncated or mixed    *)
(* file, whatever writers share the temp path, whatever a collector        *)
(* unlinks and wherever a process is killed.                               *)
HitsWhole ==
    \A t \in Threads : op[t].seen # None => op[t].seen \in written[op[t].key]

(* Atomic publication: while every writer has a temp path of its own       *)
(* (write_token), the file at a payload path always holds one whole        *)
(* payload put for its key, at every instant and under every collector.    *)
PayloadWhole ==
    \A k \in Keys : payload[k] # None => payload[k].bytes \in written[k]

(* The write order: a row get_artifact may answer from has its payload     *)
(* file, as long as no collector runs, because os.replace precedes the     *)
(* commit of the row, and a refresh only writes back a row that had one.   *)
ReadyHasPayload ==
    \A k \in Keys : Ready(row[k]) => payload[k] # None

(* A key does not stay dead: put_artifact keeps an expired row as it is    *)
(* and get_artifact misses on it, so every expired row must in the end be  *)
(* collected, also the ones a slow get_artifact writes back.               *)
ExpiredReclaimed ==
    \A k \in Keys : Expired(row[k]) ~> ~Expired(row[k])

(* A payload file whose row was never committed (its writer was killed) or *)
(* has been deleted is in the end unlinked or gets a row.                  *)
OrphanFilesReclaimed ==
    \A k \in Keys :
        (payload[k] # None /\ row[k] = None) ~> (payload[k] = None \/ row[k] # None)

(* Temp files left behind by killed writers are swept.                     *)
TempsReclaimed ==
    \A k \in Keys, w \in Tokens : temp[k][w] # None ~> temp[k][w] = None

(* "Keep ready payloads immutable and only reclaim orphaned payloads       *)
(* through explicit GC." (stage_artifact_cache_store.py:66): no collector  *)
(* unlinks the payload of a row that is ready and has not expired.         *)
GcSparesReady ==
    [][\A k \in Keys :
          payload[k] # None /\ payload'[k] = None
          => ~Ready(row[k]) \/ Expired(row[k])]_vars
==============================================================================
