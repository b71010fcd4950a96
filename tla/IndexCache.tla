----------------------------- MODULE IndexCache -----------------------------
(***************************************************************************)
(* The git-aware index cache (index_cache.py, with update_index and        *)
(* build_index of indexer.py): a saved index of the source files, labelled *)
(* with the commit it belongs to, that a call of build_or_refresh_index    *)
(* brings up to date by parsing only what git reports as changed, while    *)
(* the user edits and commits and other calls do the same.                 *)
(*                                                                         *)
(* A path's history is the sequence of its contents; its position in the   *)
(* sequence is a version, and stands for the file's modification time and  *)
(* size.  A commit names one version of every path.  The in-memory copy of *)
(* the index file (_INDEX_MEMORY_CACHE) is used only while the file has    *)
(* the modification time it was read at, so it is the file, and has no     *)
(* state of its own here.                                                  *)
(***************************************************************************)
EXTENDS Integers, Sequences

CONSTANTS Files,     \* source files
          Ignore,    \* the .aceignore file
          Nested,    \* files alone in a directory, which git status reports
                     \* instead of them while they are not in a commit
          Directory, \* how git status names that directory
          Start,     \* path -> its content in the beginning
          HiddenBy,  \* content of Ignore -> files it keeps out of the index
          Importers, \* file -> files that import it
          Callers,   \* calls of build_or_refresh_index, in processes of their own
          MaxEdits,  \* bound on the edits and commits of the user
          Flaws,     \* what may happen of {"undo", "race", "unborn"}
          None, Torn

Paths == Files \cup {Ignore}
Contents == {None} \cup 0 .. MaxEdits

ASSUME IndexCacheConstants ==
    /\ Ignore \notin Files
    /\ Nested \subseteq Files
    /\ Directory \notin Paths
    /\ MaxEdits \in Nat
    /\ None \notin Nat
    /\ Start \in [Paths -> {None, 0}]
    /\ HiddenBy \in [Contents -> SUBSET Files]
    /\ Importers \in [Files -> SUBSET Files]
    /\ Flaws \subseteq {"undo", "race", "unborn"}

Versions == 1 .. MaxEdits + 1
Commits == 1 .. MaxEdits + 1

(***************************************************************************)
(* An entry holds what was read of a file and the fingerprint taken after. *)
(* An index is labelled 0 when the commit was not known.                   *)
(***************************************************************************)
Entries == [read : Versions, stat : {0} \cup Versions]
Indexes == [sha : {0} \cup Commits, ign : {0} \cup Versions,
            files : [Files -> {None} \cup Entries]]

Reads == [file : Files, read : Versions]

ASSUME Sentinels ==
    /\ None \notin Entries \cup Indexes \cup Reads
    /\ Torn \notin Indexes \cup {None}

Steps == {"idle", "load", "bridge", "status", "decide", "scan", "update",
          "build", "save", "write", "done"}

VARIABLES past,    \* path -> the contents it has had, the last is its own
          trees,   \* the commits, the last is HEAD; each path -> its version
          edits,   \* number of the user's edits and commits
          disk,    \* the index file: None, Torn or an index
          memo,    \* caller -> git status its process remembers
          op,      \* caller -> progress of its call
          writers, \* callers that hold the index file open for writing
          crossed, \* those of them whose writing overlapped another's
          sure     \* history: git answered every call, and no commit fell in one

vars == <<past, trees, edits, disk, memo, op, writers, crossed, sure>>
user == <<past, trees, edits>>
file == <<disk, writers, crossed>>

-----------------------------------------------------------------------------
(* The worktree and git. *)

Now(p) == Len(past[p])
Text(p, v) == past[p][v]
Present(p) == Text(p, Now(p)) # None
HeadSha == Len(trees)
Hidden == HiddenBy[Text(Ignore, Now(Ignore))]

(* The content of a path in a commit; commit 0 is a repository without any. *)
InCommit(c, p) == IF c = 0 THEN None ELSE Text(p, trees[c][p])

(* _current_aceignore_state *)
IgnoreState == IF Present(Ignore) THEN Now(Ignore) ELSE 0

(* git status --porcelain -z *)
Dirty == {p \in Paths : Text(p, Now(p)) # InCommit(HeadSha, p)}
Buried == {p \in Dirty \cap Nested : InCommit(HeadSha, p) = None}
GitStatus == (Dirty \ Buried) \cup {Directory : p \in Buried}

(* git diff --name-status between two commits *)
GitDiff(a, b) == {p \in Paths : InCommit(a, p) # InCommit(b, p)}

-----------------------------------------------------------------------------
Reported == Paths \cup {Directory}

Ops == [pc : Steps, incremental : BOOLEAN, sha : {0} \cup Commits,
        ign : {0} \cup Versions, index : Indexes, bridged : BOOLEAN,
        changed : SUBSET Reported, hidden : SUBSET Files, todo : SUBSET Files,
        parsing : {None} \cup Reads, since : 0 .. MaxEdits, timely : BOOLEAN]

Memos == {None} \cup [head : {0} \cup Commits, paths : SUBSET Reported]

Blank == [sha |-> 0, ign |-> 0, files |-> [f \in Files |-> None]]
Idle == [pc |-> "idle", incremental |-> TRUE, sha |-> 0, ign |-> 0,
         index |-> Blank, bridged |-> FALSE, changed |-> {}, hidden |-> {},
         todo |-> {}, parsing |-> None, since |-> 0, timely |-> TRUE]

Init ==
    /\ past = [p \in Paths |-> <<Start[p]>>]
    /\ trees = IF "unborn" \in Flaws THEN <<>> ELSE <<[p \in Paths |-> 1]>>
    /\ edits = 0
    /\ disk = None
    /\ memo = [c \in Callers |-> None]
    /\ op = [c \in Callers |-> Idle]
    /\ writers = {}
    /\ crossed = {}
    /\ sure = TRUE

(***************************************************************************)
(* The user.  A path gets a content it never had, or is deleted for the    *)
(* first time; with "undo" it may get an earlier content back, or be       *)
(* deleted again.  Without "race" no edit of a file falls between the read *)
(* and the stat of parse_file.                                             *)
(***************************************************************************)
Fresh(p, t) == \A v \in 1 .. Now(p) : Text(p, v) # t

Edit(p, t) ==
    /\ edits < MaxEdits
    /\ t # Text(p, Now(p))
    /\ t \in {None, edits + 1} \/ ~ Fresh(p, t)
    /\ "undo" \notin Flaws => Fresh(p, t)
    /\ "race" \notin Flaws =>
          \A c \in Callers : op[c].parsing # None => op[c].parsing.file # p
    /\ past' = [past EXCEPT ![p] = Append(@, t)]
    /\ edits' = edits + 1
    /\ UNCHANGED <<trees, disk, memo, op, writers, crossed, sure>>

Commit(S) ==
    /\ edits < MaxEdits
    /\ S # {} /\ S \subseteq Dirty
    /\ trees' = Append(trees, [p \in Paths |->
                   IF p \in S \/ HeadSha = 0 THEN Now(p) ELSE trees[HeadSha][p]])
    /\ edits' = edits + 1
    /\ sure' = (sure /\ \A c \in Callers : op[c].pc \in {"idle", "done"})
    /\ UNCHANGED <<past, disk, memo, op, writers, crossed>>

-----------------------------------------------------------------------------
(* A call. *)

At(c, s) == op[c].pc = s
Set(c, r) == op' = [op EXCEPT ![c] = r]

Begin(c, incremental) ==
    /\ op[c].pc \in {"idle", "done"}
    /\ Set(c, [Idle EXCEPT !.pc = "load", !.incremental = incremental,
                           !.sha = HeadSha, !.ign = IgnoreState, !.since = edits])
    /\ UNCHANGED <<user, file, memo, sure>>

(* load_index_cache: without a commit id on either side there is nothing   *)
(* to compare, and the index is taken (a call that had found none looks    *)
(* again).  A call that is not incremental returns it, and ends.           *)
Legible == disk \notin {None, Torn}

(* Mutant: the index of any commit is taken. *)
MatchesAny(sha) == TRUE

Matches(sha) ==
    LET current == IF sha = 0 THEN HeadSha ELSE sha
    IN  current = 0 \/ disk.sha \in {0, current}

Load(c) ==
    /\ At(c, "load")
    /\ LET o == op[c] IN
       Set(c, IF Legible /\ Matches(o.sha)
              THEN IF o.incremental
                   THEN [o EXCEPT !.pc = "status", !.index = disk] ELSE Idle
              ELSE [o EXCEPT !.pc = IF o.incremental THEN "bridge" ELSE "scan"])
    /\ UNCHANGED <<user, file, memo, sure>>

(* An index of another commit is kept if git can tell what has changed in  *)
(* between; git may fail or time out.                                      *)
Bridgeable(sha) == Legible /\ disk.sha # 0 /\ sha # 0 /\ disk.sha # sha

(* Mutant: what git says of the commits in between is lost. *)
BridgeWithoutDiff(c) ==
    /\ At(c, "bridge")
    /\ Bridgeable(op[c].sha)
    /\ Set(c, [op[c] EXCEPT !.pc = "status", !.index = disk, !.bridged = TRUE])
    /\ UNCHANGED <<user, file, memo, sure>>

Bridge(c) ==
    /\ At(c, "bridge")
    /\ Bridgeable(op[c].sha)
    /\ Set(c, [op[c] EXCEPT !.pc = "status", !.index = disk, !.bridged = TRUE,
                            !.changed = GitDiff(disk.sha, op[c].sha)])
    /\ UNCHANGED <<user, file, memo, sure>>

BridgeFails(c) ==
    /\ At(c, "bridge")
    /\ Set(c, [op[c] EXCEPT !.pc = "scan"])
    /\ UNCHANGED <<user, file, memo, sure>>

(***************************************************************************)
(* detect_changed_files_from_git.  What git said is remembered, and found  *)
(* again as long as HEAD is the same and nobody waited longer than the     *)
(* time to live between two uses; a failure says that nothing has changed. *)
(***************************************************************************)
(* Mutant: git status replaces git diff. *)
ToldOnly(c, S, timely) ==
    Set(c, [op[c] EXCEPT !.pc = "decide", !.changed = S, !.timely = timely])

Told(c, S, timely) ==
    Set(c, [op[c] EXCEPT !.pc = "decide", !.changed = @ \cup S, !.timely = timely])

Status(c) ==
    /\ At(c, "status")
    /\ Told(c, GitStatus, TRUE)
    /\ memo' = [memo EXCEPT ![c] = [head |-> HeadSha, paths |-> GitStatus]]
    /\ UNCHANGED <<user, file, sure>>

StatusRemembered(c) ==
    /\ At(c, "status")
    /\ memo[c] # None /\ memo[c].head = HeadSha
    /\ Told(c, memo[c].paths, FALSE)
    /\ sure' = FALSE
    /\ UNCHANGED <<user, file, memo>>

StatusFails(c) ==
    /\ At(c, "status")
    /\ Told(c, {}, FALSE)
    /\ sure' = FALSE
    /\ UNCHANGED <<user, file, memo>>

-----------------------------------------------------------------------------
(* What a call does with the changes. *)

(* Mutant: only whether there is an .aceignore is compared. *)
IgnoreAppeared(o) ==
    Ignore \in o.changed /\ (o.index.ign = 0 <=> IgnoreState # 0)

IgnoreMoved(o) == Ignore \in o.changed /\ o.index.ign # IgnoreState

(* _file_fingerprint of a file, or 0 if there is none *)
Fingerprint(f) == IF Present(f) THEN Now(f) ELSE 0

SameAsIndexed(index, f) ==
    index.files[f] # None /\ index.files[f].stat = Fingerprint(f)

(* _filter_index_changed_files and _filter_effective_index_changes *)
Effective(o) ==
    {f \in o.changed \cap Files :
        IF Present(f) THEN ~ SameAsIndexed(o.index, f) ELSE o.index.files[f] # None}

(* expand_changed_files_with_reverse_dependencies, at its default depth of 1 *)
Expanded(S) == S \cup UNION {Importers[f] : f \in S}

(* The label of an index refreshed or rebuilt by a call that began at o.sha. *)
Labelled(o) == [o.index EXCEPT !.ign = o.ign,
                               !.sha = IF o.sha = 0 THEN @ ELSE o.sha]

(* _sync_cache_metadata_if_needed *)
Synced(o) ==
    IF Labelled(o) = o.index THEN [o EXCEPT !.pc = "done"]
    ELSE [o EXCEPT !.pc = "save", !.index = Labelled(o)]

Decided(c, o) ==
    /\ At(c, "decide")
    /\ Set(c, [o EXCEPT !.changed = {}, !.bridged = FALSE])
    /\ UNCHANGED <<user, file, memo, sure>>

KeepAll(c) ==
    /\ op[c].changed = {}
    /\ Decided(c, IF op[c].bridged THEN Synced(op[c]) ELSE [op[c] EXCEPT !.pc = "done"])

IgnoreChanged(c) ==
    /\ IgnoreMoved(op[c])
    /\ Decided(c, [op[c] EXCEPT !.pc = "scan"])

NoneEffective(c) ==
    /\ op[c].changed # {}
    /\ ~ IgnoreMoved(op[c])
    /\ Effective(op[c]) = {}
    /\ Decided(c, Synced(op[c]))

(* update_index, before its loop *)
Update(c) ==
    /\ ~ IgnoreMoved(op[c])
    /\ Effective(op[c]) # {}
    /\ Decided(c, [op[c] EXCEPT !.pc = "update", !.hidden = Hidden,
                                !.todo = Expanded(Effective(op[c])),
                                !.index = Labelled(op[c])])

(* build_index, before its loop *)
Build(c) ==
    /\ At(c, "scan")
    /\ Set(c, [op[c] EXCEPT !.pc = "build", !.incremental = TRUE, !.hidden = Hidden,
                            !.todo = {f \in Files : Present(f)} \ Hidden,
                            !.index = Labelled([op[c] EXCEPT !.index = Blank])])
    /\ UNCHANGED <<user, file, memo, sure>>

(***************************************************************************)
(* The loops over files.  update_index drops a file that is gone or hidden *)
(* and skips one that is as indexed; a file that is gone since the scan    *)
(* ends build_index with an error, which is Kill.                          *)
(***************************************************************************)
Parsing(c) == op[c].pc \in {"update", "build"}
Turn(c, f) == Parsing(c) /\ op[c].parsing = None /\ f \in op[c].todo
Wanted(c, f) == Present(f) /\ f \notin op[c].hidden

Skip(c, f) ==
    /\ Turn(c, f) /\ Wanted(c, f)
    /\ SameAsIndexed(op[c].index, f)
    /\ Set(c, [op[c] EXCEPT !.todo = @ \ {f}])
    /\ UNCHANGED <<user, file, memo, sure>>

Drop(c, f) ==
    /\ Turn(c, f) /\ ~ Wanted(c, f)
    /\ At(c, "update")
    /\ Set(c, [op[c] EXCEPT !.todo = @ \ {f}, !.index.files[f] = None])
    /\ UNCHANGED <<user, file, memo, sure>>

ParseRead(c, f) ==
    /\ Turn(c, f) /\ Wanted(c, f)
    /\ ~ SameAsIndexed(op[c].index, f)
    /\ Set(c, [op[c] EXCEPT !.todo = @ \ {f},
                            !.parsing = [file |-> f, read |-> Now(f)]])
    /\ UNCHANGED <<user, file, memo, sure>>

ParseStat(c) ==
    /\ op[c].parsing # None
    /\ LET f == op[c].parsing.file
           entry == [read |-> op[c].parsing.read, stat |-> Fingerprint(f)]
       IN  Set(c, [op[c] EXCEPT !.parsing = None, !.index.files[f] = entry])
    /\ UNCHANGED <<user, file, memo, sure>>

Parsed(c) ==
    /\ Parsing(c) /\ op[c].parsing = None /\ op[c].todo = {}
    /\ Set(c, [op[c] EXCEPT !.pc = "save", !.hidden = {}])
    /\ UNCHANGED <<user, file, memo, sure>>

(***************************************************************************)
(* save_index_cache writes the file in place.  Of writers that overlap,    *)
(* one may leave its index or the bytes of both.                           *)
(***************************************************************************)
SaveOpen(c) ==
    /\ At(c, "save")
    /\ disk' = Torn
    /\ crossed' = IF writers = {} THEN crossed ELSE crossed \cup writers \cup {c}
    /\ writers' = writers \cup {c}
    /\ Set(c, [op[c] EXCEPT !.pc = "write"])
    /\ UNCHANGED <<user, memo, sure>>

(* Mutant: a writer that is done is still counted as one that overlaps. *)
SaveWriteStillCrossed(c) ==
    /\ At(c, "write")
    /\ disk' \in {op[c].index} \cup (IF c \in crossed THEN {Torn} ELSE {})
    /\ writers' = writers \ {c}
    /\ Set(c, [op[c] EXCEPT !.pc = "done"])
    /\ UNCHANGED <<user, memo, sure, crossed>>

SaveWrite(c) ==
    /\ At(c, "write")
    /\ disk' \in {op[c].index} \cup (IF c \in crossed THEN {Torn} ELSE {})
    /\ writers' = writers \ {c}
    /\ crossed' = crossed \ {c}
    /\ Set(c, [op[c] EXCEPT !.pc = "done"])
    /\ UNCHANGED <<user, memo, sure>>

(* The process of a caller is killed, or the call ends in an error, as it  *)
(* does at every load of an index file that is not UTF-8.                  *)
Kill(c) ==
    /\ op[c].pc \notin {"idle", "done"}
    /\ Set(c, Idle)
    /\ memo' \in {memo, [memo EXCEPT ![c] = None]}
    /\ writers' = writers \ {c}
    /\ crossed' = crossed \ {c}
    /\ UNCHANGED <<user, disk, sure>>

CallStep(c) ==
    \/ \E incremental \in BOOLEAN : Begin(c, incremental)
    \/ Load(c)
    \/ Bridge(c) \/ BridgeFails(c)
    \/ Status(c) \/ StatusRemembered(c) \/ StatusFails(c)
    \/ KeepAll(c) \/ IgnoreChanged(c) \/ NoneEffective(c) \/ Update(c) \/ Build(c)
    \/ \E f \in Files : Skip(c, f) \/ Drop(c, f) \/ ParseRead(c, f)
    \/ ParseStat(c) \/ Parsed(c)
    \/ SaveOpen(c) \/ SaveWrite(c)
    \/ Kill(c)

Next ==
    \/ \E p \in Paths, t \in Contents : Edit(p, t)
    \/ \E S \in SUBSET Paths : Commit(S)
    \/ \E c \in Callers : CallStep(c)

Spec == Init /\ [][Next]_vars

-----------------------------------------------------------------------------
TypeOK ==
    /\ past \in [Paths -> Seq(Contents)]
    /\ \A p \in Paths : Now(p) \in 1 .. edits + 1
    /\ trees \in Seq([Paths -> Versions]) /\ HeadSha \in 0 .. edits + 1
    /\ edits \in 0 .. MaxEdits
    /\ disk \in Indexes \cup {None, Torn}
    /\ memo \in [Callers -> Memos]
    /\ op \in [Callers -> Ops]
    /\ crossed \subseteq writers /\ writers \subseteq Callers
    /\ sure \in BOOLEAN

(* What an index says of a file, and what it should say. *)
Said(index, f) ==
    IF index.files[f] = None THEN None ELSE Text(f, index.files[f].read)
Hideable == UNION {HiddenBy[t] : t \in Contents}
Plain == Files \ Hideable

(***************************************************************************)
(* An index labelled with a commit is never behind that commit: of every   *)
(* file it holds the committed content or a later one.  This is what a     *)
(* refresh that asks git only for the changes since that commit relies on. *)
(***************************************************************************)
Reaches(index, f, sha) ==
    \E v \in 1 .. Now(f) : Text(f, v) = Said(index, f)
                            /\ (sha # 0 => v >= trees[sha][f])

LabelReached ==
    /\ Legible => \A f \in Plain : Reaches(disk, f, disk.sha)
    /\ \A c \in Callers : op[c].pc \in {"save", "write", "done"} =>
          \A f \in Plain : Reaches(op[c].index, f, op[c].index.sha)

(***************************************************************************)
(* A call that asked git in time, and during which the user changed        *)
(* nothing, returns an index with every file as it is: "cache hit +        *)
(* changed files -> apply incremental update" of docs/design/              *)
(* INDEXER_DESIGN.md.                                                      *)
(***************************************************************************)
Quiet(c) == op[c].pc = "done" /\ op[c].since = edits

FilesCurrent ==
    \A c \in Callers : Quiet(c) /\ op[c].timely =>
        \A f \in Plain : Said(op[c].index, f) = Text(f, Now(f))

(***************************************************************************)
(* If, besides, git was asked in time by every call so far and no commit   *)
(* fell within a call, an incremental refresh returns what a full build    *)
(* would, the files hidden by .aceignore included.                         *)
(***************************************************************************)
RefreshIsBuild ==
    \A c \in Callers : Quiet(c) /\ sure =>
        \A f \in Files : Said(op[c].index, f) =
                            IF f \in Hidden THEN None ELSE Text(f, Now(f))
=============================================================================
