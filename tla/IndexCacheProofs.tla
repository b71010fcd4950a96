-------------------------- MODULE IndexCacheProofs --------------------------
(***************************************************************************)
(* Proofs about the index cache for any number of files, callers and edits.*)
(* That it is well typed holds whatever the user does.  That an index is   *)
(* never behind its label, and that a refresh is current, is proved for a  *)
(* user who brings no content back and edits no file between its read and  *)
(* its stat, in a repository that has a commit; and from that, that a      *)
(* refresh returns what a full build would, when git was always asked in   *)
(* time and no commit fell within a call.                                  *)
(***************************************************************************)
EXTENDS IndexCache, TLAPS

(***************************************************************************)
(* Type correctness.                                                       *)
(***************************************************************************)

LEMMA OpFields ==
    ASSUME NEW o \in Ops
    PROVE  /\ \A v \in Steps : [o EXCEPT !.pc = v] \in Ops
           /\ \A v \in BOOLEAN : [o EXCEPT !.incremental = v] \in Ops
           /\ \A v \in {0} \cup Commits : [o EXCEPT !.sha = v] \in Ops
           /\ \A v \in {0} \cup Versions : [o EXCEPT !.ign = v] \in Ops
           /\ \A v \in Indexes : [o EXCEPT !.index = v] \in Ops
           /\ \A v \in BOOLEAN : [o EXCEPT !.bridged = v] \in Ops
           /\ \A v \in SUBSET Reported : [o EXCEPT !.changed = v] \in Ops
           /\ \A v \in SUBSET Files : [o EXCEPT !.hidden = v] \in Ops
           /\ \A v \in SUBSET Files : [o EXCEPT !.todo = v] \in Ops
           /\ \A v \in {None} \cup Reads : [o EXCEPT !.parsing = v] \in Ops
           /\ \A v \in 0 .. MaxEdits : [o EXCEPT !.since = v] \in Ops
           /\ \A v \in BOOLEAN : [o EXCEPT !.timely = v] \in Ops
<1>1. \A v \in Steps : [o EXCEPT !.pc = v] \in Ops
  BY DEF Ops
<1>2. \A v \in BOOLEAN : [o EXCEPT !.incremental = v] \in Ops
  BY DEF Ops
<1>3. \A v \in {0} \cup Commits : [o EXCEPT !.sha = v] \in Ops
  BY DEF Ops
<1>4. \A v \in {0} \cup Versions : [o EXCEPT !.ign = v] \in Ops
  BY DEF Ops
<1>5. \A v \in Indexes : [o EXCEPT !.index = v] \in Ops
  BY DEF Ops
<1>6. \A v \in BOOLEAN : [o EXCEPT !.bridged = v] \in Ops
  BY DEF Ops
<1>7. \A v \in SUBSET Reported : [o EXCEPT !.changed = v] \in Ops
  BY DEF Ops
<1>8. \A v \in SUBSET Files : [o EXCEPT !.hidden = v] \in Ops
  BY DEF Ops
<1>9. \A v \in SUBSET Files : [o EXCEPT !.todo = v] \in Ops
  BY DEF Ops
<1>10. \A v \in {None} \cup Reads : [o EXCEPT !.parsing = v] \in Ops
  BY DEF Ops
<1>11. \A v \in 0 .. MaxEdits : [o EXCEPT !.since = v] \in Ops
  BY DEF Ops
<1>12. \A v \in BOOLEAN : [o EXCEPT !.timely = v] \in Ops
  BY DEF Ops
<1> QED
  BY <1>1, <1>2, <1>3, <1>4, <1>5, <1>6, <1>7, <1>8, <1>9, <1>10, <1>11, <1>12

LEMMA IdleTyped == Idle \in Ops /\ Blank \in Indexes
<1>1. Blank \in Indexes
  BY DEF Blank, Indexes
<1> QED
  BY <1>1, IndexCacheConstants DEF Idle, Ops, Steps, Reported, Reads

(* The worktree and git, as the types of TypeOK bound them. *)
LEMMA WorldTyped ==
    ASSUME TypeOK
    PROVE  /\ \A p \in Paths : Now(p) \in Versions /\ past[p] \in Seq(Contents)
           /\ HeadSha \in {0} \cup Commits
           /\ IgnoreState \in {0} \cup Versions
           /\ \A f \in Files : Fingerprint(f) \in {0} \cup Versions
           /\ GitStatus \in SUBSET Reported
           /\ \A x, y : GitDiff(x, y) \in SUBSET Reported
<1>1. edits \in 0 .. MaxEdits /\ MaxEdits \in Nat
  BY IndexCacheConstants DEF TypeOK
<1>2. \A p \in Paths : Now(p) \in Versions /\ past[p] \in Seq(Contents)
  BY <1>1 DEF TypeOK, Versions
<1>3. HeadSha \in {0} \cup Commits
  BY <1>1 DEF TypeOK, Commits
<1>4. IgnoreState \in {0} \cup Versions
  BY <1>2 DEF IgnoreState, Paths
<1>5. \A f \in Files : Fingerprint(f) \in {0} \cup Versions
  BY <1>2 DEF Fingerprint, Paths
<1>6. GitStatus \in SUBSET Reported
  BY DEF GitStatus, Dirty, Buried, Reported
<1>7. \A x, y : GitDiff(x, y) \in SUBSET Reported
  BY DEF GitDiff, Reported
<1> QED
  BY <1>2, <1>3, <1>4, <1>5, <1>6, <1>7

LEMMA LabelledTyped ==
    ASSUME NEW o \in Ops
    PROVE  Labelled(o) \in Indexes /\ Synced(o) \in Ops
<1> DEFINE sha == IF o.sha = 0 THEN o.index.sha ELSE o.sha
           x == [o.index EXCEPT !.ign = o.ign, !.sha = sha]
<1>1. /\ o.index \in Indexes /\ o.ign \in {0} \cup Versions
      /\ sha \in {0} \cup Commits
  BY DEF Ops, Indexes
<1>2. x \in Indexes
  <2> HIDE DEF sha
  <2> QED
    BY <1>1 DEF Indexes
<1>3. Labelled(o) = x
  BY DEF Labelled
<1>4. [o EXCEPT !.pc = "save"] \in Ops /\ [o EXCEPT !.pc = "done"] \in Ops
  BY OpFields DEF Steps
<1>5. [[o EXCEPT !.pc = "save"] EXCEPT !.index = Labelled(o)] \in Ops
  <2> HIDE DEF x
  <2> QED
    BY <1>2, <1>3, <1>4, OpFields
<1>6. [o EXCEPT !.pc = "save", !.index = Labelled(o)]
        = [[o EXCEPT !.pc = "save"] EXCEPT !.index = Labelled(o)]
  OBVIOUS
<1> QED
  BY <1>2, <1>3, <1>4, <1>5, <1>6 DEF Synced

(* A step of a call changes nothing of the worktree and of git. *)
LEMMA CallTyped ==
    ASSUME TypeOK, NEW c \in Callers, NEW r \in Ops, Set(c, r), UNCHANGED user,
           disk' \in Indexes \cup {None, Torn}, memo' \in [Callers -> Memos],
           crossed' \subseteq writers', writers' \subseteq Callers, sure' \in BOOLEAN
    PROVE  TypeOK'
<1>1. op' \in [Callers -> Ops]
  BY DEF TypeOK, Set
<1>2. past' = past /\ trees' = trees /\ edits' = edits
  BY DEF user
<1> QED
  BY <1>1, <1>2 DEF TypeOK, Now, HeadSha

(* The same for one that keeps the files and what is remembered, too. *)
LEMMA LocalTyped ==
    ASSUME TypeOK, NEW c \in Callers, NEW r \in Ops, Set(c, r),
           UNCHANGED <<user, file, memo, sure>>
    PROVE  TypeOK'
<1>1. /\ disk' \in Indexes \cup {None, Torn} /\ memo' \in [Callers -> Memos]
      /\ crossed' \subseteq writers' /\ writers' \subseteq Callers
      /\ sure' \in BOOLEAN /\ UNCHANGED user
  BY DEF TypeOK, file
<1> QED
  BY <1>1, CallTyped

LEMMA EditTyped ==
    ASSUME TypeOK, NEW p \in Paths, NEW t \in Contents, Edit(p, t)
    PROVE  TypeOK'
<1>1. /\ edits \in 0 .. MaxEdits /\ MaxEdits \in Nat /\ edits < MaxEdits
      /\ past' = [past EXCEPT ![p] = Append(@, t)] /\ edits' = edits + 1
      /\ UNCHANGED <<trees, disk, memo, op, writers, crossed, sure>>
  BY IndexCacheConstants DEF TypeOK, Edit
<1>2. /\ past' \in [Paths -> Seq(Contents)]
      /\ \A q \in Paths : Now(q)' = IF q = p THEN Now(q) + 1 ELSE Now(q)
  <2>1. past[p] \in Seq(Contents) /\ Append(past[p], t) \in Seq(Contents)
        /\ Len(Append(past[p], t)) = Len(past[p]) + 1
    BY DEF TypeOK
  <2>2. past' \in [Paths -> Seq(Contents)]
    BY <1>1, <2>1 DEF TypeOK
  <2>3. \A q \in Paths : past'[q] = IF q = p THEN Append(past[p], t) ELSE past[q]
    BY <1>1 DEF TypeOK
  <2> QED
    BY <2>1, <2>2, <2>3 DEF Now
<1>3. \A q \in Paths : Now(q)' \in 1 .. edits' + 1
  <2>1. \A q \in Paths : Len(past[q]) \in 1 .. edits + 1
    BY DEF TypeOK, Now
  <2> QED
    BY <1>1, <1>2, <2>1 DEF Now
<1>4. edits' \in 0 .. MaxEdits /\ HeadSha' \in 0 .. edits' + 1
  BY <1>1 DEF TypeOK, HeadSha
<1> QED
  BY <1>1, <1>2, <1>3, <1>4 DEF TypeOK

LEMMA CommitTyped ==
    ASSUME TypeOK, NEW S \in SUBSET Paths, Commit(S)
    PROVE  TypeOK'
<1> DEFINE tree == [p \in Paths |->
                      IF p \in S \/ HeadSha = 0 THEN Now(p) ELSE trees[HeadSha][p]]
<1>1. /\ edits \in 0 .. MaxEdits /\ MaxEdits \in Nat /\ edits < MaxEdits
      /\ trees' = Append(trees, tree) /\ edits' = edits + 1
      /\ sure' \in BOOLEAN
      /\ UNCHANGED <<past, disk, memo, op, writers, crossed>>
  BY IndexCacheConstants DEF TypeOK, Commit
<1>2. tree \in [Paths -> Versions]
  <2>1. HeadSha # 0 => trees[HeadSha] \in [Paths -> Versions]
    BY DEF TypeOK, HeadSha
  <2> QED
    BY <2>1, WorldTyped
<1>3. trees' \in Seq([Paths -> Versions]) /\ HeadSha' = HeadSha + 1
  <2> HIDE DEF tree
  <2> QED
    BY <1>1, <1>2 DEF TypeOK, HeadSha
<1>4. edits' \in 0 .. MaxEdits /\ HeadSha' \in 0 .. edits' + 1
  BY <1>1, <1>3 DEF TypeOK
<1>5. \A q \in Paths : Now(q)' \in 1 .. edits' + 1
  BY <1>1 DEF TypeOK, Now
<1> QED
  BY <1>1, <1>3, <1>4, <1>5 DEF TypeOK

(* Each step of a call. *)
LEMMA StepTyped ==
    ASSUME TypeOK, NEW c \in Callers, CallStep(c)
    PROVE  TypeOK'
<1> DEFINE o == op[c]
<1>0. /\ o \in Ops /\ o.index \in Indexes /\ o.changed \in SUBSET Reported
      /\ o.todo \in SUBSET Files /\ o.parsing \in {None} \cup Reads
      /\ edits \in 0 .. MaxEdits
  BY DEF TypeOK, Ops
<1>a. /\ \A p \in Paths : Now(p) \in Versions /\ past[p] \in Seq(Contents)
      /\ HeadSha \in {0} \cup Commits
      /\ IgnoreState \in {0} \cup Versions
      /\ \A f \in Files : Fingerprint(f) \in {0} \cup Versions
      /\ GitStatus \in SUBSET Reported
      /\ \A x, y : GitDiff(x, y) \in SUBSET Reported
  BY WorldTyped
<1>b. Legible => disk \in Indexes
  BY DEF TypeOK, Legible
<1> HIDE DEF o
<1>1. ASSUME NEW incremental \in BOOLEAN, Begin(c, incremental)  PROVE TypeOK'
  <2> DEFINE r1 == [Idle EXCEPT !.pc = "load"]
             r2 == [r1 EXCEPT !.incremental = incremental]
             r3 == [r2 EXCEPT !.sha = HeadSha]
             r4 == [r3 EXCEPT !.ign = IgnoreState]
  <2>1. r1 \in Ops
    BY IdleTyped, OpFields DEF Steps
  <2>2. r2 \in Ops
    BY <2>1, OpFields
  <2>3. r3 \in Ops
    <3> HIDE DEF r2
    <3> QED
      BY <2>2, <1>a, OpFields
  <2>4. r4 \in Ops
    <3> HIDE DEF r3
    <3> QED
      BY <2>3, <1>a, OpFields
  <2>5. [r4 EXCEPT !.since = edits] \in Ops
    <3> HIDE DEF r4
    <3> QED
      BY <2>4, <1>0, OpFields
  <2>6. [Idle EXCEPT !.pc = "load", !.incremental = incremental,
                     !.sha = HeadSha, !.ign = IgnoreState, !.since = edits]
          = [r4 EXCEPT !.since = edits]
    OBVIOUS
  <2> QED
    BY <1>1, <2>5, <2>6, LocalTyped DEF Begin
<1>2. ASSUME Load(c)  PROVE TypeOK'
  <2>1. [o EXCEPT !.pc = "bridge"] \in Ops /\ [o EXCEPT !.pc = "scan"] \in Ops
    BY <1>0, OpFields DEF Steps
  <2>2. [o EXCEPT !.pc = IF o.incremental THEN "bridge" ELSE "scan"] \in Ops
    BY <2>1
  <2>3. Legible => [o EXCEPT !.pc = "status", !.index = disk] \in Ops
    <3>1. [o EXCEPT !.pc = "status"] \in Ops
      BY <1>0, OpFields DEF Steps
    <3> QED
      BY <1>0, <1>b, <3>1 DEF Ops
  <2> QED
    BY <1>2, <2>2, <2>3, IdleTyped, LocalTyped DEF Load, o
<1>3. ASSUME Bridge(c)  PROVE TypeOK'
  <2>1. [o EXCEPT !.pc = "status", !.index = disk, !.bridged = TRUE,
                  !.changed = GitDiff(disk.sha, o.sha)] \in Ops
    BY <1>0, <1>3, <1>a, <1>b DEF Bridge, Bridgeable, Ops, Steps
  <2> QED
    BY <1>3, <2>1, LocalTyped DEF Bridge, o
<1>4. ASSUME BridgeFails(c)  PROVE TypeOK'
  <2>1. [o EXCEPT !.pc = "scan"] \in Ops
    BY <1>0, OpFields DEF Steps
  <2> QED
    BY <1>4, <2>1, LocalTyped DEF BridgeFails, o
<1>5. ASSUME NEW S \in SUBSET Reported, NEW timely \in BOOLEAN
      PROVE  [o EXCEPT !.pc = "decide", !.changed = @ \cup S, !.timely = timely] \in Ops
  <2>1. o.changed \cup S \in SUBSET Reported
    BY <1>0, <1>5
  <2>2. [o EXCEPT !.pc = "decide", !.changed = @ \cup S, !.timely = timely]
          = [[[o EXCEPT !.pc = "decide"] EXCEPT !.changed = o.changed \cup S]
               EXCEPT !.timely = timely]
    BY <1>0 DEF Ops
  <2>3. [o EXCEPT !.pc = "decide"] \in Ops
    BY <1>0, OpFields DEF Steps
  <2>4. [[o EXCEPT !.pc = "decide"] EXCEPT !.changed = o.changed \cup S] \in Ops
    BY <2>1, <2>3, OpFields
  <2> QED
    BY <2>2, <2>4, OpFields
<1>6. ASSUME Status(c)  PROVE TypeOK'
  <2>1. [head |-> HeadSha, paths |-> GitStatus] \in Memos
    BY <1>a DEF Memos
  <2>2. memo' \in [Callers -> Memos]
    BY <1>6, <2>1 DEF Status, TypeOK
  <2>3. /\ disk' \in Indexes \cup {None, Torn} /\ crossed' \subseteq writers'
        /\ writers' \subseteq Callers /\ sure' \in BOOLEAN /\ UNCHANGED user
    BY <1>6 DEF Status, TypeOK, file
  <2> QED
    BY <1>5, <1>6, <1>a, <2>2, <2>3, CallTyped DEF Status, Told, o
<1>7. ASSUME NEW S \in SUBSET Reported, Told(c, S, FALSE), sure' = FALSE,
             UNCHANGED <<user, file, memo>>
      PROVE  TypeOK'
  <2>1. /\ disk' \in Indexes \cup {None, Torn} /\ memo' \in [Callers -> Memos]
        /\ crossed' \subseteq writers' /\ writers' \subseteq Callers
        /\ UNCHANGED user
    BY <1>7 DEF TypeOK, file
  <2> QED
    BY <1>5, <1>7, <2>1, CallTyped DEF Told, o
<1>8. ASSUME StatusRemembered(c)  PROVE TypeOK'
  <2>1. memo[c].paths \in SUBSET Reported
    BY <1>8 DEF StatusRemembered, TypeOK, Memos
  <2> QED
    BY <1>7, <1>8, <2>1 DEF StatusRemembered
<1>9. ASSUME StatusFails(c)  PROVE TypeOK'
  BY <1>7, <1>9 DEF StatusFails
<1>10. ASSUME NEW q \in Ops, Decided(c, q)  PROVE TypeOK'
  <2>1. [q EXCEPT !.changed = {}, !.bridged = FALSE] \in Ops
    <3>1. [q EXCEPT !.changed = {}] \in Ops
      BY OpFields
    <3>2. [q EXCEPT !.changed = {}, !.bridged = FALSE]
            = [[q EXCEPT !.changed = {}] EXCEPT !.bridged = FALSE]
      BY DEF Ops
    <3> QED
      BY <3>1, <3>2, OpFields
  <2> QED
    BY <1>10, <2>1, LocalTyped DEF Decided
<1>11. ASSUME KeepAll(c)  PROVE TypeOK'
  <2>1. [o EXCEPT !.pc = "done"] \in Ops /\ Synced(o) \in Ops
    BY <1>0, OpFields, LabelledTyped DEF Steps
  <2> QED
    BY <1>10, <1>11, <2>1 DEF KeepAll, o
<1>12. ASSUME IgnoreChanged(c)  PROVE TypeOK'
  <2>1. [o EXCEPT !.pc = "scan"] \in Ops
    BY <1>0, OpFields DEF Steps
  <2> QED
    BY <1>10, <1>12, <2>1 DEF IgnoreChanged, o
<1>13. ASSUME NoneEffective(c)  PROVE TypeOK'
  BY <1>0, <1>10, <1>13, LabelledTyped DEF NoneEffective, o
<1>h. Hidden \in SUBSET Files
  <2>1. past[Ignore][Now(Ignore)] \in Contents
    BY <1>a DEF Paths, Now, Versions
  <2> QED
    BY <2>1, IndexCacheConstants DEF Hidden, Text
<1>14. ASSUME Update(c)  PROVE TypeOK'
  <2> DEFINE todo == Expanded(Effective(o))
             q == [o EXCEPT !.pc = "update", !.hidden = Hidden, !.todo = todo,
                            !.index = Labelled(o)]
  <2>1. todo \in SUBSET Files
    BY IndexCacheConstants DEF Expanded, Effective
  <2>2. [o EXCEPT !.pc = "update"] \in Ops
    BY <1>0, OpFields DEF Steps
  <2>3. [[o EXCEPT !.pc = "update"] EXCEPT !.hidden = Hidden] \in Ops
    BY <1>h, <2>2, OpFields
  <2>4. [[[o EXCEPT !.pc = "update"] EXCEPT !.hidden = Hidden] EXCEPT !.todo = todo] \in Ops
    <3> HIDE DEF todo
    <3> QED
      BY <2>1, <2>3, OpFields
  <2>5. q = [[[[o EXCEPT !.pc = "update"] EXCEPT !.hidden = Hidden]
                 EXCEPT !.todo = todo] EXCEPT !.index = Labelled(o)]
    BY <1>0 DEF Ops
  <2>6. q \in Ops
    <3> HIDE DEF todo, q
    <3> QED
      BY <1>0, <2>4, <2>5, OpFields, LabelledTyped
  <2> QED
    BY <1>10, <1>14, <2>6 DEF Update, o
<1>15. ASSUME Build(c)  PROVE TypeOK'
  <2> DEFINE todo == {f \in Files : Present(f)} \ Hidden
             x == Labelled([o EXCEPT !.index = Blank])
             q == [o EXCEPT !.pc = "build", !.incremental = TRUE, !.hidden = Hidden,
                            !.todo = todo, !.index = x]
  <2>1. todo \in SUBSET Files
    OBVIOUS
  <2>2. x \in Indexes
    BY <1>0, IdleTyped, OpFields, LabelledTyped
  <2>3. [[o EXCEPT !.pc = "build"] EXCEPT !.incremental = TRUE] \in Ops
    <3>1. [o EXCEPT !.pc = "build"] \in Ops
      BY <1>0, OpFields DEF Steps
    <3> QED
      BY <3>1, OpFields
  <2>4. [[[o EXCEPT !.pc = "build"] EXCEPT !.incremental = TRUE]
            EXCEPT !.hidden = Hidden] \in Ops
    BY <1>h, <2>3, OpFields
  <2>5. [[[[o EXCEPT !.pc = "build"] EXCEPT !.incremental = TRUE]
            EXCEPT !.hidden = Hidden] EXCEPT !.todo = todo] \in Ops
    <3> HIDE DEF todo
    <3> QED
      BY <2>1, <2>4, OpFields
  <2>6. q = [[[[[o EXCEPT !.pc = "build"] EXCEPT !.incremental = TRUE]
            EXCEPT !.hidden = Hidden] EXCEPT !.todo = todo] EXCEPT !.index = x]
    <3> HIDE DEF todo, x
    <3> QED
      BY <1>0 DEF Ops
  <2>7. q \in Ops
    <3> HIDE DEF todo, x, q
    <3> QED
      BY <2>2, <2>5, <2>6, OpFields
  <2> QED
    BY <1>15, <2>7, LocalTyped DEF Build, o
<1>16. ASSUME NEW f \in Files, Skip(c, f)  PROVE TypeOK'
  <2>1. [o EXCEPT !.todo = @ \ {f}] \in Ops
    BY <1>0 DEF Ops
  <2> QED
    BY <1>16, <2>1, LocalTyped DEF Skip, o
<1>17. ASSUME NEW f \in Files, Drop(c, f)  PROVE TypeOK'
  <2> DEFINE x == [o.index EXCEPT !.files[f] = None]
  <2>1. x \in Indexes
    BY <1>0 DEF Indexes
  <2>2. [o EXCEPT !.todo = @ \ {f}] \in Ops
    BY <1>0 DEF Ops
  <2>3. [o EXCEPT !.todo = @ \ {f}, !.index.files[f] = None]
          = [[o EXCEPT !.todo = @ \ {f}] EXCEPT !.index = x]
    BY <1>0 DEF Ops
  <2> QED
    BY <1>17, <2>1, <2>2, <2>3, OpFields, LocalTyped DEF Drop, o
<1>18. ASSUME NEW f \in Files, ParseRead(c, f)  PROVE TypeOK'
  <2> DEFINE read == [file |-> f, read |-> Now(f)]
  <2>1. read \in {None} \cup Reads
    BY <1>a DEF Reads, Paths
  <2>2. [o EXCEPT !.todo = @ \ {f}] \in Ops
    BY <1>0 DEF Ops
  <2>3. [o EXCEPT !.todo = @ \ {f}, !.parsing = read]
          = [[o EXCEPT !.todo = @ \ {f}] EXCEPT !.parsing = read]
    BY <1>0 DEF Ops
  <2>4. [o EXCEPT !.todo = @ \ {f}, !.parsing = read] \in Ops
    <3> HIDE DEF read
    <3> QED
      BY <2>1, <2>2, <2>3, OpFields
  <2> QED
    BY <1>18, <2>4, LocalTyped DEF ParseRead, o
<1>19. ASSUME ParseStat(c)  PROVE TypeOK'
  <2> DEFINE f == o.parsing.file
             entry == [read |-> o.parsing.read, stat |-> Fingerprint(f)]
             x == [o.index EXCEPT !.files[f] = entry]
  <2>1. o.parsing \in Reads
    BY <1>0, <1>19 DEF ParseStat, o
  <2>2. entry \in Entries /\ f \in Files
    BY <1>a, <2>1 DEF Entries, Reads
  <2>3. x \in Indexes
    <3> HIDE DEF entry, f
    <3> QED
      BY <1>0, <2>2 DEF Indexes
  <2>4. [o EXCEPT !.parsing = None] \in Ops
    BY <1>0, OpFields
  <2>5. [o EXCEPT !.parsing = None, !.index.files[f] = entry]
          = [[o EXCEPT !.parsing = None] EXCEPT !.index = x]
    <3> HIDE DEF entry, f
    <3> QED
      BY <1>0 DEF Ops
  <2>6. [o EXCEPT !.parsing = None, !.index.files[f] = entry] \in Ops
    <3> HIDE DEF entry, f, x
    <3> QED
      BY <2>3, <2>4, <2>5, OpFields
  <2> QED
    BY <1>19, <2>6, LocalTyped DEF ParseStat, o
<1>20. ASSUME Parsed(c)  PROVE TypeOK'
  <2>1. [o EXCEPT !.pc = "save", !.hidden = {}] \in Ops
    BY <1>0 DEF Ops, Steps
  <2> QED
    BY <1>20, <2>1, LocalTyped DEF Parsed, o
<1>21. ASSUME SaveOpen(c)  PROVE TypeOK'
  <2>1. [o EXCEPT !.pc = "write"] \in Ops
    BY <1>0, OpFields DEF Steps
  <2>2. /\ disk' \in Indexes \cup {None, Torn} /\ crossed' \subseteq writers'
        /\ writers' \subseteq Callers /\ sure' \in BOOLEAN
        /\ memo' \in [Callers -> Memos] /\ UNCHANGED user
    BY <1>21 DEF SaveOpen, TypeOK
  <2> QED
    BY <1>21, <2>1, <2>2, CallTyped DEF SaveOpen, o
<1>22. ASSUME SaveWrite(c)  PROVE TypeOK'
  <2>1. [o EXCEPT !.pc = "done"] \in Ops
    BY <1>0, OpFields DEF Steps
  <2>2. /\ disk' \in Indexes \cup {None, Torn} /\ crossed' \subseteq writers'
        /\ writers' \subseteq Callers /\ sure' \in BOOLEAN
        /\ memo' \in [Callers -> Memos] /\ UNCHANGED user
    BY <1>0, <1>22 DEF SaveWrite, TypeOK, o
  <2> QED
    BY <1>22, <2>1, <2>2, CallTyped DEF SaveWrite, o
<1>23. ASSUME Kill(c)  PROVE TypeOK'
  <2>1. /\ disk' \in Indexes \cup {None, Torn} /\ crossed' \subseteq writers'
        /\ writers' \subseteq Callers /\ sure' \in BOOLEAN
        /\ memo' \in [Callers -> Memos] /\ UNCHANGED user
    BY <1>23 DEF Kill, TypeOK, Memos
  <2> QED
    BY <1>23, <2>1, IdleTyped, CallTyped DEF Kill
<1> QED
  BY <1>1, <1>2, <1>3, <1>4, <1>6, <1>8, <1>9, <1>11, <1>12, <1>13, <1>14, <1>15,
     <1>16, <1>17, <1>18, <1>19, <1>20, <1>21, <1>22, <1>23 DEF CallStep

LEMMA TypeCorrectInit == Init => TypeOK
<1>1. ASSUME Init  PROVE TypeOK
  <2>1. past \in [Paths -> Seq(Contents)] /\ \A p \in Paths : Now(p) = 1
    BY <1>1, IndexCacheConstants DEF Init, Now, Contents
  <2>2. trees \in Seq([Paths -> Versions]) /\ HeadSha \in 0 .. 1
    <3>1. CASE trees = << >>
      BY <3>1 DEF HeadSha
    <3>2. CASE trees = <<[p \in Paths |-> 1]>>
      <4>1. [p \in Paths |-> 1] \in [Paths -> Versions]
        BY IndexCacheConstants DEF Versions
      <4> QED
        BY <3>2, <4>1 DEF HeadSha
    <3> QED
      BY <1>1, <3>1, <3>2 DEF Init
  <2>3. memo \in [Callers -> Memos] /\ op \in [Callers -> Ops]
    BY <1>1, IdleTyped DEF Init, Memos
  <2> QED
    BY <1>1, <2>1, <2>2, <2>3, IndexCacheConstants DEF Init, TypeOK
<1> QED
  BY <1>1

LEMMA TypeStep == TypeOK /\ [Next]_vars => TypeOK'
<1>1. ASSUME TypeOK, Next  PROVE TypeOK'
  BY <1>1, EditTyped, CommitTyped, StepTyped DEF Next
<1>2. ASSUME TypeOK, UNCHANGED vars  PROVE TypeOK'
  BY <1>2 DEF vars, TypeOK, Now, HeadSha
<1> QED
  BY <1>1, <1>2

(* The index cache is well typed in every reachable state, whatever the    *)
(* user does and however many callers there are.                           *)
THEOREM TypeCorrect == Spec => []TypeOK
  BY TypeCorrectInit, TypeStep, PTL DEF Spec

-----------------------------------------------------------------------------
(***************************************************************************)
(* The inductive invariant.                                                *)
(***************************************************************************)

(* No content occurs twice in a path's history, and commits name versions  *)
(* there are.                                                              *)
WorldOK ==
    /\ \A p \in Paths : \A i \in 1 .. Now(p), j \in 1 .. Now(p) :
          Text(p, i) = Text(p, j) => i = j
    /\ HeadSha >= 1
    /\ \A s \in 1 .. HeadSha, p \in Paths : trees[s][p] \in 1 .. Now(p)

(* An entry has the fingerprint of the content that was read. *)
EntryOK(index, f) ==
    index.files[f] # None =>
       /\ index.files[f].read \in 1 .. Now(f)
       /\ index.files[f].stat = index.files[f].read

GoodIndex(index) ==
    /\ index.sha \in 1 .. HeadSha
    /\ \A f \in Files : EntryOK(index, f)
    /\ \A f \in Plain : Reaches(index, f, index.sha)

CurrentIn(index, f) == Said(index, f) = Text(f, Now(f))

(* The files a loop has not dealt with. *)
Pending(o) == o.todo \cup (IF o.parsing = None THEN {} ELSE {o.parsing.file})

(* An index being parsed reaches its label but for those. *)
WorkOK(o) ==
    /\ o.index.sha = o.sha
    /\ \A f \in Files : EntryOK(o.index, f)
    /\ \A f \in Plain : f \notin Pending(o) => Reaches(o.index, f, o.sha)

(* As long as the user does nothing, what git said in time is right. *)
UpToDate(o) ==
    /\ o.pc = "decide" => Dirty \cap Files \subseteq o.changed
    /\ o.pc \in {"update", "build"} =>
          \A f \in Plain : f \notin Pending(o) => CurrentIn(o.index, f)
    /\ o.pc \in {"save", "write", "done"} => \A f \in Plain : CurrentIn(o.index, f)

OpOK(o) ==
    /\ o.pc # "idle" => o.sha \in 1 .. HeadSha /\ (o.since = edits => o.sha = HeadSha)
    /\ o.since <= edits
    /\ o.hidden \cap Plain = {}
    /\ o.parsing # None =>
          /\ o.pc \in {"update", "build"}
          /\ o.parsing.read = Now(o.parsing.file)
          /\ Present(o.parsing.file)
    /\ o.pc \in {"status", "decide"} =>
          /\ GoodIndex(o.index)
          /\ o.index.sha # o.sha => GitDiff(o.index.sha, o.sha) \subseteq o.changed
    /\ o.pc \in {"update", "build"} => WorkOK(o)
    /\ o.pc \in {"save", "write", "done"} => GoodIndex(o.index)
    /\ o.since = edits /\ o.timely => UpToDate(o)

IInv ==
    /\ TypeOK
    /\ WorldOK
    /\ Legible => GoodIndex(disk)
    /\ \A c \in Callers : OpOK(op[c])

-----------------------------------------------------------------------------
(* What the user does only adds to the histories. *)
Grew ==
    /\ \A p \in Paths : /\ Now(p)' >= Now(p)
                        /\ \A v \in 1 .. Now(p) : past'[p][v] = past[p][v]
    /\ HeadSha' >= HeadSha
    /\ \A s \in 1 .. HeadSha : trees'[s] = trees[s]

LEMMA PlainFiles == Plain \subseteq Files /\ Files \subseteq Paths
  BY DEF Plain, Paths

LEMMA Bounds ==
    ASSUME TypeOK
    PROVE  /\ \A p \in Paths : Now(p) \in Nat /\ Now(p) >= 1
           /\ HeadSha \in Nat /\ edits \in Nat
  BY IndexCacheConstants DEF TypeOK

LEMMA IndexStays ==
    ASSUME TypeOK, TypeOK', WorldOK, Grew, NEW x \in Indexes, NEW f \in Files, EntryOK(x, f)
    PROVE  /\ EntryOK(x, f)'
           /\ \A s \in 1 .. HeadSha : Reaches(x, f, s) => Reaches(x, f, s)'
<1>1. /\ Now(f) \in Nat /\ Now(f)' \in Nat /\ Now(f)' >= Now(f)
      /\ HeadSha \in Nat /\ f \in Paths
  BY Bounds, PlainFiles DEF Grew, TypeOK
<1>2. EntryOK(x, f)'
  BY <1>1 DEF EntryOK
<1>3. \A v \in 1 .. Now(f) : Text(f, v)' = Text(f, v)
  BY <1>1 DEF Grew, Text
<1>4. Said(x, f)' = Said(x, f)
  BY <1>3 DEF Said, EntryOK
<1>5. ASSUME NEW s \in 1 .. HeadSha, Reaches(x, f, s)  PROVE Reaches(x, f, s)'
  <2>1. trees'[s] = trees[s]
    BY DEF Grew
  <2>2. PICK v \in 1 .. Now(f) : Text(f, v) = Said(x, f) /\ (s # 0 => v >= trees[s][f])
    BY <1>5 DEF Reaches
  <2>3. v \in 1 .. Now(f)'
    BY <1>1
  <2> QED
    BY <1>3, <1>4, <2>1, <2>2, <2>3 DEF Reaches
<1> QED
  BY <1>2, <1>5

LEMMA GoodIndexStays ==
    ASSUME TypeOK, TypeOK', WorldOK, Grew, NEW x \in Indexes, GoodIndex(x)
    PROVE  GoodIndex(x)'
<1>1. x.sha \in 1 .. HeadSha /\ x.sha \in 1 .. HeadSha'
  BY Bounds, IndexCacheConstants DEF GoodIndex, Grew, TypeOK
<1>2. \A f \in Files : EntryOK(x, f)'
  BY IndexStays DEF GoodIndex
<1>3. \A f \in Plain : Reaches(x, f, x.sha)'
  BY <1>1, IndexStays, PlainFiles DEF GoodIndex
<1> QED
  BY <1>1, <1>2, <1>3 DEF GoodIndex

LEMMA DiffStays ==
    ASSUME TypeOK, WorldOK, Grew, NEW i \in 1 .. HeadSha, NEW j \in 1 .. HeadSha
    PROVE  GitDiff(i, j)' = GitDiff(i, j)
<1>1. ASSUME NEW s \in 1 .. HeadSha, NEW p \in Paths  PROVE InCommit(s, p)' = InCommit(s, p)
  <2>1. trees'[s] = trees[s] /\ trees[s][p] \in 1 .. Now(p) /\ s # 0
    BY Bounds DEF Grew, WorldOK
  <2>2. past'[p][trees[s][p]] = past[p][trees[s][p]]
    BY <2>1 DEF Grew
  <2> QED
    BY <2>1, <2>2 DEF InCommit, Text
<1> QED
  BY <1>1 DEF GitDiff

LEMMA OpStays ==
    ASSUME TypeOK, TypeOK', WorldOK, Grew, NEW o \in Ops, OpOK(o),
           UNCHANGED user \/ edits' = edits + 1,
           o.parsing # None => past'[o.parsing.file] = past[o.parsing.file]
    PROVE  OpOK(o)'
<1>1. CASE UNCHANGED user
  <2>1. past' = past /\ trees' = trees /\ edits' = edits
    BY <1>1 DEF user
  <2> QED
    BY <2>1 DEF OpOK, UpToDate, WorkOK, GoodIndex, EntryOK, CurrentIn, Said, Reaches,
       Dirty, GitDiff, InCommit, Present, Text, Now, HeadSha
<1>2. CASE edits' = edits + 1
  <2>0. /\ edits \in Nat /\ HeadSha \in Nat /\ HeadSha' \in Nat
        /\ HeadSha' >= HeadSha /\ o.since \in Nat /\ o.index \in Indexes
        /\ o.since <= edits
    BY Bounds, IndexCacheConstants DEF TypeOK, Grew, Ops, OpOK
  <2>1. o.since <= edits' /\ o.since # edits'
    BY <1>2, <2>0
  <2>2. o.pc # "idle" => o.sha \in 1 .. HeadSha /\ o.sha \in 1 .. HeadSha'
    BY <2>0 DEF OpOK
  <2>3. o.parsing # None =>
           /\ o.pc \in {"update", "build"}
           /\ o.parsing.read = Now(o.parsing.file)'
           /\ Present(o.parsing.file)'
    BY DEF OpOK, Present, Text, Now
  <2>4. o.pc \in {"status", "decide"} =>
           /\ GoodIndex(o.index)'
           /\ o.index.sha # o.sha => GitDiff(o.index.sha, o.sha)' \subseteq o.changed
    <3>1. ASSUME o.pc \in {"status", "decide"}
          PROVE  o.index.sha \in 1 .. HeadSha /\ o.sha \in 1 .. HeadSha
      BY <2>2, <3>1 DEF OpOK, GoodIndex
    <3> QED
      BY <2>0, <3>1, GoodIndexStays, DiffStays DEF OpOK
  <2>5. o.pc \in {"save", "write", "done"} => GoodIndex(o.index)'
    BY <2>0, GoodIndexStays DEF OpOK
  <2>6. ASSUME o.pc \in {"update", "build"}  PROVE WorkOK(o)'
    <3>1. o.sha \in 1 .. HeadSha /\ WorkOK(o)
      BY <2>2, <2>6 DEF OpOK
    <3>2. \A f \in Files : EntryOK(o.index, f)'
      BY <2>0, <3>1, IndexStays DEF WorkOK
    <3>3. \A f \in Plain : f \notin Pending(o) => Reaches(o.index, f, o.sha)'
      BY <2>0, <3>1, IndexStays, PlainFiles DEF WorkOK
    <3> QED
      BY <3>1, <3>2, <3>3 DEF WorkOK, Pending
  <2> QED
    BY <2>1, <2>2, <2>3, <2>4, <2>5, <2>6 DEF OpOK
<1> QED
  BY <1>1, <1>2

-----------------------------------------------------------------------------
(* What the user does. *)

LEMMA UserKeeps ==
    ASSUME IInv, TypeOK', WorldOK', Grew, edits' = edits + 1, UNCHANGED <<disk, op>>,
           \A c \in Callers : op[c].parsing # None =>
               past'[op[c].parsing.file] = past[op[c].parsing.file]
    PROVE  IInv'
<1>1. /\ TypeOK /\ WorldOK /\ op \in [Callers -> Ops]
      /\ \A c \in Callers : OpOK(op[c]) /\ op[c] \in Ops
      /\ Legible => GoodIndex(disk) /\ disk \in Indexes
  BY DEF IInv, TypeOK, Legible
<1>2. ASSUME Legible  PROVE GoodIndex(disk)'
  <2> DEFINE x == disk
  <2>1. x \in Indexes /\ GoodIndex(x)
    BY <1>1, <1>2
  <2>2. ASSUME NEW y \in Indexes, GoodIndex(y)  PROVE GoodIndex(y)'
    BY <1>1, <2>2, GoodIndexStays
  <2>3. PICK y \in Indexes : y = disk
    BY <2>1
  <2>4. GoodIndex(y)
    BY <2>1, <2>3
  <2>5. GoodIndex(y)'
    BY <2>2, <2>4
  <2>6. disk' = y
    BY <2>3
  <2> QED
    BY <2>5, <2>6 DEF GoodIndex, EntryOK, Reaches, Said
<1>3. ASSUME NEW c \in Callers  PROVE OpOK(op[c])'
  <2>1. PICK o \in Ops : o = op[c]
    BY <1>1
  <2>2. OpOK(o)
    BY <1>1, <2>1
  <2>3. OpOK(o)'
    BY <1>1, <2>1, <2>2, OpStays
  <2>4. op'[c] = o
    BY <2>1
  <2> QED
    BY <2>3, <2>4 DEF OpOK, UpToDate, WorkOK, Pending, GoodIndex, EntryOK, CurrentIn,
       Said, Reaches
<1> QED
  BY <1>2, <1>3 DEF IInv, Legible

LEMMA EditKeeps ==
    ASSUME IInv, TypeOK', Flaws = {}, NEW p \in Paths, NEW t \in Contents, Edit(p, t)
    PROVE  IInv' /\ Grew
<1>1. /\ edits' = edits + 1 /\ past' = [past EXCEPT ![p] = Append(@, t)]
      /\ Fresh(p, t) /\ UNCHANGED <<trees, disk, op>>
      /\ \A c \in Callers : op[c].parsing # None => op[c].parsing.file # p
  BY DEF Edit
<1>2. /\ past \in [Paths -> Seq(Contents)] /\ TypeOK /\ WorldOK
      /\ op \in [Callers -> Ops] /\ \A c \in Callers : OpOK(op[c])
  BY DEF IInv, TypeOK
<1>3. past[p] \in Seq(Contents) /\ Len(past[p]) \in Nat
  BY <1>2
<1>4. /\ \A q \in Paths : past'[q] = IF q = p THEN Append(past[p], t) ELSE past[q]
      /\ Len(Append(past[p], t)) = Len(past[p]) + 1
      /\ Append(past[p], t)[Len(past[p]) + 1] = t
      /\ \A v \in 1 .. Len(past[p]) : Append(past[p], t)[v] = past[p][v]
  BY <1>1, <1>2, <1>3
<1>5. Grew
  <2>1. \A q \in Paths : /\ Now(q)' >= Now(q)
                         /\ \A v \in 1 .. Now(q) : past'[q][v] = past[q][v]
    <3>1. ASSUME NEW q \in Paths
          PROVE  /\ Len(past'[q]) >= Len(past[q])
                 /\ \A v \in 1 .. Len(past[q]) : past'[q][v] = past[q][v]
      <4>1. CASE q = p
        <5>1. past'[p] = Append(past[p], t)
          BY <1>4
        <5> QED
          BY <1>3, <1>4, <4>1, <5>1
      <4>2. CASE q # p
        <5>1. past'[q] = past[q] /\ Len(past[q]) \in Nat
          BY <1>2, <1>4, <4>2
        <5> QED
          BY <5>1
      <4> QED
        BY <4>1, <4>2
    <3> QED
      BY <3>1 DEF Now
  <2>2. HeadSha' = HeadSha /\ HeadSha \in Nat /\ trees' = trees
    BY <1>1, <1>2, Bounds DEF HeadSha
  <2> QED
    BY <2>1, <2>2 DEF Grew
<1>6. WorldOK'
  <2>1. ASSUME NEW q \in Paths, NEW i \in 1 .. Now(q)', NEW j \in 1 .. Now(q)',
               Text(q, i)' = Text(q, j)'
        PROVE  i = j
    <3>1. CASE q # p
      <4>1. past'[q] = past[q]
        BY <1>4, <3>1
      <4> QED
        BY <1>2, <2>1, <4>1 DEF WorldOK, Text, Now
    <3>2. CASE q = p
      <4> DEFINE n == Len(past[p])
      <4>1. past'[p] = Append(past[p], t) /\ i \in 1 .. n + 1 /\ j \in 1 .. n + 1
        BY <1>4, <2>1, <3>2 DEF Now
      <4>2. \A v \in 1 .. n : past[p][v] # t
        BY <1>1 DEF Fresh, Now, Text
      <4>3. \A k \in 1 .. n, l \in 1 .. n : past[p][k] = past[p][l] => k = l
        BY <1>2 DEF WorldOK, Now, Text
      <4>4. past'[p][i] = past'[p][j]
        BY <2>1, <3>2 DEF Text
      <4> QED
        BY <1>3, <1>4, <4>1, <4>2, <4>3, <4>4
    <3> QED
      BY <3>1, <3>2
  <2>2. HeadSha' = HeadSha /\ trees' = trees
    BY <1>1 DEF HeadSha
  <2>3. \A s \in 1 .. HeadSha', q \in Paths : trees'[s][q] \in 1 .. Now(q)'
    <3>1. \A q \in Paths : Now(q)' \in Nat /\ Now(q) \in Nat /\ Now(q)' >= Now(q)
      BY <1>2, <1>5, Bounds DEF Grew, TypeOK
    <3> QED
      BY <1>2, <2>2, <3>1 DEF WorldOK
  <2> QED
    BY <1>2, <2>1, <2>2, <2>3 DEF WorldOK
<1>7. ASSUME NEW c \in Callers, op[c].parsing # None
      PROVE  past'[op[c].parsing.file] = past[op[c].parsing.file]
  <2>1. op[c].parsing.file \in Paths /\ op[c].parsing.file # p
    BY <1>1, <1>2, <1>7, PlainFiles DEF Ops, Reads
  <2> QED
    BY <1>4, <2>1
<1> QED
  BY <1>1, <1>5, <1>6, <1>7, UserKeeps

LEMMA CommitKeeps ==
    ASSUME IInv, TypeOK', NEW S \in SUBSET Paths, Commit(S)
    PROVE  IInv' /\ Grew
<1> DEFINE tree == [p \in Paths |->
                      IF p \in S \/ HeadSha = 0 THEN Now(p) ELSE trees[HeadSha][p]]
<1>1. /\ edits' = edits + 1 /\ trees' = Append(trees, tree)
      /\ UNCHANGED <<past, disk, op>>
  BY DEF Commit
<1>2. trees \in Seq([Paths -> Versions]) /\ TypeOK /\ WorldOK /\ HeadSha \in Nat
  BY Bounds DEF IInv, TypeOK
<1>3. /\ HeadSha' = HeadSha + 1 /\ trees'[HeadSha + 1] = tree
      /\ \A s \in 1 .. HeadSha : trees'[s] = trees[s]
  <2> HIDE DEF tree
  <2> QED
    BY <1>1, <1>2 DEF HeadSha
<1>4. \A p \in Paths : Now(p)' = Now(p) /\ Now(p) \in Nat /\ Now(p) >= 1 /\ past'[p] = past[p]
  BY <1>1, <1>2, Bounds DEF Now
<1>5. Grew
  BY <1>2, <1>3, <1>4 DEF Grew
<1>6. WorldOK'
  <2>1. \A p \in Paths : \A i \in 1 .. Now(p)', j \in 1 .. Now(p)' :
           Text(p, i)' = Text(p, j)' => i = j
    BY <1>2, <1>4 DEF WorldOK, Text
  <2>2. \A p \in Paths : tree[p] \in 1 .. Now(p)
    BY <1>2, <1>4 DEF WorldOK
  <2>3. \A s \in 1 .. HeadSha', p \in Paths : trees'[s][p] \in 1 .. Now(p)'
    <3> HIDE DEF tree
    <3>1. ASSUME NEW s \in 1 .. HeadSha', NEW p \in Paths
          PROVE  trees'[s][p] \in 1 .. Now(p)
      <4>1. CASE s = HeadSha + 1
        BY <1>3, <2>2, <4>1
      <4>2. CASE s # HeadSha + 1
        BY <1>2, <1>3, <4>2 DEF WorldOK
      <4> QED
        BY <4>1, <4>2
    <3> QED
      BY <1>4, <3>1
  <2> QED
    BY <1>2, <1>3, <2>1, <2>3 DEF WorldOK
<1> QED
  BY <1>1, <1>5, <1>6, UserKeeps

-----------------------------------------------------------------------------
(* A call, one record at a time. *)

(* The entry of a file with the fingerprint of the file is its content. *)
LEMMA SameIsCurrent ==
    ASSUME TypeOK, WorldOK, NEW x \in Indexes, NEW f \in Files, EntryOK(x, f),
           \/ Present(f) /\ SameAsIndexed(x, f)
           \/ ~ Present(f) /\ x.files[f] = None
    PROVE  CurrentIn(x, f)
  BY PlainFiles, Bounds DEF EntryOK, SameAsIndexed, Fingerprint, CurrentIn, Said, Present

LEMMA CurrentReaches ==
    ASSUME TypeOK, WorldOK, NEW x, NEW f \in Files, CurrentIn(x, f), NEW s \in 1 .. HeadSha
    PROVE  Reaches(x, f, s)
<1>1. f \in Paths /\ Now(f) \in 1 .. Now(f) /\ trees[s][f] \in 1 .. Now(f)
  BY PlainFiles, Bounds DEF WorldOK
<1>2. Now(f) >= trees[s][f]
  BY <1>1, Bounds
<1> QED
  BY <1>1, <1>2 DEF CurrentIn, Reaches

(* An index that reaches a commit reaches every commit with the same content. *)
LEMMA Bridged ==
    ASSUME TypeOK, WorldOK, NEW x \in Indexes, NEW f \in Files,
           NEW i \in 1 .. HeadSha, NEW j \in 1 .. HeadSha,
           Reaches(x, f, i), f \notin GitDiff(i, j) \/ i = j
    PROVE  Reaches(x, f, j)
<1>1. f \in Paths /\ i # 0 /\ j # 0
  BY PlainFiles, Bounds
<1>2. f \notin GitDiff(i, j) => Text(f, trees[i][f]) = Text(f, trees[j][f])
  BY <1>1 DEF GitDiff, InCommit
<1>3. trees[i][f] = trees[j][f]
  BY <1>1, <1>2 DEF WorldOK
<1> QED
  BY <1>1, <1>3 DEF Reaches

(* An index that reaches a commit holds what is both committed and current. *)
LEMMA CleanIsCurrent ==
    ASSUME TypeOK, WorldOK, NEW x \in Indexes, NEW f \in Files,
           NEW s \in 1 .. HeadSha, Reaches(x, f, s), Text(f, Now(f)) = InCommit(s, f)
    PROVE  CurrentIn(x, f)
<1>1. f \in Paths /\ s # 0 /\ Now(f) \in 1 .. Now(f) /\ trees[s][f] \in 1 .. Now(f)
  BY PlainFiles, Bounds DEF WorldOK
<1>2. trees[s][f] = Now(f)
  BY <1>1 DEF WorldOK, InCommit
<1>3. PICK v \in 1 .. Now(f) : Text(f, v) = Said(x, f) /\ v >= Now(f)
  BY <1>1, <1>2 DEF Reaches
<1>4. v = Now(f)
  BY <1>1, <1>3, Bounds
<1> QED
  BY <1>3, <1>4 DEF CurrentIn

(* What a decided call knows of the files it will not parse. *)
LEMMA SettledFile ==
    ASSUME TypeOK, WorldOK, NEW o \in Ops, OpOK(o), o.pc = "decide",
           NEW f \in Files, f \notin Effective(o), Reaches(o.index, f, o.index.sha)
    PROVE  /\ Reaches(o.index, f, o.sha)
           /\ o.since = edits /\ o.timely => CurrentIn(o.index, f)
<1>1. /\ o.index \in Indexes /\ GoodIndex(o.index)
      /\ o.sha \in 1 .. HeadSha /\ o.index.sha \in 1 .. HeadSha
      /\ EntryOK(o.index, f)
      /\ o.index.sha # o.sha => GitDiff(o.index.sha, o.sha) \subseteq o.changed
  BY DEF Ops, OpOK, GoodIndex
<1>2. CASE f \in o.changed
  <2>1. CurrentIn(o.index, f)
    BY <1>1, <1>2, SameIsCurrent DEF Effective
  <2> QED
    BY <1>1, <2>1, CurrentReaches
<1>3. CASE f \notin o.changed
  <2>1. Reaches(o.index, f, o.sha)
    BY <1>1, <1>3, Bridged
  <2>2. ASSUME o.since = edits, o.timely  PROVE CurrentIn(o.index, f)
    <3>1. f \notin Dirty /\ o.sha = HeadSha /\ f \in Paths
      BY <1>1, <1>3, <2>2, PlainFiles DEF OpOK, UpToDate
    <3>2. Text(f, Now(f)) = InCommit(o.sha, f)
      BY <3>1 DEF Dirty
    <3> QED
      BY <1>1, <2>1, <3>2, CleanIsCurrent
  <2> QED
    BY <2>1, <2>2
<1> QED
  BY <1>2, <1>3

LEMMA Settled ==
    ASSUME TypeOK, WorldOK, NEW o \in Ops, OpOK(o), o.pc = "decide",
           NEW f \in Plain, f \notin Effective(o)
    PROVE  /\ Reaches(o.index, f, o.sha)
           /\ o.since = edits /\ o.timely => CurrentIn(o.index, f)
  BY SettledFile, PlainFiles DEF OpOK, GoodIndex

(* A label moves to a commit that the entries reach. *)
LEMMA LabelledGood ==
    ASSUME TypeOK, NEW o \in Ops, o.sha \in 1 .. HeadSha
    PROVE  /\ Labelled(o).sha = o.sha /\ Labelled(o).files = o.index.files
           /\ \A f \in Files : /\ EntryOK(Labelled(o), f) <=> EntryOK(o.index, f)
                               /\ CurrentIn(Labelled(o), f) <=> CurrentIn(o.index, f)
                               /\ \A s : Reaches(Labelled(o), f, s) <=> Reaches(o.index, f, s)
<1>1. Labelled(o).sha = o.sha /\ Labelled(o).files = o.index.files
  BY Bounds DEF Labelled, Ops, Indexes
<1> QED
  BY <1>1 DEF EntryOK, CurrentIn, Reaches, Said

-----------------------------------------------------------------------------
(* Each step of a call leaves a good record. *)

LEMMA DoneGood ==
    ASSUME TypeOK, WorldOK, NEW o \in Ops, OpOK(o), NEW r \in Ops,
           o.pc # "idle", r.pc \in {"save", "done"},
           r.sha = o.sha, r.since = o.since, r.timely = o.timely,
           r.parsing = None, r.hidden \cap Plain = {}, GoodIndex(r.index),
           o.since = edits /\ o.timely => \A f \in Plain : CurrentIn(r.index, f)
    PROVE  OpOK(r)
  BY DEF OpOK, UpToDate

(* A call that has nothing to parse: KeepAll and NoneEffective. *)
LEMMA SyncedGood ==
    ASSUME TypeOK, WorldOK, NEW o \in Ops, OpOK(o), o.pc = "decide", Effective(o) = {},
           NEW q \in {Synced(o), [o EXCEPT !.pc = "done"]},
           NEW r \in Ops, r = [q EXCEPT !.changed = {}, !.bridged = FALSE]
    PROVE  OpOK(r)
<1>1. /\ o.sha \in 1 .. HeadSha /\ o.parsing = None /\ GoodIndex(o.index)
      /\ o.hidden \cap Plain = {}
  BY DEF OpOK
<1>2. /\ q.pc \in {"save", "done"} /\ q.sha = o.sha /\ q.since = o.since
      /\ q.timely = o.timely /\ q.parsing = None /\ q.hidden = o.hidden
      /\ q.index \in {o.index, Labelled(o)} /\ q \in Ops
  <2> DEFINE x == Labelled(o)
             d == [o EXCEPT !.pc = "done"]
             w == [o EXCEPT !.pc = "save", !.index = x]
  <2>1. Synced(o) \in {d, w} /\ Synced(o) \in Ops /\ d \in Ops
    BY LabelledTyped, OpFields DEF Steps, Synced
  <2>2. /\ d.pc = "done" /\ d.sha = o.sha /\ d.since = o.since
        /\ d.timely = o.timely /\ d.parsing = o.parsing /\ d.hidden = o.hidden
        /\ d.index = o.index
    BY DEF Ops
  <2>3. /\ w.pc = "save" /\ w.sha = o.sha /\ w.since = o.since
        /\ w.timely = o.timely /\ w.parsing = o.parsing /\ w.hidden = o.hidden
        /\ w.index = x
    <3> HIDE DEF x
    <3> QED
      BY DEF Ops
  <2>4. q \in {d, w} /\ q \in Ops
    BY <2>1
  <2> HIDE DEF d, w
  <2> QED
    BY <1>1, <2>2, <2>3, <2>4
<1>3. /\ r.pc = q.pc /\ r.sha = q.sha /\ r.since = q.since
      /\ r.timely = q.timely /\ r.parsing = q.parsing /\ r.hidden = q.hidden
      /\ r.index = q.index
  BY <1>2 DEF Ops
<1>4. \A f \in Plain : /\ Reaches(o.index, f, o.sha)
                       /\ o.since = edits /\ o.timely => CurrentIn(o.index, f)
  BY Settled
<1>5. GoodIndex(Labelled(o))
  BY <1>1, <1>4, LabelledGood, PlainFiles DEF GoodIndex
<1>6. GoodIndex(r.index)
  BY <1>1, <1>2, <1>3, <1>5
<1>7. o.since = edits /\ o.timely => \A f \in Plain : CurrentIn(r.index, f)
  BY <1>1, <1>2, <1>3, <1>4, LabelledGood, PlainFiles
<1>8. /\ r.pc \in {"save", "done"} /\ r.sha = o.sha /\ r.since = o.since
      /\ r.timely = o.timely /\ r.parsing = None /\ r.hidden \cap Plain = {}
  BY <1>1, <1>2, <1>3
<1> QED
  BY <1>6, <1>7, <1>8, DoneGood

(* A loop that begins, or that goes on. *)
LEMMA WorkGood ==
    ASSUME TypeOK, WorldOK, NEW o \in Ops, OpOK(o), NEW r \in Ops,
           o.pc # "idle", r.pc \in {"update", "build"},
           r.sha = o.sha, r.since = o.since, r.timely = o.timely,
           r.hidden \cap Plain = {}, WorkOK(r),
           r.parsing # None => /\ r.parsing.read = Now(r.parsing.file)
                               /\ Present(r.parsing.file),
           o.since = edits /\ o.timely =>
               \A f \in Plain : f \notin Pending(r) => CurrentIn(r.index, f)
    PROVE  OpOK(r)
  BY DEF OpOK, UpToDate

LEMMA HiddenIsHideable ==
    ASSUME TypeOK
    PROVE  Hidden \cap Plain = {}
<1>1. past[Ignore] \in Seq(Contents) /\ Now(Ignore) \in 1 .. Len(past[Ignore])
  BY Bounds DEF TypeOK, Paths, Now
<1>2. past[Ignore][Now(Ignore)] \in Contents
  BY <1>1
<1> QED
  BY <1>2 DEF Hidden, Text, Plain, Hideable

LEMMA UpdateGood ==
    ASSUME TypeOK, WorldOK, NEW o \in Ops, OpOK(o), o.pc = "decide",
           NEW r \in Ops, r.pc = "update", r.hidden = Hidden, r.sha = o.sha,
           r.since = o.since, r.timely = o.timely, r.parsing = o.parsing,
           r.todo = Expanded(Effective(o)), r.index = Labelled(o)
    PROVE  OpOK(r)
<1>1. o.sha \in 1 .. HeadSha /\ o.parsing = None /\ GoodIndex(o.index)
  BY DEF OpOK
<1>2. Effective(o) \subseteq r.todo /\ Pending(r) = r.todo
  BY <1>1 DEF Expanded, Pending
<1>3. \A f \in Plain : f \notin Pending(r) =>
          /\ Reaches(o.index, f, o.sha)
          /\ o.since = edits /\ o.timely => CurrentIn(o.index, f)
  BY <1>2, Settled
<1>4. WorkOK(r)
  BY <1>1, <1>3, LabelledGood, PlainFiles DEF WorkOK, GoodIndex
<1>5. o.since = edits /\ o.timely =>
         \A f \in Plain : f \notin Pending(r) => CurrentIn(r.index, f)
  BY <1>1, <1>3, LabelledGood, PlainFiles
<1> QED
  BY <1>1, <1>4, <1>5, HiddenIsHideable, WorkGood

LEMMA BuildGood ==
    ASSUME TypeOK, WorldOK, NEW o \in Ops, OpOK(o), o.pc = "scan",
           NEW r \in Ops, r.pc = "build", r.hidden = Hidden, r.sha = o.sha,
           r.since = o.since, r.timely = o.timely, r.parsing = o.parsing,
           r.todo = {f \in Files : Present(f)} \ Hidden,
           r.index = Labelled([o EXCEPT !.index = Blank])
    PROVE  OpOK(r)
<1> DEFINE b == [o EXCEPT !.index = Blank]
<1>1. o.sha \in 1 .. HeadSha /\ o.parsing = None
  BY DEF OpOK
<1>2. b \in Ops /\ b.sha = o.sha /\ b.index = Blank
  <2>1. b \in Ops
    BY IdleTyped, OpFields
  <2> QED
    BY <2>1 DEF Ops
<1>3. r.index.sha = o.sha /\ r.index.files = [f \in Files |-> None]
  <2> HIDE DEF b
  <2>1. r.index = Labelled(b)
    BY DEF b
  <2>2. Labelled(b).sha = b.sha /\ Labelled(b).files = b.index.files
    BY <1>1, <1>2, LabelledGood
  <2> QED
    BY <1>2, <2>1, <2>2 DEF Blank
<1>4. \A f \in Files : EntryOK(r.index, f)
  BY <1>3 DEF EntryOK
<1>5. ASSUME NEW f \in Plain, f \notin Pending(r)
      PROVE  CurrentIn(r.index, f) /\ Reaches(r.index, f, o.sha)
  <2>1. f \in Files /\ ~ Present(f)
    BY <1>1, <1>5, PlainFiles, HiddenIsHideable DEF Pending
  <2>2. CurrentIn(r.index, f)
    BY <1>3, <2>1 DEF CurrentIn, Said, Present
  <2> QED
    BY <1>1, <2>1, <2>2, CurrentReaches
<1>6. WorkOK(r)
  BY <1>3, <1>4, <1>5 DEF WorkOK
<1> QED
  BY <1>1, <1>5, <1>6, HiddenIsHideable, WorkGood

(* A file is dealt with: Skip, Drop and ParseStat. *)
LEMMA LoopGood ==
    ASSUME TypeOK, WorldOK, NEW o \in Ops, OpOK(o), o.pc \in {"update", "build"},
           NEW f \in Files, NEW r \in Ops, r.pc = o.pc, r.hidden = o.hidden,
           r.sha = o.sha, r.since = o.since, r.timely = o.timely,
           r.parsing = None, Pending(o) \subseteq r.todo \cup {f},
           r.index.sha = o.index.sha,
           \A g \in Files \ {f} : r.index.files[g] = o.index.files[g],
           EntryOK(r.index, f), f \in Plain => CurrentIn(r.index, f)
    PROVE  OpOK(r)
<1>1. o.sha \in 1 .. HeadSha /\ WorkOK(o) /\ o.hidden \cap Plain = {}
  BY DEF OpOK
<1>2. Pending(r) = r.todo
  BY DEF Pending
<1>3. \A g \in Files \ {f} :
         /\ EntryOK(o.index, g) => EntryOK(r.index, g)
         /\ CurrentIn(o.index, g) => CurrentIn(r.index, g)
         /\ \A s : Reaches(o.index, g, s) => Reaches(r.index, g, s)
  BY DEF EntryOK, CurrentIn, Reaches, Said
<1>4. f \in Plain => Reaches(r.index, f, o.sha)
  BY <1>1, CurrentReaches
<1>5. WorkOK(r)
  <2>1. \A g \in Files : EntryOK(r.index, g)
    BY <1>1, <1>3 DEF WorkOK
  <2>2. \A g \in Plain : g \notin Pending(r) => Reaches(r.index, g, r.sha)
    BY <1>1, <1>2, <1>3, <1>4, PlainFiles DEF WorkOK
  <2> QED
    BY <1>1, <2>1, <2>2 DEF WorkOK
<1>6. o.since = edits /\ o.timely =>
         \A g \in Plain : g \notin Pending(r) => CurrentIn(r.index, g)
  <2>1. o.since = edits /\ o.timely =>
           \A g \in Plain : g \notin Pending(o) => CurrentIn(o.index, g)
    BY DEF OpOK, UpToDate
  <2> QED
    BY <1>2, <1>3, <2>1, PlainFiles
<1> QED
  BY <1>1, <1>5, <1>6, WorkGood

-----------------------------------------------------------------------------
(* Each step of a call keeps the invariant. *)

LEMMA CallKeeps ==
    ASSUME IInv, TypeOK', NEW c \in Callers, NEW r \in Ops, Set(c, r), OpOK(r),
           UNCHANGED user,
           disk' \in {disk, Torn} \/ (op[c].pc = "write" /\ disk' = op[c].index)
    PROVE  IInv'
<1>1. /\ past' = past /\ trees' = trees /\ edits' = edits
      /\ op \in [Callers -> Ops] /\ op' = [op EXCEPT ![c] = r]
      /\ TypeOK /\ WorldOK
  BY DEF IInv, TypeOK, user, Set
<1>2. Grew
  BY <1>1, Bounds DEF Grew, Now, HeadSha
<1>3. WorldOK'
  BY <1>1 DEF WorldOK, Text, Now, HeadSha
<1>4. ASSUME NEW y \in Indexes, GoodIndex(y)  PROVE GoodIndex(y)'
  BY <1>1, <1>2, <1>4, GoodIndexStays
<1>5. ASSUME NEW o \in Ops, OpOK(o)  PROVE OpOK(o)'
  BY <1>1, <1>2, <1>5, OpStays DEF user
<1>6. ASSUME Legible'  PROVE GoodIndex(disk)'
  <2>1. PICK x : x = disk'
    OBVIOUS
  <2>2. x \in Indexes /\ GoodIndex(x)
    <3>1. op[c].pc = "write" => op[c].index \in Indexes /\ GoodIndex(op[c].index)
      BY <1>1 DEF IInv, OpOK, Ops
    <3> QED
      BY <1>6, <2>1, <3>1 DEF IInv, TypeOK, Legible
  <2>3. GoodIndex(x)'
    BY <1>4, <2>2
  <2> QED
    BY <2>1, <2>3 DEF GoodIndex, EntryOK, Reaches, Said
<1>7. ASSUME NEW d \in Callers  PROVE OpOK(op[d])'
  <2>1. PICK o \in Ops : op'[d] = o /\ OpOK(o)
    BY <1>1 DEF IInv
  <2>2. OpOK(o)'
    BY <1>5, <2>1
  <2> QED
    BY <2>1, <2>2 DEF OpOK, UpToDate, WorkOK, Pending, GoodIndex, EntryOK, CurrentIn,
       Said, Reaches
<1> QED
  BY <1>3, <1>6, <1>7 DEF IInv

LEMMA LocalKeeps ==
    ASSUME IInv, TypeOK', NEW c \in Callers, NEW r \in Ops, Set(c, r), OpOK(r),
           UNCHANGED user, UNCHANGED disk
    PROVE  IInv'
  BY CallKeeps

LEMMA IdleGood ==
    ASSUME TypeOK
    PROVE  OpOK(Idle)
  BY Bounds DEF Idle, OpOK, UpToDate

(* After a step that is typed, the caller's new record is one. *)
LEMMA NewRecord ==
    ASSUME TypeOK, TypeOK', NEW c \in Callers, NEW r, Set(c, r)
    PROVE  r \in Ops /\ op[c] \in Ops
  BY DEF TypeOK, Set

LEMMA StepKeeps ==
    ASSUME IInv, TypeOK', Flaws = {}, Nested = {}, NEW c \in Callers, CallStep(c)
    PROVE  IInv'
<1> DEFINE o == op[c]
<1>0. /\ TypeOK /\ WorldOK /\ o \in Ops /\ OpOK(o)
      /\ Legible => GoodIndex(disk) /\ disk \in Indexes
      /\ HeadSha \in Nat /\ edits \in Nat
  BY Bounds DEF IInv, TypeOK, Legible
<1>1. ASSUME NEW incremental \in BOOLEAN, Begin(c, incremental)  PROVE IInv'
  <2> DEFINE r == [Idle EXCEPT !.pc = "load", !.incremental = incremental,
                               !.sha = HeadSha, !.ign = IgnoreState, !.since = edits]
  <2>1. Set(c, r) /\ UNCHANGED user /\ UNCHANGED disk
    BY <1>1 DEF Begin, file
  <2>2. r \in Ops
    BY <1>0, <2>1, NewRecord
  <2>3. /\ r.pc = "load" /\ r.sha = HeadSha /\ r.since = edits
        /\ r.hidden = {} /\ r.parsing = None
    BY DEF Idle
  <2>4. OpOK(r)
    <3> HIDE DEF r
    <3> QED
      BY <1>0, <2>3 DEF OpOK, UpToDate, WorldOK
  <2> HIDE DEF r
  <2> QED
    BY <2>1, <2>2, <2>4, LocalKeeps
<1>2. ASSUME Load(c)  PROVE IInv'
  <2>1. PICK r : Set(c, r) /\ r = IF Legible /\ Matches(o.sha)
              THEN IF o.incremental
                   THEN [o EXCEPT !.pc = "status", !.index = disk] ELSE Idle
              ELSE [o EXCEPT !.pc = IF o.incremental THEN "bridge" ELSE "scan"]
    BY <1>2 DEF Load
  <2>2. r \in Ops /\ UNCHANGED user /\ UNCHANGED disk /\ o.pc = "load"
    BY <1>0, <1>2, <2>1, NewRecord DEF Load, file, At
  <2>3. ASSUME r = [o EXCEPT !.pc = "status", !.index = disk], Legible, Matches(o.sha)
        PROVE  OpOK(r)
    <3>1. /\ r.pc = "status" /\ r.index = disk /\ r.sha = o.sha /\ r.since = o.since
          /\ r.hidden = o.hidden /\ r.parsing = o.parsing
      BY <1>0, <2>3 DEF Ops
    <3>2. GoodIndex(disk) /\ disk.sha = o.sha
      BY <1>0, <2>2, <2>3 DEF Matches, OpOK, GoodIndex
    <3> QED
      BY <1>0, <2>2, <3>1, <3>2 DEF OpOK, UpToDate
  <2>4. ASSUME NEW pc \in {"bridge", "scan"}, r = [o EXCEPT !.pc = pc]
        PROVE  OpOK(r)
    <3>1. /\ r.pc = pc /\ r.sha = o.sha /\ r.since = o.since
          /\ r.hidden = o.hidden /\ r.parsing = o.parsing
      BY <1>0, <2>4 DEF Ops
    <3> QED
      BY <1>0, <2>2, <3>1 DEF OpOK, UpToDate
  <2>5. OpOK(r)
    BY <1>0, <2>1, <2>3, <2>4, IdleGood
  <2> QED
    BY <2>1, <2>2, <2>5, LocalKeeps
<1>3. ASSUME Bridge(c)  PROVE IInv'
  <2>1. PICK r : Set(c, r) /\ r = [o EXCEPT !.pc = "status", !.index = disk,
                    !.bridged = TRUE, !.changed = GitDiff(disk.sha, o.sha)]
    BY <1>3 DEF Bridge
  <2>2. r \in Ops /\ UNCHANGED user /\ UNCHANGED disk /\ o.pc = "bridge" /\ Legible
    BY <1>0, <1>3, <2>1, NewRecord DEF Bridge, Bridgeable, file, At
  <2>3. /\ r.pc = "status" /\ r.index = disk /\ r.sha = o.sha /\ r.since = o.since
        /\ r.hidden = o.hidden /\ r.parsing = o.parsing
        /\ r.changed = GitDiff(disk.sha, o.sha)
    BY <1>0, <2>1 DEF Ops
  <2>4. OpOK(r)
    BY <1>0, <2>2, <2>3 DEF OpOK, UpToDate
  <2> QED
    BY <2>1, <2>2, <2>4, LocalKeeps
<1>4. ASSUME BridgeFails(c)  PROVE IInv'
  <2>1. PICK r : Set(c, r) /\ r = [o EXCEPT !.pc = "scan"]
    BY <1>4 DEF BridgeFails
  <2>2. r \in Ops /\ UNCHANGED user /\ UNCHANGED disk /\ o.pc = "bridge"
    BY <1>0, <1>4, <2>1, NewRecord DEF BridgeFails, file, At
  <2>3. /\ r.pc = "scan" /\ r.sha = o.sha /\ r.since = o.since
        /\ r.hidden = o.hidden /\ r.parsing = o.parsing
    BY <1>0, <2>1 DEF Ops
  <2>4. OpOK(r)
    BY <1>0, <2>2, <2>3 DEF OpOK, UpToDate
  <2> QED
    BY <2>1, <2>2, <2>4, LocalKeeps
<1>5. ASSUME NEW S, NEW timely \in BOOLEAN, Told(c, S, timely), o.pc = "status",
             UNCHANGED user, UNCHANGED disk,
             timely => Dirty \cap Files \subseteq S
      PROVE  IInv'
  <2>1. PICK r : Set(c, r) /\ r = [o EXCEPT !.pc = "decide", !.changed = @ \cup S,
                                           !.timely = timely]
    BY <1>5 DEF Told
  <2>2. r \in Ops
    BY <1>0, <2>1, NewRecord
  <2>3. /\ r.pc = "decide" /\ r.index = o.index /\ r.sha = o.sha /\ r.since = o.since
        /\ r.hidden = o.hidden /\ r.parsing = o.parsing
        /\ r.changed = o.changed \cup S /\ r.timely = timely
    BY <1>0, <2>1 DEF Ops
  <2>4. OpOK(r)
    <3>1. /\ o.sha \in 1 .. HeadSha /\ (o.since = edits => o.sha = HeadSha)
          /\ o.since <= edits /\ o.hidden \cap Plain = {} /\ o.parsing = None
          /\ GoodIndex(o.index)
          /\ o.index.sha # o.sha => GitDiff(o.index.sha, o.sha) \subseteq o.changed
      BY <1>0, <1>5 DEF OpOK
    <3>2. o.index.sha # o.sha => GitDiff(o.index.sha, o.sha) \subseteq r.changed
      BY <2>3, <3>1
    <3>3. r.timely => Dirty \cap Files \subseteq r.changed
      BY <1>5, <2>3
    <3>4. r.since = edits /\ r.timely => UpToDate(r)
      BY <2>3, <3>3 DEF UpToDate
    <3> QED
      BY <2>3, <3>1, <3>2, <3>4 DEF OpOK
  <2> QED
    BY <1>5, <2>1, <2>2, <2>4, LocalKeeps
<1>6. ASSUME Status(c)  PROVE IInv'
  <2>1. Dirty \cap Files \subseteq GitStatus
    BY DEF GitStatus, Buried
  <2> QED
    BY <1>5, <1>6, <2>1 DEF Status, file, At
<1>7. ASSUME StatusRemembered(c) \/ StatusFails(c)  PROVE IInv'
  BY <1>5, <1>7 DEF StatusRemembered, StatusFails, file, At
<1>8. ASSUME NEW q, Decided(c, q), q \in {Synced(o), [o EXCEPT !.pc = "done"]},
             Effective(o) = {}
      PROVE  IInv'
  <2>1. PICK r : Set(c, r) /\ r = [q EXCEPT !.changed = {}, !.bridged = FALSE]
    BY <1>8 DEF Decided
  <2>2. r \in Ops /\ UNCHANGED user /\ UNCHANGED disk /\ o.pc = "decide"
    BY <1>0, <1>8, <2>1, NewRecord DEF Decided, file, At
  <2>3. OpOK(r)
    BY <1>0, <1>8, <2>1, <2>2, SyncedGood
  <2> QED
    BY <2>1, <2>2, <2>3, LocalKeeps
<1>9. ASSUME KeepAll(c)  PROVE IInv'
  <2>1. Effective(o) = {}
    BY <1>9 DEF KeepAll, Effective
  <2> QED
    BY <1>8, <1>9, <2>1 DEF KeepAll
<1>10. ASSUME NoneEffective(c)  PROVE IInv'
  BY <1>8, <1>10 DEF NoneEffective
<1>11. ASSUME IgnoreChanged(c)  PROVE IInv'
  <2> DEFINE q == [o EXCEPT !.pc = "scan"]
  <2>1. PICK r : Set(c, r) /\ r = [q EXCEPT !.changed = {}, !.bridged = FALSE]
    BY <1>11 DEF IgnoreChanged, Decided
  <2>2. r \in Ops /\ UNCHANGED user /\ UNCHANGED disk /\ o.pc = "decide"
    BY <1>0, <1>11, <2>1, NewRecord DEF IgnoreChanged, Decided, file, At
  <2>3. /\ r.pc = "scan" /\ r.sha = o.sha /\ r.since = o.since
        /\ r.hidden = o.hidden /\ r.parsing = o.parsing
    BY <1>0, <2>1 DEF Ops
  <2>4. OpOK(r)
    BY <1>0, <2>2, <2>3 DEF OpOK, UpToDate
  <2> QED
    BY <2>1, <2>2, <2>4, LocalKeeps
<1>12. ASSUME Update(c)  PROVE IInv'
  <2> DEFINE todo == Expanded(Effective(o))
             x == Labelled(o)
             q == [o EXCEPT !.pc = "update", !.hidden = Hidden, !.todo = todo, !.index = x]
  <2>1. PICK r : Set(c, r) /\ r = [q EXCEPT !.changed = {}, !.bridged = FALSE]
    BY <1>12 DEF Update, Decided
  <2>2. r \in Ops /\ UNCHANGED user /\ UNCHANGED disk /\ o.pc = "decide"
    BY <1>0, <1>12, <2>1, NewRecord DEF Update, Decided, file, At
  <2>3. /\ r.pc = "update" /\ r.sha = o.sha /\ r.since = o.since /\ r.timely = o.timely
        /\ r.hidden = Hidden /\ r.parsing = o.parsing /\ r.todo = todo /\ r.index = x
    <3> HIDE DEF todo, x
    <3> QED
      BY <1>0, <2>1 DEF Ops
  <2>4. OpOK(r)
    BY <1>0, <2>2, <2>3, UpdateGood
  <2> QED
    BY <2>1, <2>2, <2>4, LocalKeeps
<1>13. ASSUME Build(c)  PROVE IInv'
  <2> DEFINE todo == {f \in Files : Present(f)} \ Hidden
             x == Labelled([o EXCEPT !.index = Blank])
  <2>1. PICK r : Set(c, r) /\ r = [o EXCEPT !.pc = "build", !.incremental = TRUE,
                                 !.hidden = Hidden, !.todo = todo, !.index = x]
    BY <1>13 DEF Build
  <2>2. r \in Ops /\ UNCHANGED user /\ UNCHANGED disk /\ o.pc = "scan"
    BY <1>0, <1>13, <2>1, NewRecord DEF Build, file, At
  <2>3. /\ r.pc = "build" /\ r.sha = o.sha /\ r.since = o.since /\ r.timely = o.timely
        /\ r.hidden = Hidden /\ r.parsing = o.parsing /\ r.todo = todo /\ r.index = x
    <3> HIDE DEF todo, x
    <3> QED
      BY <1>0, <2>1 DEF Ops
  <2>4. OpOK(r)
    BY <1>0, <2>2, <2>3, BuildGood
  <2> QED
    BY <2>1, <2>2, <2>4, LocalKeeps
<1>14. ASSUME NEW f \in Files, Turn(c, f)
       PROVE  /\ o.pc \in {"update", "build"} /\ o.parsing = None
              /\ WorkOK(o) /\ EntryOK(o.index, f) /\ Pending(o) = o.todo
  BY <1>0, <1>14 DEF Turn, Parsing, OpOK, WorkOK, Pending
<1>15. ASSUME NEW f \in Files, Skip(c, f)  PROVE IInv'
  <2>1. PICK r : Set(c, r) /\ r = [o EXCEPT !.todo = @ \ {f}]
    BY <1>15 DEF Skip
  <2>2. r \in Ops /\ UNCHANGED user /\ UNCHANGED disk
    BY <1>0, <1>15, <2>1, NewRecord DEF Skip, file
  <2>3. /\ r.pc = o.pc /\ r.sha = o.sha /\ r.since = o.since /\ r.timely = o.timely
        /\ r.hidden = o.hidden /\ r.parsing = o.parsing /\ r.index = o.index
        /\ r.todo = o.todo \ {f}
    BY <1>0, <2>1 DEF Ops
  <2>4. CurrentIn(o.index, f)
    BY <1>0, <1>14, <1>15, SameIsCurrent DEF Skip, Wanted, Ops
  <2>5. OpOK(r)
    BY <1>0, <1>14, <1>15, <2>2, <2>3, <2>4, LoopGood DEF Skip
  <2> QED
    BY <2>1, <2>2, <2>5, LocalKeeps
<1>16. ASSUME NEW f \in Files, Drop(c, f)  PROVE IInv'
  <2>1. PICK r : Set(c, r) /\ r = [o EXCEPT !.todo = @ \ {f}, !.index.files[f] = None]
    BY <1>16 DEF Drop
  <2>2. r \in Ops /\ UNCHANGED user /\ UNCHANGED disk
    BY <1>0, <1>16, <2>1, NewRecord DEF Drop, file
  <2>3. /\ r.pc = o.pc /\ r.sha = o.sha /\ r.since = o.since /\ r.timely = o.timely
        /\ r.hidden = o.hidden /\ r.parsing = o.parsing /\ r.todo = o.todo \ {f}
        /\ r.index = [o.index EXCEPT !.files[f] = None]
    BY <1>0, <2>1 DEF Ops
  <2>4. /\ r.index.sha = o.index.sha /\ r.index.files[f] = None
        /\ \A g \in Files \ {f} : r.index.files[g] = o.index.files[g]
    BY <1>0, <2>3 DEF Ops, Indexes
  <2>5. EntryOK(r.index, f)
    BY <2>4 DEF EntryOK
  <2>6. f \in Plain => CurrentIn(r.index, f)
    <3>1. f \in Plain => f \notin o.hidden
      BY <1>0 DEF OpOK
    <3> QED
      BY <1>16, <2>4, <3>1 DEF Drop, Wanted, CurrentIn, Said, Present
  <2>7. OpOK(r)
    BY <1>0, <1>14, <1>16, <2>2, <2>3, <2>4, <2>5, <2>6, LoopGood DEF Drop
  <2> QED
    BY <2>1, <2>2, <2>7, LocalKeeps
<1>17. ASSUME NEW f \in Files, ParseRead(c, f)  PROVE IInv'
  <2> DEFINE read == [file |-> f, read |-> Now(f)]
  <2>1. PICK r : Set(c, r) /\ r = [o EXCEPT !.todo = @ \ {f}, !.parsing = read]
    BY <1>17 DEF ParseRead
  <2>2. r \in Ops /\ UNCHANGED user /\ UNCHANGED disk
    BY <1>0, <1>17, <2>1, NewRecord DEF ParseRead, file
  <2>3. /\ r.pc = o.pc /\ r.sha = o.sha /\ r.since = o.since /\ r.timely = o.timely
        /\ r.hidden = o.hidden /\ r.parsing = read /\ r.todo = o.todo \ {f}
        /\ r.index = o.index
    <3> HIDE DEF read
    <3> QED
      BY <1>0, <2>1 DEF Ops
  <2>4. read.file = f /\ read.read = Now(f) /\ Present(f) /\ f \in o.todo
    BY <1>17 DEF ParseRead, Turn, Wanted
  <2>5. /\ o.pc \in {"update", "build"} /\ WorkOK(o) /\ Pending(o) = o.todo
        /\ o.hidden \cap Plain = {} /\ o.pc # "idle"
        /\ o.since = edits /\ o.timely => UpToDate(o)
    BY <1>0, <1>14, <1>17 DEF ParseRead, OpOK
  <2>6. Pending(o) \subseteq Pending(r)
    <3>1. read \in Reads
      BY <1>0, WorldTyped, PlainFiles DEF Reads
    <3>2. read # None
      BY <3>1, Sentinels
    <3> HIDE DEF read
    <3> QED
      BY <2>3, <2>4, <2>5, <3>2 DEF Pending
  <2>7. WorkOK(r)
    BY <2>3, <2>5, <2>6 DEF WorkOK
  <2>8. o.since = edits /\ o.timely =>
           \A g \in Plain : g \notin Pending(r) => CurrentIn(r.index, g)
    BY <2>3, <2>5, <2>6 DEF UpToDate
  <2>9. OpOK(r)
    <3> HIDE DEF read
    <3> QED
      BY <1>0, <2>2, <2>3, <2>4, <2>5, <2>7, <2>8, WorkGood
  <2> QED
    BY <2>1, <2>2, <2>9, LocalKeeps
<1>18. ASSUME ParseStat(c)  PROVE IInv'
  <2> DEFINE f == o.parsing.file
             entry == [read |-> o.parsing.read, stat |-> Fingerprint(f)]
  <2>1. PICK r : Set(c, r) /\ r = [o EXCEPT !.parsing = None, !.index.files[f] = entry]
    BY <1>18 DEF ParseStat
  <2>2. /\ r \in Ops /\ UNCHANGED user /\ UNCHANGED disk
        /\ o.parsing # None /\ f \in Files
    BY <1>0, <1>18, <2>1, NewRecord DEF ParseStat, file, Ops, Reads
  <2>3. /\ o.pc \in {"update", "build"} /\ o.parsing.read = Now(f) /\ Present(f)
    BY <1>0, <2>2 DEF OpOK
  <2>4. /\ r.pc = o.pc /\ r.sha = o.sha /\ r.since = o.since /\ r.timely = o.timely
        /\ r.hidden = o.hidden /\ r.parsing = None /\ r.todo = o.todo
        /\ r.index = [o.index EXCEPT !.files[f] = entry]
    <3> HIDE DEF f, entry
    <3> QED
      BY <1>0, <2>1 DEF Ops
  <2>5. /\ r.index.sha = o.index.sha /\ r.index.files[f] = entry
        /\ \A g \in Files \ {f} : r.index.files[g] = o.index.files[g]
    <3> HIDE DEF f, entry
    <3> QED
      BY <1>0, <2>2, <2>4 DEF Ops, Indexes
  <2>6. entry.read = Now(f) /\ entry.stat = Now(f) /\ entry \in Entries
    <3>1. Now(f) \in Versions
      BY <1>0, <2>2, WorldTyped, PlainFiles
    <3> QED
      BY <2>3, <3>1 DEF Fingerprint, Entries
  <2>7. entry # None /\ Now(f) \in 1 .. Now(f)
    BY <1>0, <2>2, <2>6, Sentinels, Bounds, PlainFiles
  <2>8. EntryOK(r.index, f) /\ CurrentIn(r.index, f)
    <3> HIDE DEF entry, f
    <3> QED
      BY <2>5, <2>6, <2>7 DEF EntryOK, CurrentIn, Said
  <2>9. Pending(o) \subseteq r.todo \cup {f}
    BY <2>4 DEF Pending
  <2>10. OpOK(r)
    <3> HIDE DEF entry, f
    <3> QED
      BY <1>0, <2>2, <2>3, <2>4, <2>5, <2>8, <2>9, LoopGood
  <2> QED
    BY <2>1, <2>2, <2>10, LocalKeeps
<1>19. ASSUME Parsed(c)  PROVE IInv'
  <2>1. PICK r : Set(c, r) /\ r = [o EXCEPT !.pc = "save", !.hidden = {}]
    BY <1>19 DEF Parsed
  <2>2. /\ r \in Ops /\ UNCHANGED user /\ UNCHANGED disk /\ o.todo = {}
        /\ o.parsing = None /\ o.pc \in {"update", "build"}
    BY <1>0, <1>19, <2>1, NewRecord DEF Parsed, Parsing, file
  <2>3. /\ r.pc = "save" /\ r.sha = o.sha /\ r.since = o.since /\ r.timely = o.timely
        /\ r.hidden = {} /\ r.parsing = None /\ r.index = o.index
    BY <1>0, <2>1, <2>2 DEF Ops
  <2>4. o.sha \in 1 .. HeadSha /\ WorkOK(o) /\ Pending(o) = {}
        /\ (o.since = edits /\ o.timely => UpToDate(o))
    BY <1>0, <2>2 DEF OpOK, Pending
  <2>5. GoodIndex(o.index)
    BY <2>4 DEF WorkOK, GoodIndex
  <2>6. o.since = edits /\ o.timely => \A f \in Plain : CurrentIn(r.index, f)
    BY <2>2, <2>3, <2>4 DEF UpToDate
  <2>7. OpOK(r)
    BY <1>0, <2>2, <2>3, <2>5, <2>6, DoneGood
  <2> QED
    BY <2>1, <2>2, <2>7, LocalKeeps
<1>20. ASSUME NEW pc \in {"write", "done"}, Set(c, [o EXCEPT !.pc = pc]),
              o.pc \in {"save", "write"}
       PROVE  \E r \in Ops : Set(c, r) /\ OpOK(r)
  <2>1. PICK r : Set(c, r) /\ r = [o EXCEPT !.pc = pc]
    BY <1>20
  <2>2. /\ r.pc = pc /\ r.sha = o.sha /\ r.since = o.since /\ r.timely = o.timely
        /\ r.hidden = o.hidden /\ r.parsing = o.parsing /\ r.index = o.index
    BY <1>0, <2>1 DEF Ops
  <2>3. OpOK(r)
    BY <1>0, <1>20, <2>2 DEF OpOK, UpToDate
  <2> QED
    BY <1>0, <2>1, <2>3, NewRecord
<1>21. ASSUME SaveOpen(c)  PROVE IInv'
  <2>1. disk' = Torn /\ UNCHANGED user /\ o.pc = "save" /\ Set(c, [o EXCEPT !.pc = "write"])
    BY <1>21 DEF SaveOpen, At
  <2>2. PICK r \in Ops : Set(c, r) /\ OpOK(r)
    BY <1>20, <2>1
  <2> QED
    BY <2>1, <2>2, CallKeeps
<1>22. ASSUME SaveWrite(c)  PROVE IInv'
  <2>1. disk' \in {o.index, Torn} /\ UNCHANGED user /\ o.pc = "write"
        /\ Set(c, [o EXCEPT !.pc = "done"])
    BY <1>22 DEF SaveWrite, At
  <2>2. PICK r \in Ops : Set(c, r) /\ OpOK(r)
    BY <1>20, <2>1
  <2> QED
    BY <2>1, <2>2, CallKeeps
<1>23. ASSUME Kill(c)  PROVE IInv'
  BY <1>0, <1>23, IdleTyped, IdleGood, LocalKeeps DEF Kill
<1> QED
  BY <1>1, <1>2, <1>3, <1>4, <1>6, <1>7, <1>9, <1>10, <1>11, <1>12, <1>13,
     <1>15, <1>16, <1>17, <1>18, <1>19, <1>21, <1>22, <1>23 DEF CallStep

LEMMA Inductive ==
    ASSUME Flaws = {}, Nested = {}
    PROVE  Spec => []IInv
<1>1. ASSUME Init  PROVE IInv
  <2>1. TypeOK
    BY <1>1, TypeCorrectInit
  <2>2. /\ HeadSha = 1 /\ \A p \in Paths : Now(p) = 1 /\ trees[1][p] = 1
    BY <1>1 DEF Init, HeadSha, Now
  <2>3. WorldOK
    BY <2>2 DEF WorldOK
  <2>4. \A c \in Callers : OpOK(op[c])
    BY <1>1, <2>1, IdleGood DEF Init
  <2> QED
    BY <1>1, <2>1, <2>3, <2>4 DEF Init, IInv, Legible
<1>2. IInv /\ [Next]_vars => IInv'
  <2>1. ASSUME IInv, [Next]_vars  PROVE TypeOK'
    BY <2>1, TypeStep DEF IInv
  <2>2. ASSUME IInv, Next  PROVE IInv'
    BY <2>1, <2>2, EditKeeps, CommitKeeps, StepKeeps DEF Next
  <2>3. ASSUME IInv, UNCHANGED vars  PROVE IInv'
    <3>1. /\ past' = past /\ trees' = trees /\ edits' = edits /\ disk' = disk /\ op' = op
      BY <2>3 DEF vars
    <3>2. TypeOK'
      BY <2>1, <2>3
    <3>3. WorldOK'
      BY <2>3, <3>1 DEF IInv, WorldOK, Text, Now, HeadSha
    <3>4. Legible' => GoodIndex(disk)'
      BY <2>3, <3>1 DEF IInv, Legible, GoodIndex, EntryOK, Reaches, Said, Text, Now, HeadSha
    <3>5. ASSUME NEW c \in Callers  PROVE OpOK(op[c])'
      <4>1. PICK o \in Ops : o = op[c] /\ OpOK(o)
        BY <2>3 DEF IInv, TypeOK
      <4>2. Grew /\ UNCHANGED user
        BY <2>3, <3>1, Bounds DEF IInv, Grew, Now, HeadSha, user
      <4>3. OpOK(o)'
        BY <2>3, <3>1, <3>2, <4>1, <4>2, OpStays DEF IInv
      <4>4. op'[c] = o
        BY <3>1, <4>1
      <4> QED
        BY <4>3, <4>4 DEF OpOK, UpToDate, WorkOK, Pending, GoodIndex, EntryOK, CurrentIn,
           Said, Reaches
    <3> QED
      BY <3>2, <3>3, <3>4, <3>5 DEF IInv
  <2> QED
    BY <2>2, <2>3
<1> QED
  BY <1>1, <1>2, PTL DEF Spec

(* An index labelled with a commit holds of every file that is never       *)
(* hidden the committed content or a later one, whatever refreshes, builds *)
(* and kills of any number of callers wrote it.                            *)
THEOREM IndexReachesItsLabel ==
    ASSUME Flaws = {}, Nested = {}
    PROVE  Spec => []LabelReached
<1>1. IInv => LabelReached
  BY DEF IInv, LabelReached, OpOK, GoodIndex
<1> QED
  BY <1>1, Inductive, PTL

(* A refresh that git answered in time and the user left alone returns     *)
(* every file that is never hidden as it is.                               *)
THEOREM RefreshIsCurrent ==
    ASSUME Flaws = {}, Nested = {}
    PROVE  Spec => []FilesCurrent
<1>1. IInv => FilesCurrent
  BY DEF IInv, FilesCurrent, Quiet, OpOK, UpToDate, CurrentIn
<1> QED
  BY <1>1, Inductive, PTL

-----------------------------------------------------------------------------
(***************************************************************************)
(* What .aceignore hides.  As long as git was asked in time and no commit  *)
(* fell within a call, an index belongs to a version of .aceignore: each   *)
(* entry was filtered by that version or a later one, so that if           *)
(* .aceignore is that version still, the filter was the present one.       *)
(***************************************************************************)

(* The ignore state of a version of .aceignore, and what it hides. *)
IgnoreAt(v) == IF Text(Ignore, v) # None THEN v ELSE 0
HiddenAt(v) == HiddenBy[Text(Ignore, v)]

(* Version w of .aceignore is at or past commit s, and is what the label says. *)
Labels(w, s, ign) == w >= trees[s][Ignore] /\ IgnoreAt(w) = ign

FilteredAt(index, f, v, s) ==
    IF f \in HiddenAt(v) THEN index.files[f] = None ELSE Reaches(index, f, s)

FilteredSince(index, f, w, s) ==
    \E v \in w .. Now(Ignore) : FilteredAt(index, f, v, s)

Filtered(index) ==
    \E w \in 1 .. Now(Ignore) :
       /\ Labels(w, index.sha, index.ign)
       /\ \A f \in Files : FilteredSince(index, f, w, index.sha)

(* The same for the files that a loop has dealt with. *)
WorkFiltered(o) ==
    /\ o.index.ign = o.ign
    /\ \E w \in 1 .. Now(Ignore) :
          /\ Labels(w, o.sha, o.ign)
          /\ \E v \in w .. Now(Ignore) : o.hidden = HiddenAt(v)
          /\ \A f \in Files : f \notin Pending(o) => FilteredSince(o.index, f, w, o.sha)

AsBuilt(index, f) ==
    IF f \in Hidden THEN index.files[f] = None ELSE CurrentIn(index, f)

(* As long as the user does nothing, a call filters by what is there. *)
Undisturbed(o) ==
    /\ o.pc # "idle" => o.ign = IgnoreState
    /\ o.pc = "decide" => Dirty \subseteq o.changed
    /\ o.pc \in {"update", "build"} =>
          /\ o.hidden = Hidden
          /\ \A f \in Files : f \notin Pending(o) => AsBuilt(o.index, f)
    /\ o.pc \in {"save", "write", "done"} => \A f \in Files : AsBuilt(o.index, f)

SureOK(o) ==
    /\ o.timely
    /\ o.pc \notin {"idle", "done"} =>
          /\ o.sha = HeadSha
          /\ \E w \in 1 .. Now(Ignore) : Labels(w, o.sha, o.ign)
    /\ o.parsing # None => o.parsing.file \notin o.hidden
    /\ o.pc \in {"status", "decide"} => Filtered(o.index)
    /\ o.pc = "decide" /\ Ignore \notin o.changed =>
          o.ign = IgnoreAt(trees[o.sha][Ignore])
    /\ o.pc \in {"update", "build"} => WorkFiltered(o)
    /\ o.pc \in {"save", "write", "done"} => Filtered(o.index)
    /\ o.since = edits => Undisturbed(o)

SureInv ==
    sure => /\ Legible => Filtered(disk)
            /\ \A c \in Callers : SureOK(op[c])

-----------------------------------------------------------------------------
(* What the user does. *)

LEMMA IgnoreVersions ==
    ASSUME TypeOK, WorldOK
    PROVE  /\ Ignore \in Paths /\ Now(Ignore) \in Nat /\ Now(Ignore) \in 1 .. Now(Ignore)
           /\ IgnoreState = IgnoreAt(Now(Ignore)) /\ Hidden = HiddenAt(Now(Ignore))
           /\ \A s \in 1 .. HeadSha : trees[s][Ignore] \in 1 .. Now(Ignore)
           /\ \A v \in 1 .. Now(Ignore), w \in 1 .. Now(Ignore) :
                 IgnoreAt(v) = IgnoreAt(w) => v = w
<1>1. Ignore \in Paths
  BY DEF Paths
<1>2. Now(Ignore) \in Nat /\ Now(Ignore) \in 1 .. Now(Ignore)
  BY <1>1, Bounds
<1>3. IgnoreState = IgnoreAt(Now(Ignore)) /\ Hidden = HiddenAt(Now(Ignore))
  BY DEF IgnoreState, IgnoreAt, Present, Hidden, HiddenAt
<1>4. \A s \in 1 .. HeadSha : trees[s][Ignore] \in 1 .. Now(Ignore)
  BY <1>1 DEF WorldOK
<1>5. ASSUME NEW v \in 1 .. Now(Ignore), NEW w \in 1 .. Now(Ignore),
             IgnoreAt(v) = IgnoreAt(w)
      PROVE  v = w
  <2>1. v # 0 /\ w # 0
    BY <1>2
  <2>2. Text(Ignore, v) = Text(Ignore, w) => v = w
    BY <1>1 DEF WorldOK
  <2> QED
    BY <1>5, <2>1, <2>2 DEF IgnoreAt
<1> QED
  BY <1>1, <1>2, <1>3, <1>4, <1>5

LEMMA VersionsStay ==
    ASSUME TypeOK, TypeOK', WorldOK, Grew
    PROVE  /\ Now(Ignore) \in Nat /\ Now(Ignore)' \in Nat /\ Now(Ignore)' >= Now(Ignore)
           /\ \A v \in 1 .. Now(Ignore) :
                 IgnoreAt(v)' = IgnoreAt(v) /\ HiddenAt(v)' = HiddenAt(v)
           /\ \A w \in 1 .. Now(Ignore), s \in 1 .. HeadSha : \A ign :
                 Labels(w, s, ign) => Labels(w, s, ign)'
<1>1. Ignore \in Paths
  BY DEF Paths
<1>2. Now(Ignore) \in Nat /\ Now(Ignore)' \in Nat /\ Now(Ignore)' >= Now(Ignore)
  BY <1>1, Bounds DEF Grew, TypeOK
<1>3. \A v \in 1 .. Now(Ignore) : Text(Ignore, v)' = Text(Ignore, v)
  BY <1>1 DEF Grew, Text
<1>4. \A v \in 1 .. Now(Ignore) : IgnoreAt(v)' = IgnoreAt(v) /\ HiddenAt(v)' = HiddenAt(v)
  BY <1>3 DEF IgnoreAt, HiddenAt
<1>5. \A s \in 1 .. HeadSha : trees'[s] = trees[s]
  BY DEF Grew
<1>6. ASSUME NEW w \in 1 .. Now(Ignore), NEW s \in 1 .. HeadSha, NEW ign, Labels(w, s, ign)
      PROVE  Labels(w, s, ign)'
  BY <1>4, <1>5, <1>6 DEF Labels
<1> QED
  BY <1>2, <1>4, <1>6

LEMMA FilteredSinceStays ==
    ASSUME TypeOK, TypeOK', WorldOK, Grew, NEW x \in Indexes, NEW f \in Files,
           EntryOK(x, f), NEW w \in 1 .. Now(Ignore), NEW s \in 1 .. HeadSha,
           FilteredSince(x, f, w, s)
    PROVE  FilteredSince(x, f, w, s)'
<1>1. PICK v \in w .. Now(Ignore) : FilteredAt(x, f, v, s)
  BY DEF FilteredSince
<1>2. v \in 1 .. Now(Ignore) /\ v \in w .. Now(Ignore)'
  BY VersionsStay
<1>3. FilteredAt(x, f, v, s)'
  BY <1>1, <1>2, VersionsStay, IndexStays DEF FilteredAt
<1> QED
  BY <1>2, <1>3 DEF FilteredSince

LEMMA FilteredStays ==
    ASSUME TypeOK, TypeOK', WorldOK, Grew, NEW x \in Indexes, GoodIndex(x), Filtered(x)
    PROVE  Filtered(x)'
<1>1. PICK w \in 1 .. Now(Ignore) :
         /\ Labels(w, x.sha, x.ign)
         /\ \A f \in Files : FilteredSince(x, f, w, x.sha)
  BY DEF Filtered
<1>2. w \in 1 .. Now(Ignore)' /\ Labels(w, x.sha, x.ign)'
  BY <1>1, VersionsStay DEF GoodIndex
<1>3. \A f \in Files : FilteredSince(x, f, w, x.sha)'
  BY <1>1, FilteredSinceStays DEF GoodIndex
<1> QED
  BY <1>2, <1>3 DEF Filtered

LEMMA SureSame ==
    ASSUME UNCHANGED user, NEW o
    PROVE  /\ SureOK(o)' <=> SureOK(o)
           /\ \A x : Filtered(x)' <=> Filtered(x)
<1>1. past' = past /\ trees' = trees /\ edits' = edits
  BY DEF user
<1>2. /\ Now(Ignore)' = Now(Ignore) /\ HeadSha' = HeadSha /\ Hidden' = Hidden
      /\ IgnoreState' = IgnoreState /\ Dirty' = Dirty
  BY <1>1 DEF Now, HeadSha, Hidden, IgnoreState, Dirty, InCommit, Present, Text
<1>3. \A v : IgnoreAt(v)' = IgnoreAt(v) /\ HiddenAt(v)' = HiddenAt(v)
  BY <1>1 DEF IgnoreAt, HiddenAt, Text
<1>4. \A w, s, ign : Labels(w, s, ign)' <=> Labels(w, s, ign)
  BY <1>1, <1>3 DEF Labels
<1>5. \A x, f : /\ CurrentIn(x, f)' <=> CurrentIn(x, f)
                /\ \A s : Reaches(x, f, s)' <=> Reaches(x, f, s)
  BY <1>1 DEF CurrentIn, Reaches, Said, Text, Now
<1>6. \A x, f : AsBuilt(x, f)' <=> AsBuilt(x, f)
  BY <1>2, <1>5 DEF AsBuilt
<1>7. \A x, f, v, s : FilteredAt(x, f, v, s)' <=> FilteredAt(x, f, v, s)
  BY <1>3, <1>5 DEF FilteredAt
<1>8. \A x, f, w, s : FilteredSince(x, f, w, s)' <=> FilteredSince(x, f, w, s)
  BY <1>2, <1>7 DEF FilteredSince
<1>9. \A x : Filtered(x)' <=> Filtered(x)
  BY <1>2, <1>4, <1>8 DEF Filtered
<1>10. WorkFiltered(o)' <=> WorkFiltered(o)
  BY <1>2, <1>3, <1>4, <1>8 DEF WorkFiltered, Pending
<1>11. Undisturbed(o)' <=> Undisturbed(o)
  BY <1>2, <1>6 DEF Undisturbed, Pending
<1> QED
  BY <1>1, <1>2, <1>3, <1>4, <1>9, <1>10, <1>11 DEF SureOK

LEMMA SureStays ==
    ASSUME TypeOK, TypeOK', WorldOK, Grew, NEW o \in Ops, OpOK(o), SureOK(o),
           UNCHANGED user \/ edits' = edits + 1,
           HeadSha' = HeadSha \/ o.pc \in {"idle", "done"}
    PROVE  SureOK(o)'
<1>1. CASE UNCHANGED user
  BY <1>1, SureSame
<1>2. CASE edits' = edits + 1
  <2>1. /\ o.since # edits' /\ o.index \in Indexes
        /\ o.pc # "idle" => o.sha \in 1 .. HeadSha
    BY <1>2, Bounds, IndexCacheConstants DEF Ops, OpOK
  <2>2. ASSUME o.pc \notin {"idle", "done"}
        PROVE  o.sha = HeadSha' /\ \E w \in 1 .. Now(Ignore)' : Labels(w, o.sha, o.ign)'
    <3>1. PICK w \in 1 .. Now(Ignore) : Labels(w, o.sha, o.ign)
      BY <2>2 DEF SureOK
    <3> QED
      BY <2>1, <2>2, <3>1, VersionsStay DEF SureOK
  <2>3. o.pc \in {"status", "decide", "save", "write", "done"} => Filtered(o.index)'
    BY <2>1, FilteredStays DEF SureOK, OpOK
  <2>4. ASSUME o.pc = "decide", Ignore \notin o.changed
        PROVE  o.ign = IgnoreAt(trees[o.sha][Ignore])'
    <3>1. /\ trees'[o.sha] = trees[o.sha] /\ trees[o.sha][Ignore] \in 1 .. Now(Ignore)
          /\ o.ign = IgnoreAt(trees[o.sha][Ignore])
      BY <2>1, <2>4, IgnoreVersions DEF Grew, SureOK
    <3> QED
      BY <3>1, VersionsStay DEF IgnoreAt
  <2>5. ASSUME o.pc \in {"update", "build"}  PROVE WorkFiltered(o)'
    <3>1. WorkFiltered(o) /\ WorkOK(o) /\ o.sha \in 1 .. HeadSha
      BY <2>1, <2>5 DEF SureOK, OpOK
    <3>2. PICK w \in 1 .. Now(Ignore) :
             /\ Labels(w, o.sha, o.ign)
             /\ \E v \in w .. Now(Ignore) : o.hidden = HiddenAt(v)
             /\ \A f \in Files : f \notin Pending(o) => FilteredSince(o.index, f, w, o.sha)
      BY <3>1 DEF WorkFiltered
    <3>3. w \in 1 .. Now(Ignore)' /\ Labels(w, o.sha, o.ign)'
      BY <3>1, <3>2, VersionsStay
    <3>4. \E v \in w .. Now(Ignore)' : o.hidden = HiddenAt(v)'
      <4>1. PICK v \in w .. Now(Ignore) : o.hidden = HiddenAt(v)
        BY <3>2
      <4>2. v \in 1 .. Now(Ignore) /\ v \in w .. Now(Ignore)'
        BY VersionsStay
      <4> QED
        BY <4>1, <4>2, VersionsStay
    <3>5. \A f \in Files : f \notin Pending(o) => FilteredSince(o.index, f, w, o.sha)'
      BY <2>1, <3>1, <3>2, FilteredSinceStays DEF WorkOK
    <3>6. o.index.ign = o.ign
      BY <3>1 DEF WorkFiltered
    <3> QED
      BY <3>3, <3>4, <3>5, <3>6 DEF WorkFiltered, Pending
  <2>6. o.timely /\ (o.parsing # None => o.parsing.file \notin o.hidden)
    BY DEF SureOK
  <2> QED
    BY <2>1, <2>2, <2>3, <2>4, <2>5, <2>6 DEF SureOK
<1> QED
  BY <1>1, <1>2

-----------------------------------------------------------------------------
(* A decided call, .aceignore being what it was. *)

(* The filter of the files it will not parse is at or past the version the *)
(* call began with, and is the present one if the user has done nothing.   *)
LEMMA SettledVersion ==
    ASSUME TypeOK, WorldOK, NEW o \in Ops, OpOK(o), SureOK(o), o.pc = "decide",
           ~ IgnoreMoved(o), NEW f \in Files,
           NEW w \in 1 .. Now(Ignore), Labels(w, o.sha, o.ign)
    PROVE  \E v \in w .. Now(Ignore) :
              /\ FilteredAt(o.index, f, v, o.index.sha)
              /\ o.since = edits => v = Now(Ignore)
<1>1. /\ o.sha \in 1 .. HeadSha /\ o.index.sha \in 1 .. HeadSha /\ o.sha = HeadSha
      /\ o.index.sha # o.sha => GitDiff(o.index.sha, o.sha) \subseteq o.changed
  BY DEF OpOK, GoodIndex, SureOK
<1>2. PICK u \in 1 .. Now(Ignore) :
         /\ Labels(u, o.index.sha, o.index.ign)
         /\ \A g \in Files : FilteredSince(o.index, g, u, o.index.sha)
  BY DEF SureOK, Filtered
<1>3. PICK v \in u .. Now(Ignore) : FilteredAt(o.index, f, v, o.index.sha)
  BY <1>2 DEF FilteredSince
<1>4. /\ Ignore \in Paths /\ Now(Ignore) \in Nat /\ Now(Ignore) \in 1 .. Now(Ignore)
      /\ v \in 1 .. Now(Ignore) /\ IgnoreState = IgnoreAt(Now(Ignore))
  BY IgnoreVersions
<1>5. CASE Ignore \in o.changed
  <2>1. IgnoreAt(u) = IgnoreAt(Now(Ignore))
    BY <1>2, <1>4, <1>5 DEF IgnoreMoved, Labels
  <2>2. u = Now(Ignore)
    BY <1>4, <2>1, IgnoreVersions
  <2>3. v = Now(Ignore) /\ v \in w .. Now(Ignore)
    BY <1>4, <2>2
  <2> QED
    BY <1>3, <2>3
<1>6. CASE Ignore \notin o.changed
  <2> DEFINE k == trees[o.sha][Ignore]
  <2>1. k \in 1 .. Now(Ignore) /\ trees[o.index.sha][Ignore] \in 1 .. Now(Ignore)
    BY <1>1, IgnoreVersions
  <2>2. trees[o.index.sha][Ignore] = k
    <3>1. CASE o.index.sha = o.sha
      BY <3>1
    <3>2. CASE o.index.sha # o.sha
      <4>1. Ignore \notin GitDiff(o.index.sha, o.sha) /\ o.sha # 0 /\ o.index.sha # 0
        BY <1>1, <1>6, <3>2, Bounds
      <4>2. Text(Ignore, trees[o.index.sha][Ignore]) = Text(Ignore, k)
        BY <1>4, <4>1 DEF GitDiff, InCommit
      <4> QED
        BY <1>4, <2>1, <4>2 DEF WorldOK
    <3> QED
      BY <3>1, <3>2
  <2>3. w = k
    <3>1. IgnoreAt(w) = IgnoreAt(k)
      BY <1>6 DEF SureOK, Labels
    <3> QED
      BY <2>1, <3>1, IgnoreVersions
  <2>4. u >= k
    BY <1>2, <2>2 DEF Labels
  <2>5. v \in w .. Now(Ignore)
    BY <1>4, <2>1, <2>3, <2>4
  <2>6. ASSUME o.since = edits  PROVE v = Now(Ignore)
    <3>1. Ignore \notin Dirty /\ HeadSha # 0
      BY <1>1, <1>6, <2>6, Bounds DEF SureOK, Undisturbed
    <3>2. Text(Ignore, Now(Ignore)) = Text(Ignore, k)
      BY <1>1, <1>4, <3>1 DEF Dirty, InCommit
    <3>3. k = Now(Ignore)
      BY <1>4, <2>1, <3>2 DEF WorldOK
    <3> QED
      BY <2>3, <2>5, <3>3, <1>4
  <2> QED
    BY <1>3, <2>5, <2>6
<1> QED
  BY <1>5, <1>6

LEMMA SettledFilter ==
    ASSUME TypeOK, WorldOK, NEW o \in Ops, OpOK(o), SureOK(o), o.pc = "decide",
           ~ IgnoreMoved(o), NEW f \in Files, f \notin Effective(o),
           NEW w \in 1 .. Now(Ignore), Labels(w, o.sha, o.ign)
    PROVE  /\ FilteredSince(o.index, f, w, o.sha)
           /\ o.since = edits => AsBuilt(o.index, f)
<1>1. PICK v \in w .. Now(Ignore) :
         /\ FilteredAt(o.index, f, v, o.index.sha)
         /\ o.since = edits => v = Now(Ignore)
  BY SettledVersion
<1>2. CASE f \in HiddenAt(v)
  <2>1. o.index.files[f] = None
    BY <1>1, <1>2 DEF FilteredAt
  <2>2. FilteredSince(o.index, f, w, o.sha)
    BY <1>2, <2>1 DEF FilteredSince, FilteredAt
  <2>3. o.since = edits => AsBuilt(o.index, f)
    BY <1>1, <1>2, <2>1, IgnoreVersions DEF AsBuilt
  <2> QED
    BY <2>2, <2>3
<1>3. CASE f \notin HiddenAt(v)
  <2>1. Reaches(o.index, f, o.index.sha)
    BY <1>1, <1>3 DEF FilteredAt
  <2>2. /\ Reaches(o.index, f, o.sha)
        /\ o.since = edits => CurrentIn(o.index, f)
    BY <2>1, SettledFile DEF SureOK
  <2>3. FilteredSince(o.index, f, w, o.sha)
    BY <1>3, <2>2 DEF FilteredSince, FilteredAt
  <2>4. o.since = edits => AsBuilt(o.index, f)
    BY <1>1, <1>3, <2>2, IgnoreVersions DEF AsBuilt
  <2> QED
    BY <2>3, <2>4
<1> QED
  BY <1>2, <1>3

(* How an entry was filtered does not depend on the label. *)
LEMMA SameFiles ==
    ASSUME NEW x, NEW y, NEW f, y.files[f] = x.files[f]
    PROVE  /\ \A w, s : FilteredSince(x, f, w, s) => FilteredSince(y, f, w, s)
           /\ AsBuilt(x, f) => AsBuilt(y, f)
  BY DEF FilteredSince, FilteredAt, AsBuilt, Reaches, CurrentIn, Said

LEMMA LabelledSure ==
    ASSUME TypeOK, NEW o \in Ops, o.sha \in 1 .. HeadSha
    PROVE  /\ Labelled(o).sha = o.sha /\ Labelled(o).ign = o.ign
           /\ Labelled(o).files = o.index.files
  BY Bounds DEF Labelled, Ops, Indexes

(* A call that has nothing to parse. *)
LEMMA SyncedSure ==
    ASSUME TypeOK, WorldOK, NEW o \in Ops, OpOK(o), SureOK(o), o.pc = "decide",
           ~ IgnoreMoved(o), Effective(o) = {}, NEW r \in Ops,
           r.pc \in {"save", "done"}, r.sha = o.sha, r.ign = o.ign, r.since = o.since,
           r.timely = o.timely, r.parsing = o.parsing,
           r.index \in {o.index, Labelled(o)}
    PROVE  SureOK(r)
<1>1. o.sha \in 1 .. HeadSha /\ o.parsing = None /\ o.timely /\ o.sha = HeadSha
  BY DEF OpOK, SureOK
<1>2. PICK w \in 1 .. Now(Ignore) : Labels(w, o.sha, o.ign)
  BY DEF SureOK
<1>3. \A f \in Files : /\ FilteredSince(o.index, f, w, o.sha)
                       /\ o.since = edits => AsBuilt(o.index, f)
  BY <1>2, SettledFilter
<1>4. \A f \in Files : r.index.files[f] = o.index.files[f]
  BY <1>1, LabelledSure
<1>5. \A f \in Files : o.since = edits => AsBuilt(r.index, f)
  BY <1>3, <1>4, SameFiles
<1>6. Filtered(r.index)
  <2>1. CASE r.index = o.index
    BY <2>1 DEF SureOK
  <2>2. CASE r.index = Labelled(o)
    <3>1. r.index.sha = o.sha /\ r.index.ign = o.ign
      BY <1>1, <2>2, LabelledSure
    <3>2. \A f \in Files : FilteredSince(r.index, f, w, o.sha)
      BY <1>3, <1>4, SameFiles
    <3> QED
      BY <1>2, <3>1, <3>2 DEF Filtered
  <2> QED
    BY <2>1, <2>2
<1>7. o.since = edits => o.ign = IgnoreState
  BY DEF SureOK, Undisturbed
<1> QED
  BY <1>1, <1>2, <1>5, <1>6, <1>7 DEF SureOK, Undisturbed

(* A loop that begins, or that goes on. *)
LEMMA WorkSure ==
    ASSUME TypeOK, WorldOK, NEW o \in Ops, SureOK(o), o.pc \notin {"idle", "done"},
           NEW r \in Ops, r.pc \in {"update", "build"},
           r.sha = o.sha, r.ign = o.ign, r.since = o.since, r.timely = o.timely,
           r.parsing # None => r.parsing.file \notin r.hidden,
           WorkFiltered(r),
           o.since = edits =>
               /\ r.hidden = Hidden
               /\ \A f \in Files : f \notin Pending(r) => AsBuilt(r.index, f)
    PROVE  SureOK(r)
<1>1. /\ o.timely /\ o.sha = HeadSha
      /\ \E w \in 1 .. Now(Ignore) : Labels(w, o.sha, o.ign)
      /\ o.since = edits => o.ign = IgnoreState
  BY DEF SureOK, Undisturbed
<1> QED
  BY <1>1 DEF SureOK, Undisturbed

LEMMA UpdateSure ==
    ASSUME TypeOK, WorldOK, NEW o \in Ops, OpOK(o), SureOK(o), o.pc = "decide",
           ~ IgnoreMoved(o), NEW r \in Ops, r.pc = "update", r.hidden = Hidden,
           r.sha = o.sha, r.ign = o.ign, r.since = o.since, r.timely = o.timely,
           r.parsing = o.parsing, r.todo = Expanded(Effective(o)), r.index = Labelled(o)
    PROVE  SureOK(r)
<1>1. o.sha \in 1 .. HeadSha /\ o.parsing = None
  BY DEF OpOK
<1>2. Effective(o) \subseteq r.todo /\ Pending(r) = r.todo
  BY <1>1 DEF Expanded, Pending
<1>3. PICK w \in 1 .. Now(Ignore) : Labels(w, o.sha, o.ign)
  BY DEF SureOK
<1>4. /\ r.index.ign = o.ign
      /\ \A f \in Files : r.index.files[f] = o.index.files[f]
  BY <1>1, LabelledSure
<1>5. \A f \in Files : f \notin Pending(r) =>
         /\ FilteredSince(r.index, f, w, o.sha)
         /\ o.since = edits => AsBuilt(r.index, f)
  BY <1>2, <1>3, <1>4, SettledFilter, SameFiles
<1>6. \E v \in w .. Now(Ignore) : r.hidden = HiddenAt(v)
  BY IgnoreVersions
<1>7. WorkFiltered(r)
  BY <1>3, <1>4, <1>5, <1>6 DEF WorkFiltered
<1> QED
  BY <1>1, <1>5, <1>7, WorkSure

LEMMA BuildSure ==
    ASSUME TypeOK, WorldOK, NEW o \in Ops, OpOK(o), SureOK(o), o.pc = "scan",
           NEW r \in Ops, r.pc = "build", r.hidden = Hidden,
           r.sha = o.sha, r.ign = o.ign, r.since = o.since, r.timely = o.timely,
           r.parsing = o.parsing, r.todo = {f \in Files : Present(f)} \ Hidden,
           r.index.sha = o.sha, r.index.ign = o.ign,
           \A f \in Files : r.index.files[f] = None
    PROVE  SureOK(r)
<1>1. o.sha \in 1 .. HeadSha /\ o.parsing = None
  BY DEF OpOK
<1>2. PICK w \in 1 .. Now(Ignore) : Labels(w, o.sha, o.ign)
  BY DEF SureOK
<1>3. Now(Ignore) \in w .. Now(Ignore) /\ Hidden = HiddenAt(Now(Ignore))
  BY IgnoreVersions
<1>4. ASSUME NEW f \in Files, f \notin Pending(r)
      PROVE  /\ FilteredSince(r.index, f, w, o.sha)
             /\ AsBuilt(r.index, f)
  <2>1. f \in Hidden \/ ~ Present(f)
    BY <1>1, <1>4 DEF Pending
  <2>2. r.index.files[f] = None
    OBVIOUS
  <2>3. CASE f \in Hidden
    BY <1>3, <2>2, <2>3 DEF FilteredSince, FilteredAt, AsBuilt
  <2>4. CASE f \notin Hidden
    <3>1. CurrentIn(r.index, f)
      BY <2>1, <2>2, <2>4 DEF CurrentIn, Said, Present
    <3>2. Reaches(r.index, f, o.sha)
      BY <1>1, <3>1, CurrentReaches
    <3> QED
      BY <1>3, <2>4, <3>1, <3>2 DEF FilteredSince, FilteredAt, AsBuilt
  <2> QED
    BY <2>3, <2>4
<1>5. WorkFiltered(r)
  BY <1>2, <1>3, <1>4 DEF WorkFiltered
<1> QED
  BY <1>1, <1>4, <1>5, WorkSure

(* A file is dealt with: Skip, Drop and ParseStat. *)
LEMMA LoopSure ==
    ASSUME TypeOK, WorldOK, NEW o \in Ops, OpOK(o), SureOK(o), o.pc \in {"update", "build"},
           NEW f \in Files, NEW r \in Ops, r.pc = o.pc, r.hidden = o.hidden,
           r.sha = o.sha, r.ign = o.ign, r.since = o.since, r.timely = o.timely,
           r.parsing = None, Pending(o) \subseteq r.todo \cup {f},
           r.index.ign = o.index.ign,
           \A g \in Files \ {f} : r.index.files[g] = o.index.files[g],
           \/ f \notin o.hidden /\ CurrentIn(r.index, f)
           \/ (f \in o.hidden \/ ~ Present(f)) /\ r.index.files[f] = None
    PROVE  SureOK(r)
<1>1. o.sha \in 1 .. HeadSha
  BY DEF OpOK
<1>2. Pending(r) = r.todo
  BY DEF Pending
<1>3. f \notin o.hidden => CurrentIn(r.index, f)
  BY DEF CurrentIn, Said, Present
<1>4. f \in o.hidden => r.index.files[f] = None
  OBVIOUS
<1>5. f \notin o.hidden => Reaches(r.index, f, o.sha)
  BY <1>1, <1>3, CurrentReaches
<1>6. PICK w \in 1 .. Now(Ignore) :
         /\ Labels(w, o.sha, o.ign)
         /\ \E v \in w .. Now(Ignore) : o.hidden = HiddenAt(v)
         /\ \A g \in Files : g \notin Pending(o) => FilteredSince(o.index, g, w, o.sha)
  BY DEF SureOK, WorkFiltered
<1>7. FilteredSince(r.index, f, w, o.sha)
  <2>1. PICK v \in w .. Now(Ignore) : o.hidden = HiddenAt(v)
    BY <1>6
  <2>2. FilteredAt(r.index, f, v, o.sha)
    BY <1>4, <1>5, <2>1 DEF FilteredAt
  <2> QED
    BY <2>2 DEF FilteredSince
<1>8. ASSUME NEW g \in Files, g \notin Pending(r)
      PROVE  FilteredSince(r.index, g, w, o.sha)
  <2>1. CASE g = f
    BY <1>7, <2>1
  <2>2. CASE g # f
    <3>1. FilteredSince(o.index, g, w, o.sha)
      BY <1>2, <1>6, <1>8, <2>2
    <3>2. r.index.files[g] = o.index.files[g]
      BY <2>2
    <3> QED
      BY <3>1, <3>2, SameFiles
  <2> QED
    BY <2>1, <2>2
<1>9. WorkFiltered(r)
  BY <1>6, <1>8 DEF WorkFiltered, SureOK
<1>10. ASSUME o.since = edits
       PROVE  /\ r.hidden = Hidden
              /\ \A g \in Files : g \notin Pending(r) => AsBuilt(r.index, g)
  <2>1. /\ o.hidden = Hidden
        /\ \A g \in Files : g \notin Pending(o) => AsBuilt(o.index, g)
    BY <1>10 DEF SureOK, Undisturbed
  <2>2. AsBuilt(r.index, f)
    BY <1>3, <1>4, <2>1 DEF AsBuilt
  <2> QED
    BY <1>2, <2>1, <2>2, SameFiles
<1> QED
  BY <1>9, <1>10, WorkSure

-----------------------------------------------------------------------------
(* Each step keeps it. *)

LEMMA UserSure ==
    ASSUME IInv, SureInv, TypeOK', Grew, edits' = edits + 1, UNCHANGED <<disk, op>>,
           sure' => /\ sure
                    /\ HeadSha' = HeadSha \/ \A c \in Callers : op[c].pc \in {"idle", "done"}
    PROVE  SureInv'
<1> SUFFICES ASSUME sure'  PROVE (Legible => Filtered(disk))' /\ \A c \in Callers : SureOK(op[c])'
  BY DEF SureInv
<1>1. /\ TypeOK /\ WorldOK /\ op \in [Callers -> Ops]
      /\ Legible => Filtered(disk) /\ GoodIndex(disk) /\ disk \in Indexes
      /\ \A c \in Callers : /\ OpOK(op[c]) /\ SureOK(op[c])
                            /\ HeadSha' = HeadSha \/ op[c].pc \in {"idle", "done"}
  BY DEF IInv, SureInv, TypeOK, Legible
<1>2. ASSUME Legible'  PROVE Filtered(disk)'
  <2>1. PICK y \in Indexes : y = disk /\ Filtered(y) /\ GoodIndex(y)
    BY <1>1, <1>2 DEF Legible
  <2>2. Filtered(y)'
    BY <1>1, <2>1, FilteredStays
  <2>3. disk' = y
    BY <2>1
  <2> QED
    BY <2>2, <2>3 DEF Filtered, FilteredSince, FilteredAt, Reaches, Said
<1>3. ASSUME NEW c \in Callers  PROVE SureOK(op[c])'
  <2>1. PICK o \in Ops : o = op[c]
    BY <1>1
  <2>2. SureOK(o) /\ OpOK(o) /\ (HeadSha' = HeadSha \/ o.pc \in {"idle", "done"})
    BY <1>1, <2>1
  <2>3. SureOK(o)'
    BY <1>1, <2>2, SureStays
  <2>4. op'[c] = o
    BY <2>1
  <2> QED
    BY <2>3, <2>4 DEF SureOK, Undisturbed, WorkFiltered, Pending, Filtered, FilteredSince,
       FilteredAt, AsBuilt, CurrentIn, Said, Reaches
<1> QED
  BY <1>2, <1>3

LEMMA EditSure ==
    ASSUME IInv, SureInv, TypeOK', Flaws = {}, NEW p \in Paths, NEW t \in Contents, Edit(p, t)
    PROVE  SureInv'
<1>1. /\ edits' = edits + 1 /\ UNCHANGED <<disk, op>> /\ sure' = sure /\ HeadSha' = HeadSha
  BY DEF Edit, HeadSha
<1>2. Grew
  BY EditKeeps
<1> QED
  BY <1>1, <1>2, UserSure

LEMMA CommitSure ==
    ASSUME IInv, SureInv, TypeOK', NEW S \in SUBSET Paths, Commit(S)
    PROVE  SureInv'
<1>1. /\ edits' = edits + 1 /\ UNCHANGED <<disk, op>>
      /\ sure' => sure /\ \A c \in Callers : op[c].pc \in {"idle", "done"}
  BY DEF Commit
<1>2. Grew
  BY CommitKeeps
<1> QED
  BY <1>1, <1>2, UserSure

LEMMA CallSure ==
    ASSUME IInv, SureInv, TypeOK', NEW c \in Callers, NEW r \in Ops, Set(c, r),
           sure' => sure, sure => SureOK(r), UNCHANGED user,
           disk' \in {disk, Torn} \/ (op[c].pc = "write" /\ disk' = op[c].index)
    PROVE  SureInv'
<1> SUFFICES ASSUME sure'  PROVE (Legible => Filtered(disk))' /\ \A d \in Callers : SureOK(op[d])'
  BY DEF SureInv
<1>1. /\ past' = past /\ trees' = trees /\ edits' = edits
      /\ op \in [Callers -> Ops] /\ op' = [op EXCEPT ![c] = r]
      /\ TypeOK /\ WorldOK
  BY DEF IInv, TypeOK, user, Set
<1>2. /\ Legible => Filtered(disk)
      /\ \A d \in Callers : SureOK(op[d])
      /\ SureOK(r)
  BY DEF SureInv
<1>3. ASSUME Legible'  PROVE Filtered(disk)'
  <2>1. PICK x : x = disk'
    OBVIOUS
  <2>2. Filtered(x)
    <3>1. op[c].pc = "write" => Filtered(op[c].index)
      BY <1>2 DEF SureOK
    <3> QED
      BY <1>2, <1>3, <2>1, <3>1 DEF Legible
  <2>3. Filtered(x)'
    BY <2>2, SureSame
  <2> QED
    BY <2>1, <2>3 DEF Filtered, FilteredSince, FilteredAt, Reaches, Said
<1>4. ASSUME NEW d \in Callers  PROVE SureOK(op[d])'
  <2>1. PICK o \in Ops : op'[d] = o /\ SureOK(o)
    BY <1>1, <1>2
  <2>2. SureOK(o)'
    BY <2>1, SureSame
  <2>3. (Undisturbed(o)' => Undisturbed(op[d])') /\ (WorkFiltered(o)' => WorkFiltered(op[d])')
    <3>1. Undisturbed(o)' => Undisturbed(op[d])'
      BY <2>1 DEF Undisturbed, Pending, AsBuilt, CurrentIn, Said
    <3>2. WorkFiltered(o)' => WorkFiltered(op[d])'
      BY <2>1 DEF WorkFiltered, Pending, FilteredSince, FilteredAt, Reaches, Said
    <3> QED
      BY <3>1, <3>2
  <2>4. Filtered(o.index)' => Filtered(op[d].index)'
    BY <2>1 DEF Filtered, FilteredSince, FilteredAt, Reaches, Said
  <2> QED
    BY <2>1, <2>2, <2>3, <2>4 DEF SureOK
<1> QED
  BY <1>3, <1>4

(* A record that is not in the middle of anything. *)
LEMMA IdleSure == SureOK(Idle)
  BY IndexCacheConstants DEF Idle, SureOK, Undisturbed

LEMMA StepSure ==
    ASSUME IInv, SureInv, TypeOK', Nested = {}, NEW c \in Callers, CallStep(c)
    PROVE  SureInv'
<1> DEFINE o == op[c]
<1>0. /\ TypeOK /\ WorldOK /\ o \in Ops /\ OpOK(o) /\ HeadSha \in Nat
      /\ Legible => GoodIndex(disk) /\ disk \in Indexes
      /\ sure => SureOK(o) /\ (Legible => Filtered(disk))
  BY Bounds DEF IInv, SureInv, TypeOK, Legible
<1>a. ASSUME NEW r \in Ops, Set(c, r), UNCHANGED <<user, file, sure>>, sure => SureOK(r)
      PROVE  SureInv'
  BY <1>a, CallSure DEF file
<1>b. ASSUME NEW r, Set(c, r)  PROVE r \in Ops
  BY <1>0, <1>b, NewRecord
<1> HIDE DEF o
<1>1. ASSUME NEW incremental \in BOOLEAN, Begin(c, incremental)  PROVE SureInv'
  <2>1. PICK r : Set(c, r) /\ r = [Idle EXCEPT !.pc = "load", !.incremental = incremental,
                               !.sha = HeadSha, !.ign = IgnoreState, !.since = edits]
    BY <1>1 DEF Begin
  <2>2. /\ r.pc = "load" /\ r.sha = HeadSha /\ r.ign = IgnoreState
        /\ r.parsing = None /\ r.timely
    BY <2>1 DEF Idle
  <2>3. \E w \in 1 .. Now(Ignore) : Labels(w, HeadSha, IgnoreState)
    <3>1. HeadSha \in 1 .. HeadSha
      BY <1>0 DEF WorldOK
    <3> QED
      BY <1>0, <3>1, IgnoreVersions DEF Labels
  <2>4. SureOK(r)
    BY <2>2, <2>3 DEF SureOK, Undisturbed
  <2> QED
    BY <1>1, <1>a, <1>b, <2>1, <2>4 DEF Begin
<1>2. ASSUME Load(c)  PROVE SureInv'
  <2>1. PICK r : Set(c, r) /\ r = IF Legible /\ Matches(o.sha)
              THEN IF o.incremental
                   THEN [o EXCEPT !.pc = "status", !.index = disk] ELSE Idle
              ELSE [o EXCEPT !.pc = IF o.incremental THEN "bridge" ELSE "scan"]
    BY <1>2 DEF Load, o
  <2>2. o.pc = "load"
    BY <1>2 DEF Load, At, o
  <2>3. ASSUME r = [o EXCEPT !.pc = "status", !.index = disk], Legible, sure
        PROVE  SureOK(r)
    <3>1. /\ r.pc = "status" /\ r.index = disk /\ r.sha = o.sha /\ r.ign = o.ign
          /\ r.since = o.since /\ r.timely = o.timely
          /\ r.hidden = o.hidden /\ r.parsing = o.parsing
      BY <1>0, <2>3 DEF Ops
    <3> QED
      BY <1>0, <2>2, <2>3, <3>1 DEF SureOK, Undisturbed
  <2>4. ASSUME NEW pc \in {"bridge", "scan"}, r = [o EXCEPT !.pc = pc], sure
        PROVE  SureOK(r)
    <3>1. /\ r.pc = pc /\ r.sha = o.sha /\ r.ign = o.ign
          /\ r.since = o.since /\ r.timely = o.timely
          /\ r.hidden = o.hidden /\ r.parsing = o.parsing
      BY <1>0, <2>4 DEF Ops
    <3> QED
      BY <1>0, <2>2, <2>4, <3>1 DEF SureOK, Undisturbed
  <2>5. sure => SureOK(r)
    BY <2>1, <2>3, <2>4, IdleSure
  <2> QED
    BY <1>2, <1>a, <1>b, <2>1, <2>5 DEF Load
<1>3. ASSUME Bridge(c)  PROVE SureInv'
  <2>1. PICK r : Set(c, r) /\ r = [o EXCEPT !.pc = "status", !.index = disk,
                    !.bridged = TRUE, !.changed = GitDiff(disk.sha, o.sha)]
    BY <1>3 DEF Bridge, o
  <2>2. o.pc = "bridge" /\ Legible
    BY <1>3 DEF Bridge, Bridgeable, At, o
  <2>3. /\ r.pc = "status" /\ r.index = disk /\ r.sha = o.sha /\ r.ign = o.ign
        /\ r.since = o.since /\ r.timely = o.timely
        /\ r.hidden = o.hidden /\ r.parsing = o.parsing
    BY <1>0, <2>1 DEF Ops
  <2>4. sure => SureOK(r)
    BY <1>0, <2>2, <2>3 DEF SureOK, Undisturbed
  <2> QED
    BY <1>3, <1>a, <1>b, <2>1, <2>4 DEF Bridge
<1>4. ASSUME BridgeFails(c)  PROVE SureInv'
  <2>1. PICK r : Set(c, r) /\ r = [o EXCEPT !.pc = "scan"]
    BY <1>4 DEF BridgeFails, o
  <2>2. o.pc = "bridge"
    BY <1>4 DEF BridgeFails, At, o
  <2>3. /\ r.pc = "scan" /\ r.sha = o.sha /\ r.ign = o.ign
        /\ r.since = o.since /\ r.timely = o.timely
        /\ r.hidden = o.hidden /\ r.parsing = o.parsing
    BY <1>0, <2>1 DEF Ops
  <2>4. sure => SureOK(r)
    BY <1>0, <2>2, <2>3 DEF SureOK, Undisturbed
  <2> QED
    BY <1>4, <1>a, <1>b, <2>1, <2>4 DEF BridgeFails
<1>5. ASSUME Status(c)  PROVE SureInv'
  <2>1. PICK r : Set(c, r) /\ r = [o EXCEPT !.pc = "decide", !.changed = @ \cup GitStatus,
                                           !.timely = TRUE]
    BY <1>5 DEF Status, Told, o
  <2>2. o.pc = "status"
    BY <1>5 DEF Status, At, o
  <2>3. /\ r.pc = "decide" /\ r.index = o.index /\ r.sha = o.sha /\ r.ign = o.ign
        /\ r.since = o.since /\ r.timely
        /\ r.hidden = o.hidden /\ r.parsing = o.parsing
        /\ r.changed = o.changed \cup GitStatus
    BY <1>0, <2>1 DEF Ops
  <2>4. Dirty \subseteq r.changed
    BY <2>3 DEF GitStatus, Buried
  <2>5. ASSUME sure, Ignore \notin r.changed
        PROVE  o.ign = IgnoreAt(trees[o.sha][Ignore])
    <3> DEFINE k == trees[o.sha][Ignore]
    <3>1. /\ o.sha \in 1 .. HeadSha /\ o.sha = HeadSha /\ o.sha # 0
          /\ Ignore \in Paths /\ Now(Ignore) \in 1 .. Now(Ignore)
          /\ k \in 1 .. Now(Ignore) /\ Now(Ignore) \in Nat
      BY <1>0, <2>2, <2>5, IgnoreVersions DEF OpOK, SureOK
    <3>2. Text(Ignore, Now(Ignore)) = Text(Ignore, k)
      BY <2>4, <2>5, <3>1 DEF Dirty, InCommit
    <3>3. k = Now(Ignore)
      BY <1>0, <3>1, <3>2 DEF WorldOK
    <3>4. PICK w \in 1 .. Now(Ignore) : w >= k /\ IgnoreAt(w) = o.ign
      BY <1>0, <2>2, <2>5 DEF SureOK, Labels
    <3>5. w = k
      BY <3>1, <3>3, <3>4
    <3> QED
      BY <3>4, <3>5
  <2>6. sure => SureOK(r)
    BY <1>0, <2>2, <2>3, <2>4, <2>5 DEF SureOK, Undisturbed
  <2> QED
    BY <1>5, <1>b, <2>1, <2>6, CallSure DEF Status, file
<1>6. ASSUME StatusRemembered(c) \/ StatusFails(c)  PROVE SureInv'
  BY <1>6 DEF StatusRemembered, StatusFails, SureInv
<1>7. ASSUME NEW q, Decided(c, q), q \in {Synced(o), [o EXCEPT !.pc = "done"]},
             Effective(o) = {}, ~ IgnoreMoved(o)
      PROVE  SureInv'
  <2>1. PICK r : Set(c, r) /\ r = [q EXCEPT !.changed = {}, !.bridged = FALSE]
    BY <1>7 DEF Decided
  <2>2. o.pc = "decide" /\ UNCHANGED <<user, file, sure>>
    BY <1>7 DEF Decided, At, o
  <2>3. /\ q.pc \in {"save", "done"} /\ q.sha = o.sha /\ q.ign = o.ign
        /\ q.since = o.since /\ q.timely = o.timely /\ q.parsing = o.parsing
        /\ q.index \in {o.index, Labelled(o)} /\ q \in Ops
    <3> DEFINE x == Labelled(o)
               d == [o EXCEPT !.pc = "done"]
               u == [o EXCEPT !.pc = "save", !.index = x]
    <3>1. Synced(o) \in {d, u} /\ Synced(o) \in Ops /\ d \in Ops
      BY <1>0, LabelledTyped, OpFields DEF Steps, Synced
    <3>2. /\ d.pc = "done" /\ d.sha = o.sha /\ d.ign = o.ign /\ d.since = o.since
          /\ d.timely = o.timely /\ d.parsing = o.parsing /\ d.index = o.index
      BY <1>0 DEF Ops
    <3>3. /\ u.pc = "save" /\ u.sha = o.sha /\ u.ign = o.ign /\ u.since = o.since
          /\ u.timely = o.timely /\ u.parsing = o.parsing /\ u.index = x
      <4> HIDE DEF x
      <4> QED
        BY <1>0 DEF Ops
    <3>4. q \in {d, u} /\ q \in Ops
      BY <1>7, <3>1
    <3> HIDE DEF d, u
    <3> QED
      BY <3>2, <3>3, <3>4
  <2>4. /\ r.pc = q.pc /\ r.sha = q.sha /\ r.ign = q.ign /\ r.since = q.since
        /\ r.timely = q.timely /\ r.parsing = q.parsing /\ r.index = q.index
    BY <2>1, <2>3 DEF Ops
  <2>5. r \in Ops
    BY <1>b, <2>1
  <2>6. /\ r.pc \in {"save", "done"} /\ r.sha = o.sha /\ r.ign = o.ign
        /\ r.since = o.since /\ r.timely = o.timely /\ r.parsing = o.parsing
        /\ r.index \in {o.index, Labelled(o)}
    BY <2>3, <2>4
  <2>7. sure => SureOK(r)
    BY <1>0, <1>7, <2>2, <2>5, <2>6, SyncedSure
  <2> QED
    BY <1>a, <2>1, <2>2, <2>5, <2>7
<1>8. ASSUME KeepAll(c)  PROVE SureInv'
  <2>1. Effective(o) = {} /\ ~ IgnoreMoved(o)
    BY <1>8 DEF KeepAll, Effective, IgnoreMoved, o
  <2> QED
    BY <1>7, <1>8, <2>1 DEF KeepAll, o
<1>9. ASSUME NoneEffective(c)  PROVE SureInv'
  BY <1>7, <1>9 DEF NoneEffective, o
<1>10. ASSUME IgnoreChanged(c)  PROVE SureInv'
  <2> DEFINE q == [o EXCEPT !.pc = "scan"]
  <2>1. PICK r : Set(c, r) /\ r = [q EXCEPT !.changed = {}, !.bridged = FALSE]
    BY <1>10 DEF IgnoreChanged, Decided, o
  <2>2. o.pc = "decide" /\ UNCHANGED <<user, file, sure>>
    BY <1>10 DEF IgnoreChanged, Decided, At, o
  <2>3. /\ r.pc = "scan" /\ r.sha = o.sha /\ r.ign = o.ign /\ r.since = o.since
        /\ r.timely = o.timely /\ r.hidden = o.hidden /\ r.parsing = o.parsing
    BY <1>0, <2>1 DEF Ops
  <2>4. sure => SureOK(r)
    BY <1>0, <2>2, <2>3 DEF SureOK, Undisturbed
  <2> QED
    BY <1>a, <1>b, <2>1, <2>2, <2>4
<1>11. ASSUME Update(c)  PROVE SureInv'
  <2> DEFINE todo == Expanded(Effective(o))
             x == Labelled(o)
             q == [o EXCEPT !.pc = "update", !.hidden = Hidden, !.todo = todo, !.index = x]
  <2>1. PICK r : Set(c, r) /\ r = [q EXCEPT !.changed = {}, !.bridged = FALSE]
    BY <1>11 DEF Update, Decided, o
  <2>2. o.pc = "decide" /\ UNCHANGED <<user, file, sure>> /\ ~ IgnoreMoved(o)
    BY <1>11 DEF Update, Decided, At, o
  <2>3. /\ r.pc = "update" /\ r.sha = o.sha /\ r.ign = o.ign /\ r.since = o.since
        /\ r.timely = o.timely /\ r.hidden = Hidden /\ r.parsing = o.parsing
        /\ r.todo = todo /\ r.index = x
    <3> HIDE DEF todo, x
    <3> QED
      BY <1>0, <2>1 DEF Ops
  <2>4. r \in Ops
    BY <1>b, <2>1
  <2>5. sure => SureOK(r)
    BY <1>0, <2>2, <2>3, <2>4, UpdateSure
  <2> QED
    BY <1>a, <2>1, <2>2, <2>4, <2>5
<1>12. ASSUME Build(c)  PROVE SureInv'
  <2> DEFINE todo == {f \in Files : Present(f)} \ Hidden
             b == [o EXCEPT !.index = Blank]
             x == Labelled(b)
  <2>1. PICK r : Set(c, r) /\ r = [o EXCEPT !.pc = "build", !.incremental = TRUE,
                                 !.hidden = Hidden, !.todo = todo, !.index = x]
    BY <1>12 DEF Build, o
  <2>2. o.pc = "scan" /\ UNCHANGED <<user, file, sure>>
    BY <1>12 DEF Build, At, o
  <2>3. /\ r.pc = "build" /\ r.sha = o.sha /\ r.ign = o.ign /\ r.since = o.since
        /\ r.timely = o.timely /\ r.hidden = Hidden /\ r.parsing = o.parsing
        /\ r.todo = todo /\ r.index = x
    <3> HIDE DEF todo, x
    <3> QED
      BY <1>0, <2>1 DEF Ops
  <2>4. r \in Ops
    BY <1>b, <2>1
  <2>5. r.index.sha = o.sha /\ r.index.ign = o.ign /\ \A f \in Files : r.index.files[f] = None
    <3>1. o.sha \in 1 .. HeadSha
      BY <1>0, <2>2 DEF OpOK
    <3>2. b \in Ops
      BY <1>0, IdleTyped, OpFields
    <3>3. b.sha = o.sha /\ b.ign = o.ign /\ b.index = Blank
      BY <1>0 DEF Ops
    <3>4. r.index = Labelled(b)
      BY <2>3
    <3> HIDE DEF b
    <3>5. /\ Labelled(b).sha = b.sha /\ Labelled(b).ign = b.ign
          /\ Labelled(b).files = b.index.files
      BY <1>0, <3>1, <3>2, <3>3, LabelledSure
    <3> QED
      BY <3>3, <3>4, <3>5 DEF Blank
  <2>6. sure => SureOK(r)
    BY <1>0, <2>2, <2>3, <2>4, <2>5, BuildSure
  <2> QED
    BY <1>a, <2>1, <2>2, <2>4, <2>6
<1>13. ASSUME NEW f \in Files, Turn(c, f)
       PROVE  o.pc \in {"update", "build"} /\ o.parsing = None /\ Pending(o) = o.todo
  BY <1>13 DEF Turn, Parsing, Pending, o
<1>14. ASSUME NEW f \in Files, Skip(c, f)  PROVE SureInv'
  <2>1. PICK r : Set(c, r) /\ r = [o EXCEPT !.todo = @ \ {f}]
    BY <1>14 DEF Skip, o
  <2>2. /\ UNCHANGED <<user, file, sure>> /\ Present(f) /\ f \notin o.hidden
        /\ SameAsIndexed(o.index, f)
        /\ o.pc \in {"update", "build"} /\ o.parsing = None /\ Pending(o) = o.todo
    BY <1>13, <1>14 DEF Skip, Wanted, o
  <2>3. /\ r.pc = o.pc /\ r.sha = o.sha /\ r.ign = o.ign /\ r.since = o.since
        /\ r.timely = o.timely /\ r.hidden = o.hidden /\ r.parsing = o.parsing
        /\ r.index = o.index /\ r.todo = o.todo \ {f}
    BY <1>0, <2>1 DEF Ops
  <2>4. CurrentIn(r.index, f)
    <3>1. EntryOK(o.index, f) /\ o.index \in Indexes
      BY <1>0, <2>2 DEF OpOK, WorkOK, Ops
    <3> QED
      BY <1>0, <2>2, <2>3, <3>1, SameIsCurrent
  <2>5. r \in Ops
    BY <1>b, <2>1
  <2>6. sure => SureOK(r)
    BY <1>0, <2>2, <2>3, <2>4, <2>5, LoopSure
  <2> QED
    BY <1>a, <2>1, <2>2, <2>5, <2>6
<1>15. ASSUME NEW f \in Files, Drop(c, f)  PROVE SureInv'
  <2>1. PICK r : Set(c, r) /\ r = [o EXCEPT !.todo = @ \ {f}, !.index.files[f] = None]
    BY <1>15 DEF Drop, o
  <2>2. /\ UNCHANGED <<user, file, sure>> /\ (~ Present(f) \/ f \in o.hidden)
        /\ o.pc \in {"update", "build"} /\ o.parsing = None /\ Pending(o) = o.todo
    BY <1>13, <1>15 DEF Drop, Wanted, o
  <2>3. /\ r.pc = o.pc /\ r.sha = o.sha /\ r.ign = o.ign /\ r.since = o.since
        /\ r.timely = o.timely /\ r.hidden = o.hidden /\ r.parsing = o.parsing
        /\ r.todo = o.todo \ {f} /\ r.index = [o.index EXCEPT !.files[f] = None]
    BY <1>0, <2>1 DEF Ops
  <2>4. /\ r.index.ign = o.index.ign /\ r.index.files[f] = None
        /\ \A g \in Files \ {f} : r.index.files[g] = o.index.files[g]
    BY <1>0, <2>3 DEF Ops, Indexes
  <2>5. r \in Ops
    BY <1>b, <2>1
  <2>6. ASSUME sure  PROVE SureOK(r)
    <3>1. /\ OpOK(o) /\ SureOK(o) /\ Pending(o) \subseteq r.todo \cup {f}
          /\ r.parsing = None /\ (f \in o.hidden \/ ~ Present(f))
      BY <1>0, <2>2, <2>3, <2>6
    <3> QED
      BY <1>0, <2>2, <2>3, <2>4, <2>5, <3>1, LoopSure
  <2> QED
    BY <1>a, <2>1, <2>2, <2>5, <2>6
<1>16. ASSUME NEW f \in Files, ParseRead(c, f)  PROVE SureInv'
  <2> DEFINE read == [file |-> f, read |-> Now(f)]
  <2>1. PICK r : Set(c, r) /\ r = [o EXCEPT !.todo = @ \ {f}, !.parsing = read]
    BY <1>16 DEF ParseRead, o
  <2>2. /\ UNCHANGED <<user, file, sure>> /\ f \notin o.hidden
        /\ o.pc \in {"update", "build"} /\ o.parsing = None /\ Pending(o) = o.todo
    BY <1>13, <1>16 DEF ParseRead, Wanted, o
  <2>3. /\ r.pc = o.pc /\ r.sha = o.sha /\ r.ign = o.ign /\ r.since = o.since
        /\ r.timely = o.timely /\ r.hidden = o.hidden /\ r.parsing = read
        /\ r.todo = o.todo \ {f} /\ r.index = o.index
    <3> HIDE DEF read
    <3> QED
      BY <1>0, <2>1 DEF Ops
  <2>4. Pending(o) \subseteq Pending(r)
    <3>1. read \in Reads /\ read.file = f
      BY <1>0, WorldTyped, PlainFiles DEF Reads
    <3>2. read # None
      BY <3>1, Sentinels
    <3> HIDE DEF read
    <3> QED
      BY <2>2, <2>3, <3>1, <3>2 DEF Pending
  <2>5. r \in Ops
    BY <1>b, <2>1
  <2>6. ASSUME sure  PROVE SureOK(r)
    <3>1. WorkFiltered(o) /\ (o.since = edits => Undisturbed(o)) /\ SureOK(o)
      BY <1>0, <2>2, <2>6 DEF SureOK
    <3>2. WorkFiltered(r)
      BY <2>3, <2>4, <3>1 DEF WorkFiltered
    <3>3. o.since = edits =>
             /\ r.hidden = Hidden
             /\ \A g \in Files : g \notin Pending(r) => AsBuilt(r.index, g)
      BY <2>2, <2>3, <2>4, <3>1 DEF Undisturbed
    <3>4. r.parsing.file \notin r.hidden
      BY <2>2, <2>3
    <3> QED
      BY <1>0, <2>2, <2>3, <2>5, <3>1, <3>2, <3>3, <3>4, WorkSure
  <2> QED
    BY <1>a, <2>1, <2>2, <2>5, <2>6
<1>17. ASSUME ParseStat(c)  PROVE SureInv'
  <2> DEFINE f == o.parsing.file
             entry == [read |-> o.parsing.read, stat |-> Fingerprint(f)]
  <2>1. PICK r : Set(c, r) /\ r = [o EXCEPT !.parsing = None, !.index.files[f] = entry]
    BY <1>17 DEF ParseStat, o
  <2>2. UNCHANGED <<user, file, sure>> /\ o.parsing # None
    BY <1>17 DEF ParseStat, o
  <2>3. f \in Files
    BY <1>0, <2>2 DEF Ops, Reads
  <2>4. o.pc \in {"update", "build"} /\ o.parsing.read = Now(f) /\ Present(f)
    BY <1>0, <2>2 DEF OpOK
  <2>5. /\ r.pc = o.pc /\ r.sha = o.sha /\ r.ign = o.ign /\ r.since = o.since
        /\ r.timely = o.timely /\ r.hidden = o.hidden /\ r.parsing = None
        /\ r.todo = o.todo /\ r.index = [o.index EXCEPT !.files[f] = entry]
    <3> HIDE DEF f, entry
    <3> QED
      BY <1>0, <2>1 DEF Ops
  <2>6. /\ r.index.ign = o.index.ign /\ r.index.files[f] = entry
        /\ \A g \in Files \ {f} : r.index.files[g] = o.index.files[g]
    <3> HIDE DEF f, entry
    <3> QED
      BY <1>0, <2>3, <2>5 DEF Ops, Indexes
  <2>7. entry \in Entries /\ entry.read = Now(f)
    <3>1. Now(f) \in Versions
      BY <1>0, <2>3, WorldTyped, PlainFiles
    <3> QED
      BY <2>4, <3>1 DEF Fingerprint, Entries
  <2>8. CurrentIn(r.index, f)
    <3>1. entry # None
      BY <2>7, Sentinels
    <3> HIDE DEF entry, f
    <3> QED
      BY <2>6, <2>7, <3>1 DEF CurrentIn, Said
  <2>9. Pending(o) \subseteq r.todo \cup {f}
    BY <2>5 DEF Pending
  <2>10. r \in Ops
    BY <1>b, <2>1
  <2>11. ASSUME sure  PROVE SureOK(r)
    <3>1. SureOK(o) /\ f \notin o.hidden
      BY <1>0, <2>2, <2>11 DEF SureOK
    <3> HIDE DEF entry, f
    <3> QED
      BY <1>0, <2>3, <2>4, <2>5, <2>6, <2>8, <2>9, <2>10, <3>1, LoopSure
  <2> QED
    BY <1>a, <2>1, <2>2, <2>10, <2>11
<1>18. ASSUME Parsed(c)  PROVE SureInv'
  <2>1. PICK r : Set(c, r) /\ r = [o EXCEPT !.pc = "save", !.hidden = {}]
    BY <1>18 DEF Parsed, o
  <2>2. /\ UNCHANGED <<user, file, sure>> /\ o.todo = {} /\ o.parsing = None
        /\ o.pc \in {"update", "build"}
    BY <1>18 DEF Parsed, Parsing, o
  <2>3. /\ r.pc = "save" /\ r.sha = o.sha /\ r.ign = o.ign /\ r.since = o.since
        /\ r.timely = o.timely /\ r.parsing = None /\ r.index = o.index
    BY <1>0, <2>1, <2>2 DEF Ops
  <2>4. ASSUME sure  PROVE SureOK(r)
    <3>1. SureOK(o) /\ WorkFiltered(o) /\ Pending(o) = {} /\ o.index.sha = o.sha
      BY <1>0, <2>2, <2>4 DEF SureOK, Pending, OpOK, WorkOK
    <3>2. Filtered(o.index)
      BY <3>1 DEF WorkFiltered, Filtered
    <3>3. o.since = edits => \A f \in Files : AsBuilt(o.index, f)
      BY <2>2, <3>1 DEF SureOK, Undisturbed
    <3> QED
      BY <2>2, <2>3, <3>1, <3>2, <3>3 DEF SureOK, Undisturbed
  <2> QED
    BY <1>a, <1>b, <2>1, <2>2, <2>4
<1>19. ASSUME NEW pc \in {"write", "done"}, Set(c, [o EXCEPT !.pc = pc]),
              o.pc \in {"save", "write"}
       PROVE  \E r \in Ops : Set(c, r) /\ (sure => SureOK(r))
  <2>1. PICK r : Set(c, r) /\ r = [o EXCEPT !.pc = pc]
    BY <1>19
  <2>2. /\ r.pc = pc /\ r.sha = o.sha /\ r.ign = o.ign /\ r.since = o.since
        /\ r.timely = o.timely /\ r.hidden = o.hidden /\ r.parsing = o.parsing
        /\ r.index = o.index
    BY <1>0, <2>1 DEF Ops
  <2>3. sure => SureOK(r)
    BY <1>0, <1>19, <2>2 DEF SureOK, Undisturbed
  <2> QED
    BY <1>b, <2>1, <2>3
<1>20. ASSUME SaveOpen(c)  PROVE SureInv'
  <2>1. /\ disk' = Torn /\ UNCHANGED user /\ sure' = sure /\ o.pc = "save"
        /\ Set(c, [o EXCEPT !.pc = "write"])
    BY <1>20 DEF SaveOpen, At, o
  <2>2. PICK r \in Ops : Set(c, r) /\ (sure => SureOK(r))
    BY <1>19, <2>1
  <2> QED
    BY <2>1, <2>2, CallSure
<1>21. ASSUME SaveWrite(c)  PROVE SureInv'
  <2>1. /\ disk' \in {o.index, Torn} /\ UNCHANGED user /\ sure' = sure /\ o.pc = "write"
        /\ Set(c, [o EXCEPT !.pc = "done"])
    BY <1>21 DEF SaveWrite, At, o
  <2>2. PICK r \in Ops : Set(c, r) /\ (sure => SureOK(r))
    BY <1>19, <2>1
  <2> QED
    BY <2>1, <2>2, CallSure DEF o
<1>22. ASSUME Kill(c)  PROVE SureInv'
  <2>1. Set(c, Idle) /\ UNCHANGED user /\ disk' = disk /\ sure' = sure
    BY <1>22 DEF Kill
  <2> QED
    BY <2>1, IdleTyped, IdleSure, CallSure
<1> QED
  BY <1>1, <1>2, <1>3, <1>4, <1>5, <1>6, <1>8, <1>9, <1>10, <1>11, <1>12,
     <1>14, <1>15, <1>16, <1>17, <1>18, <1>20, <1>21, <1>22 DEF CallStep

LEMMA SureInductive ==
    ASSUME Flaws = {}, Nested = {}
    PROVE  Spec => []SureInv
<1>1. ASSUME Init  PROVE SureInv
  BY <1>1, IdleSure DEF Init, SureInv, Legible
<1>2. IInv /\ IInv' /\ SureInv /\ [Next]_vars => SureInv'
  <2>1. ASSUME IInv, IInv', SureInv, Next  PROVE SureInv'
    BY <2>1, EditSure, CommitSure, StepSure DEF Next, IInv
  <2>2. ASSUME SureInv, UNCHANGED vars  PROVE SureInv'
    <3>1. UNCHANGED user /\ disk' = disk /\ op' = op /\ sure' = sure
      BY <2>2 DEF vars, user
    <3> SUFFICES ASSUME sure
                 PROVE  (Legible => Filtered(disk))' /\ \A c \in Callers : SureOK(op[c])'
      BY <3>1 DEF SureInv
    <3>2. ASSUME Legible'  PROVE Filtered(disk)'
      <4>1. PICK x : x = disk /\ Filtered(x)
        BY <2>2, <3>1, <3>2 DEF SureInv, Legible
      <4>2. Filtered(x)' /\ disk' = x
        BY <3>1, <4>1, SureSame
      <4> QED
        BY <4>2 DEF Filtered, FilteredSince, FilteredAt, Reaches, Said
    <3>3. ASSUME NEW c \in Callers  PROVE SureOK(op[c])'
      <4>1. PICK o : o = op[c] /\ SureOK(o)
        BY <2>2 DEF SureInv
      <4>2. SureOK(o)' /\ op'[c] = o
        BY <3>1, <4>1, SureSame
      <4> QED
        BY <4>2 DEF SureOK, Undisturbed, WorkFiltered, Pending, Filtered, FilteredSince,
           FilteredAt, AsBuilt, CurrentIn, Said, Reaches
    <3> QED
      BY <3>2, <3>3
  <2> QED
    BY <2>1, <2>2
<1> QED
  BY <1>1, <1>2, Inductive, PTL DEF Spec

(* If git answered every call in time and no commit fell within a call, a  *)
(* refresh that the user left alone returns what a full build would: of    *)
(* every file its content, or nothing if .aceignore hides it, however      *)
(* .aceignore, the files and the commits came and went before.             *)
THEOREM RefreshReturnsABuild ==
    ASSUME Flaws = {}, Nested = {}
    PROVE  Spec => []RefreshIsBuild
<1>1. IInv /\ SureInv => RefreshIsBuild
  <2> SUFFICES ASSUME IInv, SureInv, NEW c \in Callers, Quiet(c), sure, NEW f \in Files
               PROVE  Said(op[c].index, f) =
                         IF f \in Hidden THEN None ELSE Text(f, Now(f))
    BY DEF RefreshIsBuild
  <2>1. AsBuilt(op[c].index, f)
    BY DEF SureInv, SureOK, Undisturbed, Quiet
  <2> QED
    BY <2>1 DEF AsBuilt, CurrentIn, Said
<1> QED
  BY <1>1, Inductive, SureInductive, PTL

=============================================================================
