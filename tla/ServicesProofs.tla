--------------------------- MODULE ServicesProofs ---------------------------
(***************************************************************************)
(* Parts of the runtime that several processes or calls share: the schema  *)
(* of a runtime database, for any openers of any releases, the executor of *)
(* the parallel signals, for any calls and workers, the file of the memory *)
(* cache, for any clients, the embedding index, for any builders, and the  *)
(* config watcher, for any layers.                                         *)
(***************************************************************************)
EXTENDS RuntimeDb, ParallelSignals, LocalCache, EmbeddingIndex, ConfigWatcher,
        FiniteSetTheorems, TLAPS

-----------------------------------------------------------------------------
(* The database.  What a release creates at once holds the piece of the    *)
(* first migration.                                                        *)
Founding(pieces) == pieces # {} => 1 \in pieces

SchemaOK ==
    /\ schema.version \in 0 .. Top
    /\ schema.commits \in Nat
    /\ 1 .. schema.version \subseteq schema.pieces
    /\ Founding(schema.pieces)

(* A transaction has the pieces of the migrations before the next one, and *)
(* when nothing was committed since its first statement it has at least    *)
(* what is committed.  Whoever is past its last migration has written, and *)
(* the version it will set is that migration.                              *)
MigratingOK(p, o) ==
    /\ o = [pc |-> "migrate", next |-> o.next, wrote |-> o.wrote,
            seen |-> o.seen, version |-> o.version, pieces |-> o.pieces]
    /\ o.next \in 1 .. Latest[p] + 1
    /\ o.wrote \in BOOLEAN
    /\ o.seen \in Nat /\ o.seen <= schema.commits
    /\ 1 .. (o.next - 1) \subseteq o.pieces
    /\ Founding(o.pieces)
    /\ o.wrote => o.seen = schema.commits
    /\ o.seen = schema.commits => schema.pieces \subseteq o.pieces
    /\ o.next > Latest[p] => o.wrote /\ o.version = Latest[p]

OpenerOK(p, o) ==
    \/ o \in {[pc |-> "closed"], [pc |-> "failed"]}
    \/ o = [pc |-> "open"] /\ 1 .. Latest[p] \subseteq schema.pieces
    \/ /\ o = [pc |-> "begin", next |-> o.next]
       /\ o.next \in 1 .. Latest[p]
       /\ 1 .. (o.next - 1) \subseteq schema.pieces
    \/ MigratingOK(p, o)

(* The write lock has one holder. *)
Holds(p) == opening[p].pc = "migrate" /\ opening[p].wrote
OneHolder == \A p, q \in Openers : Holds(p) /\ Holds(q) => p = q

DbInv ==
    /\ SchemaOK
    /\ opening = [p \in Openers |-> opening[p]]
    /\ \A p \in Openers : OpenerOK(p, opening[p])
    /\ OneHolder

LEMMA LatestType == \A p \in Openers : Latest[p] \in 1 .. Top
BY RuntimeDbConstants DEF Migrations

(* A step of one opener that commits nothing, and takes the lock only when *)
(* nobody else has it.                                                     *)
LEMMA OpenerMoves ==
    ASSUME DbInv, NEW p \in Openers, NEW o, MoveTo(p, o), UNCHANGED schema,
           OpenerOK(p, o),
           o.pc = "migrate" /\ o.wrote => ~Locked \/ Holds(p)
    PROVE  DbInv'
<1>1. opening' = [q \in Openers |-> IF q = p THEN o ELSE opening[q]]
  BY DEF MoveTo, DbInv
<1>2. SchemaOK'
  BY DEF DbInv, SchemaOK
<1>3. \A q \in Openers : OpenerOK(q, opening'[q])
  BY <1>1 DEF DbInv
<1>4. \A q \in Openers : OpenerOK(q, opening[q])'
  <2> SUFFICES ASSUME NEW q \in Openers, NEW u, u = opening'[q]
               PROVE  OpenerOK(q, opening[q])'
    OBVIOUS
  <2>1. OpenerOK(q, u)
    BY <1>3
  <2> QED
    BY <2>1 DEF OpenerOK, MigratingOK
<1>5. OneHolder'
  BY <1>1 DEF DbInv, OneHolder, Holds, Locked
<1> QED
  BY <1>1, <1>2, <1>4, <1>5 DEF DbInv

LEMMA ReadVersionStep ==
    ASSUME DbInv, NEW p \in Openers, ReadVersion(p)
    PROVE  DbInv'
<1>1. Latest[p] \in 1 .. Top
  BY LatestType
<1>2. CASE schema.version < Latest[p]
  <2> DEFINE o == [pc |-> "begin", next |-> schema.version + 1]
  <2>1. o.next \in 1 .. Latest[p] /\ o.next - 1 = schema.version
    BY <1>1, <1>2 DEF DbInv, SchemaOK, Top
  <2>2. OpenerOK(p, o)
    BY <2>1 DEF DbInv, SchemaOK, OpenerOK
  <2>3. MoveTo(p, o) /\ UNCHANGED schema /\ o.pc # "migrate"
    BY <1>2 DEF ReadVersion
  <2> HIDE DEF o
  <2> QED
    BY <2>2, <2>3, OpenerMoves
<1>3. CASE ~(schema.version < Latest[p])
  <2> DEFINE o == [pc |-> "open"]
  <2>1. 1 .. Latest[p] \subseteq 1 .. schema.version
    BY <1>1, <1>3 DEF DbInv, SchemaOK, Top
  <2>2. OpenerOK(p, o)
    BY <2>1 DEF DbInv, SchemaOK, OpenerOK
  <2>3. MoveTo(p, o) /\ UNCHANGED schema /\ o.pc # "migrate"
    BY <1>3 DEF ReadVersion
  <2> HIDE DEF o
  <2> QED
    BY <2>2, <2>3, OpenerMoves
<1> QED
  BY <1>2, <1>3

LEMMA BeginMigratingStep ==
    ASSUME DbInv, NEW p \in Openers, BeginMigrating(p)
    PROVE  DbInv'
<1> DEFINE creates == opening[p].next = 1 /\ schema.pieces = {}
           o == [pc |-> "migrate", next |-> opening[p].next, wrote |-> creates,
                 seen |-> schema.commits, version |-> schema.version,
                 pieces |-> schema.pieces]
<1>1. /\ opening[p].pc = "begin" /\ (creates => ~Locked)
      /\ MoveTo(p, o) /\ UNCHANGED schema
  BY DEF BeginMigrating
<1>2. /\ opening[p].next \in 1 .. Latest[p]
      /\ 1 .. (opening[p].next - 1) \subseteq schema.pieces
  BY <1>1 DEF DbInv, OpenerOK, MigratingOK
<1>3. Latest[p] \in 1 .. Top
  BY LatestType
<1>4. /\ o.next = opening[p].next /\ o.wrote = creates /\ o.seen = schema.commits
      /\ o.version = schema.version /\ o.pieces = schema.pieces
      /\ o = [pc |-> "migrate", next |-> o.next, wrote |-> o.wrote,
              seen |-> o.seen, version |-> o.version, pieces |-> o.pieces]
  OBVIOUS
<1>5. creates \in BOOLEAN
  OBVIOUS
<1> HIDE DEF o, creates
<1>6. MigratingOK(p, o)
  BY <1>2, <1>3, <1>4, <1>5 DEF MigratingOK, DbInv, SchemaOK, Top
<1>7. OpenerOK(p, o)
  BY <1>6 DEF OpenerOK
<1> QED
  BY <1>1, <1>4, <1>7, OpenerMoves

LEMMA AppliedRecord ==
    ASSUME NEW b, NEW add,
           b = [pc |-> "migrate", next |-> b.next, wrote |-> b.wrote,
                seen |-> b.seen, version |-> b.version, pieces |-> b.pieces]
    PROVE  [b EXCEPT !.next = @ + 1, !.wrote = TRUE, !.version = b.next,
                     !.pieces = @ \cup add]
             = [pc |-> "migrate", next |-> b.next + 1, wrote |-> TRUE,
                seen |-> b.seen, version |-> b.next, pieces |-> b.pieces \cup add]
<1> DEFINE e == [b EXCEPT !.next = @ + 1, !.wrote = TRUE, !.version = b.next,
                          !.pieces = @ \cup add]
<1>1. DOMAIN b = {"pc", "next", "wrote", "seen", "version", "pieces"} /\ b.pc = "migrate"
  OBVIOUS
<1>2. e = [f \in DOMAIN b |-> e[f]]
  OBVIOUS
<1>3. e.next = b.next + 1
  BY <1>1
<1>4. e.wrote = TRUE
  BY <1>1
<1>5. e.version = b.next
  BY <1>1
<1>6. e.pieces = b.pieces \cup add
  BY <1>1
<1>7. e.pc = "migrate" /\ e.seen = b.seen
  BY <1>1
<1> HIDE DEF e
<1>8. e = [pc |-> "migrate", next |-> b.next + 1, wrote |-> TRUE,
           seen |-> b.seen, version |-> b.next, pieces |-> b.pieces \cup add]
  BY <1>1, <1>2, <1>3, <1>4, <1>5, <1>6, <1>7
<1> QED
  BY <1>8 DEF e

LEMMA ApplyStep ==
    ASSUME DbInv, NEW p \in Openers, Apply(p)
    PROVE  DbInv'
<1> DEFINE b == opening[p]
           o == [pc |-> "migrate", next |-> b.next + 1, wrote |-> TRUE,
                 seen |-> b.seen, version |-> b.next, pieces |-> b.pieces \cup Added(p)]
<1>1. b.pc = "migrate" /\ MigratingOK(p, b)
  BY DEF Apply, DbInv, OpenerOK
<1>2. /\ b.next <= Latest[p] /\ (~Locked \/ b.wrote) /\ ~Stale(p) /\ UNCHANGED schema
      /\ MoveTo(p, [b EXCEPT !.next = @ + 1, !.wrote = TRUE, !.version = b.next,
                             !.pieces = @ \cup Added(p)])
  BY DEF Apply
<1>3. b = [pc |-> "migrate", next |-> b.next, wrote |-> b.wrote,
           seen |-> b.seen, version |-> b.version, pieces |-> b.pieces]
  BY <1>1 DEF MigratingOK
<1>4. MoveTo(p, o)
  <2> HIDE DEF b
  <2>1. [b EXCEPT !.next = @ + 1, !.wrote = TRUE, !.version = b.next,
                  !.pieces = @ \cup Added(p)] = o
    BY <1>3, AppliedRecord
  <2> QED
    BY <2>1, <1>2
<1>5. b.seen = schema.commits
  BY <1>1, <1>2 DEF Stale, MigratingOK
<1>6. Latest[p] \in 1 .. Top
  BY LatestType
<1>7. b.next \in Nat /\ b.next >= 1
  BY <1>1, <1>6 DEF MigratingOK, Top
<1>8. b.next \in o.pieces /\ 1 \in o.pieces
  <2>1. CASE b.next = 1 /\ b.pieces = {}
    BY <2>1, <1>6 DEF Added, Top
  <2>2. CASE b.next = 1 /\ b.pieces # {}
    BY <2>2, <1>1 DEF MigratingOK, Founding
  <2>3. CASE b.next # 1
    <3>1. Added(p) = {b.next}
      BY <2>3 DEF Added
    <3>2. 1 \in 1 .. (b.next - 1)
      BY <2>3, <1>7
    <3> QED
      BY <3>1, <3>2, <1>1 DEF MigratingOK
  <2> QED
    BY <2>1, <2>2, <2>3
<1>9. 1 .. b.next \subseteq o.pieces
  <2>1. 1 .. (b.next - 1) \subseteq o.pieces
    BY <1>1 DEF MigratingOK
  <2>2. 1 .. b.next = (1 .. (b.next - 1)) \cup {b.next}
    BY <1>7
  <2> QED
    BY <2>1, <2>2, <1>8
<1>10. schema.pieces \subseteq o.pieces
  BY <1>1, <1>5 DEF MigratingOK
<1>11. /\ o.next = b.next + 1 /\ o.wrote = TRUE /\ o.seen = b.seen /\ o.version = b.next
       /\ o = [pc |-> "migrate", next |-> o.next, wrote |-> o.wrote,
               seen |-> o.seen, version |-> o.version, pieces |-> o.pieces]
  OBVIOUS
<1> HIDE DEF o, b
<1>12. MigratingOK(p, o)
  <2>1. o.next \in 1 .. Latest[p] + 1 /\ o.next - 1 = b.next
    BY <1>2, <1>6, <1>7, <1>11 DEF Top
  <2>2. o.next > Latest[p] => o.version = Latest[p]
    BY <1>2, <1>6, <1>7, <1>11 DEF Top
  <2>3. o.seen \in Nat /\ o.seen <= schema.commits
    BY <1>1, <1>11 DEF MigratingOK
  <2> QED
    BY <2>1, <2>2, <2>3, <1>5, <1>8, <1>9, <1>10, <1>11 DEF MigratingOK, Founding
<1>13. OpenerOK(p, o)
  BY <1>12 DEF OpenerOK
<1>14. ~Locked \/ Holds(p)
  BY <1>1, <1>2 DEF Holds, b
<1> QED
  BY <1>2, <1>4, <1>13, <1>14, OpenerMoves

(* Only the holder of the lock commits, so nothing is taken out again.     *)
LEMMA CommitMigrationsStep ==
    ASSUME DbInv, NEW p \in Openers, CommitMigrations(p)
    PROVE  DbInv'
<1> DEFINE b == opening[p]
<1>1. /\ b.pc = "migrate" /\ b.next > Latest[p]
      /\ schema' = [version |-> b.version, pieces |-> b.pieces,
                    commits |-> schema.commits + 1]
      /\ opening' = [q \in Openers |-> IF q = p THEN [pc |-> "open"] ELSE opening[q]]
  BY DEF CommitMigrations, MoveTo, DbInv
<1>2. Latest[p] \in 1 .. Top
  BY LatestType
<1>3. MigratingOK(p, b)
  BY <1>1 DEF DbInv, OpenerOK
<1>4. /\ b.next = Latest[p] + 1 /\ b.wrote /\ b.version = Latest[p]
      /\ schema.pieces \subseteq b.pieces /\ Holds(p)
  BY <1>1, <1>2, <1>3 DEF MigratingOK, Holds, Top
<1>5. 1 .. Latest[p] \subseteq b.pieces
  <2>1. b.next - 1 = Latest[p]
    BY <1>2, <1>4 DEF Top
  <2> QED
    BY <2>1, <1>3 DEF MigratingOK
<1>6. /\ schema'.version = Latest[p] /\ schema'.pieces = b.pieces
      /\ schema'.commits = schema.commits + 1
  BY <1>1, <1>4
<1>7. SchemaOK'
  BY <1>2, <1>3, <1>5, <1>6 DEF SchemaOK, DbInv, MigratingOK, Top
<1>8. ASSUME NEW q \in Openers
      PROVE  OpenerOK(q, opening[q])'
  <2>1. CASE q = p
    BY <2>1, <1>1, <1>5, <1>6 DEF OpenerOK
  <2>2. CASE q # p
    <3>1. opening'[q] = opening[q] /\ OpenerOK(q, opening[q]) /\ ~Holds(q)
      BY <2>2, <1>1, <1>4 DEF DbInv, OneHolder
    <3>2. CASE MigratingOK(q, opening[q])
      <4>1. opening[q].pc = "migrate" /\ opening[q].wrote = FALSE
        BY <3>1, <3>2 DEF MigratingOK, Holds
      <4>2. opening[q].next <= Latest[q]
        BY <3>2, <4>1, LatestType DEF MigratingOK, Top
      <4>3. opening[q].seen <= schema'.commits /\ opening[q].seen # schema'.commits
        BY <3>2, <1>6 DEF MigratingOK, DbInv, SchemaOK
      <4>4. ~(opening[q].next > Latest[q])
        BY <4>2, <3>2, LatestType DEF MigratingOK, Top
      <4>5. MigratingOK(q, opening[q])'
        BY <3>1, <3>2, <4>1, <4>3, <4>4 DEF MigratingOK
      <4> QED
        BY <4>5 DEF OpenerOK
    <3>3. CASE ~MigratingOK(q, opening[q])
      BY <3>1, <3>3, <1>4, <1>6 DEF OpenerOK
    <3> QED
      BY <3>2, <3>3
  <2> QED
    BY <2>1, <2>2
<1>9. OneHolder'
  BY <1>1 DEF DbInv, OneHolder, Holds
<1> QED
  BY <1>1, <1>7, <1>8, <1>9 DEF DbInv

LEMMA DbInitial == DbInit => DbInv
<1> SUFFICES ASSUME DbInit PROVE DbInv
  OBVIOUS
<1>1. PICK v \in Founded : schema = [version |-> v, pieces |-> 1 .. v, commits |-> 0]
  BY DEF DbInit
<1>2. v \in 0 .. Top
  BY RuntimeDbConstants
<1>3. SchemaOK
  BY <1>1, <1>2 DEF SchemaOK, Founding, Top
<1> QED
  BY <1>3 DEF DbInit, DbInv, OpenerOK, OneHolder, Holds, Closed

LEMMA DbStep == DbInv /\ [DbNext]_dbVars => DbInv'
<1> SUFFICES ASSUME DbInv, [DbNext]_dbVars PROVE DbInv'
  OBVIOUS
<1>1. CASE UNCHANGED dbVars
  BY <1>1 DEF dbVars, DbInv, SchemaOK, OpenerOK, MigratingOK, OneHolder, Holds
<1>2. ASSUME NEW p \in Openers, NEW o \in {[pc |-> "closed"], [pc |-> "failed"]},
             MoveTo(p, o), UNCHANGED schema
      PROVE  DbInv'
  <2>1. OpenerOK(p, o) /\ o.pc # "migrate"
    BY DEF OpenerOK
  <2> QED
    BY <2>1, <1>2, OpenerMoves
<1>3. ASSUME NEW p \in Openers, GiveUpLock(p) \/ Refused(p) PROVE DbInv'
  BY <1>2, <1>3 DEF GiveUpLock, Refused, Fails
<1>4. ASSUME NEW p \in Openers, KillOpener(p) PROVE DbInv'
  BY <1>2, <1>4 DEF KillOpener, Closed
<1> QED
  BY <1>1, <1>3, <1>4, ReadVersionStep, BeginMigratingStep, ApplyStep,
     CommitMigrationsStep DEF DbNext

(* The version never says more than the schema has, and an open database   *)
(* has what its release needs, whoever else opens it.                      *)
THEOREM SchemaStaysUsable == DbSpec => []SchemaUsable
<1>1. DbInv => SchemaUsable
  BY DEF DbInv, SchemaOK, OpenerOK, MigratingOK, SchemaUsable
<1> QED
  BY <1>1, DbInitial, DbStep, PTL DEF DbSpec

-----------------------------------------------------------------------------
(* The executor.  A task is in its queue once at most.                     *)
QueueOK ==
    /\ queue \in Seq(Tasks)
    /\ \A i, j \in 1 .. Len(queue) : queue[i] = queue[j] => i = j

Queued == Range(queue)

Untouched(t) == t \notin Queued \cup running \cup ended /\ signal[t] = ""

(* A task that is queued does not run and has not run; one that will yet   *)
(* be submitted was not touched; one that is not wanted, or that the call  *)
(* does itself, is not queued.                                             *)
TasksOK ==
    /\ \A t \in Queued : t \notin running \cup ended
    /\ \A c \in Calls :
          /\ stage[c] \in {"idle", "submit docs", "run docs"} =>
                Untouched(<<c, "docs">>) /\ Untouched(<<c, "worktree">>)
          /\ stage[c] = "submit worktree" => Untouched(<<c, "worktree">>)
          /\ stage[c] = "run worktree" => <<c, "worktree">> \notin Queued
          /\ \A k \in Kinds \ plan[c].wants : <<c, k>> \notin Queued

CallsTyped ==
    /\ stage = [c \in Calls |-> stage[c]]
    /\ signal = [t \in Tasks |-> signal[t]]

SignalsInv == QueueOK /\ TasksOK /\ CallsTyped /\ NoWorkForNobody

LEMMA QueueAppend ==
    ASSUME QueueOK, NEW t \in Tasks, t \notin Queued, queue' = Append(queue, t)
    PROVE  QueueOK' /\ Queued' = Queued \cup {t}
<1>1. /\ queue' \in Seq(Tasks) /\ Len(queue') = Len(queue) + 1
      /\ \A i \in 1 .. Len(queue) : queue'[i] = queue[i]
      /\ queue'[Len(queue) + 1] = t
  BY DEF QueueOK
<1>2. DOMAIN queue = 1 .. Len(queue) /\ DOMAIN queue' = 1 .. Len(queue')
  BY <1>1 DEF QueueOK
<1>3. Len(queue) \in Nat
  BY DEF QueueOK
<1>4. \A i \in 1 .. Len(queue') : i \in 1 .. Len(queue) \/ i = Len(queue) + 1
  BY <1>1, <1>3
<1>5. \A i \in 1 .. Len(queue) : queue[i] # t
  BY <1>2 DEF Queued, Range
<1>6. \A i, j \in 1 .. Len(queue') : queue'[i] = queue'[j] => i = j
  <2> TAKE i, j \in 1 .. Len(queue')
  <2> QED
    BY <1>1, <1>4, <1>5 DEF QueueOK
<1>7. Queued' = Queued \cup {t}
  <2>1. Queued' = {queue'[i] : i \in 1 .. Len(queue')}
    BY <1>2 DEF Queued, Range
  <2>2. Queued = {queue[i] : i \in 1 .. Len(queue)}
    BY <1>2 DEF Queued, Range
  <2>3. ASSUME NEW x PROVE x \in Queued' <=> x \in Queued \cup {t}
    BY <1>1, <1>3, <1>4, <2>1, <2>2
  <2> QED
    BY <2>3
<1> QED
  BY <1>1, <1>6, <1>7 DEF QueueOK

LEMMA QueueTail ==
    ASSUME QueueOK, queue # << >>, queue' = Tail(queue)
    PROVE  QueueOK' /\ Queued' = Queued \ {Head(queue)} /\ Head(queue) \in Queued
<1>1. /\ Len(queue) \in Nat /\ Len(queue) >= 1
      /\ queue' \in Seq(Tasks) /\ Len(queue') = Len(queue) - 1
      /\ \A i \in 1 .. Len(queue') : queue'[i] = queue[i + 1]
      /\ Head(queue) = queue[1]
  BY DEF QueueOK
<1>2. DOMAIN queue = 1 .. Len(queue) /\ DOMAIN queue' = 1 .. Len(queue')
  BY <1>1 DEF QueueOK
<1>3. \A i \in 1 .. Len(queue') : i + 1 \in 1 .. Len(queue) /\ i + 1 # 1
  BY <1>1
<1>4. \A i \in 1 .. Len(queue) : i # 1 => i - 1 \in 1 .. Len(queue') /\ (i - 1) + 1 = i
  BY <1>1
<1>5. 1 \in 1 .. Len(queue)
  BY <1>1
<1>6. \A i, j \in 1 .. Len(queue') : queue'[i] = queue'[j] => i = j
  <2> TAKE i, j \in 1 .. Len(queue')
  <2>1. queue[i + 1] = queue[j + 1] => i + 1 = j + 1
    BY <1>3 DEF QueueOK
  <2> QED
    BY <2>1, <1>1
<1>7. Queued' = {queue'[i] : i \in 1 .. Len(queue')}
      /\ Queued = {queue[i] : i \in 1 .. Len(queue)}
  BY <1>2 DEF Queued, Range
<1>8. ASSUME NEW x PROVE x \in Queued' <=> x \in Queued \ {Head(queue)}
  <2>1. ASSUME x \in Queued' PROVE x \in Queued \ {Head(queue)}
    <3>1. PICK i \in 1 .. Len(queue') : x = queue'[i]
      BY <2>1, <1>7
    <3>2. x = queue[i + 1] /\ queue[i + 1] # queue[1]
      BY <3>1, <1>1, <1>3, <1>5 DEF QueueOK
    <3> QED
      BY <3>2, <1>1, <1>3, <1>7
  <2>2. ASSUME x \in Queued \ {Head(queue)} PROVE x \in Queued'
    <3>1. PICK i \in 1 .. Len(queue) : x = queue[i]
      BY <2>2, <1>7
    <3>2. i # 1
      BY <3>1, <2>2, <1>1
    <3>3. x = queue'[i - 1] /\ i - 1 \in 1 .. Len(queue')
      BY <3>1, <3>2, <1>1, <1>4
    <3> QED
      BY <3>3, <1>7
  <2> QED
    BY <2>1, <2>2
<1>9. Head(queue) \in Queued
  BY <1>1, <1>5, <1>7
<1> QED
  BY <1>1, <1>6, <1>8, <1>9 DEF QueueOK

LEMMA QueuedTasks == ASSUME QueueOK PROVE Queued \subseteq Tasks
<1>1. queue \in Seq(Tasks)
  BY DEF QueueOK
<1>2. \A i \in DOMAIN queue : queue[i] \in Tasks
  BY <1>1
<1> QED
  BY <1>2 DEF Queued, Range

(* A call takes something for a signal whose task is not in the queue, or  *)
(* is cancelled there.                                                     *)
LEMMA GivenStep ==
    ASSUME SignalsInv, NEW c \in Calls, NEW k \in Kinds, NEW s, NEW next,
           Given(c, k, s), Goto(c, next),
           next \in {"await worktree", "run worktree", "done"},
           UNCHANGED <<plan, queue, running, ended>>, dropped \subseteq dropped',
           <<c, k>> \in Queued => <<c, k>> \in dropped',
           next = "run worktree" => <<c, "worktree">> \notin Queued
    PROVE  SignalsInv'
<1>1. signal' = [t \in Tasks |-> IF t = <<c, k>> THEN s ELSE signal[t]]
  BY DEF Given, SignalsInv, CallsTyped
<1>2. stage' = [d \in Calls |-> IF d = c THEN next ELSE stage[d]]
  BY DEF Goto, SignalsInv, CallsTyped
<1>3. QueueOK' /\ Queued' = Queued /\ CallsTyped'
  BY <1>1, <1>2 DEF SignalsInv, QueueOK, Queued, CallsTyped
<1>4. \A d \in Calls, j \in Kinds : <<d, j>> \in Tasks
  BY DEF Tasks
<1>5. \A d \in Calls, j \in Kinds :
         d # c /\ Untouched(<<d, j>>) => Untouched(<<d, j>>)'
  BY <1>1, <1>3, <1>4 DEF Untouched
<1>6. TasksOK'
  BY <1>2, <1>3, <1>5 DEF SignalsInv, TasksOK, Kinds
<1>7. \A t \in Queued : t \in Tasks
  BY QueuedTasks DEF SignalsInv
<1>8. NoWorkForNobody'
  BY <1>1, <1>3, <1>7 DEF SignalsInv, NoWorkForNobody, Queued
<1> QED
  BY <1>3, <1>6, <1>8 DEF SignalsInv

(* A call goes on without a step of the executor and without a signal.     *)
LEMMA GotoStep ==
    ASSUME SignalsInv, NEW c \in Calls, NEW next, Goto(c, next),
           UNCHANGED <<plan, signal, executor>>,
           \/ stage[c] = "idle" /\ next \in {"submit docs", "run docs"}
           \/ next \in {"cancel docs", "cancel worktree"}
    PROVE  SignalsInv'
<1>1. stage' = [d \in Calls |-> IF d = c THEN next ELSE stage[d]]
  BY DEF Goto, SignalsInv, CallsTyped
<1>2. /\ QueueOK' /\ Queued' = Queued /\ CallsTyped'
      /\ UNCHANGED <<plan, signal, running, ended, dropped>>
  BY <1>1 DEF executor, SignalsInv, QueueOK, Queued, CallsTyped
<1>3. \A t : Untouched(t) => Untouched(t)'
  BY <1>2 DEF Untouched
<1>4. TasksOK'
  BY <1>1, <1>2, <1>3 DEF SignalsInv, TasksOK
<1>5. NoWorkForNobody'
  BY <1>2 DEF SignalsInv, NoWorkForNobody, Queued
<1> QED
  BY <1>2, <1>4, <1>5 DEF SignalsInv

LEMMA SubmitStep ==
    ASSUME SignalsInv, NEW c \in Calls, NEW k \in Kinds, NEW next, Submit(c, k, next),
           \/ stage[c] = "submit docs" /\ k = "docs" /\ next = "submit worktree"
           \/ stage[c] = "submit worktree" /\ k = "worktree" /\ next = "await docs"
    PROVE  SignalsInv'
<1>1. stage' = [d \in Calls |-> IF d = c THEN next ELSE stage[d]]
  BY DEF Submit, Goto, SignalsInv, CallsTyped
<1>2. UNCHANGED <<plan, signal, running, ended, dropped>>
  BY DEF Submit
<1>3. Untouched(<<c, k>>) /\ <<c, k>> \in Tasks
  BY DEF SignalsInv, TasksOK, Tasks
<1>4. QueueOK' /\ Queued' = IF k \in plan[c].wants THEN Queued \cup {<<c, k>>} ELSE Queued
  <2>1. CASE k \in plan[c].wants
    BY <2>1, <1>3, QueueAppend DEF Submit, SignalsInv, Untouched
  <2>2. CASE k \notin plan[c].wants
    BY <2>2 DEF Submit, SignalsInv, QueueOK, Queued
  <2> QED
    BY <2>1, <2>2
<1>5. \A d \in Calls, j \in Kinds :
         Untouched(<<d, j>>) /\ <<d, j>> # <<c, k>> => Untouched(<<d, j>>)'
  BY <1>2, <1>4 DEF Untouched
<1>6. TasksOK'
  <2>1. \A t \in Queued' : t \notin running' \cup ended'
    BY <1>2, <1>3, <1>4 DEF SignalsInv, TasksOK, Untouched
  <2>2. ASSUME NEW d \in Calls
        PROVE  /\ stage'[d] \in {"idle", "submit docs", "run docs"} =>
                     Untouched(<<d, "docs">>)' /\ Untouched(<<d, "worktree">>)'
               /\ stage'[d] = "submit worktree" => Untouched(<<d, "worktree">>)'
               /\ stage'[d] = "run worktree" => <<d, "worktree">> \notin Queued'
    <3>1. CASE d = c
      <4>1. stage'[d] = next
        BY <1>1, <3>1
      <4>2. CASE next = "submit worktree"
        <5>1. stage[c] = "submit docs" /\ k = "docs"
          BY <4>2
        <5>2. Untouched(<<c, "worktree">>)
          BY <5>1 DEF SignalsInv, TasksOK
        <5>3. Untouched(<<c, "worktree">>)'
          BY <5>1, <5>2, <1>5 DEF Kinds
        <5> QED
          BY <4>1, <4>2, <5>3, <3>1
      <4> QED
        BY <4>1, <4>2
    <3>2. CASE d # c
      BY <1>1, <1>4, <1>5, <3>2 DEF SignalsInv, TasksOK, Kinds
    <3> QED
      BY <3>1, <3>2
  <2>3. \A d \in Calls : \A j \in Kinds \ plan'[d].wants : <<d, j>> \notin Queued'
    BY <1>2, <1>4 DEF SignalsInv, TasksOK
  <2> QED
    BY <2>1, <2>2, <2>3 DEF TasksOK
<1>7. NoWorkForNobody'
  BY <1>2, <1>3, <1>4 DEF SignalsInv, NoWorkForNobody, Queued, Untouched
<1>8. CallsTyped'
  BY <1>1, <1>2 DEF SignalsInv, CallsTyped
<1> QED
  BY <1>4, <1>6, <1>7, <1>8 DEF SignalsInv

LEMMA TakeTaskStep == ASSUME SignalsInv, Take PROVE SignalsInv'
<1> DEFINE h == Head(queue)
<1>1. /\ queue # << >> /\ queue' = Tail(queue) /\ running' = running \cup ({h} \ dropped)
      /\ UNCHANGED <<stage, plan, signal, ended, dropped>>
  BY DEF Take
<1>2. QueueOK' /\ Queued' = Queued \ {h} /\ h \in Queued
  BY <1>1, QueueTail DEF SignalsInv
<1>3. \A t : Untouched(t) => Untouched(t)'
  BY <1>1, <1>2 DEF Untouched
<1> HIDE DEF h
<1>4. TasksOK'
  BY <1>1, <1>2, <1>3 DEF SignalsInv, TasksOK
<1>5. NoWorkForNobody'
  BY <1>1, <1>2 DEF SignalsInv, NoWorkForNobody, Queued
<1> QED
  BY <1>1, <1>2, <1>4, <1>5 DEF SignalsInv, CallsTyped

LEMMA FinishStep == ASSUME SignalsInv, NEW t \in Tasks, Finish(t) PROVE SignalsInv'
<1>1. /\ t \in running /\ running' = running \ {t} /\ ended' = ended \cup {t}
      /\ UNCHANGED <<stage, plan, signal, queue, dropped>>
  BY DEF Finish
<1>2. running' \cup ended' = running \cup ended /\ Queued' = Queued
  BY <1>1 DEF Queued
<1>3. \A u : Untouched(u) => Untouched(u)'
  BY <1>1, <1>2 DEF Untouched
<1>4. TasksOK'
  BY <1>1, <1>2, <1>3 DEF SignalsInv, TasksOK
<1>5. NoWorkForNobody'
  BY <1>1 DEF SignalsInv, NoWorkForNobody
<1> QED
  BY <1>1, <1>4, <1>5 DEF SignalsInv, QueueOK, CallsTyped

(* The ways a call goes on without a signal, or with it. *)
LEMMA AwaitStep ==
    ASSUME SignalsInv, NEW c \in Calls, NEW k \in Kinds,
           NEW next \in {"await worktree", "done"},
           NEW cancel \in {"cancel docs", "cancel worktree"},
           Unwanted(c, k, next) \/ Result(c, k, next) \/ Late(c, k, cancel)
    PROVE  SignalsInv'
<1>1. CASE Unwanted(c, k, next)
  <2>1. <<c, k>> \notin Queued
    BY <1>1 DEF Unwanted, SignalsInv, TasksOK
  <2> QED
    BY <2>1, <1>1, GivenStep DEF Unwanted, executor
<1>2. CASE Result(c, k, next)
  <2>1. <<c, k>> \notin Queued
    BY <1>2 DEF Result, SignalsInv, TasksOK
  <2> QED
    BY <2>1, <1>2, GivenStep DEF Result, executor
<1>3. CASE Late(c, k, cancel)
  BY <1>3, GotoStep DEF Late
<1> QED
  BY <1>1, <1>2, <1>3

LEMMA CancelStep ==
    ASSUME SignalsInv, NEW c \in Calls, NEW k \in Kinds,
           NEW next \in {"await worktree", "done"}, Cancel(c, k, next)
    PROVE  SignalsInv'
<1>1. <<c, k>> \in Queued => Waiting(<<c, k>>)
  BY DEF SignalsInv, TasksOK, Waiting
<1>2. dropped \subseteq dropped' /\ (<<c, k>> \in Queued => <<c, k>> \in dropped')
  BY <1>1 DEF Cancel
<1> QED
  BY <1>2, GivenStep DEF Cancel

LEMMA RunStep ==
    ASSUME SignalsInv, NEW c \in Calls, RunDocs(c) \/ RunWorktree(c)
    PROVE  SignalsInv'
<1>1. CASE RunDocs(c)
  <2>1. <<c, "docs">> \notin Queued /\ <<c, "worktree">> \notin Queued
    BY <1>1 DEF RunDocs, SignalsInv, TasksOK, Untouched
  <2>2. Given(c, "docs", "result") /\ Goto(c, "run worktree")
        /\ UNCHANGED <<plan, due, executor>>
    BY <1>1 DEF RunDocs
  <2> QED
    BY <2>1, <2>2, GivenStep DEF executor, Kinds
<1>2. CASE RunWorktree(c)
  <2>1. <<c, "worktree">> \notin Queued
    BY <1>2 DEF RunWorktree, SignalsInv, TasksOK
  <2>2. PICK s : Given(c, "worktree", s)
    BY <1>2 DEF RunWorktree
  <2>3. Goto(c, "done") /\ UNCHANGED <<plan, due, executor>>
    BY <1>2 DEF RunWorktree
  <2> QED
    BY <2>1, <2>2, <2>3, GivenStep DEF executor, Kinds
<1> QED
  BY <1>1, <1>2

LEMMA CallStep == ASSUME SignalsInv, NEW c \in Calls, Step(c) PROVE SignalsInv'
<1>1. CASE Enter(c)
  <2>1. PICK next \in {"submit docs", "run docs"} : Goto(c, next)
    BY <1>1 DEF Enter
  <2> QED
    BY <2>1, <1>1, GotoStep DEF Enter
<1>2. CASE SubmitDocs(c)
  BY <1>2, SubmitStep DEF SubmitDocs, Kinds
<1>3. CASE SubmitWorktree(c)
  BY <1>3, SubmitStep DEF SubmitWorktree, Kinds
<1>4. CASE AwaitDocs(c)
  BY <1>4, AwaitStep DEF AwaitDocs, Kinds
<1>5. CASE CancelDocs(c)
  BY <1>5, CancelStep DEF CancelDocs, Kinds
<1>6. CASE AwaitWorktree(c)
  BY <1>6, AwaitStep DEF AwaitWorktree, Kinds
<1>7. CASE CancelWorktree(c)
  BY <1>7, CancelStep DEF CancelWorktree, Kinds
<1>8. CASE RunDocs(c) \/ RunWorktree(c)
  BY <1>8, RunStep
<1> QED
  BY <1>1, <1>2, <1>3, <1>4, <1>5, <1>6, <1>7, <1>8 DEF Step

LEMMA SignalsInitial == SignalsInit => SignalsInv
<1> SUFFICES ASSUME SignalsInit PROVE SignalsInv
  OBVIOUS
<1>1. queue = << >> /\ running = {} /\ ended = {}
  BY DEF SignalsInit
<1>2. Queued = {}
  BY <1>1 DEF Queued, Range
<1>3. QueueOK
  BY <1>1 DEF QueueOK
<1>4. CallsTyped
  BY DEF SignalsInit, CallsTyped
<1>5. \A c \in Calls : \A k \in Kinds : Untouched(<<c, k>>)
  BY <1>1, <1>2 DEF Untouched, SignalsInit, Tasks
<1>6. TasksOK
  BY <1>2, <1>5 DEF TasksOK, Kinds
<1> QED
  BY <1>2, <1>3, <1>4, <1>6 DEF SignalsInv, NoWorkForNobody, Queued

LEMMA SignalsStep == SignalsInv /\ [SignalsNext]_signalsVars => SignalsInv'
<1> SUFFICES ASSUME SignalsInv, [SignalsNext]_signalsVars PROVE SignalsInv'
  OBVIOUS
<1>1. CASE UNCHANGED <<stage, plan, signal, executor>>
  BY <1>1 DEF executor, SignalsInv, QueueOK, TasksOK, Untouched, CallsTyped,
              NoWorkForNobody, Queued
<1>2. ASSUME NEW c \in Calls, Deadline(c) PROVE SignalsInv'
  BY <1>1, <1>2 DEF Deadline
<1>3. CASE UNCHANGED signalsVars
  BY <1>1, <1>3 DEF signalsVars, executor
<1> QED
  BY <1>2, <1>3, CallStep, TakeTaskStep, FinishStep DEF SignalsNext

(* A worker is never given a task whose call has gone on without it.       *)
THEOREM QueueServesTheWaiting == SignalsSpec => []NoWorkForNobody
<1>1. SignalsInv => NoWorkForNobody
  BY DEF SignalsInv
<1> QED
  BY <1>1, SignalsInitial, SignalsStep, PTL DEF SignalsSpec

-----------------------------------------------------------------------------
(* The memory cache.  A text a row has was still the provider's at the     *)
(* time of the row; a text a call returns was the provider's no longer     *)
(* than the time to live before the call.                                  *)
RowOK(r) ==
    /\ r.handle \in Handles
    /\ r.text \in 0 .. Current(r.handle)
    /\ r.updated \in 0 .. day
    /\ r.text \in 1 .. Len(revised[r.handle]) =>
          r.updated <= revised[r.handle][r.text]

TextOK(t) ==
    /\ t[1] \in Handles
    /\ t[2] \in 1 .. Current(t[1])
    /\ t[3] \in 0 .. day
    /\ t[2] \in 1 .. Len(revised[t[1]]) => t[3] <= revised[t[1]][t[2]] + Ttl

UpstreamOK ==
    /\ day \in Nat
    /\ revised \in [Handles -> Seq(Nat)]

FilesOK ==
    /\ live \in FileIds
    /\ spare \in FileIds \cup {0}
    /\ rowsIn = [f \in FileIds |-> rowsIn[f]]
    /\ \A f \in FileIds : \A r \in rowsIn[f] : RowOK(r)

(* What a call goes on with, and the call when it saves before. *)
NextOK(a) ==
    \/ /\ a = [pc |-> "search", query |-> a.query, now |-> a.now, rows |-> a.rows]
       /\ a.now \in 0 .. day
       /\ \A r \in a.rows : RowOK(r)
    \/ /\ a = [pc |-> "fetch", wants |-> a.wants, found |-> a.found, rows |-> a.rows]
       /\ a.wants \subseteq Handles
       /\ \A t \in a.found : TextOK(t)
       /\ \A r \in a.rows : RowOK(r)
    \/ /\ a = [pc |-> "reply", found |-> a.found]
       /\ \A t \in a.found : TextOK(t)

AskOK(a) ==
    \/ a = Resting
    \/ NextOK(a)
    \/ /\ \/ a = [pc |-> "open", rows |-> a.rows, next |-> a.next]
          \/ /\ a = [pc |-> "write", rows |-> a.rows, next |-> a.next, file |-> a.file]
             /\ a.file \in FileIds
       /\ \A r \in a.rows : RowOK(r)
       /\ NextOK(a.next)
    \/ a = [pc |-> "replace", next |-> a.next] /\ NextOK(a.next)

LocalInv ==
    /\ UpstreamOK
    /\ FilesOK
    /\ ask = [c \in Clients |-> ask[c]]
    /\ \A c \in Clients : AskOK(ask[c])

(* What a call turns to. *)
LEMMA ReplyingOK ==
    ASSUME NEW found, \A t \in found : TextOK(t)
    PROVE  NextOK(Replying(found)) /\ AskOK(Replying(found))
BY DEF Replying, NextOK, AskOK

LEMMA SavingOK ==
    ASSUME NEW rows, \A r \in rows : RowOK(r), NEW next, NextOK(next)
    PROVE  AskOK(Saving(rows, next))
BY DEF Saving, AskOK

(* What a call has, by where it is. *)
LEMMA AskHas ==
    ASSUME NEW a, AskOK(a)
    PROVE  /\ a.pc = "search" => a.now \in 0 .. day /\ \A r \in a.rows : RowOK(r)
           /\ a.pc = "fetch" => /\ a.wants \subseteq Handles
                                /\ \A t \in a.found : TextOK(t)
                                /\ \A r \in a.rows : RowOK(r)
           /\ a.pc = "reply" => \A t \in a.found : TextOK(t)
           /\ a.pc \in {"open", "write"} =>
                 NextOK(a.next) /\ \A r \in a.rows : RowOK(r)
           /\ a.pc = "write" => a.file \in FileIds
           /\ a.pc = "replace" => NextOK(a.next)
BY DEF AskOK, NextOK, Resting

(* Time and revisions leave rows and texts as they should be: a version    *)
(* that is replaced now was the provider's until now.                      *)
LEMMA LaterRows ==
    ASSUME UpstreamOK,
           \/ UNCHANGED <<revised, day>>
           \/ Pass
           \/ \E h \in Handles : Revise(h)
    PROVE  /\ UpstreamOK'
           /\ \A r : RowOK(r) => RowOK(r)'
           /\ \A t : TextOK(t) => TextOK(t)'
<1>1. CASE UNCHANGED <<revised, day>>
  BY <1>1 DEF UpstreamOK, RowOK, TextOK, Current
<1>2. CASE Pass
  BY <1>2, LocalCacheConstants DEF Pass, UpstreamOK, RowOK, TextOK, Current
<1>3. ASSUME NEW h \in Handles, Revise(h)
      PROVE  /\ UpstreamOK'
             /\ \A r : RowOK(r) => RowOK(r)'
             /\ \A t : TextOK(t) => TextOK(t)'
  <2>1. /\ day' = day /\ day \in Nat
        /\ revised \in [Handles -> Seq(Nat)]
        /\ revised' = [revised EXCEPT ![h] = Append(@, day)]
    BY <1>3 DEF Revise, UpstreamOK
  <2>2. revised' \in [Handles -> Seq(Nat)]
    BY <2>1
  <2>3. ASSUME NEW g \in Handles
        PROVE  /\ Len(revised[g]) \in Nat /\ Len(revised'[g]) \in Nat
               /\ Len(revised[g]) <= Len(revised'[g])
               /\ Len(revised'[g]) <= Len(revised[g]) + 1
               /\ \A v \in 1 .. Len(revised[g]) : revised'[g][v] = revised[g][v]
               /\ \A v \in 1 .. Len(revised'[g]) :
                     v \notin 1 .. Len(revised[g]) => revised'[g][v] = day
    BY <2>1
  <2>4. \A r : RowOK(r) => RowOK(r)'
    <3> SUFFICES ASSUME NEW r, RowOK(r) PROVE RowOK(r)'
      OBVIOUS
    <3>1. /\ r.handle \in Handles
          /\ r.text \in 0 .. Len(revised[r.handle]) + 1
          /\ r.updated \in 0 .. day
          /\ r.text \in 1 .. Len(revised[r.handle]) =>
                r.updated <= revised[r.handle][r.text]
      BY DEF RowOK, Current
    <3> QED
      BY <2>1, <2>3, <3>1 DEF RowOK, Current
  <2>5. \A t : TextOK(t) => TextOK(t)'
    <3> SUFFICES ASSUME NEW t, TextOK(t) PROVE TextOK(t)'
      OBVIOUS
    <3>1. /\ t[1] \in Handles
          /\ t[2] \in 1 .. Len(revised[t[1]]) + 1
          /\ t[3] \in 0 .. day
          /\ t[2] \in 1 .. Len(revised[t[1]]) => t[3] <= revised[t[1]][t[2]] + Ttl
      BY DEF TextOK, Current
    <3> DEFINE g == t[1]  v == t[2]  n == t[3]
    <3>2. g \in Handles /\ v \in 1 .. Len(revised[g]) + 1 /\ n \in 0 .. day
      BY <3>1
    <3>3. v \in 1 .. Len(revised[g]) => n <= revised[g][v] + Ttl
      BY <3>1
    <3> HIDE DEF g, v, n
    <3>4. v \in 1 .. Len(revised'[g]) + 1
      BY <2>3, <3>2
    <3>5. v \in 1 .. Len(revised'[g]) => n <= revised'[g][v] + Ttl
      <4>1. CASE v \in 1 .. Len(revised[g])
        BY <2>3, <3>2, <3>3, <4>1
      <4>2. CASE v \notin 1 .. Len(revised[g])
        BY <2>1, <2>3, <3>2, <4>2, LocalCacheConstants
      <4> QED
        BY <4>1, <4>2
    <3> USE DEF g, v, n
    <3> QED
      BY <2>1, <3>2, <3>4, <3>5 DEF TextOK, Current
  <2> QED
    BY <2>1, <2>2, <2>4, <2>5 DEF UpstreamOK
<1> QED
  BY <1>1, <1>2, <1>3

(* A step of one client, over files that stay as they should be. *)
LEMMA AskMoves ==
    ASSUME LocalInv, NEW c \in Clients, NEW a, Turn(c, a), AskOK(a),
           UNCHANGED <<revised, day>>, FilesOK'
    PROVE  LocalInv'
<1>1. ask' = [d \in Clients |-> IF d = c THEN a ELSE ask[d]]
  BY DEF Turn, LocalInv
<1>2. \A d \in Clients : AskOK(ask'[d])
  BY <1>1 DEF LocalInv
<1>3. \A d \in Clients : AskOK(ask[d])'
  <2>1. (\A r : RowOK(r) => RowOK(r)') /\ (\A t : TextOK(t) => TextOK(t)')
    BY LaterRows DEF LocalInv
  <2> SUFFICES ASSUME NEW d \in Clients PROVE AskOK(ask[d])'
    OBVIOUS
  <2>2. NextOK(ask'[d]) => NextOK(ask[d])'
    BY <2>1 DEF NextOK
  <2>3. NextOK(ask'[d].next) => NextOK(ask[d].next)'
    BY <2>1 DEF NextOK
  <2> QED
    BY <1>2, <2>1, <2>2, <2>3 DEF AskOK, Resting
<1>4. UpstreamOK'
  BY DEF LocalInv, UpstreamOK
<1> QED
  BY <1>1, <1>3, <1>4 DEF LocalInv

LEMMA SameFiles ==
    ASSUME FilesOK, UNCHANGED <<revised, day, live, spare, rowsIn>>
    PROVE  FilesOK'
BY DEF FilesOK, RowOK, Current

(* A step that sets the rows of one file, and the names of files. *)
LEMMA FileFilled ==
    ASSUME FilesOK, NEW f, NEW rows, \A r \in rows : RowOK(r),
           rowsIn' = [rowsIn EXCEPT ![f] = rows],
           live' \in FileIds, spare' \in FileIds \cup {0},
           UNCHANGED <<revised, day>>
    PROVE  FilesOK'
<1>1. rowsIn' = [g \in FileIds |-> IF g = f THEN rows ELSE rowsIn[g]]
  BY DEF FilesOK
<1>2. \A g \in FileIds : \A r \in rowsIn'[g] : RowOK(r)
  BY <1>1 DEF FilesOK
<1>3. \A g \in FileIds : \A r \in rowsIn'[g] : RowOK(r)'
  BY <1>2 DEF RowOK, Current
<1> QED
  BY <1>1, <1>3 DEF FilesOK

LEMMA LoadedRows ==
    ASSUME LocalInv, NEW rows \in Loaded, NEW kept \in Pruned(rows, day)
    PROVE  \A r \in kept : RowOK(r) /\ ~ Expired(r, day)
<1>1. \A r \in rows : RowOK(r)
  <2>1. \A r \in rowsIn[live] : RowOK(r)
    BY DEF LocalInv, FilesOK
  <2>2. \A d \in Clients : Writes(d, live) => \A r \in ask[d].rows : RowOK(r)
    BY AskHas DEF LocalInv, Writes
  <2> QED
    BY <2>1, <2>2 DEF Loaded
<1> QED
  BY <1>1 DEF Pruned

LEMMA BeginCallStep ==
    ASSUME LocalInv, NEW c \in Clients, NEW rows \in Loaded,
           NEW kept \in Pruned(rows, day), NEW call,
           BeginCall(c, rows, kept, call), NextOK(call)
    PROVE  LocalInv'
<1>1. AskOK(call) /\ AskOK(Saving(kept, call))
  BY LoadedRows, SavingOK DEF AskOK
<1>2. /\ Turn(c, call) \/ Turn(c, Saving(kept, call))
      /\ UNCHANGED <<revised, day, live, spare, rowsIn>>
  BY DEF BeginCall
<1>3. FilesOK'
  BY <1>2, SameFiles DEF LocalInv
<1> QED
  BY <1>1, <1>2, <1>3, AskMoves

LEMMA SearchStep ==
    ASSUME LocalInv, NEW c \in Clients, NEW q, Search(c, q)
    PROVE  LocalInv'
<1> DEFINE Call(kept) ==
             IF \E r \in kept : r.query = q THEN Replying({})
             ELSE [pc |-> "search", query |-> q, now |-> day, rows |-> kept]
<1>1. PICK rows \in Loaded : \E kept \in Pruned(rows, day) :
         BeginCall(c, rows, kept, Call(kept))
  BY DEF Search
<1>2. PICK kept \in Pruned(rows, day) : BeginCall(c, rows, kept, Call(kept))
  BY <1>1
<1>3. (\A r \in kept : RowOK(r)) /\ day \in 0 .. day
  BY LoadedRows DEF LocalInv, UpstreamOK
<1>4. NextOK([pc |-> "search", query |-> q, now |-> day, rows |-> kept])
  BY <1>3 DEF NextOK
<1>5. NextOK(Call(kept))
  BY <1>4, ReplyingOK
<1> HIDE DEF Call
<1> QED
  BY <1>2, <1>5, BeginCallStep

(* A row that is not expired has a text recent enough to return. *)
LEMMA FreshText ==
    ASSUME UpstreamOK, NEW r, RowOK(r), ~ Expired(r, day), r.text # NoText
    PROVE  TextOK(<<r.handle, r.text, day>>)
<1>1. /\ r.handle \in Handles
      /\ r.text \in 0 .. Current(r.handle)
      /\ r.updated \in 0 .. day
      /\ r.text \in 1 .. Len(revised[r.handle]) =>
            r.updated <= revised[r.handle][r.text]
      /\ day <= r.updated + Ttl
      /\ day \in Nat /\ revised[r.handle] \in Seq(Nat)
  BY LocalCacheConstants DEF RowOK, Expired, UpstreamOK
<1>2. r.text \in 1 .. Current(r.handle)
  BY <1>1 DEF NoText, Current
<1>3. ASSUME r.text \in 1 .. Len(revised[r.handle])
      PROVE  day <= revised[r.handle][r.text] + Ttl
  <2> DEFINE at == revised[r.handle][r.text]
  <2>1. at \in Nat
    BY <1>1, <1>3
  <2>2. r.updated <= at /\ day <= r.updated + Ttl /\ r.updated \in Nat /\ day \in Nat
    BY <1>1, <1>3
  <2>3. Ttl \in Nat
    BY LocalCacheConstants
  <2> HIDE DEF at
  <2>4. day <= at + Ttl
    BY <2>1, <2>2, <2>3
  <2> QED
    BY <2>4 DEF at
<1> QED
  BY <1>1, <1>2, <1>3 DEF TextOK

LEMMA FetchStep ==
    ASSUME LocalInv, NEW c \in Clients, NEW hs \in SUBSET Handles, Fetch(c, hs)
    PROVE  LocalInv'
<1> DEFINE Texts(own) == {<<r.handle, r.text, day>> : r \in own}
           Call(kept, own) ==
             IF hs = Having(own) THEN Replying(Texts(own))
             ELSE [pc |-> "fetch", wants |-> hs \ Having(own),
                   found |-> Texts(own), rows |-> kept]
<1>1. PICK rows \in Loaded : \E kept \in Pruned(rows, day) :
         \E own \in Answers(kept, hs) : BeginCall(c, rows, kept, Call(kept, own))
  BY DEF Fetch
<1>2. PICK kept \in Pruned(rows, day) : \E own \in Answers(kept, hs) :
         BeginCall(c, rows, kept, Call(kept, own))
  BY <1>1
<1>3. PICK own \in Answers(kept, hs) : BeginCall(c, rows, kept, Call(kept, own))
  BY <1>2
<1>4. \A r \in kept : RowOK(r) /\ ~ Expired(r, day)
  BY LoadedRows
<1>5. own \subseteq kept /\ \A r \in own : r.text # NoText
  BY DEF Answers, LatestRows
<1>6. \A t \in Texts(own) : TextOK(t)
  BY <1>4, <1>5, FreshText DEF LocalInv
<1> HIDE DEF Texts
<1>7. NextOK([pc |-> "fetch", wants |-> hs \ Having(own),
              found |-> Texts(own), rows |-> kept])
  BY <1>4, <1>6 DEF NextOK
<1>8. NextOK(Call(kept, own))
  BY <1>6, <1>7, ReplyingOK
<1> HIDE DEF Call
<1> QED
  BY <1>3, <1>8, BeginCallStep

LEMMA SearchedStep ==
    ASSUME LocalInv, NEW c \in Clients, Searched(c)
    PROVE  LocalInv'
<1>1. /\ ask[c].pc = "search" /\ AskOK(ask[c]) /\ UpstreamOK
      /\ UNCHANGED <<revised, day, live, spare, rowsIn>>
  BY DEF Searched, LocalInv
<1> DEFINE News(hs) == {Row(ask[c].query, h, NoText, ask[c].now) : h \in hs}
<1>2. PICK hs \in SUBSET Handles :
         \E kept \in Pruned(ask[c].rows \cup News(hs), ask[c].now) :
            Turn(c, Saving(kept, Replying({})))
  BY DEF Searched
<1>3. PICK kept \in Pruned(ask[c].rows \cup News(hs), ask[c].now) :
         Turn(c, Saving(kept, Replying({})))
  BY <1>2
<1>4. ask[c].now \in 0 .. day /\ \A r \in ask[c].rows : RowOK(r)
  BY <1>1, AskHas
<1>5. \A h \in hs : RowOK(Row(ask[c].query, h, NoText, ask[c].now))
  BY <1>1, <1>4 DEF RowOK, Row, NoText, Current, UpstreamOK
<1>6. \A r \in kept : RowOK(r)
  BY <1>4, <1>5 DEF Pruned
<1>7. AskOK(Saving(kept, Replying({})))
  BY <1>6, ReplyingOK, SavingOK
<1>8. FilesOK'
  BY <1>1, SameFiles DEF LocalInv
<1> QED
  BY <1>1, <1>3, <1>7, <1>8, AskMoves

LEMMA FetchedStep ==
    ASSUME LocalInv, NEW c \in Clients, Fetched(c)
    PROVE  LocalInv'
<1> DEFINE Found(hs) == ask[c].found \cup {<<h, Current(h), day>> : h \in hs}
           Rows(hs) == {Filled(r, hs) : r \in ask[c].rows}
                          \cup {Row(NoQuery, h, Current(h), day) :
                                  h \in hs \ Having(ask[c].rows)}
<1>1. /\ ask[c].pc = "fetch" /\ AskOK(ask[c]) /\ UpstreamOK
      /\ UNCHANGED <<revised, day, live, spare, rowsIn>>
  BY DEF Fetched, LocalInv
<1>2. FilesOK'
  BY <1>1, SameFiles DEF LocalInv
<1>3. PICK hs \in SUBSET ask[c].wants :
         \/ Turn(c, Replying(Found(hs)))
         \/ \E kept \in Pruned(Rows(hs), day) : Turn(c, Saving(kept, Replying(Found(hs))))
  BY DEF Fetched
<1>4. /\ hs \subseteq Handles
      /\ \A r \in ask[c].rows : RowOK(r)
      /\ \A t \in ask[c].found : TextOK(t)
      /\ day \in Nat
  BY <1>1, AskHas DEF UpstreamOK
<1>5. \A q : \A h \in hs : RowOK(Row(q, h, Current(h), day))
  BY <1>1, <1>4 DEF RowOK, Row, Current, UpstreamOK
<1>6. \A r \in ask[c].rows : RowOK(Filled(r, hs))
  BY <1>4, <1>5 DEF Filled
<1>7. \A h \in hs : TextOK(<<h, Current(h), day>>)
  BY <1>1, <1>4 DEF TextOK, Current, UpstreamOK
<1>8. \A t \in Found(hs) : TextOK(t)
  BY <1>4, <1>7
<1>9. \A kept \in Pruned(Rows(hs), day) : \A r \in kept : RowOK(r)
  BY <1>5, <1>6 DEF Pruned
<1> HIDE DEF Found, Rows
<1>10. NextOK(Replying(Found(hs))) /\ AskOK(Replying(Found(hs)))
  BY <1>8, ReplyingOK
<1>11. \A kept \in Pruned(Rows(hs), day) : AskOK(Saving(kept, Replying(Found(hs))))
  BY <1>9, <1>10, SavingOK
<1> QED
  BY <1>1, <1>2, <1>3, <1>10, <1>11, AskMoves

LEMMA EndingStep ==
    ASSUME LocalInv, NEW c \in Clients, UpstreamFails(c) \/ Reply(c)
    PROVE  LocalInv'
<1>1. AskOK(ask[c]) /\ UNCHANGED <<revised, day, live, spare, rowsIn>>
  BY DEF UpstreamFails, Reply, LocalInv
<1>2. FilesOK'
  BY <1>1, SameFiles DEF LocalInv
<1>3. \/ Turn(c, Resting)
      \/ ask[c].pc = "fetch" /\ Turn(c, Replying(ask[c].found))
  BY DEF UpstreamFails, Reply
<1>4. ask[c].pc = "fetch" => AskOK(Replying(ask[c].found))
  BY <1>1, AskHas, ReplyingOK
<1>5. AskOK(Resting)
  BY DEF AskOK
<1> QED
  BY <1>1, <1>2, <1>3, <1>4, <1>5, AskMoves

LEMMA OpenSpareStep ==
    ASSUME LocalInv, NEW c \in Clients, OpenSpare(c)
    PROVE  LocalInv'
<1>1. PICK f \in Spares :
         /\ spare' = f
         /\ rowsIn' = [rowsIn EXCEPT ![f] = {}]
         /\ Turn(c, [pc |-> "write", rows |-> ask[c].rows, next |-> ask[c].next,
                     file |-> f])
  BY DEF OpenSpare
<1>2. f \in FileIds
  BY DEF Spares, Unused, LocalInv, FilesOK
<1>3. FilesOK /\ live \in FileIds /\ UNCHANGED <<revised, day, live>>
  BY DEF LocalInv, FilesOK, OpenSpare
<1>4. live' \in FileIds /\ spare' \in FileIds \cup {0}
  BY <1>1, <1>2, <1>3
<1> DEFINE none == {}
<1>5. (\A r \in none : RowOK(r)) /\ rowsIn' = [rowsIn EXCEPT ![f] = none]
  BY <1>1
<1> HIDE DEF none
<1>6. FilesOK'
  BY <1>3, <1>4, <1>5, FileFilled
<1> DEFINE a == [pc |-> "write", rows |-> ask[c].rows, next |-> ask[c].next,
                 file |-> f]
<1>7. AskOK(a)
  <2>1. NextOK(ask[c].next) /\ \A r \in ask[c].rows : RowOK(r)
    BY AskHas DEF LocalInv, OpenSpare
  <2> QED
    BY <1>2, <2>1 DEF AskOK
<1>8. Turn(c, a)
  BY <1>1
<1> HIDE DEF a
<1> QED
  BY <1>3, <1>6, <1>7, <1>8, AskMoves

(* What a client writes, be it all or part of its rows and of those there. *)
LEMMA WrittenStep ==
    ASSUME LocalInv, NEW c \in Clients, ask[c].pc = "write",
           NEW rows, rows \subseteq rowsIn[ask[c].file] \cup ask[c].rows,
           rowsIn' = [rowsIn EXCEPT ![ask[c].file] = rows],
           UNCHANGED <<revised, day, live, spare>>
    PROVE  FilesOK'
<1>1. ask[c].file \in FileIds /\ \A r \in ask[c].rows : RowOK(r)
  BY AskHas DEF LocalInv
<1>2. \A r \in rows : RowOK(r)
  BY <1>1 DEF LocalInv, FilesOK
<1>3. FilesOK /\ live' \in FileIds /\ spare' \in FileIds \cup {0}
  BY DEF LocalInv, FilesOK
<1> QED
  BY <1>2, <1>3, FileFilled

LEMMA CloseStep ==
    ASSUME LocalInv, NEW c \in Clients, Close(c)
    PROVE  LocalInv'
<1> DEFINE a == [pc |-> "replace", next |-> ask[c].next]
<1>1. /\ ask[c].pc = "write" /\ Turn(c, a)
      /\ UNCHANGED <<revised, day, live, spare>>
  BY DEF Close
<1>2. PICK all : /\ all \subseteq rowsIn[ask[c].file] \cup ask[c].rows
                 /\ rowsIn' = [rowsIn EXCEPT ![ask[c].file] = all]
  BY DEF Close
<1>3. FilesOK'
  BY <1>1, <1>2, WrittenStep
<1>4. AskOK(a)
  <2>1. NextOK(ask[c].next)
    BY <1>1, AskHas DEF LocalInv
  <2> QED
    BY <2>1 DEF AskOK
<1> HIDE DEF a
<1> QED
  BY <1>1, <1>3, <1>4, AskMoves

LEMMA SupplantStep ==
    ASSUME LocalInv, NEW c \in Clients, Supplant(c)
    PROVE  LocalInv'
<1>1. /\ ask[c].pc = "replace" /\ AskOK(ask[c]) /\ FilesOK
      /\ UNCHANGED <<revised, day>>
  BY DEF Supplant, LocalInv
<1>2. AskOK(Resting) /\ AskOK(ask[c].next)
  BY <1>1, AskHas DEF AskOK
<1>3. CASE spare = 0
  <2>1. Turn(c, Resting) /\ UNCHANGED <<live, spare, rowsIn>>
    BY <1>3 DEF Supplant
  <2>2. FilesOK'
    BY <1>1, <2>1, SameFiles
  <2> QED
    BY <1>1, <1>2, <2>1, <2>2, AskMoves
<1>4. CASE spare # 0
  <2> DEFINE none == {}
  <2>1. /\ live' = spare /\ spare' = 0 /\ Turn(c, ask[c].next)
        /\ rowsIn' = [rowsIn EXCEPT ![live] = none]
    BY <1>4 DEF Supplant
  <2>2. \A r \in none : RowOK(r)
    OBVIOUS
  <2>3. live' \in FileIds /\ spare' \in FileIds \cup {0}
    BY <1>1, <1>4, <2>1 DEF FilesOK
  <2> HIDE DEF none
  <2>4. FilesOK'
    BY <1>1, <2>1, <2>2, <2>3, FileFilled
  <2> QED
    BY <1>1, <1>2, <2>1, <2>4, AskMoves
<1> QED
  BY <1>3, <1>4

LEMMA KillClientStep ==
    ASSUME LocalInv, NEW c \in Clients, KillClient(c)
    PROVE  LocalInv'
<1>1. /\ Turn(c, Resting) /\ AskOK(Resting)
      /\ UNCHANGED <<revised, day, live, spare>>
  BY DEF KillClient, AskOK
<1>2. CASE ask[c].pc = "write"
  <2>1. PICK some \in SUBSET (rowsIn[ask[c].file] \cup ask[c].rows) :
           rowsIn' = [rowsIn EXCEPT ![ask[c].file] = some]
    BY <1>2 DEF KillClient
  <2>2. FilesOK'
    BY <1>1, <1>2, <2>1, WrittenStep
  <2> QED
    BY <1>1, <2>2, AskMoves
<1>3. CASE ask[c].pc # "write"
  <2>1. FilesOK'
    BY <1>1, <1>3, SameFiles DEF KillClient, LocalInv
  <2> QED
    BY <1>1, <2>1, AskMoves
<1> QED
  BY <1>2, <1>3

LEMMA LocalInitial == LocalInit => LocalInv
<1> SUFFICES ASSUME LocalInit PROVE LocalInv
  OBVIOUS
<1>0. << >> \in Seq(Nat) /\ <<0>> \in Seq(Nat)
  OBVIOUS
<1>1. UpstreamOK /\ day = 1
  BY <1>0 DEF LocalInit, UpstreamOK
<1>2. \A h \in Handles : /\ revised[h] \in {<< >>, <<0>>}
                         /\ Len(revised[h]) \in {0, 1}
                         /\ 1 \in 1 .. Len(revised[h]) => revised[h][1] = 0
  BY DEF LocalInit
<1>3. \A q : \A h \in Handles : RowOK(Row(q, h, 1, 0)) /\ RowOK(Row(q, h, NoText, 1))
  BY <1>1, <1>2 DEF RowOK, Row, NoText, Current
<1>4. 1 \in FileIds
  BY LocalCacheConstants, FS_CardinalityType DEF FileIds
<1>5. PICK texts \in SUBSET Handles, finds \in SUBSET Handles, q \in Queries :
         rowsIn = [f \in FileIds |->
                       IF f # 1 THEN {}
                       ELSE {Row(NoQuery, h, 1, 0) : h \in texts}
                               \cup {Row(q, h, NoText, 1) : h \in finds}]
  BY DEF LocalInit
<1>6. \A f \in FileIds : \A r \in rowsIn[f] : RowOK(r)
  BY <1>3, <1>5
<1>7. FilesOK
  BY <1>4, <1>5, <1>6 DEF LocalInit, FilesOK
<1> QED
  BY <1>1, <1>7 DEF LocalInit, LocalInv, AskOK

LEMMA LocalStep == LocalInv /\ [LocalNext]_localVars => LocalInv'
<1> SUFFICES ASSUME LocalInv, [LocalNext]_localVars PROVE LocalInv'
  OBVIOUS
<1>1. ASSUME \/ UNCHANGED <<revised, day>>
             \/ Pass
             \/ \E h \in Handles : Revise(h),
             UNCHANGED <<live, spare, rowsIn, ask>>
      PROVE  LocalInv'
  <2>1. /\ UpstreamOK'
        /\ \A r : RowOK(r) => RowOK(r)'
        /\ \A t : TextOK(t) => TextOK(t)'
    BY <1>1, LaterRows DEF LocalInv
  <2>2. FilesOK'
    BY <1>1, <2>1 DEF LocalInv, FilesOK
  <2>3. day \in Nat /\ day' \in Nat /\ day <= day'
    BY <1>1 DEF LocalInv, UpstreamOK, Pass, Revise
  <2>4. \A c \in Clients : AskOK(ask[c])'
    BY <1>1, <2>1, <2>3 DEF LocalInv, AskOK, NextOK
  <2> QED
    BY <1>1, <2>1, <2>2, <2>4 DEF LocalInv
<1>2. CASE UNCHANGED localVars
  BY <1>1, <1>2 DEF localVars
<1>3. CASE Pass
  BY <1>1, <1>3 DEF Pass
<1>4. ASSUME NEW h \in Handles, Revise(h) PROVE LocalInv'
  BY <1>1, <1>4 DEF Revise
<1> QED
  BY <1>2, <1>3, <1>4, SearchStep, FetchStep, SearchedStep, FetchedStep, EndingStep,
     OpenSpareStep, CloseStep, SupplantStep, KillClientStep DEF LocalNext

(* No fetch returns a text that the provider had replaced more than the    *)
(* time to live before, however clients, kills and saves interleave.       *)
THEOREM FetchedTextsAreRecent == LocalSpec => []TextsAreRecent
<1>1. LocalInv => TextsAreRecent
  <2> SUFFICES ASSUME LocalInv, NEW c \in Clients, ask[c].pc = "reply",
                      NEW t \in ask[c].found
               PROVE  ~ Outdated(t[1], t[2], t[3])
    BY DEF TextsAreRecent
  <2>1. TextOK(t) /\ UpstreamOK
    BY AskHas DEF LocalInv
  <2> DEFINE h == t[1]  v == t[2]  n == t[3]
  <2>2. /\ h \in Handles /\ v \in 1 .. Len(revised[h]) + 1 /\ n \in 0 .. day
        /\ v \in 1 .. Len(revised[h]) => n <= revised[h][v] + Ttl
        /\ revised[h] \in Seq(Nat) /\ day \in Nat
    BY <2>1 DEF TextOK, Current, UpstreamOK
  <2> HIDE DEF h, v, n
  <2>3. v \in 1 .. Len(revised[h]) => revised[h][v] \in Nat
    BY <2>2
  <2>4. ~ Outdated(h, v, n)
    BY <2>2, <2>3, LocalCacheConstants DEF Outdated, Current
  <2> USE DEF h, v, n
  <2> QED
    BY <2>4
<1> QED
  BY <1>1, LocalInitial, LocalStep, PTL DEF LocalSpec

-----------------------------------------------------------------------------
(* The embedding index.  A vector is that of the hash beside it, and a     *)
(* hash is the text of some version that the contract beside it fits.      *)
Versioned(map) == \A f \in DOMAIN map : map[f] \in Versions

Encoded(p, hashes, vectors, f) ==
    f \in DOMAIN vectors /\ vectors[f].by = p /\ vectors[f].text = hashes[f]

SavedOK ==
    \/ vectorIndex = Nothing
    \/ /\ vectorIndex.kind = "index"
       /\ DOMAIN vectorIndex.hashes = DOMAIN vectorIndex.contract
       /\ DOMAIN vectorIndex.vectors = DOMAIN vectorIndex.contract
       /\ \A f \in DOMAIN vectorIndex.contract :
             /\ Encoded(vectorIndex.provider, vectorIndex.hashes, vectorIndex.vectors, f)
             /\ \E w \in Versions : /\ Sees[w] = vectorIndex.contract[f]
                                    /\ TextOf[w] = vectorIndex.hashes[f]

(* Of a call that has looked at the index: what it will encode it has      *)
(* looked at, and the rest has its vectors.                                *)
HashesOK(c) ==
    /\ DOMAIN c.hashes = DOMAIN c.map
    /\ \A f \in DOMAIN c.map :
          /\ Alike(c.hashes[f], c.map[f])
          /\ c.differ = {} \/ f \in c.differ => c.hashes[f] = TextOf[c.map[f]]

EncodingOK(c) ==
    \A f \in DOMAIN c.map :
       IF f \in c.outdated THEN f \in c.known /\ c.hashes[f] = TextOf[c.map[f]]
       ELSE Encoded(c.provider, c.hashes, c.vectors, f)

EncodedOK(c) ==
    /\ DOMAIN c.vectors = DOMAIN c.map
    /\ \A f \in DOMAIN c.map : Encoded(c.provider, c.hashes, c.vectors, f)

BuilderOK(c) ==
    \/ c = NoBuild
    \/ /\ c = [pc |-> "load", map |-> c.map, provider |-> c.provider]
       /\ Versioned(c.map)
    \/ /\ c = [pc |-> c.pc, map |-> c.map, provider |-> c.provider,
               differ |-> c.differ, known |-> c.known, outdated |-> c.outdated,
               hashes |-> c.hashes, vectors |-> c.vectors]
       /\ Versioned(c.map)
       /\ HashesOK(c)
       /\ \/ c.pc = "encode" /\ EncodingOK(c)
          \/ c.pc \in {"open", "write", "done"} /\ EncodedOK(c)

EmbeddingInv ==
    /\ Versioned(listing)
    /\ SavedOK
    /\ building = [b \in Builders |-> building[b]]
    /\ \A b \in Builders : BuilderOK(building[b])

LEMMA BuilderMoves ==
    ASSUME EmbeddingInv, NEW b \in Builders, NEW c, Become(b, c), BuilderOK(c),
           UNCHANGED listing, SavedOK'
    PROVE  EmbeddingInv'
<1>1. building' = [d \in Builders |-> IF d = b THEN c ELSE building[d]]
  BY DEF Become, EmbeddingInv
<1>2. \A d \in Builders : BuilderOK(building'[d])
  BY <1>1 DEF EmbeddingInv
<1>3. (\A d \in Builders : BuilderOK(building[d]))'
  BY <1>2
<1> QED
  BY <1>1, <1>3 DEF EmbeddingInv, Versioned

(* Of a version the hash wanted is either taken over, and then its         *)
(* contract has not changed, or its text.                                  *)
LEMMA DesiredHashes ==
    ASSUME SavedOK, vectorIndex.kind = "index", NEW map, Versioned(map),
           NEW f \in DOMAIN map
    PROVE  /\ Alike(Desired(map)[f], map[f])
           /\ f \in Checked(map) => Desired(map)[f] = TextOf[map[f]]
           /\ Differing(map) = {} \/ f \in Differing(map) => f \in Checked(map)
           /\ f \in ToEncode(map) => f \in Checked(map)
           /\ f \notin ToEncode(map) =>
                 Encoded(vectorIndex.provider, Desired(map), vectorIndex.vectors, f)
<1>1. vectorIndex # Nothing
  BY DEF Nothing
<1>2. Alike(TextOf[map[f]], map[f])
  BY DEF Alike, Versioned
<1>3. f \notin DOMAIN vectorIndex.contract => f \in Checked(map)
  BY DEF Checked, Differing
<1>4. ASSUME f \notin Checked(map)
      PROVE  /\ Desired(map)[f] = vectorIndex.hashes[f]
             /\ vectorIndex.contract[f] = Sees[map[f]]
             /\ f \in DOMAIN vectorIndex.contract
  BY <1>1, <1>3, <1>4 DEF SavedOK, Desired, Checked, Differing
<1>5. f \notin Checked(map) => Alike(Desired(map)[f], map[f])
  BY <1>1, <1>4 DEF SavedOK, Alike
<1>6. f \in Checked(map) => Desired(map)[f] = TextOf[map[f]]
  BY DEF Desired
<1>7. Differing(map) = {} \/ f \in Differing(map) => f \in Checked(map)
  BY DEF Checked
<1>8. f \in ToEncode(map) => f \in Checked(map)
  BY <1>1, <1>3, <1>4 DEF SavedOK, ToEncode
<1>9. f \notin ToEncode(map) =>
         Encoded(vectorIndex.provider, Desired(map), vectorIndex.vectors, f)
  BY <1>1 DEF SavedOK, ToEncode, Encoded
<1> QED
  BY <1>2, <1>5, <1>6, <1>7, <1>8, <1>9

LEMMA TakeIndexStep ==
    ASSUME EmbeddingInv, NEW b \in Builders, TakeIndex(b)
    PROVE  EmbeddingInv'
<1> DEFINE c == building[b]
           r(step) == [pc |-> step, map |-> c.map, provider |-> c.provider,
                       differ |-> Differing(c.map), known |-> Checked(c.map),
                       outdated |-> ToEncode(c.map), hashes |-> Desired(c.map),
                       vectors |-> vectorIndex.vectors]
           current == /\ ToEncode(c.map) = {}
                      /\ DOMAIN vectorIndex.vectors \subseteq DOMAIN c.map
<1>1. /\ c.pc = "load" /\ Takes(c.provider)
      /\ UNCHANGED <<listing, vectorIndex>>
      /\ \/ current /\ Become(b, r("done"))
         \/ current /\ Become(b, r("open"))
         \/ Become(b, r("encode"))
  BY DEF TakeIndex
<1>2. Versioned(c.map)
  BY <1>1 DEF EmbeddingInv, BuilderOK, NoBuild
<1>3. SavedOK /\ vectorIndex.kind = "index" /\ vectorIndex.provider = c.provider
  BY <1>1 DEF EmbeddingInv, Takes
<1>4. \A f \in DOMAIN c.map :
         /\ Alike(Desired(c.map)[f], c.map[f])
         /\ Differing(c.map) = {} \/ f \in Differing(c.map) =>
               Desired(c.map)[f] = TextOf[c.map[f]]
         /\ IF f \in ToEncode(c.map)
            THEN f \in Checked(c.map) /\ Desired(c.map)[f] = TextOf[c.map[f]]
            ELSE Encoded(c.provider, Desired(c.map), vectorIndex.vectors, f)
  BY <1>2, <1>3, DesiredHashes
<1>5. \A step : HashesOK(r(step))
  BY <1>4 DEF HashesOK, Desired
<1>6. \A step : EncodingOK(r(step))
  BY <1>4 DEF EncodingOK
<1>7. current => \A step : EncodedOK(r(step))
  BY <1>4 DEF EncodedOK, Encoded
<1>8. BuilderOK(r("encode"))
  BY <1>2, <1>5, <1>6 DEF BuilderOK
<1>9. current => BuilderOK(r("done")) /\ BuilderOK(r("open"))
  BY <1>2, <1>5, <1>7 DEF BuilderOK
<1>10. SavedOK'
  BY <1>1, <1>3 DEF SavedOK
<1> QED
  BY <1>1, <1>8, <1>9, <1>10, BuilderMoves

LEMMA BuildAllStep ==
    ASSUME EmbeddingInv, NEW b \in Builders, BuildAll(b)
    PROVE  EmbeddingInv'
<1> DEFINE c == building[b]
           r == [pc |-> "encode", map |-> c.map, provider |-> c.provider,
                 differ |-> {}, known |-> DOMAIN c.map, outdated |-> DOMAIN c.map,
                 hashes |-> [f \in DOMAIN c.map |-> TextOf[c.map[f]]],
                 vectors |-> << >>]
<1>1. c.pc = "load" /\ Become(b, r) /\ UNCHANGED <<listing, vectorIndex>>
  BY DEF BuildAll
<1>2. Versioned(c.map)
  BY <1>1 DEF EmbeddingInv, BuilderOK, NoBuild
<1>3. HashesOK(r) /\ EncodingOK(r)
  BY <1>2 DEF HashesOK, EncodingOK, Alike, Versioned
<1>4. BuilderOK(r)
  BY <1>2, <1>3 DEF BuilderOK
<1>5. SavedOK'
  BY <1>1 DEF EmbeddingInv, SavedOK
<1> QED
  BY <1>1, <1>4, <1>5, BuilderMoves

LEMMA EncodedRecord ==
    ASSUME NEW c, NEW v,
           c = [pc |-> c.pc, map |-> c.map, provider |-> c.provider,
                differ |-> c.differ, known |-> c.known, outdated |-> c.outdated,
                hashes |-> c.hashes, vectors |-> c.vectors]
    PROVE  [c EXCEPT !.pc = "open", !.vectors = v] =
              [pc |-> "open", map |-> c.map, provider |-> c.provider,
               differ |-> c.differ, known |-> c.known, outdated |-> c.outdated,
               hashes |-> c.hashes, vectors |-> v]
<1> DEFINE w == [c EXCEPT !.pc = "open"]
<1>1. w = [pc |-> "open", map |-> c.map, provider |-> c.provider,
           differ |-> c.differ, known |-> c.known, outdated |-> c.outdated,
           hashes |-> c.hashes, vectors |-> c.vectors]
  OBVIOUS
<1> HIDE DEF w
<1>2. [w EXCEPT !.vectors = v] =
         [pc |-> "open", map |-> c.map, provider |-> c.provider,
          differ |-> c.differ, known |-> c.known, outdated |-> c.outdated,
          hashes |-> c.hashes, vectors |-> v]
  BY <1>1
<1> QED
  BY <1>2 DEF w

LEMMA EncodeStep ==
    ASSUME EmbeddingInv, NEW b \in Builders, Encode(b)
    PROVE  EmbeddingInv'
<1> DEFINE c == building[b]
           text(f) == IF f \in c.known THEN TextOf[c.map[f]] ELSE ""
           v == [f \in DOMAIN c.map |->
                   IF f \in c.outdated THEN Vector(c.provider, text(f)) ELSE c.vectors[f]]
           r == [pc |-> "open", map |-> c.map, provider |-> c.provider,
                 differ |-> c.differ, known |-> c.known, outdated |-> c.outdated,
                 hashes |-> c.hashes, vectors |-> v]
<1>1. /\ c.pc = "encode" /\ UNCHANGED <<listing, vectorIndex>>
      /\ Become(b, [c EXCEPT !.pc = "open", !.vectors = v])
  BY DEF Encode
<1>2. /\ c = [pc |-> c.pc, map |-> c.map, provider |-> c.provider,
              differ |-> c.differ, known |-> c.known, outdated |-> c.outdated,
              hashes |-> c.hashes, vectors |-> c.vectors]
      /\ Versioned(c.map) /\ HashesOK(c) /\ EncodingOK(c)
  BY <1>1 DEF EmbeddingInv, BuilderOK, NoBuild
<1>3. [c EXCEPT !.pc = "open", !.vectors = v] = r
  BY <1>2, EncodedRecord
<1>4. \A f \in DOMAIN c.map : v[f].by = c.provider /\ v[f].text = c.hashes[f]
  BY <1>2 DEF EncodingOK, Encoded, Vector
<1>5. HashesOK(r) /\ EncodedOK(r)
  BY <1>2, <1>4 DEF HashesOK, EncodedOK, Encoded
<1>6. BuilderOK(r)
  BY <1>2, <1>5 DEF BuilderOK
<1>7. SavedOK'
  BY <1>1 DEF EmbeddingInv, SavedOK
<1> QED
  BY <1>1, <1>3, <1>6, <1>7, BuilderMoves

(* A builder past encoding, with its next step.                            *)
LEMMA PastEncoding ==
    ASSUME NEW c, BuilderOK(c), c.pc \in {"open", "write"}, NEW step \in {"write", "done"}
    PROVE  BuilderOK([c EXCEPT !.pc = step]) /\ HashesOK(c) /\ EncodedOK(c)
<1>1. /\ c = [pc |-> c.pc, map |-> c.map, provider |-> c.provider,
              differ |-> c.differ, known |-> c.known, outdated |-> c.outdated,
              hashes |-> c.hashes, vectors |-> c.vectors]
      /\ Versioned(c.map) /\ HashesOK(c) /\ EncodedOK(c)
  BY DEF BuilderOK, NoBuild
<1> DEFINE r == [pc |-> step, map |-> c.map, provider |-> c.provider,
                 differ |-> c.differ, known |-> c.known, outdated |-> c.outdated,
                 hashes |-> c.hashes, vectors |-> c.vectors]
<1>2. [c EXCEPT !.pc = step] = r
  BY <1>1
<1>3. HashesOK(r) /\ EncodedOK(r)
  BY <1>1 DEF HashesOK, EncodedOK
<1>4. BuilderOK(r)
  BY <1>1, <1>3 DEF BuilderOK
<1> QED
  BY <1>1, <1>2, <1>4

LEMMA OpenIndexStep ==
    ASSUME EmbeddingInv, NEW b \in Builders, OpenIndex(b)
    PROVE  EmbeddingInv'
<1>1. /\ Become(b, [building[b] EXCEPT !.pc = "write"])
      /\ vectorIndex' = Nothing /\ UNCHANGED listing
  BY DEF OpenIndex
<1>2. BuilderOK([building[b] EXCEPT !.pc = "write"])
  BY PastEncoding DEF OpenIndex, EmbeddingInv
<1>3. SavedOK'
  BY <1>1 DEF SavedOK, Nothing
<1> QED
  BY <1>1, <1>2, <1>3, BuilderMoves

LEMMA WriteIndexStep ==
    ASSUME EmbeddingInv, NEW b \in Builders, WriteIndex(b)
    PROVE  EmbeddingInv'
<1> DEFINE c == building[b]
<1>1. /\ c.pc = "write" /\ Become(b, [c EXCEPT !.pc = "done"]) /\ UNCHANGED listing
      /\ \/ vectorIndex' = [kind |-> "index", provider |-> c.provider,
                            contract |-> Contract(c.map), hashes |-> c.hashes,
                            vectors |-> c.vectors]
         \/ vectorIndex' = Nothing
  BY DEF WriteIndex
<1>2. BuilderOK([c EXCEPT !.pc = "done"]) /\ HashesOK(c) /\ EncodedOK(c)
  BY <1>1, PastEncoding DEF EmbeddingInv
<1>3. SavedOK'
  <2>1. CASE vectorIndex' = Nothing
    BY <2>1 DEF SavedOK, Nothing
  <2>2. CASE vectorIndex' = [kind |-> "index", provider |-> c.provider,
                             contract |-> Contract(c.map), hashes |-> c.hashes,
                             vectors |-> c.vectors]
    <3>1. DOMAIN Contract(c.map) = DOMAIN c.map
      BY DEF Contract
    <3>2. \A f \in DOMAIN c.map :
             \E w \in Versions : Sees[w] = Contract(c.map)[f] /\ TextOf[w] = c.hashes[f]
      BY <1>2 DEF HashesOK, Alike, Contract
    <3> QED
      BY <1>2, <2>2, <3>1, <3>2 DEF SavedOK, HashesOK, EncodedOK, Encoded
  <2> QED
    BY <1>1, <2>1, <2>2
<1> QED
  BY <1>1, <1>2, <1>3, BuilderMoves

LEMMA EmbeddingStep ==
    ASSUME EmbeddingInv, [EmbeddingNext]_embeddingVars
    PROVE  EmbeddingInv'
<1>1. CASE UNCHANGED embeddingVars
  BY <1>1 DEF EmbeddingInv, SavedOK, Versioned, embeddingVars
<1>2. ASSUME NEW f \in Sources, Relist(f) PROVE EmbeddingInv'
  BY <1>2 DEF Relist, EmbeddingInv, SavedOK, Versioned
<1>3. ASSUME NEW b \in Builders, NEW p \in Providers, BeginBuild(b, p)
      PROVE  EmbeddingInv'
  <2>1. BuilderOK([pc |-> "load", map |-> listing, provider |-> p])
    BY DEF EmbeddingInv, BuilderOK
  <2>2. SavedOK' /\ UNCHANGED listing
    BY <1>3 DEF BeginBuild, EmbeddingInv, SavedOK
  <2> QED
    BY <1>3, <2>1, <2>2, BuilderMoves DEF BeginBuild
<1>4. ASSUME NEW b \in Builders, EndBuild(b) PROVE EmbeddingInv'
  <2>1. SavedOK' /\ UNCHANGED listing /\ BuilderOK(NoBuild)
    BY <1>4 DEF EndBuild, EmbeddingInv, SavedOK, BuilderOK
  <2> QED
    BY <1>4, <2>1, BuilderMoves DEF EndBuild
<1> QED
  BY <1>1, <1>2, <1>3, <1>4, TakeIndexStep, BuildAllStep, EncodeStep,
     OpenIndexStep, WriteIndexStep
  DEF EmbeddingNext

(* build_or_load_embedding_index: for any files, versions, providers and   *)
(* threads, the vectors returned are those of the files and the provider   *)
(* asked about, of the very texts or of texts with the same contract.      *)
THEOREM EmbeddingsFollowTexts == EmbeddingSpec => []VectorsFollowTexts
<1>1. EmbeddingInit => EmbeddingInv
  BY DEF EmbeddingInit, EmbeddingInv, SavedOK, BuilderOK, Versioned
<1>2. EmbeddingInv /\ [EmbeddingNext]_embeddingVars => EmbeddingInv'
  BY EmbeddingStep
<1>3. EmbeddingInv => VectorsFollowTexts
  <2> SUFFICES ASSUME EmbeddingInv, NEW b \in Builders, building[b].pc = "done"
               PROVE  /\ DOMAIN building[b].vectors = DOMAIN building[b].map
                      /\ HashesOK(building[b]) /\ EncodedOK(building[b])
    BY DEF VectorsFollowTexts, HashesOK, EncodedOK, Encoded
  <2>1. BuilderOK(building[b])
    BY DEF EmbeddingInv
  <2> QED
    BY <2>1 DEF BuilderOK, NoBuild, EncodedOK
<1> QED
  BY <1>1, <1>2, <1>3, PTL DEF EmbeddingSpec

-----------------------------------------------------------------------------
(* The config watcher.  An edit number comes only once, so a file that has *)
(* the edit that a fingerprint saw in its stat has had it all the time     *)
(* since: the file has been still for as long as the fingerprint is old.   *)
Ages == 0 .. Debounce

Prints == [stat : Nat, read : Nat]

StillSince(f, stat, age) ==
    stat <= edited /\ (stat # 0 /\ content[f] = stat => age <= still[f])

(* A pending change: its bytes are those of its stat, if the file still is.*)
SightedOK(f, p) ==
    /\ StillSince(f, p.print.stat, p.age)
    /\ p.print.stat # 0 /\ content[f] = p.print.stat => p.print.read = p.print.stat

(* A poll that has the stat and not yet the bytes.                         *)
PollingOK ==
    \A stat \in poll.stat :
       /\ poll.at \in Files
       /\ poll.stat = {stat}
       /\ StillSince(poll.at, stat, poll.since)
       /\ \A p \in pending[poll.at] :
             /\ poll.seen <= p.age
             /\ p.print.stat = stat /\ stat # 0 => p.print.read = stat

WatcherType ==
    /\ content \in [Files -> Nat]
    /\ edited \in Nat
    /\ still \in [Files -> Ages]
    /\ baseline = [f \in Files |-> baseline[f]]
    /\ pending \in [Files -> SUBSET [print : Prints, age : Ages]]
    /\ poll \in [at : Nat, stat : SUBSET Nat, since : Ages, seen : Ages]

WatcherInv ==
    /\ WatcherType
    /\ \A f \in Files : /\ content[f] <= edited
                        /\ \A p, q \in pending[f] : p = q
                        /\ \A p \in pending[f] : SightedOK(f, p)
    /\ PollingOK

LEMMA WatcherInitial == WatcherInit => WatcherInv
<1> SUFFICES ASSUME WatcherInit PROVE WatcherInv
  OBVIOUS
<1>1. 0 \in Ages /\ Debounce \in Ages
  BY WatcherConstants DEF Ages
<1>2. content \in [Files -> Nat] /\ \A f \in Files : content[f] = 0
  BY DEF WatcherInit
<1>3. poll \in [at : Nat, stat : SUBSET Nat, since : Ages, seen : Ages] /\ poll.stat = {}
  BY <1>1 DEF WatcherInit
<1>4. WatcherType
  BY <1>1, <1>2, <1>3 DEF WatcherInit, WatcherType
<1> QED
  BY <1>2, <1>3, <1>4 DEF WatcherInit, WatcherInv, PollingOK

LEMMA OlderAges ==
    ASSUME NEW m \in Ages, NEW n \in Ages
    PROVE  /\ Older(n) \in Ages
           /\ n <= Older(n)
           /\ m <= n => Older(m) <= Older(n)
BY WatcherConstants DEF Ages, Older

LEMMA EditConfigStep ==
    ASSUME WatcherInv, NEW f \in Files, EditConfig(f)
    PROVE  WatcherInv'
<1>1. PICK n \in {0, edited + 1} : content' = [content EXCEPT ![f] = n]
  BY DEF EditConfig
<1>2. /\ edited' = edited + 1 /\ still' = [still EXCEPT ![f] = 0]
      /\ UNCHANGED <<baseline, pending, poll>>
  BY DEF EditConfig
<1>3. WatcherType'
  BY <1>1, <1>2, WatcherConstants DEF WatcherInv, WatcherType, Ages
<1>4. ASSUME NEW g \in Files, NEW stat \in Nat, NEW age \in Ages,
             StillSince(g, stat, age)
      PROVE  /\ StillSince(g, stat, age)'
             /\ stat # 0 /\ content'[g] = stat => content[g] = stat
  BY <1>1, <1>2, <1>4 DEF WatcherInv, WatcherType, StillSince, Ages
<1>5. \A g \in Files : content'[g] <= edited'
  BY <1>1, <1>2 DEF WatcherInv, WatcherType
<1>6. ASSUME NEW g \in Files, NEW p \in pending[g] PROVE SightedOK(g, p)'
  <2>1. p.print.stat \in Nat /\ p.age \in Ages
    BY DEF WatcherInv, WatcherType, Prints
  <2> QED
    BY <2>1, <1>4 DEF WatcherInv, SightedOK
<1>7. PollingOK'
  BY <1>2, <1>4 DEF WatcherInv, WatcherType, PollingOK
<1> QED
  BY <1>2, <1>3, <1>5, <1>6, <1>7 DEF WatcherInv

LEMMA TickStep ==
    ASSUME WatcherInv, Tick
    PROVE  WatcherInv'
<1> DEFINE Aged(p) == [p EXCEPT !.age = Older(@)]
<1>1. /\ pending' = [f \in Files |-> {Aged(p) : p \in pending[f]}]
      /\ poll' = [poll EXCEPT !.since = IF poll.stat = {} THEN 0 ELSE Older(@)]
      /\ still' = [f \in Files |-> Older(still[f])]
      /\ UNCHANGED <<content, edited, baseline>>
  BY DEF Tick
<1>2. ASSUME NEW f \in Files, NEW p \in pending[f]
      PROVE  /\ Aged(p) \in [print : Prints, age : Ages]
             /\ Aged(p).print = p.print /\ Aged(p).age = Older(p.age)
             /\ p.age \in Ages /\ p.age <= Older(p.age)
  BY OlderAges DEF WatcherInv, WatcherType
<1>3. /\ poll' \in [at : Nat, stat : SUBSET Nat, since : Ages, seen : Ages]
      /\ poll'.at = poll.at /\ poll'.stat = poll.stat /\ poll'.seen = poll.seen
      /\ poll.stat # {} => poll'.since = Older(poll.since)
      /\ poll.since \in Ages
  <2>1. poll \in [at : Nat, stat : SUBSET Nat, since : Ages, seen : Ages]
    BY DEF WatcherInv, WatcherType
  <2>2. PICK n : n = (IF poll.stat = {} THEN 0 ELSE Older(poll.since)) /\ n \in Ages
    BY <2>1, OlderAges, WatcherConstants DEF Ages
  <2>3. poll' = [poll EXCEPT !.since = n]
    BY <1>1, <2>2
  <2> QED
    BY <2>1, <2>2, <2>3
<1>4. WatcherType'
  BY <1>1, <1>2, <1>3, OlderAges DEF WatcherInv, WatcherType
<1>5. ASSUME NEW f \in Files, NEW stat, NEW age \in Ages, StillSince(f, stat, age)
      PROVE  StillSince(f, stat, Older(age))'
  <2>1. still[f] \in Ages /\ still'[f] = Older(still[f])
    BY <1>1 DEF WatcherInv, WatcherType
  <2> QED
    BY <1>1, <1>5, <2>1, OlderAges DEF StillSince
<1>6. ASSUME NEW f \in Files, NEW p \in pending'[f] PROVE SightedOK(f, p)'
  <2>1. PICK q \in pending[f] : p = Aged(q)
    BY <1>1
  <2>2. SightedOK(f, q) /\ p.print = q.print /\ p.age = Older(q.age) /\ q.age \in Ages
    BY <1>2, <2>1 DEF WatcherInv
  <2> HIDE DEF Aged
  <2> QED
    BY <1>1, <1>5, <2>2 DEF SightedOK
<1>7. \A f \in Files : \A p, q \in pending'[f] : p = q
  BY <1>1 DEF WatcherInv
<1>8. PollingOK'
  <2> SUFFICES ASSUME NEW stat \in poll.stat
               PROVE  /\ poll.at \in Files /\ poll.stat = {stat}
                      /\ StillSince(poll.at, stat, poll.since)'
                      /\ \A p \in pending'[poll.at] :
                            /\ poll.seen <= p.age
                            /\ p.print.stat = stat /\ stat # 0 => p.print.read = stat
    BY <1>3 DEF PollingOK
  <2>1. /\ poll.at \in Files /\ poll.stat = {stat}
        /\ StillSince(poll.at, stat, poll.since)
    BY DEF WatcherInv, PollingOK
  <2>2. StillSince(poll.at, stat, poll.since)'
    BY <1>3, <1>5, <2>1 DEF StillSince
  <2>3. ASSUME NEW p \in pending'[poll.at]
        PROVE  /\ poll.seen <= p.age
               /\ p.print.stat = stat /\ stat # 0 => p.print.read = stat
    <3>1. PICK q \in pending[poll.at] : p = Aged(q)
      BY <1>1, <2>1
    <3>2. /\ p.print = q.print /\ p.age = Older(q.age)
          /\ q.age \in Ages /\ q.age <= Older(q.age)
      BY <1>2, <2>1, <3>1
    <3>3. /\ poll.seen <= q.age /\ poll.seen \in Ages
          /\ q.print.stat = stat /\ stat # 0 => q.print.read = stat
      BY DEF WatcherInv, WatcherType, PollingOK
    <3>4. Older(q.age) \in Ages
      BY <3>2, OlderAges
    <3> HIDE DEF Aged
    <3> QED
      BY <3>2, <3>3, <3>4 DEF Ages
  <2> QED
    BY <2>1, <2>2, <2>3
<1> QED
  BY <1>1, <1>4, <1>6, <1>7, <1>8 DEF WatcherInv

LEMMA PollStatStep ==
    ASSUME WatcherInv, PollStat
    PROVE  WatcherInv'
<1> DEFINE f == poll.at
<1>1. PICK seen \in IF pending[f] = {} THEN {0} ELSE {p.age : p \in pending[f]} :
         poll' = [poll EXCEPT !.stat = {content[f]}, !.since = 0, !.seen = seen]
  BY DEF PollStat
<1>2. f \in Files /\ UNCHANGED <<content, edited, still, baseline, pending>>
  BY DEF PollStat
<1>3. seen \in Ages /\ \A p \in pending[f] : p.age \in Ages /\ seen = p.age
  <2>1. \A p, q \in pending[f] : p = q
    BY <1>2 DEF WatcherInv
  <2>2. \A p \in pending[f] : p.age \in Ages
    BY <1>2 DEF WatcherInv, WatcherType
  <2>3. CASE pending[f] = {}
    BY <1>1, <2>3, WatcherConstants DEF Ages
  <2>4. CASE pending[f] # {}
    BY <1>1, <2>1, <2>2, <2>4
  <2> QED
    BY <2>3, <2>4
<1>4. /\ poll' \in [at : Nat, stat : SUBSET Nat, since : Ages, seen : Ages]
      /\ poll'.at = f /\ poll'.stat = {content[f]} /\ poll'.since = 0 /\ poll'.seen = seen
  <2>1. /\ poll \in [at : Nat, stat : SUBSET Nat, since : Ages, seen : Ages]
        /\ content[f] \in Nat
    BY <1>2 DEF WatcherInv, WatcherType
  <2>2. 0 \in Ages
    BY WatcherConstants DEF Ages
  <2> QED
    BY <1>1, <1>3, <2>1, <2>2
<1>5. WatcherType'
  BY <1>2, <1>4 DEF WatcherInv, WatcherType
<1>6. StillSince(f, content[f], 0)
  BY <1>2 DEF WatcherInv, WatcherType, StillSince, Ages
<1>7. \A p \in pending[f] :
         /\ seen <= p.age
         /\ p.print.stat = content[f] /\ content[f] # 0 => p.print.read = content[f]
  BY <1>2, <1>3 DEF WatcherInv, SightedOK, Ages
<1>8. PollingOK'
  BY <1>2, <1>4, <1>6, <1>7 DEF PollingOK, StillSince
<1>9. \A g \in Files : \A p \in pending[g] : SightedOK(g, p)'
  BY <1>2 DEF WatcherInv, SightedOK, StillSince
<1> QED
  BY <1>2, <1>5, <1>8, <1>9 DEF WatcherInv

(* The bytes of a poll: the change goes into pending, stays, or goes.      *)
LEMMA PollReadStep ==
    ASSUME WatcherInv, PollRead
    PROVE  WatcherInv'
<1> DEFINE f == poll.at
<1>1. PICK stat \in poll.stat : Decide(f, Fingerprint(stat, f))
  BY DEF PollRead
<1> DEFINE now == Fingerprint(stat, f)
           sight == [print |-> now, age |-> poll.since]
<1>2. /\ poll' = [at |-> f + 1, stat |-> {}, since |-> 0, seen |-> 0]
      /\ UNCHANGED <<content, edited, still>>
  BY DEF PollRead
<1>3. f \in Files /\ StillSince(f, stat, poll.since) /\ stat \in Nat
  BY DEF WatcherInv, WatcherType, PollingOK
<1>4. /\ poll' \in [at : Nat, stat : SUBSET Nat, since : Ages, seen : Ages]
      /\ PollingOK'
  BY <1>2, WatcherConstants DEF WatcherInv, WatcherType, PollingOK, Ages
<1>5. now \in Prints /\ sight \in [print : Prints, age : Ages]
  BY <1>3 DEF Fingerprint, Gone, Prints, WatcherInv, WatcherType
<1>6. SightedOK(f, sight)
  <2>1. CASE stat = 0
    BY <1>3, <2>1 DEF SightedOK, StillSince, Fingerprint, Gone
  <2>2. CASE stat # 0
    BY <1>3, <2>2 DEF SightedOK, StillSince, Fingerprint
  <2> QED
    BY <2>1, <2>2
<1>7. \E ps \in {{}, pending[f], {sight}} : pending' = [pending EXCEPT ![f] = ps]
  BY <1>1 DEF Decide, Keep, Emit, Sight
<1>8. baseline' = [g \in Files |-> baseline'[g]]
  BY <1>1 DEF Decide, Keep, Emit, WatcherInv, WatcherType
<1> HIDE DEF sight
<1>9. PICK ps \in {{}, pending[f], {sight}} : pending' = [pending EXCEPT ![f] = ps]
  BY <1>7
<1>10. /\ ps \in SUBSET [print : Prints, age : Ages]
       /\ \A p, q \in ps : p = q
       /\ \A p \in ps : SightedOK(f, p)
  BY <1>3, <1>5, <1>6, <1>9 DEF WatcherInv, WatcherType
<1>11. WatcherType'
  BY <1>2, <1>3, <1>4, <1>8, <1>9, <1>10 DEF WatcherInv, WatcherType
<1>12. \A g \in Files : \A p \in pending'[g] : SightedOK(g, p)
  BY <1>3, <1>9, <1>10 DEF WatcherInv, WatcherType
<1>13. \A g \in Files : \A p \in pending'[g] : SightedOK(g, p)'
  BY <1>2, <1>12 DEF SightedOK, StillSince
<1>14. \A g \in Files : \A p, q \in pending'[g] : p = q
  BY <1>3, <1>9, <1>10 DEF WatcherInv, WatcherType
<1> QED
  BY <1>2, <1>4, <1>11, <1>13, <1>14 DEF WatcherInv

(* The steps between polls.                                                *)
LEMMA BetweenPolls ==
    ASSUME WatcherInv, LoadLayer \/ EndRound \/ UNCHANGED watcherVars
    PROVE  WatcherInv'
<1>1. UNCHANGED <<content, edited, still, baseline, pending>>
  BY DEF LoadLayer, EndRound, watcherVars
<1>2. \/ poll' = poll
      \/ /\ poll.at \notin Files /\ poll' = [poll EXCEPT !.at = poll'.at]
         /\ poll'.at \in Nat
  <2>1. poll \in [at : Nat, stat : SUBSET Nat, since : Ages, seen : Ages]
    BY DEF WatcherInv, WatcherType
  <2> QED
    BY <2>1, WatcherConstants DEF LoadLayer, EndRound, watcherVars, Files
<1>3. /\ poll' \in [at : Nat, stat : SUBSET Nat, since : Ages, seen : Ages]
      /\ PollingOK'
  BY <1>1, <1>2 DEF WatcherInv, WatcherType, PollingOK, StillSince
<1>4. \A f \in Files : \A p \in pending[f] : SightedOK(f, p)'
  BY <1>1 DEF WatcherInv, SightedOK, StillSince
<1>5. WatcherType'
  BY <1>1, <1>3 DEF WatcherInv, WatcherType
<1> QED
  BY <1>1, <1>3, <1>4, <1>5 DEF WatcherInv

LEMMA WatcherStep ==
    ASSUME WatcherInv, [WatcherNext]_watcherVars
    PROVE  WatcherInv'
BY EditConfigStep, TickStep, PollStatStep, PollReadStep, BetweenPolls
DEF WatcherNext, Loop

(* What is reported has been pending for the debounce time, with the same  *)
(* stat and the same bytes.                                                *)
LEMMA EmitIsDebounced ==
    ASSUME WatcherInv, [WatcherNext]_watcherVars, NEW f \in Files,
           baseline'[f] # baseline[f], baseline'[f] # Gone
    PROVE  still[f] = Debounce
<1>1. PollRead
  BY DEF WatcherNext, Loop, EditConfig, Tick, PollStat, LoadLayer, EndRound, watcherVars
<1>2. PICK stat \in poll.stat : Decide(poll.at, Fingerprint(stat, poll.at))
  BY <1>1 DEF PollRead
<1> DEFINE now == Fingerprint(stat, poll.at)
<1>3. poll.at \in Files /\ poll.stat = {stat} /\ stat \in Nat
  BY DEF WatcherInv, WatcherType, PollingOK
<1>4. /\ Emit(poll.at, now)
      /\ Debounce = 0 \/ (Awaited(poll.at, now) /\ ~(poll.seen < Debounce))
  <2>1. ~Keep(poll.at, {}) /\ ~Keep(poll.at, {Sight(now)}) /\ ~Keep(poll.at, pending[poll.at])
    BY DEF Keep
  <2>2. now # baseline[poll.at]
    BY <1>2, <2>1 DEF Decide
  <2>3. ~(~Awaited(poll.at, now) /\ Debounce > 0)
    BY <1>2, <2>1, <2>2 DEF Decide
  <2>4. ~(Awaited(poll.at, now) /\ poll.seen < Debounce)
    BY <1>2, <2>1, <2>2 DEF Decide
  <2>5. Emit(poll.at, now)
    BY <1>2, <2>2, <2>3, <2>4 DEF Decide
  <2> QED
    BY <2>3, <2>4, <2>5, WatcherConstants
<1>5. f = poll.at /\ now # Gone
  BY <1>3, <1>4 DEF Emit, WatcherInv, WatcherType
<1>6. stat # 0 /\ now = [stat |-> stat, read |-> content[f]]
  BY <1>5 DEF Fingerprint
<1>7. still[f] \in Ages /\ poll.seen \in Ages
  BY DEF WatcherInv, WatcherType
<1>8. CASE Debounce = 0
  BY <1>7, <1>8 DEF Ages
<1>9. CASE Awaited(poll.at, now) /\ ~(poll.seen < Debounce)
  <2>1. PICK p \in pending[f] : p.print = now
    BY <1>5, <1>9 DEF Awaited
  <2>2. p.print.stat = stat /\ p.print.read = content[f]
    BY <1>6, <2>1
  <2>3. poll.seen <= p.age /\ p.print.read = stat
    BY <1>5, <1>6, <2>2 DEF WatcherInv, PollingOK
  <2>4. p.age <= still[f] /\ p.age \in Ages
    <3>1. SightedOK(f, p)
      BY DEF WatcherInv
    <3>2. p.age \in Ages
      BY DEF WatcherInv, WatcherType
    <3> QED
      BY <1>6, <2>2, <2>3, <3>1, <3>2 DEF SightedOK, StillSince
  <2> QED
    BY <1>7, <1>9, <2>3, <2>4, WatcherConstants DEF Ages
<1> QED
  BY <1>4, <1>8, <1>9

(* ConfigWatcher.poll: for any number of layers and edits and any debounce *)
(* time, whatever edits fall between the stat and the bytes of a poll, a   *)
(* change is reported only of a file that has been still that long.        *)
THEOREM ReportsAreDebounced == WatcherSpec => EmitsAreDebounced
<1>1. WatcherInv /\ [WatcherNext]_watcherVars =>
         [\A f \in Files : baseline'[f] # baseline[f] /\ baseline'[f] # Gone =>
                              still[f] = Debounce]_watcherVars
  BY EmitIsDebounced
<1> QED
  BY <1>1, WatcherInitial, WatcherStep, PTL DEF WatcherSpec, EmitsAreDebounced
=============================================================================
