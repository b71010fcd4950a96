----------------------- MODULE StageArtifactCacheProofs -----------------------
(***************************************************************************)
(* Proofs about the stage artifact cache for every number of keys,         *)
(* payloads, threads, processes and temp paths.                            *)
(***************************************************************************)
EXTENDS StageArtifactCache, TLAPS

(* The bytes a file of key k may have at any time: a whole payload put for *)
(* k, nothing yet, or one payload over another.                            *)
BytesFor(k) == written[k] \cup {Empty, Torn}

FileFor(f, k) == f = None \/ (f \in File /\ f.bytes \in BytesFor(k))

(* A call in progress knows its key; a put carries the payload it was      *)
(* given, a lookup the row it loaded and perhaps the payload it found.     *)
CallOK(o) ==
    /\ o \in Ops
    /\ o.pc # "idle" => o.key \in Keys
    /\ o.pc = "idle" => o.seen = None
    /\ o.content # None => o.key \in Keys /\ o.content \in written[o.key]
    /\ o.seen # None => o.key \in Keys /\ o.seen \in written[o.key]
    /\ o.pc \in {"put_check", "put_open", "put_write", "put_replace",
                 "put_commit", "put_fill"}
          => o.content # None /\ o.seen = None
    /\ o.pc \in {"get_hot", "get_touch", "get_stat", "get_read", "get_orphan",
                 "get_refresh", "get_fill"} => o.entry \in Rows
    /\ o.pc \in {"get_hot", "get_stat", "get_read"} => o.seen = None
    /\ o.pc \in {"get_touch", "get_refresh", "get_fill"} => o.seen # None

(* The inductive invariant behind HitsWhole: everything bytes can come     *)
(* from -- payload files, temp files, hot tiers and calls -- has bytes of  *)
(* its own key, and only files have bytes that do not parse.               *)
RowsOK == row \in [Keys -> Rows \cup {None}] /\ clock \in Nat

FilesOK ==
    /\ payload \in [Keys -> File \cup {None}]
    /\ temp \in [Keys -> [Tokens -> File \cup {None}]]
    /\ \A k \in Keys : FileFor(payload[k], k)
    /\ \A k \in Keys, w \in Tokens : FileFor(temp[k][w], k)

HotOK ==
    /\ hot = [p \in Procs |-> hot[p]]
    /\ \A p \in Procs : hot[p].held \in [Keys -> Held \cup {None}]
    /\ \A p \in Procs, k \in Keys :
          hot[p].held[k] # None => hot[p].held[k].content \in written[k]

CallsOK ==
    /\ op \in [Threads -> Ops]
    /\ \A t \in Threads : CallOK(op[t])

WrittenOK == written \in [Keys -> SUBSET Contents]

Sources == WrittenOK /\ RowsOK /\ FilesOK /\ HotOK /\ CallsOK

------------------------------------------------------------------------------
(* Lemmas about the hot tier: no operation puts anything into it but the   *)
(* entry it was called with.                                               *)

LEMMA HotPopHeld ==
    ASSUME NEW h, NEW k \in Keys, h.held \in [Keys -> Held \cup {None}]
    PROVE  /\ HotPop(h, k).held \in [Keys -> Held \cup {None}]
           /\ \A j \in Keys : HotPop(h, k).held[j] \in {None, h.held[j]}
  BY DEF HotPop

LEMMA HotEvictHeld ==
    ASSUME NEW h, h.held \in [Keys -> Held \cup {None}]
    PROVE  /\ HotEvict(h).held \in [Keys -> Held \cup {None}]
           /\ \A j \in Keys : HotEvict(h).held[j] \in {None, h.held[j]}
<1>1. ASSUME NEW n
      PROVE  /\ HotDropped(h, n).held \in [Keys -> Held \cup {None}]
             /\ \A j \in Keys : HotDropped(h, n).held[j] \in {None, h.held[j]}
  BY DEF HotDropped
<1> QED
  BY <1>1 DEF HotEvict

LEMMA HotPutHeld ==
    ASSUME NEW h, NEW k \in Keys, NEW c \in Bytes, NEW w \in Nat,
           h.held \in [Keys -> Held \cup {None}]
    PROVE  /\ HotPut(h, k, c, w).held \in [Keys -> Held \cup {None}]
           /\ \A j \in Keys :
                 HotPut(h, k, c, w).held[j] \in {None, h.held[j]}
                 \/ (j = k /\ HotPut(h, k, c, w).held[j] \in Held
                     /\ HotPut(h, k, c, w).held[j].content = c)
<1> DEFINE popped == HotPop(h, k)
           weight == IF w < 1 THEN 1 ELSE w
           more   == HotInsert(popped, k, c, weight)
<1>1. /\ popped.held \in [Keys -> Held \cup {None}]
      /\ \A j \in Keys : popped.held[j] \in {None, h.held[j]}
  BY HotPopHeld
<1>2. weight \in Nat
  OBVIOUS
<1>3. /\ more.held \in [Keys -> Held \cup {None}]
      /\ more.held[k] = [content |-> c, weight |-> weight]
      /\ \A j \in Keys \ {k} : more.held[j] = popped.held[j]
  BY <1>1, <1>2 DEF HotInsert, Held
<1>4. /\ HotEvict(more).held \in [Keys -> Held \cup {None}]
      /\ \A j \in Keys : HotEvict(more).held[j] \in {None, more.held[j]}
  BY <1>3, HotEvictHeld
<1>5. HotPut(h, k, c, w) \in {popped, HotEvict(more)}
  BY DEF HotPut
<1>6. [content |-> c, weight |-> weight] \in Held
  BY <1>2 DEF Held
<1> QED
  BY <1>1, <1>3, <1>4, <1>5, <1>6

LEMMA HotTouchHeld ==
    ASSUME NEW h, NEW k
    PROVE  HotTouch(h, k).held = h.held
  BY DEF HotTouch

------------------------------------------------------------------------------
(* Lemmas about the calls. *)

LEMMA NoOpOK == CallOK(NoOp)
  BY DEF CallOK, NoOp, Ops

(* A step of one call, that leaves the others and the history alone. *)
LEMMA CallStep ==
    ASSUME CallsOK, NEW t \in Threads, NEW o, CallOK(o),
           op' = [op EXCEPT ![t] = o], written' = written
    PROVE  CallsOK'
  BY DEF CallsOK, CallOK

LEMMA CallReturn ==
    ASSUME CallsOK, NEW t \in Threads, Return(t), written' = written
    PROVE  CallsOK'
  BY NoOpOK, CallStep DEF Return

(* Calls that are killed or raise together. *)
LEMMA CallsKilled ==
    ASSUME CallsOK, NEW S, written' = written,
           op' = [t \in Threads |-> IF t \in S THEN NoOp ELSE op[t]]
    PROVE  CallsOK'
  BY NoOpOK DEF CallsOK, CallOK

LEMMA FilesSame ==
    ASSUME FilesOK, UNCHANGED <<payload, temp, written>>
    PROVE  FilesOK'
  BY DEF FilesOK, FileFor, BytesFor

LEMMA HotSame ==
    ASSUME HotOK, UNCHANGED <<hot, written>>
    PROVE  HotOK'
  BY DEF HotOK

(* The hot tier of one process takes a payload that was put for the key. *)
LEMMA HotFill ==
    ASSUME HotOK, NEW p \in Procs, NEW k \in Keys, NEW c \in Bytes,
           NEW w \in Nat, c \in written[k], written' = written,
           hot' = [hot EXCEPT ![p] = HotPut(@, k, c, w)]
    PROVE  HotOK'
<1>1. hot[p].held \in [Keys -> Held \cup {None}]
  BY DEF HotOK
<1>2. hot'[p] = HotPut(hot[p], k, c, w) /\ \A q \in Procs \ {p} : hot'[q] = hot[q]
  BY DEF HotOK
<1> DEFINE g == HotPut(hot[p], k, c, w)
<1>4. /\ g.held \in [Keys -> Held \cup {None}]
      /\ \A j \in Keys : g.held[j] \in {None, hot[p].held[j]}
                         \/ (j = k /\ g.held[j] \in Held /\ g.held[j].content = c)
  <2> HIDE DEF g
  <2>1. ASSUME NEW h, h.held \in [Keys -> Held \cup {None}]
        PROVE  /\ HotPut(h, k, c, w).held \in [Keys -> Held \cup {None}]
               /\ \A j \in Keys :
                    HotPut(h, k, c, w).held[j] \in {None, h.held[j]}
                    \/ (j = k /\ HotPut(h, k, c, w).held[j] \in Held
                        /\ HotPut(h, k, c, w).held[j].content = c)
    BY ONLY <2>1, k \in Keys, c \in Bytes, w \in Nat, HotPutHeld
  <2> QED
    BY <2>1, <1>1 DEF g
<1>3. ASSUME NEW j \in Keys, g.held[j] # None
      PROVE  g.held[j].content \in written[j]
  <2>1. CASE g.held[j] = hot[p].held[j]
    BY <2>1, <1>3 DEF HotOK
  <2>2. CASE j = k /\ g.held[j].content = c
    BY <2>2
  <2> QED
    BY <2>1, <2>2, <1>3, <1>4
<1> HIDE DEF g
<1>5. hot'[p] = g
  BY <1>2 DEF g
<1> QED
  BY <1>2, <1>3, <1>4, <1>5 DEF HotOK

(* A call goes on to another step. *)
LEMMA CallGoto ==
    ASSUME CallsOK, NEW t \in Threads, NEW where, Goto(t, where),
           CallOK([op[t] EXCEPT !.pc = where]), written' = written
    PROVE  CallsOK'
<1>1. op' = [op EXCEPT ![t] = [op[t] EXCEPT !.pc = where]]
  BY DEF Goto, CallsOK
<1> QED
  BY <1>1, CallStep

(* A file of a key is replaced by a file its key may have. *)
LEMMA PayloadSet ==
    ASSUME FilesOK, NEW k \in Keys, NEW f, FileFor(f, k),
           payload' = [payload EXCEPT ![k] = f], UNCHANGED <<temp, written>>
    PROVE  FilesOK'
  BY DEF FilesOK, FileFor, BytesFor

LEMMA TempSet ==
    ASSUME FilesOK, NEW k \in Keys, NEW w \in Tokens, NEW f, FileFor(f, k),
           temp' = [temp EXCEPT ![k][w] = f], UNCHANGED <<payload, written>>
    PROVE  FilesOK'
  BY DEF FilesOK, FileFor, BytesFor

LEMMA FilesSet ==
    ASSUME FilesOK, NEW k \in Keys, NEW w \in Tokens, NEW f, NEW g,
           FileFor(f, k), FileFor(g, k), payload' = [payload EXCEPT ![k] = f],
           temp' = [temp EXCEPT ![k][w] = g], written' = written
    PROVE  FilesOK'
  BY DEF FilesOK, FileFor, BytesFor

LEMMA WrittenFile ==
    ASSUME NEW f, NEW t, NEW b \in Bytes, NEW k, FileFor(f, k), b \in BytesFor(k)
    PROVE  FileFor(Written(f, t, b), k)
  BY DEF FileFor, Written, File

LEMMA RowSet ==
    ASSUME RowsOK, NEW k \in Keys, NEW r \in Rows, Upsert(k, r), clock' = clock
    PROVE  RowsOK'
  BY DEF RowsOK, Upsert

LEMMA SourcesInit == Init => Sources
<1> SUFFICES ASSUME Init PROVE Sources
  OBVIOUS
<1>1. WrittenOK /\ RowsOK /\ FilesOK
  BY DEF Init, WrittenOK, RowsOK, FilesOK, FileFor
<1>2. HotOK
  BY DEF Init, HotOK, EmptyTier
<1>3. CallsOK
  BY NoOpOK DEF Init, CallsOK, CallOK
<1> QED
  BY <1>1, <1>2, <1>3 DEF Sources

------------------------------------------------------------------------------
(* Every step preserves the sources: first the put ... *)

LEMMA PutStepSources ==
    ASSUME Sources, NEW t \in Threads, PutStep(t)
    PROVE  Sources'
<1> USE DEF Sources
<1>o. op[t] \in Ops /\ CallOK(op[t])
  BY DEF CallsOK
<1>1. CASE PutKeep(t)
  <2>1. UNCHANGED <<row, clock, files, hot, written>> /\ Return(t)
    BY <1>1 DEF PutKeep
  <2> QED
    BY <2>1, CallReturn, FilesSame, HotSame DEF files, RowsOK, WrittenOK
<1>2. CASE PutBegin(t)
  <2>1. UNCHANGED <<row, clock, files, hot, written>>
    BY <1>2 DEF PutBegin
  <2> DEFINE o == [op[t] EXCEPT !.pc = "put_open", !.entry = None,
                      !.exp = IF op[t].exp = 0 THEN 0 ELSE clock + op[t].exp]
  <2>2. op' = [op EXCEPT ![t] = o]
    BY <1>2, <1>o DEF PutBegin, Ops, CallsOK
  <2>3. CallOK(o)
    <3> DEFINE e == IF op[t].exp = 0 THEN 0 ELSE clock + op[t].exp
    <3>0. e \in Nat
      BY <1>o DEF Ops, RowsOK
    <3> HIDE DEF e
    <3>1. [op[t] EXCEPT !.pc = "put_open", !.entry = None, !.exp = e] \in Ops
      BY <3>0, <1>o DEF Ops
    <3>2. op[t].pc = "put_check"
      BY <1>2 DEF PutBegin, At
    <3> QED
      BY <3>1, <3>2, <1>o DEF Ops, CallOK, e
  <2> QED
    BY <2>1, <2>2, <2>3, CallStep, FilesSame, HotSame DEF files, RowsOK, WrittenOK
<1>3. CASE PutOpen(t)
  <2> DEFINE k == op[t].key
             w == TokenOf[t]
             others == IF temp[k][w] = None THEN {} ELSE temp[k][w].open
             f == [bytes |-> Empty, open |-> others \cup {t}]
  <2>1. UNCHANGED <<row, clock, payload, hot, written>> /\ Goto(t, "put_write")
        /\ op[t].pc = "put_open" /\ temp' = [temp EXCEPT ![k][w] = f]
    BY <1>3 DEF PutOpen, At
  <2>2. k \in Keys /\ w \in Tokens
    BY <2>1, <1>o, CacheAssumption DEF CallOK
  <2>3. others \subseteq Threads
    BY <2>2 DEF FilesOK, File
  <2>4. FileFor(f, k)
    BY <2>3 DEF FileFor, File, Bytes, BytesFor
  <2>5. CallOK([op[t] EXCEPT !.pc = "put_write"])
    BY <2>1, <1>o DEF CallOK, Ops
  <2> QED
    BY <2>1, <2>2, <2>4, <2>5, TempSet, CallGoto, HotSame DEF RowsOK, WrittenOK
<1>4. CASE PutWrite(t)
  <2> DEFINE k == op[t].key
             w == TokenOf[t]
  <2>1. PICK b \in {op[t].content, Torn} :
          /\ temp' = [temp EXCEPT ![k][w] = Written(@, t, b)]
          /\ payload' = [payload EXCEPT ![k] = Written(@, t, b)]
    BY <1>4 DEF PutWrite
  <2>2. UNCHANGED <<row, clock, hot, written>> /\ Goto(t, "put_replace")
        /\ op[t].pc = "put_write"
    BY <1>4 DEF PutWrite, At
  <2>3. k \in Keys /\ w \in Tokens
    BY <2>2, <1>o, CacheAssumption DEF CallOK
  <2>4. b \in Bytes /\ b \in BytesFor(k)
    BY <2>2, <1>o DEF CallOK, Ops, Bytes, BytesFor, WrittenOK
  <2>5. FileFor(Written(temp[k][w], t, b), k) /\ FileFor(Written(payload[k], t, b), k)
    BY <2>3, <2>4, WrittenFile DEF FilesOK
  <2>6. CallOK([op[t] EXCEPT !.pc = "put_replace"])
    BY <2>2, <1>o DEF CallOK, Ops
  <2>7. /\ temp' = [temp EXCEPT ![k][w] = Written(temp[k][w], t, b)]
        /\ payload' = [payload EXCEPT ![k] = Written(payload[k], t, b)]
    BY <2>1, <2>3 DEF FilesOK
  <2> QED
    BY <2>2, <2>3, <2>5, <2>6, <2>7, FilesSet, CallGoto, HotSame DEF RowsOK, WrittenOK
<1>5. CASE PutReplace(t)
  <2> DEFINE k == op[t].key
             w == TokenOf[t]
  <2>1. /\ UNCHANGED <<row, clock, hot, written>> /\ Goto(t, "put_commit")
        /\ op[t].pc = "put_replace"
        /\ payload' = [payload EXCEPT ![k] = temp[k][w]]
        /\ temp' = [temp EXCEPT ![k][w] = None]
    BY <1>5 DEF PutReplace, At
  <2>2. k \in Keys /\ w \in Tokens
    BY <2>1, <1>o, CacheAssumption DEF CallOK
  <2>3. FileFor(temp[k][w], k) /\ FileFor(None, k)
    BY <2>2 DEF FilesOK, FileFor
  <2>4. CallOK([op[t] EXCEPT !.pc = "put_commit"])
    BY <2>1, <1>o DEF CallOK, Ops
  <2> QED
    BY <2>1, <2>2, <2>3, <2>4, FilesSet, CallGoto, HotSame DEF RowsOK, WrittenOK
<1>6. CASE PutCommit(t)
  <2> DEFINE r == [content |-> op[t].content, exp |-> op[t].exp, orphaned |-> FALSE]
             o == [op[t] EXCEPT !.pc = "put_fill", !.exp = 0]
  <2>1. /\ UNCHANGED <<clock, files, hot, written>>
        /\ op[t].pc = "put_commit" /\ Upsert(op[t].key, r)
    BY <1>6 DEF PutCommit, At
  <2>2. op' = [op EXCEPT ![t] = o]
    BY <1>6 DEF PutCommit, CallsOK, Ops
  <2>3. op[t].key \in Keys /\ r \in Rows
    BY <2>1, <1>o DEF CallOK, Ops, Rows
  <2>4. CallOK(o)
    BY <2>1, <1>o DEF CallOK, Ops
  <2>5. RowsOK'
    BY <2>1, <2>3, RowSet
  <2> QED
    BY <2>1, <2>2, <2>4, <2>5, CallStep, FilesSame, HotSame DEF files, WrittenOK
<1>7. CASE PutFill(t)
  <2> DEFINE k == op[t].key
             c == op[t].content
  <2>1. /\ UNCHANGED <<row, clock, files, written>>
        /\ Return(t) /\ op[t].pc = "put_fill"
        /\ hot' = [hot EXCEPT ![ProcOf[t]] = HotPut(@, k, c, Weight[c])]
    BY <1>7 DEF PutFill, At
  <2>2. /\ k \in Keys /\ c \in Contents /\ c \in written[k]
        /\ ProcOf[t] \in Procs
    BY <2>1, <1>o, CacheAssumption DEF CallOK, Ops
  <2>3. c \in Bytes /\ Weight[c] \in Nat
    BY <2>2, CacheAssumption DEF Bytes
  <2>4. HotOK'
    BY <2>1, <2>2, <2>3, HotFill
  <2> QED
    BY <2>1, <2>4, CallReturn, FilesSame DEF files, RowsOK, WrittenOK
<1> QED
  BY <1>1, <1>2, <1>3, <1>4, <1>5, <1>6, <1>7 DEF PutStep

------------------------------------------------------------------------------
(* ... then the lookup ... *)

LEMMA GetStepSources ==
    ASSUME Sources, NEW t \in Threads, GetStep(t)
    PROVE  Sources'
<1> USE DEF Sources
<1>o. op[t] \in Ops /\ CallOK(op[t])
  BY DEF CallsOK
<1> DEFINE k == op[t].key
<1>1. CASE GetHot(t)
  <2> DEFINE p == ProcOf[t]
             found == HotLookup(hot[p], k)
             o == IF found = None
                  THEN [op[t] EXCEPT !.pc = "get_stat"]
                  ELSE [op[t] EXCEPT !.pc = "get_touch", !.seen = found.content]
  <2>1. /\ UNCHANGED <<row, clock, files, written>>
        /\ op[t].pc = "get_hot"
        /\ hot' = [hot EXCEPT ![p] = HotTouch(hot[p], k)]
    BY <1>1 DEF GetHot, At, HotOK
  <2>2. op' = [op EXCEPT ![t] = o]
    BY <1>1 DEF GetHot, CallsOK
  <2>3. k \in Keys /\ p \in Procs
    BY <2>1, <1>o, CacheAssumption DEF CallOK
  <2>4. found # None => found.content \in Bytes /\ found.content \in written[k]
    BY <2>3 DEF HotOK, HotLookup, Held
  <2>5. CallOK(o)
    BY <2>1, <2>3, <2>4, <1>o, NoneAssumption DEF CallOK, Ops
  <2>6. HotOK'
    BY <2>1, <2>3, HotTouchHeld DEF HotOK
  <2> QED
    BY <2>1, <2>2, <2>5, <2>6, CallStep, FilesSame DEF files, RowsOK, WrittenOK
<1>2. CASE GetTouch(t)
  <2>1. /\ UNCHANGED <<clock, files, hot, written>> /\ Return(t)
        /\ op[t].pc = "get_touch" /\ Upsert(k, op[t].entry)
    BY <1>2 DEF GetTouch, At
  <2>2. RowsOK'
    BY <2>1, <1>o, RowSet DEF CallOK
  <2> QED
    BY <2>1, <2>2, CallReturn, FilesSame, HotSame DEF files, WrittenOK
<1>3. CASE GetStat(t)
  <2> DEFINE where == IF payload[k] = None THEN "get_orphan" ELSE "get_read"
  <2>1. /\ UNCHANGED <<row, clock, files, hot, written>> /\ Goto(t, where)
        /\ op[t].pc = "get_stat"
    BY <1>3 DEF GetStat, At
  <2>2. CallOK([op[t] EXCEPT !.pc = where])
    BY <2>1, <1>o DEF CallOK, Ops
  <2> QED
    BY <2>1, <2>2, CallGoto, FilesSame, HotSame DEF files, RowsOK, WrittenOK
<1>4. CASE GetRead(t)
  <2> DEFINE b == IF payload[k] = None THEN Empty ELSE payload[k].bytes
             o == IF b \in {Empty, Torn}
                  THEN [op[t] EXCEPT !.pc = "get_orphan"]
                  ELSE [op[t] EXCEPT !.pc = "get_refresh", !.seen = b]
  <2>1. UNCHANGED <<row, clock, files, hot, written>> /\ op[t].pc = "get_read"
    BY <1>4 DEF GetRead, At
  <2>2. op' = [op EXCEPT ![t] = o]
    BY <1>4 DEF GetRead, CallsOK
  <2>3. k \in Keys
    BY <2>1, <1>o DEF CallOK
  <2>4. b \notin {Empty, Torn} => b \in Bytes /\ b \in written[k]
    BY <2>3 DEF FilesOK, FileFor, File, BytesFor
  <2>5. CallOK(o)
    BY <2>1, <2>3, <2>4, <1>o, NoneAssumption DEF CallOK, Ops
  <2> QED
    BY <2>1, <2>2, <2>5, CallStep, FilesSame, HotSame DEF files, RowsOK, WrittenOK
<1>5. CASE GetOrphan(t)
  <2> DEFINE r == [op[t].entry EXCEPT !.orphaned = TRUE]
  <2>1. /\ UNCHANGED <<clock, files, hot, written>> /\ Return(t)
        /\ op[t].pc = "get_orphan" /\ Upsert(k, r)
    BY <1>5 DEF GetOrphan, At
  <2>2. k \in Keys /\ r \in Rows
    BY <2>1, <1>o DEF CallOK, Rows
  <2>3. RowsOK'
    BY <2>1, <2>2, RowSet
  <2> QED
    BY <2>1, <2>3, CallReturn, FilesSame, HotSame DEF files, WrittenOK
<1>6. CASE GetRefresh(t)
  <2>1. /\ UNCHANGED <<clock, files, hot, written>> /\ Goto(t, "get_fill")
        /\ op[t].pc = "get_refresh" /\ Upsert(k, op[t].entry)
    BY <1>6 DEF GetRefresh, At
  <2>2. RowsOK'
    BY <2>1, <1>o, RowSet DEF CallOK
  <2>3. CallOK([op[t] EXCEPT !.pc = "get_fill"])
    BY <2>1, <1>o DEF CallOK, Ops
  <2> QED
    BY <2>1, <2>2, <2>3, CallGoto, FilesSame, HotSame DEF files, WrittenOK
<1>7. CASE GetFill(t)
  <2> DEFINE c == op[t].seen
             w == Weight[op[t].entry.content]
  <2>1. /\ UNCHANGED <<row, clock, files, written>> /\ Return(t)
        /\ op[t].pc = "get_fill"
        /\ hot' = [hot EXCEPT ![ProcOf[t]] = HotPut(@, k, c, w)]
    BY <1>7 DEF GetFill, At
  <2>2. k \in Keys /\ ProcOf[t] \in Procs /\ c \in written[k] /\ c \in Bytes
    BY <2>1, <1>o, CacheAssumption DEF CallOK, WrittenOK, Bytes
  <2>3. w \in Nat
    BY <2>1, <1>o, CacheAssumption DEF CallOK, Rows
  <2>4. HotOK'
    BY <2>1, <2>2, <2>3, HotFill
  <2> QED
    BY <2>1, <2>4, CallReturn, FilesSame DEF files, RowsOK, WrittenOK
<1> QED
  BY <1>1, <1>2, <1>3, <1>4, <1>5, <1>6, <1>7 DEF GetStep

------------------------------------------------------------------------------
(* ... then the collectors, which only take rows and files away ... *)

LEMMA GcStepSources ==
    ASSUME Sources, GcStep
    PROVE  Sources'
<1> USE DEF Sources
<1>1. ASSUME NEW f \in Keys \X Tokens, GcTemp(f) PROVE Sources'
  <2>1. /\ UNCHANGED <<row, clock, payload, hot, op, written>>
        /\ temp' = [temp EXCEPT ![f[1]][f[2]] = None]
    BY <1>1 DEF GcTemp
  <2>2. FilesOK'
    BY <2>1, TempSet DEF FileFor
  <2> QED
    BY <2>1, <2>2, HotSame DEF RowsOK, WrittenOK, CallsOK, CallOK
<1>2. ASSUME NEW k \in Keys, GcExpire(k) \/ GcUnlink(k) PROVE Sources'
  <2>1. /\ UNCHANGED <<row, clock, temp, hot, op, written>>
        /\ payload' = [payload EXCEPT ![k] = None]
    BY <1>2 DEF GcExpire, GcUnlink
  <2>2. FilesOK'
    BY <2>1, PayloadSet DEF FileFor
  <2> QED
    BY <2>1, <2>2, HotSame DEF RowsOK, WrittenOK, CallsOK, CallOK
<1>3. CASE GcCommit
  <2>1. /\ UNCHANGED <<clock, files, hot, op, written>>
        /\ row' = [k \in Keys |-> IF k \in gc.deleted THEN None ELSE row[k]]
    BY <1>3 DEF GcCommit
  <2>2. RowsOK'
    BY <2>1 DEF RowsOK
  <2> QED
    BY <2>1, <2>2, FilesSame, HotSame DEF files, WrittenOK, CallsOK, CallOK
<1>4. CASE GcPrune
  <2>1. PICK raised \in SUBSET Threads :
          op' = [t \in Threads |-> IF t \in raised THEN NoOp ELSE op[t]]
    BY <1>4 DEF GcPrune
  <2>2. UNCHANGED <<row, clock, files, hot, written>>
    BY <1>4 DEF GcPrune
  <2>3. CallsOK'
    BY <2>1, <2>2, CallsKilled
  <2> QED
    BY <2>2, <2>3, FilesSame, HotSame DEF files, RowsOK, WrittenOK
<1>5. CASE GcTempsDone \/ GcLoad \/ GcScan \/ GcReported \/ GcBegin \/ GcRefs
           \/ GcList \/ GcUnlinkDone
  <2>1. UNCHANGED <<row, clock, files, hot, op, written>>
    BY <1>5 DEF GcTempsDone, GcLoad, GcScan, GcReported, GcBegin, GcRefs,
                GcList, GcUnlinkDone
  <2> QED
    BY <2>1, FilesSame, HotSame DEF files, RowsOK, WrittenOK, CallsOK, CallOK
<1> QED
  BY <1>1, <1>2, <1>3, <1>4, <1>5 DEF GcStep

(* ... and at last the beginnings of calls, exceptions, kills and time. *)

LEMMA SourcesStep == Sources /\ [Next]_vars => Sources'
<1> SUFFICES ASSUME Sources, [Next]_vars PROVE Sources'
  OBVIOUS
<1> USE DEF Sources
<1>1. ASSUME NEW t \in Threads, NEW k \in Keys, NEW c \in Contents, NEW ttl \in Ttls,
             PutLoad(t, k, c, ttl)
      PROVE  Sources'
  <2> DEFINE o == [NoOp EXCEPT !.pc = "put_check", !.key = k, !.content = c,
                               !.exp = ttl, !.entry = row[k]]
  <2>1. /\ UNCHANGED <<row, clock, files, hot>>
        /\ op' = [op EXCEPT ![t] = o]
        /\ written' = [written EXCEPT ![k] = @ \cup {c}]
    BY <1>1 DEF PutLoad
  <2>2. WrittenOK' /\ \A j \in Keys : written[j] \subseteq written'[j]
    BY <2>1 DEF WrittenOK
  <2>3. FilesOK'
    BY <2>1, <2>2 DEF FilesOK, FileFor, BytesFor, files
  <2>4. HotOK'
    BY <2>1, <2>2 DEF HotOK
  <2>5. o \in Ops /\ o.pc = "put_check" /\ o.key = k /\ o.content = c /\ o.seen = None
    BY CacheAssumption DEF NoOp, Ops, RowsOK
  <2>6. CallOK(o)'
    BY <2>1, <2>2, <2>5, NoneAssumption DEF CallOK, WrittenOK, Bytes
  <2>7. ASSUME NEW s \in Threads PROVE CallOK(op[s])'
    <3>1. CASE s = t
      BY <3>1, <2>1, <2>6 DEF CallsOK
    <3>2. CASE s # t
      <4>1. op'[s] = op[s] /\ CallOK(op[s])
        BY <3>2, <2>1 DEF CallsOK
      <4> QED
        BY <4>1, <2>2 DEF CallOK
    <3> QED
      BY <3>1, <3>2
  <2>8. CallsOK'
    BY <2>1, <2>5, <2>7 DEF CallsOK
  <2> QED
    BY <2>1, <2>2, <2>3, <2>4, <2>8 DEF RowsOK
<1>2. ASSUME NEW t \in Threads, NEW k \in Keys, GetLoad(t, k)
      PROVE  Sources'
  <2> DEFINE o == IF Ready(row[k]) /\ ~Expired(row[k])
                  THEN [NoOp EXCEPT !.pc = "get_hot", !.key = k, !.entry = row[k]]
                  ELSE NoOp
  <2>1. UNCHANGED <<row, clock, files, hot, written>> /\ op' = [op EXCEPT ![t] = o]
    BY <1>2 DEF GetLoad
  <2>2. CallOK(o)
    BY NoOpOK DEF NoOp, CallOK, Ops, RowsOK, Ready
  <2> QED
    BY <2>1, <2>2, CallStep, FilesSame, HotSame DEF files, RowsOK, WrittenOK
<1>3. ASSUME NEW t \in Threads, Abort(t) PROVE Sources'
  <2>1. UNCHANGED <<row, clock, files, hot, written>> /\ Return(t)
    BY <1>3 DEF Abort
  <2> QED
    BY <2>1, CallReturn, FilesSame, HotSame DEF files, RowsOK, WrittenOK
<1>4. ASSUME NEW p \in Procs, Crash(p) PROVE Sources'
  <2> DEFINE dead == {t \in Threads : ProcOf[t] = p}
             closed(f) == IF f = None THEN None ELSE [f EXCEPT !.open = @ \ dead]
  <2>1. /\ UNCHANGED <<row, clock, written>>
        /\ op' = [t \in Threads |-> IF t \in dead THEN NoOp ELSE op[t]]
        /\ hot' = [hot EXCEPT ![p] = EmptyTier]
        /\ payload' = [k \in Keys |-> closed(payload[k])]
        /\ temp' = [k \in Keys |-> [w \in Tokens |-> closed(temp[k][w])]]
    BY <1>4 DEF Crash
  <2>2. CallsOK'
    BY <2>1, CallsKilled
  <2>3. HotOK'
    BY <2>1 DEF HotOK, EmptyTier
  <2>4. ASSUME NEW f, NEW k, FileFor(f, k) PROVE FileFor(closed(f), k)
    BY <2>4, NoneAssumption DEF FileFor, File
  <2>5. FilesOK'
    <3> HIDE DEF closed
    <3>1. ASSUME NEW k \in Keys PROVE FileFor(closed(payload[k]), k)
      BY <2>4 DEF FilesOK
    <3>2. ASSUME NEW k \in Keys, NEW w \in Tokens PROVE FileFor(closed(temp[k][w]), k)
      BY <2>4 DEF FilesOK
    <3> QED
      BY <3>1, <3>2, <2>1 DEF FilesOK, FileFor, BytesFor
  <2> QED
    BY <2>1, <2>2, <2>3, <2>5 DEF RowsOK, WrittenOK
<1>5. CASE Tick
  <2>1. UNCHANGED <<row, files, hot, op, written>> /\ clock' = clock + 1
    BY <1>5 DEF Tick
  <2>2. RowsOK'
    BY <2>1 DEF RowsOK
  <2> QED
    BY <2>1, <2>2, FilesSame, HotSame DEF files, WrittenOK, CallsOK, CallOK
<1>6. CASE (\E m \in Modes : GcStart(m)) \/ GcExhaust \/ GcCrash \/ UNCHANGED vars
  <2>1. UNCHANGED <<row, clock, files, hot, op, written>>
    BY <1>6 DEF GcStart, GcExhaust, GcCrash, vars
  <2> QED
    BY <2>1, FilesSame, HotSame DEF files, RowsOK, WrittenOK, CallsOK, CallOK
<1> QED
  BY <1>1, <1>2, <1>3, <1>4, <1>5, <1>6, PutStepSources, GetStepSources,
     GcStepSources DEF Next

THEOREM SourcesInvariant == Spec => []Sources
  BY SourcesInit, SourcesStep, PTL DEF Spec

(* The variables Sources leaves out. *)
Counters == dbLock \in BOOLEAN /\ clock \in 0..MaxClock /\ faults \in 0..MaxFaults

LEMMA CountersStep == Counters /\ [Next]_vars => Counters'
<1> SUFFICES ASSUME Counters, [Next]_vars PROVE Counters'
  OBVIOUS
<1> USE CacheAssumption DEF Counters
<1>1. CASE Tick
  BY <1>1 DEF Tick
<1>2. CASE GcExhaust \/ GcCrash \/ \E p \in Procs : Crash(p)
  <2>1. clock' = clock /\ dbLock' \in {dbLock, FALSE}
    BY <1>2 DEF GcExhaust, GcCrash, Crash
  <2>2. faults < MaxFaults /\ faults' = faults + 1
    BY <1>2 DEF GcExhaust, GcCrash, Crash
  <2>3. faults' \in 0..MaxFaults
    BY <2>2
  <2> QED
    BY <2>1, <2>3
<1>3. CASE GcBegin \/ GcCommit
  BY <1>3 DEF GcBegin, GcCommit
<1>4. ASSUME UNCHANGED <<dbLock, clock, faults>> PROVE Counters'
  BY <1>4
<1>5. CASE GcStep /\ ~GcBegin /\ ~GcCommit
  BY <1>5, <1>4 DEF GcStep, GcTemp, GcExpire, GcUnlink, GcTempsDone, GcLoad, GcScan,
       GcReported, GcRefs, GcList, GcUnlinkDone, GcPrune
<1>6. CASE \E t \in Threads : PutStep(t) \/ GetStep(t) \/ Abort(t)
  BY <1>6, <1>4 DEF PutStep, PutKeep, PutBegin, PutOpen, PutWrite, PutReplace,
       PutCommit, PutFill, GetStep, GetHot, GetTouch, GetStat, GetRead, GetOrphan,
       GetRefresh, GetFill, Abort
<1>7. CASE \E t \in Threads, k \in Keys :
              GetLoad(t, k) \/ \E c \in Contents, ttl \in Ttls : PutLoad(t, k, c, ttl)
  BY <1>7, <1>4 DEF GetLoad, PutLoad
<1>8. CASE (\E m \in Modes : GcStart(m)) \/ UNCHANGED vars
  BY <1>8, <1>4 DEF GcStart, vars
<1> QED
  BY <1>1, <1>2, <1>3, <1>5, <1>6, <1>7, <1>8 DEF Next

(* Type correctness, for every value of the constants.                     *)
THEOREM TypeCorrect == Spec => []TypeOK
<1>1. Init => Counters
  <2>1. Init => dbLock \in BOOLEAN
    BY DEF Init
  <2>2. Init => clock \in 0..MaxClock /\ faults \in 0..MaxFaults
    BY CacheAssumption DEF Init
  <2> QED
    BY <2>1, <2>2 DEF Counters
<1>2. Sources /\ Counters => TypeOK
  BY DEF Sources, Counters, TypeOK, WrittenOK, RowsOK, FilesOK, HotOK, CallsOK
<1> QED
  BY <1>1, <1>2, CountersStep, SourcesInvariant, PTL DEF Spec

(* A hit is one whole payload that was put under the key asked for, for    *)
(* any number of writers of a temp path, any collector and any kills.      *)
THEOREM HitsAreWhole == Spec => []HitsWhole
<1>1. Sources => HitsWhole
  BY DEF Sources, CallsOK, CallOK, HitsWhole
<1> QED
  BY <1>1, SourcesInvariant, PTL

------------------------------------------------------------------------------
(* The lossy store.  A step of the cache is a Store when a put begins, an  *)
(* Answer when a lookup has found a payload, a Forget when calls return or *)
(* die, and invisible otherwise.                                           *)

Answers == [t \in Threads |->
              IF op[t].seen = None THEN None
              ELSE [key |-> op[t].key, content |-> op[t].seen]]

(* Calls that end give their answers back. *)
LEMMA ForgetStep ==
    ASSUME CallsOK, NEW S \in SUBSET Threads, written' = written,
           op' = [t \in Threads |-> IF t \in S THEN NoOp ELSE op[t]]
    PROVE  Lossy!Forget(S)
<1>1. Answers' = [t \in Threads |-> IF t \in S THEN None ELSE Answers[t]]
  BY DEF Answers, NoOp, CallsOK
<1> QED
  BY <1>1 DEF Lossy!Forget, Answers

LEMMA ReturnForgets ==
    ASSUME CallsOK, NEW t \in Threads, written' = written, Return(t)
    PROVE  Lossy!Forget({t})
<1>1. op' = [s \in Threads |-> IF s \in {t} THEN NoOp ELSE op[s]]
  BY DEF Return, CallsOK
<1> QED
  BY <1>1, ForgetStep

(* A step of one call that neither finds nor gives back is invisible. *)
LEMMA QuietStep ==
    ASSUME CallsOK, NEW t \in Threads, NEW o, written' = written,
           op' = [op EXCEPT ![t] = o], o.seen = op[t].seen, o.key = op[t].key
    PROVE  UNCHANGED Lossy!vars
<1>1. Answers' = Answers
  BY DEF Answers, CallsOK
<1> QED
  BY <1>1 DEF Lossy!vars, Answers

LEMMA QuietGoto ==
    ASSUME CallsOK, NEW t \in Threads, NEW where, written' = written,
           Goto(t, where)
    PROVE  UNCHANGED Lossy!vars
<1>1. op' = [op EXCEPT ![t] = [op[t] EXCEPT !.pc = where]]
  BY DEF Goto, CallsOK
<1>2. [op[t] EXCEPT !.pc = where].seen = op[t].seen
      /\ [op[t] EXCEPT !.pc = where].key = op[t].key
  BY DEF CallsOK, Ops
<1> QED
  BY <1>1, <1>2, QuietStep

(* A lookup that has found a payload put for its key answers. *)
LEMMA AnswerStep ==
    ASSUME CallsOK, NEW t \in Threads, NEW o, written' = written,
           op' = [op EXCEPT ![t] = o], op[t].seen = None, op[t].key \in Keys,
           o.key = op[t].key, o.seen \in written[op[t].key], o.seen # None
    PROVE  Lossy!Next
<1>1. PICK k \in Keys : k = op[t].key
  OBVIOUS
<1>2. Answers[t] = None
  BY DEF Answers
<1>3. Answers' = [Answers EXCEPT ![t] = [key |-> k, content |-> o.seen]]
  BY <1>1 DEF Answers, CallsOK
<1>4. Lossy!Answer(t, k)
  BY <1>1, <1>2, <1>3 DEF Lossy!Answer, Answers
<1> QED
  BY <1>4 DEF Lossy!Next

LEMMA LossyCalls ==
    ASSUME Sources, NEW t \in Threads, PutStep(t) \/ GetStep(t) \/ Abort(t)
    PROVE  [Lossy!Next]_Lossy!vars
<1> USE DEF Sources
<1>o. op[t] \in Ops /\ CallOK(op[t])
  BY DEF CallsOK
<1>f. ASSUME Lossy!Forget({t}) PROVE [Lossy!Next]_Lossy!vars
  BY <1>f DEF Lossy!Next
<1>1. CASE PutKeep(t) \/ PutFill(t) \/ GetTouch(t) \/ GetOrphan(t) \/ GetFill(t)
           \/ Abort(t)
  <2>1. Return(t) /\ written' = written
    BY <1>1 DEF PutKeep, PutFill, GetTouch, GetOrphan, GetFill, Abort
  <2> QED
    BY <2>1, <1>f, ReturnForgets
<1>2. CASE PutBegin(t)
  <2> DEFINE o == [op[t] EXCEPT !.pc = "put_open", !.entry = None,
                      !.exp = IF op[t].exp = 0 THEN 0 ELSE clock + op[t].exp]
  <2>1. op' = [op EXCEPT ![t] = o] /\ written' = written
    BY <1>2, <1>o DEF PutBegin, Ops, CallsOK
  <2>2. o.seen = op[t].seen /\ o.key = op[t].key
    BY <1>o DEF Ops
  <2> QED
    BY <2>1, <2>2, QuietStep
<1>3. CASE PutOpen(t) \/ PutWrite(t) \/ PutReplace(t) \/ GetStat(t) \/ GetRefresh(t)
  <2>1. written' = written /\ \E where : Goto(t, where)
    BY <1>3 DEF PutOpen, PutWrite, PutReplace, GetStat, GetRefresh
  <2> QED
    BY <2>1, QuietGoto
<1>4. CASE PutCommit(t)
  <2> DEFINE o == [op[t] EXCEPT !.pc = "put_fill", !.exp = 0]
  <2>1. op' = [op EXCEPT ![t] = o] /\ written' = written
    BY <1>4 DEF PutCommit, CallsOK, Ops
  <2>2. o.seen = op[t].seen /\ o.key = op[t].key
    BY <1>o DEF Ops
  <2> QED
    BY <2>1, <2>2, QuietStep
<1>5. CASE GetHot(t)
  <2> DEFINE found == HotLookup(hot[ProcOf[t]], op[t].key)
             o1 == [op[t] EXCEPT !.pc = "get_stat"]
             o2 == [op[t] EXCEPT !.pc = "get_touch", !.seen = found.content]
  <2>1. written' = written /\ op[t].pc = "get_hot"
        /\ op' = [op EXCEPT ![t] = IF found = None THEN o1 ELSE o2]
    BY <1>5 DEF GetHot, At, CallsOK
  <2>2. op[t].key \in Keys /\ op[t].seen = None /\ ProcOf[t] \in Procs
    BY <2>1, <1>o, CacheAssumption DEF CallOK
  <2>3. CASE found = None
    <3>1. o1.seen = op[t].seen /\ o1.key = op[t].key
      BY <1>o DEF Ops
    <3> QED
      BY <2>1, <2>3, <3>1, QuietStep
  <2>4. CASE found # None
    <3>1. found.content \in written[op[t].key] /\ found.content # None
      BY <2>2, <2>4, NoneAssumption DEF HotOK, HotLookup, Held
    <3>2. o2.key = op[t].key /\ o2.seen = found.content
      BY <1>o DEF Ops
    <3> QED
      BY <2>1, <2>2, <2>4, <3>1, <3>2, AnswerStep
  <2> QED
    BY <2>3, <2>4
<1>6. CASE GetRead(t)
  <2> DEFINE b == IF payload[op[t].key] = None THEN Empty ELSE payload[op[t].key].bytes
             o1 == [op[t] EXCEPT !.pc = "get_orphan"]
             o2 == [op[t] EXCEPT !.pc = "get_refresh", !.seen = b]
  <2>1. written' = written /\ op[t].pc = "get_read"
        /\ op' = [op EXCEPT ![t] = IF b \in {Empty, Torn} THEN o1 ELSE o2]
    BY <1>6 DEF GetRead, At, CallsOK
  <2>2. op[t].key \in Keys /\ op[t].seen = None
    BY <2>1, <1>o DEF CallOK
  <2>3. CASE b \in {Empty, Torn}
    <3>1. o1.seen = op[t].seen /\ o1.key = op[t].key
      BY <1>o DEF Ops
    <3> QED
      BY <2>1, <2>3, <3>1, QuietStep
  <2>4. CASE b \notin {Empty, Torn}
    <3>1. b \in written[op[t].key] /\ b # None
      BY <2>2, <2>4, NoneAssumption DEF FilesOK, FileFor, File, BytesFor
    <3>2. o2.key = op[t].key /\ o2.seen = b
      BY <1>o DEF Ops
    <3> QED
      BY <2>1, <2>2, <2>4, <3>1, <3>2, AnswerStep
  <2> QED
    BY <2>3, <2>4
<1> QED
  BY <1>1, <1>2, <1>3, <1>4, <1>5, <1>6 DEF PutStep, GetStep

LEMMA LossyInit == Init => Lossy!Init
  BY DEF Init, Lossy!Init, NoOp

LEMMA LossyStep == Sources /\ [Next]_vars => [Lossy!Next]_Lossy!vars
<1> SUFFICES ASSUME Sources, [Next]_vars PROVE [Lossy!Next]_Lossy!vars
  OBVIOUS
<1> USE DEF Sources
<1>1. ASSUME NEW t \in Threads, NEW k \in Keys, NEW c \in Contents, NEW ttl \in Ttls,
             PutLoad(t, k, c, ttl)
      PROVE  [Lossy!Next]_Lossy!vars
  <2> DEFINE o == [NoOp EXCEPT !.pc = "put_check", !.key = k, !.content = c,
                               !.exp = ttl, !.entry = row[k]]
  <2>1. /\ op' = [op EXCEPT ![t] = o]
        /\ written' = [written EXCEPT ![k] = @ \cup {c}]
        /\ op[t].pc = "idle"
    BY <1>1 DEF PutLoad, At
  <2>2. o.seen = None /\ op[t].seen = None
    BY <2>1 DEF NoOp, CallsOK, CallOK
  <2>3. Answers' = Answers
    BY <2>1, <2>2 DEF Answers, CallsOK
  <2>4. Lossy!Store(k, c)
    BY <2>1, <2>3 DEF Lossy!Store, Answers
  <2> QED
    BY <2>4 DEF Lossy!Next
<1>2. ASSUME NEW t \in Threads, NEW k \in Keys, GetLoad(t, k)
      PROVE  [Lossy!Next]_Lossy!vars
  <2> DEFINE o == IF Ready(row[k]) /\ ~Expired(row[k])
                  THEN [NoOp EXCEPT !.pc = "get_hot", !.key = k, !.entry = row[k]]
                  ELSE NoOp
  <2>1. written' = written /\ op' = [op EXCEPT ![t] = o] /\ op[t].pc = "idle"
    BY <1>2 DEF GetLoad, At
  <2>2. o.seen = None /\ op[t].seen = None
    BY <2>1 DEF NoOp, CallsOK, CallOK
  <2>3. Answers' = Answers
    BY <2>1, <2>2 DEF Answers, CallsOK
  <2> QED
    BY <2>1, <2>3 DEF Lossy!vars, Answers
<1>3. ASSUME NEW p \in Procs, Crash(p)
      PROVE  [Lossy!Next]_Lossy!vars
  <2> DEFINE dead == {t \in Threads : ProcOf[t] = p}
  <2>1. written' = written
        /\ op' = [t \in Threads |-> IF t \in dead THEN NoOp ELSE op[t]]
    BY <1>3 DEF Crash
  <2>2. Lossy!Forget(dead)
    BY <2>1, ForgetStep
  <2> QED
    BY <2>2 DEF Lossy!Next
<1>4. CASE GcPrune
  <2>1. PICK raised \in SUBSET Threads :
          op' = [t \in Threads |-> IF t \in raised THEN NoOp ELSE op[t]]
    BY <1>4 DEF GcPrune
  <2>2. written' = written
    BY <1>4 DEF GcPrune
  <2>3. Lossy!Forget(raised)
    BY <2>1, <2>2, ForgetStep
  <2> QED
    BY <2>3 DEF Lossy!Next
<1>5. ASSUME UNCHANGED <<op, written>> PROVE [Lossy!Next]_Lossy!vars
  BY <1>5 DEF Lossy!vars
<1>6. CASE GcStep /\ ~GcPrune
  <2>1. UNCHANGED <<op, written>>
    BY <1>6 DEF GcStep, GcTemp, GcExpire, GcUnlink, GcTempsDone, GcLoad, GcScan,
                GcReported, GcBegin, GcCommit, GcRefs, GcList, GcUnlinkDone
  <2> QED
    BY <2>1, <1>5
<1>7. CASE (\E m \in Modes : GcStart(m)) \/ GcExhaust \/ GcCrash \/ Tick
           \/ UNCHANGED vars
  <2>1. UNCHANGED <<op, written>>
    BY <1>7 DEF GcStart, GcExhaust, GcCrash, Tick, vars
  <2> QED
    BY <2>1, <1>5
<1> QED
  BY <1>1, <1>2, <1>3, <1>4, <1>6, <1>7, LossyCalls DEF Next

(* The cache implements the lossy store.                                   *)
THEOREM ImplementsLossyCache == Spec => LossySpec
  BY SourcesInvariant, LossyInit, LossyStep, PTL DEF Spec, LossySpec, Lossy!Spec

------------------------------------------------------------------------------
(* Atomic publication: when no two threads share a write_token, the file   *)
(* at a payload path is always one whole payload.                          *)

(* put_artifact leaves the choice of a token to its caller.                *)
DistinctTokens == \A s, t \in Threads : TokenOf[s] = TokenOf[t] => s = t

TempOf(t) == temp[op[t].key][TokenOf[t]]

(* A published file is whole, and nobody can still write to it. *)
Published ==
    \A k \in Keys : payload[k] # None =>
        payload[k].open = {} /\ payload[k].bytes \in written[k]

(* A temp file that is open is open in its own writer only, and still      *)
(* empty.                                                                  *)
OpenTemps ==
    \A k \in Keys, w \in Tokens : temp[k][w] # None =>
        \A t \in temp[k][w].open :
            /\ TokenOf[t] = w /\ op[t].pc = "put_write" /\ op[t].key = k
            /\ temp[k][w].bytes = Empty

(* A writer between open and close has its temp file open, unless a        *)
(* collector unlinked it; a writer about to rename finds it closed and     *)
(* whole, or gone.                                                         *)
Writers ==
    \A t \in Threads : op[t].key \in Keys /\ TempOf(t) # None =>
        /\ op[t].pc = "put_write" => t \in TempOf(t).open
        /\ op[t].pc = "put_replace" =>
              TempOf(t).open = {} /\ TempOf(t).bytes \in written[op[t].key]

Publish == Published /\ OpenTemps /\ Writers

(* A step that leaves the files alone and in which no writer enters or     *)
(* leaves its open file.                                                   *)
LEMMA PublishFrame ==
    ASSUME Publish, Sources, UNCHANGED files,
           \A k \in Keys : written[k] \subseteq written'[k],
           \A t \in Threads :
              \/ op'[t] = op[t]
              \/ op[t].pc # "put_write" /\ op'[t].pc \notin {"put_write", "put_replace"}
    PROVE  Publish'
<1>1. Published'
  BY DEF Publish, Published, files
<1>2. OpenTemps'
  BY DEF Publish, OpenTemps, files, Sources, FilesOK, File
<1>3. Writers'
  BY DEF Publish, Writers, TempOf, files
<1> QED
  BY <1>1, <1>2, <1>3 DEF Publish

LEMMA PublishOpen ==
    ASSUME DistinctTokens, Publish, Sources, NEW t \in Threads, PutOpen(t)
    PROVE  Publish'
<1> DEFINE k == op[t].key
           w == TokenOf[t]
           others == IF temp[k][w] = None THEN {} ELSE temp[k][w].open
           f == [bytes |-> Empty, open |-> others \cup {t}]
<1>1. /\ UNCHANGED <<payload, written>> /\ op[t].pc = "put_open"
      /\ temp' = [temp EXCEPT ![k][w] = f]
      /\ Goto(t, "put_write")
  BY DEF PutOpen, At
<1>2. k \in Keys /\ w \in Tokens
  BY <1>1, CacheAssumption DEF Sources, CallsOK, CallOK
<1>3. others = {}
  BY <1>1, <1>2 DEF Publish, OpenTemps, DistinctTokens, Sources, FilesOK, File
<1>4. /\ temp'[k][w] = [bytes |-> Empty, open |-> {t}]
      /\ \A j \in Keys, v \in Tokens : <<j, v>> # <<k, w>> => temp'[j][v] = temp[j][v]
  BY <1>1, <1>2, <1>3 DEF Sources, FilesOK
<1>5. /\ op'[t].pc = "put_write" /\ op'[t].key = k
      /\ \A s \in Threads \ {t} : op'[s] = op[s]
  BY <1>1 DEF Goto, Sources, CallsOK, Ops
<1> HIDE DEF k, w, others, f
<1>6. Published'
  BY <1>1 DEF Publish, Published
<1>7. OpenTemps'
  <2>1. ASSUME NEW j \in Keys, NEW v \in Tokens, temp'[j][v] # None,
               NEW s \in temp'[j][v].open
        PROVE  /\ TokenOf[s] = v /\ op'[s].pc = "put_write" /\ op'[s].key = j
               /\ temp'[j][v].bytes = Empty
    <3>1. CASE <<j, v>> = <<k, w>>
      BY <2>1, <3>1, <1>4, <1>5 DEF w
    <3>2. CASE <<j, v>> # <<k, w>>
      <4>1. temp[j][v] # None /\ s \in temp[j][v].open /\ s \in Threads
        BY <2>1, <3>2, <1>4 DEF Sources, FilesOK, File
      <4>2. op[s].pc = "put_write"
        BY <4>1 DEF Publish, OpenTemps
      <4> QED
        BY <4>1, <4>2, <3>2, <1>1, <1>4, <1>5 DEF Publish, OpenTemps
    <3> QED
      BY <3>1, <3>2
  <2> QED
    BY <2>1 DEF OpenTemps
<1>8. Writers'
  <2>1. ASSUME NEW s \in Threads, op'[s].key \in Keys, TempOf(s)' # None
        PROVE  /\ op'[s].pc = "put_write" => s \in TempOf(s)'.open
               /\ op'[s].pc = "put_replace" =>
                     TempOf(s)'.open = {} /\ TempOf(s)'.bytes \in written'[op'[s].key]
    <3>1. CASE s = t
      BY <3>1, <1>4, <1>5 DEF TempOf, k, w
    <3>2. CASE s # t
      <4>1. op'[s] = op[s] /\ TokenOf[s] # w /\ TokenOf[s] \in Tokens
        BY <3>2, <1>5, CacheAssumption DEF DistinctTokens, w
      <4>2. TempOf(s)' = TempOf(s)
        BY <2>1, <4>1, <1>4 DEF TempOf
      <4> QED
        BY <2>1, <4>1, <4>2, <1>1 DEF Publish, Writers
    <3> QED
      BY <3>1, <3>2
  <2> QED
    BY <2>1 DEF Writers
<1> QED
  BY <1>6, <1>7, <1>8 DEF Publish

LEMMA PublishWrite ==
    ASSUME DistinctTokens, Publish, Sources, NEW t \in Threads, PutWrite(t)
    PROVE  Publish'
<1> DEFINE k == op[t].key
           w == TokenOf[t]
           c == op[t].content
<1>1. /\ written' = written /\ op[t].pc = "put_write" /\ Goto(t, "put_replace")
  BY DEF PutWrite, At
<1>2. k \in Keys /\ w \in Tokens /\ c \in written[k]
  BY <1>1, CacheAssumption DEF Sources, CallsOK, CallOK
<1>3. temp[k][w] # None =>
        temp[k][w] \in File /\ temp[k][w].open = {t} /\ temp[k][w].bytes = Empty
  <2>1. temp[k][w] # None => t \in temp[k][w].open
    BY <1>1, <1>2 DEF Publish, Writers, TempOf
  <2>2. temp[k][w] # None => \A s \in temp[k][w].open : s \in Threads /\ TokenOf[s] = w
    BY <1>2 DEF Publish, OpenTemps, Sources, FilesOK, File
  <2>3. temp[k][w] # None => temp[k][w].bytes = Empty /\ temp[k][w] \in File
    BY <2>1, <1>2 DEF Publish, OpenTemps, Sources, FilesOK
  <2> QED
    BY <2>1, <2>2, <2>3 DEF DistinctTokens
<1>4. payload[k] # None => t \notin payload[k].open
  BY <1>2 DEF Publish, Published
<1>5. /\ temp' = [temp EXCEPT ![k][w] = Written(temp[k][w], t, c)]
      /\ payload' = [payload EXCEPT ![k] = Written(payload[k], t, c)]
  <2>1. PICK b \in {c, Torn} :
          /\ b = Torn =>
                LET held == IF temp[k][w] # None /\ t \in temp[k][w].open
                            THEN temp[k][w] ELSE payload[k]
                IN  b = c \/ (held # None /\ t \in held.open /\ held.bytes \notin {Empty, c})
          /\ temp' = [temp EXCEPT ![k][w] = Written(temp[k][w], t, b)]
          /\ payload' = [payload EXCEPT ![k] = Written(payload[k], t, b)]
    BY <1>2 DEF PutWrite, Sources, FilesOK
  <2>2. b = c
    BY <2>1, <1>3, <1>4
  <2> QED
    BY <2>1, <2>2
<1>6. payload' = payload
  BY <1>4, <1>5, <1>2 DEF Written, Sources, FilesOK
<1>7. /\ temp'[k][w] = IF temp[k][w] = None THEN None ELSE [bytes |-> c, open |-> {}]
      /\ \A j \in Keys, v \in Tokens : <<j, v>> # <<k, w>> => temp'[j][v] = temp[j][v]
  <2>1. Written(temp[k][w], t, c) =
          IF temp[k][w] = None THEN None ELSE [bytes |-> c, open |-> {}]
    BY <1>3 DEF Written
  <2> QED
    BY <2>1, <1>2, <1>5 DEF Sources, FilesOK
<1>8. /\ op'[t].pc = "put_replace" /\ op'[t].key = k
      /\ \A s \in Threads \ {t} : op'[s] = op[s]
  BY <1>1 DEF Goto, Sources, CallsOK, Ops
<1> HIDE DEF k, w, c
<1>9. Published'
  BY <1>1, <1>6 DEF Publish, Published
<1>10. OpenTemps'
  <2>1. ASSUME NEW j \in Keys, NEW v \in Tokens, temp'[j][v] # None,
               NEW s \in temp'[j][v].open
        PROVE  /\ TokenOf[s] = v /\ op'[s].pc = "put_write" /\ op'[s].key = j
               /\ temp'[j][v].bytes = Empty
    <3>1. <<j, v>> # <<k, w>>
      BY <2>1, <1>7
    <3>2. temp[j][v] # None /\ s \in temp[j][v].open /\ s \in Threads
      BY <2>1, <3>1, <1>7 DEF Sources, FilesOK, File
    <3>3. /\ TokenOf[s] = v /\ op[s].pc = "put_write" /\ op[s].key = j
          /\ temp[j][v].bytes = Empty
      BY <3>2 DEF Publish, OpenTemps
    <3>4. s # t
      BY <3>1, <3>3 DEF k, w
    <3> QED
      BY <3>1, <3>2, <3>3, <3>4, <1>7, <1>8
  <2> QED
    BY <2>1 DEF OpenTemps
<1>11. Writers'
  <2>1. ASSUME NEW s \in Threads, op'[s].key \in Keys, TempOf(s)' # None
        PROVE  /\ op'[s].pc = "put_write" => s \in TempOf(s)'.open
               /\ op'[s].pc = "put_replace" =>
                     TempOf(s)'.open = {} /\ TempOf(s)'.bytes \in written'[op'[s].key]
    <3>1. CASE s = t
      BY <2>1, <3>1, <1>1, <1>2, <1>7, <1>8 DEF TempOf, w
    <3>2. CASE s # t
      <4>1. op'[s] = op[s] /\ TokenOf[s] # w /\ TokenOf[s] \in Tokens
        BY <3>2, <1>8, CacheAssumption DEF DistinctTokens, w
      <4>2. TempOf(s)' = TempOf(s)
        BY <2>1, <4>1, <1>7 DEF TempOf
      <4> QED
        BY <2>1, <4>1, <4>2, <1>1 DEF Publish, Writers
    <3> QED
      BY <3>1, <3>2
  <2> QED
    BY <2>1 DEF Writers
<1> QED
  BY <1>9, <1>10, <1>11 DEF Publish

(* Files that only disappear, or are renamed by their writer. *)
LEMMA PublishUnlink ==
    ASSUME Publish, Sources, UNCHANGED <<op, written>>,
           \A k \in Keys : payload'[k] \in {None, payload[k]},
           \A k \in Keys, w \in Tokens : temp'[k][w] \in {None, temp[k][w]}
    PROVE  Publish'
<1>1. Published'
  BY DEF Publish, Published
<1>2. OpenTemps'
  BY DEF Publish, OpenTemps
<1>3. Writers'
  <2>1. \A t \in Threads : op[t].key \in Keys => TempOf(t)' \in {None, TempOf(t)}
    BY CacheAssumption DEF TempOf
  <2> QED
    BY <2>1 DEF Publish, Writers
<1> QED
  BY <1>1, <1>2, <1>3 DEF Publish

LEMMA PublishReplace ==
    ASSUME DistinctTokens, Publish, Sources, NEW t \in Threads, PutReplace(t)
    PROVE  Publish'
<1> DEFINE k == op[t].key
           w == TokenOf[t]
<1>1. /\ written' = written /\ op[t].pc = "put_replace" /\ Goto(t, "put_commit")
      /\ temp[k][w] # None
      /\ payload' = [payload EXCEPT ![k] = temp[k][w]]
      /\ temp' = [temp EXCEPT ![k][w] = None]
  BY DEF PutReplace, At
<1>2. k \in Keys /\ w \in Tokens
  BY <1>1, CacheAssumption DEF Sources, CallsOK, CallOK
<1>3. temp[k][w].open = {} /\ temp[k][w].bytes \in written[k]
  BY <1>1, <1>2 DEF Publish, Writers, TempOf
<1>4. /\ temp'[k][w] = None /\ payload'[k] = temp[k][w]
      /\ \A j \in Keys, v \in Tokens : <<j, v>> # <<k, w>> => temp'[j][v] = temp[j][v]
      /\ \A j \in Keys \ {k} : payload'[j] = payload[j]
  BY <1>1, <1>2 DEF Sources, FilesOK
<1>5. /\ op'[t].pc = "put_commit" /\ op'[t].key = k
      /\ \A s \in Threads \ {t} : op'[s] = op[s]
  BY <1>1 DEF Goto, Sources, CallsOK, Ops
<1> HIDE DEF k, w
<1>6. Published'
  BY <1>1, <1>3, <1>4 DEF Publish, Published
<1>7. OpenTemps'
  <2>1. ASSUME NEW j \in Keys, NEW v \in Tokens, temp'[j][v] # None,
               NEW s \in temp'[j][v].open
        PROVE  /\ TokenOf[s] = v /\ op'[s].pc = "put_write" /\ op'[s].key = j
               /\ temp'[j][v].bytes = Empty
    <3>1. temp'[j][v] = temp[j][v] /\ s \in Threads
      BY <2>1, <1>4 DEF Sources, FilesOK, File
    <3>2. op[s].pc = "put_write"
      BY <2>1, <3>1 DEF Publish, OpenTemps
    <3> QED
      BY <2>1, <3>1, <3>2, <1>1, <1>5 DEF Publish, OpenTemps
  <2> QED
    BY <2>1 DEF OpenTemps
<1>8. Writers'
  <2>1. ASSUME NEW s \in Threads \ {t}, op'[s].key \in Keys, TempOf(s)' # None
        PROVE  TempOf(s)' = TempOf(s) /\ op'[s] = op[s]
    BY <2>1, <1>4, <1>5, CacheAssumption DEF TempOf
  <2> QED
    BY <2>1, <1>1, <1>5 DEF Publish, Writers
<1> QED
  BY <1>6, <1>7, <1>8 DEF Publish

LEMMA PublishCrash ==
    ASSUME Publish, Sources, NEW p \in Procs, Crash(p)
    PROVE  Publish'
<1> DEFINE dead == {t \in Threads : ProcOf[t] = p}
           closed(f) == IF f = None THEN None ELSE [f EXCEPT !.open = @ \ dead]
<1>1. /\ written' = written
      /\ op' = [t \in Threads |-> IF t \in dead THEN NoOp ELSE op[t]]
      /\ payload' = [k \in Keys |-> closed(payload[k])]
      /\ temp' = [k \in Keys |-> [w \in Tokens |-> closed(temp[k][w])]]
  BY DEF Crash
<1>2. ASSUME NEW f \in File
      PROVE  /\ closed(f) # None => closed(f).open = f.open \ dead
             /\ closed(f) # None => closed(f).bytes = f.bytes
  BY NoneAssumption DEF File
<1>3. closed(None) = None
  OBVIOUS
<1> HIDE DEF closed
<1>4. Published'
  BY <1>1, <1>2, <1>3 DEF Publish, Published, Sources, FilesOK
<1>5. OpenTemps'
  <2>1. ASSUME NEW j \in Keys, NEW v \in Tokens, temp'[j][v] # None,
               NEW s \in temp'[j][v].open
        PROVE  /\ TokenOf[s] = v /\ op'[s].pc = "put_write" /\ op'[s].key = j
               /\ temp'[j][v].bytes = Empty
    <3>1. temp'[j][v] = closed(temp[j][v]) /\ temp[j][v] \in File
      BY <2>1, <1>1, <1>3 DEF Sources, FilesOK
    <3>2. s \in temp[j][v].open \ dead /\ temp'[j][v].bytes = temp[j][v].bytes
      BY <2>1, <3>1, <1>2
    <3>3. op'[s] = op[s]
      BY <3>1, <3>2, <1>1 DEF Sources, CallsOK, File
    <3> QED
      BY <3>1, <3>2, <3>3, NoneAssumption DEF Publish, OpenTemps
  <2> QED
    BY <2>1 DEF OpenTemps
<1>6. Writers'
  <2>1. ASSUME NEW s \in Threads, op'[s].key \in Keys, TempOf(s)' # None
        PROVE  /\ op'[s].pc = "put_write" => s \in TempOf(s)'.open
               /\ op'[s].pc = "put_replace" =>
                     TempOf(s)'.open = {} /\ TempOf(s)'.bytes \in written'[op'[s].key]
    <3>1. CASE s \in dead
      BY <3>1, <1>1 DEF NoOp
    <3>2. CASE s \notin dead
      <4>1. op'[s] = op[s]
        BY <3>2, <1>1
      <4>2. TempOf(s)' = closed(TempOf(s)) /\ TempOf(s) \in File
        BY <2>1, <4>1, <1>1, <1>3, CacheAssumption DEF TempOf, Sources, FilesOK
      <4> QED
        BY <2>1, <4>1, <4>2, <3>2, <1>1, <1>2, NoneAssumption DEF Publish, Writers
    <3> QED
      BY <3>1, <3>2
  <2> QED
    BY <2>1 DEF Writers
<1> QED
  BY <1>4, <1>5, <1>6 DEF Publish

LEMMA PublishInit == Init => Publish
  BY CacheAssumption DEF Init, Publish, Published, OpenTemps, Writers, TempOf, NoOp

LEMMA PublishCalls ==
    ASSUME DistinctTokens, Publish, Sources, NEW t \in Threads,
           PutStep(t) \/ GetStep(t) \/ Abort(t)
    PROVE  Publish'
<1>1. CASE PutOpen(t) \/ PutWrite(t) \/ PutReplace(t)
  BY <1>1, PublishOpen, PublishWrite, PublishReplace
<1>2. CASE PutKeep(t) \/ PutBegin(t) \/ PutCommit(t) \/ PutFill(t)
           \/ GetStep(t) \/ Abort(t)
  <2>1. UNCHANGED <<files, written>> /\ op[t].pc # "put_write"
    BY <1>2 DEF PutKeep, PutBegin, PutCommit, PutFill, GetStep, GetHot, GetTouch,
                GetStat, GetRead, GetOrphan, GetRefresh, GetFill, Abort, Raises, At
  <2>2. \A s \in Threads \ {t} : op'[s] = op[s]
    BY <1>2 DEF PutKeep, PutBegin, PutCommit, PutFill, GetStep, GetHot, GetTouch,
                GetStat, GetRead, GetOrphan, GetRefresh, GetFill, Abort,
                Return, Goto, Sources, CallsOK
  <2>3. op'[t].pc \notin {"put_write", "put_replace"}
    <3>1. CASE PutKeep(t) \/ PutFill(t) \/ GetTouch(t) \/ GetOrphan(t) \/ GetFill(t)
               \/ Abort(t)
      BY <3>1 DEF PutKeep, PutFill, GetTouch, GetOrphan, GetFill, Abort, Return,
                  NoOp, Sources, CallsOK
    <3>2. CASE PutBegin(t) \/ PutCommit(t)
      BY <3>2 DEF PutBegin, PutCommit, Sources, CallsOK, Ops
    <3>3. CASE GetStat(t) \/ GetRefresh(t)
      BY <3>3 DEF GetStat, GetRefresh, Goto, Sources, CallsOK, Ops
    <3>4. CASE GetHot(t)
      BY <3>4 DEF GetHot, Sources, CallsOK, Ops
    <3>5. CASE GetRead(t)
      BY <3>5 DEF GetRead, Sources, CallsOK, Ops
    <3> QED
      BY <1>2, <3>1, <3>2, <3>3, <3>4, <3>5 DEF GetStep
  <2> QED
    BY <2>1, <2>2, <2>3, PublishFrame
<1> QED
  BY <1>1, <1>2 DEF PutStep

LEMMA PublishStep ==
    ASSUME DistinctTokens, Publish, Sources, [Next]_vars
    PROVE  Publish'
<1>1. ASSUME NEW t \in Threads, NEW k \in Keys,
             GetLoad(t, k) \/ \E c \in Contents, ttl \in Ttls : PutLoad(t, k, c, ttl)
      PROVE  Publish'
  <2>1. UNCHANGED files /\ op[t].pc # "put_write"
    BY <1>1 DEF GetLoad, PutLoad, At
  <2>2. \A s \in Threads \ {t} : op'[s] = op[s]
    BY <1>1 DEF GetLoad, PutLoad, Sources, CallsOK
  <2>3. op'[t].pc \notin {"put_write", "put_replace"}
    <3>1. CASE GetLoad(t, k)
      BY <3>1 DEF GetLoad, NoOp, Sources, CallsOK
    <3>2. CASE \E c \in Contents, ttl \in Ttls : PutLoad(t, k, c, ttl)
      <4>1. PICK c \in Contents, ttl \in Ttls : PutLoad(t, k, c, ttl)
        BY <3>2
      <4> QED
        BY <4>1 DEF PutLoad, NoOp, Sources, CallsOK
    <3> QED
      BY <1>1, <3>1, <3>2
  <2>4. \A j \in Keys : written[j] \subseteq written'[j]
    BY <1>1 DEF GetLoad, PutLoad, Sources, WrittenOK
  <2> QED
    BY <2>1, <2>2, <2>3, <2>4, PublishFrame
<1>2. CASE GcPrune
  <2>1. PICK raised \in SUBSET {t \in Threads : op[t].pc \in {"put_open", "put_replace"}} :
          op' = [t \in Threads |-> IF t \in raised THEN NoOp ELSE op[t]]
    BY <1>2 DEF GcPrune, At
  <2>2. UNCHANGED <<files, written>>
    BY <1>2 DEF GcPrune
  <2>3. ASSUME NEW s \in Threads
        PROVE  \/ op'[s] = op[s]
               \/ op[s].pc # "put_write" /\ op'[s].pc \notin {"put_write", "put_replace"}
    BY <2>1 DEF NoOp
  <2> QED
    BY <2>2, <2>3, PublishFrame
<1>3. CASE \E f \in Keys \X Tokens : GcTemp(f)
  <2>1. PICK f \in Keys \X Tokens :
          /\ UNCHANGED <<payload, op, written>>
          /\ temp' = [temp EXCEPT ![f[1]][f[2]] = None]
    BY <1>3 DEF GcTemp
  <2>2. \A k \in Keys, w \in Tokens : temp'[k][w] \in {None, temp[k][w]}
    BY <2>1 DEF Sources, FilesOK
  <2> QED
    BY <2>1, <2>2, PublishUnlink
<1>4. CASE \E k \in Keys : GcExpire(k) \/ GcUnlink(k)
  <2>1. PICK k \in Keys : /\ UNCHANGED <<temp, op, written>>
                          /\ payload' = [payload EXCEPT ![k] = None]
    BY <1>4 DEF GcExpire, GcUnlink
  <2>2. \A j \in Keys : payload'[j] \in {None, payload[j]}
    BY <2>1 DEF Sources, FilesOK
  <2> QED
    BY <2>1, <2>2, PublishUnlink
<1>5. CASE \/ GcTempsDone \/ GcLoad \/ GcScan \/ GcReported \/ GcBegin \/ GcCommit
           \/ GcRefs \/ GcList \/ GcUnlinkDone
           \/ (\E m \in Modes : GcStart(m)) \/ GcExhaust \/ GcCrash \/ Tick
           \/ UNCHANGED vars
  <2>1. UNCHANGED <<files, op, written>>
    BY <1>5 DEF GcTempsDone, GcLoad, GcScan, GcReported, GcBegin, GcCommit, GcRefs,
                GcList, GcUnlinkDone, GcStart, GcExhaust, GcCrash, Tick, vars
  <2> QED
    BY <2>1, PublishFrame
<1>6. ASSUME NEW p \in Procs, Crash(p) PROVE Publish'
  BY <1>6, PublishCrash
<1> QED
  BY <1>1, <1>2, <1>3, <1>4, <1>5, <1>6, PublishCalls DEF Next, GcStep

(* Writers with write_tokens of their own publish atomically: whatever     *)
(* collectors run and wherever processes are killed, the file at a payload *)
(* path is one whole payload put for its key.                              *)
THEOREM AtomicPublication ==
    ASSUME DistinctTokens
    PROVE  Spec => []PayloadWhole
<1>1. Init => Publish
  BY PublishInit
<1>2. Publish /\ Sources /\ [Next]_vars => Publish'
  BY PublishStep
<1>3. Publish => PayloadWhole
  BY DEF Publish, Published, PayloadWhole
<1> QED
  BY <1>1, <1>2, <1>3, SourcesInvariant, PTL DEF Spec
------------------------------------------------------------------------------
(* The write order, while collectors only report and sweep temp files.     *)

NoCollection == Modes \cap {"bounded", "vacuum"} = {}

(* What a verification or a temp sweep may be doing. *)
GcHarmless ==
    /\ gc = [pc |-> gc.pc, mode |-> gc.mode, left |-> gc.left, todo |-> gc.todo,
             expired |-> gc.expired, deleted |-> gc.deleted, refs |-> gc.refs,
             missing |-> gc.missing]
    /\ gc.mode \in {"none", "verify", "cleanup"}
    /\ gc.pc \in {"idle", "temps", "load", "scan", "reported", "prune"}
    /\ gc.pc \in {"load", "scan"} => gc.mode = "verify"

(* A call that may yet write a ready row: the put past its rename, the     *)
(* lookup past the row it loaded.                                          *)
MayWriteReady(o) ==
    o.pc \in {"put_commit", "get_hot", "get_touch", "get_stat", "get_read",
              "get_orphan", "get_refresh"}

CallsHavePayloads ==
    \A t \in Threads : MayWriteReady(op[t]) => payload[op[t].key] # None

Backed == GcHarmless /\ ReadyHasPayload /\ CallsHavePayloads

PayloadsStay == \A k \in Keys : payload[k] # None => payload'[k] # None

(* Steps that write no row and bring no call nearer to writing one. *)
LEMMA BackedFrame ==
    ASSUME Backed, Sources, PayloadsStay, row' = row, GcHarmless',
           \A t \in Threads :
              \/ op'[t] = op[t]
              \/ ~MayWriteReady(op'[t])
              \/ op'[t].key = op[t].key /\ MayWriteReady(op[t])
              \/ op'[t].key \in Keys /\ payload'[op'[t].key] # None
    PROVE  Backed'
<1>1. ReadyHasPayload'
  BY DEF Backed, ReadyHasPayload, PayloadsStay, Ready
<1>2. ASSUME NEW t \in Threads, MayWriteReady(op'[t])
      PROVE  payload'[op'[t].key] # None
  <2>1. MayWriteReady(op[t]) => op[t].key \in Keys /\ payload[op[t].key] # None
    BY DEF Backed, CallsHavePayloads, Sources, CallsOK, CallOK, MayWriteReady
  <2> QED
    BY <1>2, <2>1 DEF PayloadsStay
<1> QED
  BY <1>1, <1>2 DEF Backed, CallsHavePayloads

(* Steps that write the row of a call that may. *)
LEMMA BackedUpsert ==
    ASSUME Backed, Sources, NEW t \in Threads, NEW r, MayWriteReady(op[t]),
           Upsert(op[t].key, r), UNCHANGED <<payload, gc>>,
           \A s \in Threads : op'[s] = op[s] \/ ~MayWriteReady(op'[s])
    PROVE  Backed'
<1>1. op[t].key \in Keys /\ payload[op[t].key] # None
  BY DEF Backed, CallsHavePayloads, Sources, CallsOK, CallOK, MayWriteReady
<1>2. ReadyHasPayload'
  BY <1>1 DEF Upsert, Backed, ReadyHasPayload, Ready, Sources, RowsOK
<1>3. CallsHavePayloads'
  BY DEF Backed, CallsHavePayloads
<1> QED
  BY <1>2, <1>3 DEF Backed, GcHarmless

LEMMA WrittenStays ==
    ASSUME NEW f \in File, NEW t, NEW b \in Bytes
    PROVE  Written(f, t, b) # None
  BY NoneAssumption DEF Written, File

LEMMA BackedPut ==
    ASSUME Backed, Sources, NEW t \in Threads, PutStep(t)
    PROVE  Backed'
<1> USE DEF MayWriteReady
<1>1. op \in [Threads -> Ops] /\ op[t] \in Ops /\ CallOK(op[t])
  BY DEF Sources, CallsOK
<1>2. CASE PutKeep(t) \/ PutBegin(t) \/ PutOpen(t) \/ PutFill(t)
  <2>1. UNCHANGED <<row, payload, gc>>
    BY <1>2 DEF PutKeep, PutBegin, PutOpen, PutFill, files
  <2>2. ASSUME NEW s \in Threads PROVE op'[s] = op[s] \/ ~MayWriteReady(op'[s])
    BY <1>1, <1>2 DEF PutKeep, PutBegin, PutOpen, PutFill, Goto, Return, NoOp, Ops
  <2> QED
    BY <2>1, <2>2, BackedFrame DEF PayloadsStay, Backed, GcHarmless
<1>3. CASE PutWrite(t)
  <2>1. PICK b \in {op[t].content, Torn} :
          payload' = [payload EXCEPT ![op[t].key] = Written(payload[op[t].key], t, b)]
    BY <1>3, <1>1 DEF PutWrite, At, CallOK, Sources, FilesOK
  <2>2. b \in Bytes /\ UNCHANGED <<row, gc>> /\ Goto(t, "put_replace")
    BY <1>3, <1>1 DEF PutWrite, At, CallOK, Ops, Bytes
  <2>3. PayloadsStay
    BY <2>1, <2>2, WrittenStays DEF PayloadsStay, Sources, FilesOK
  <2>4. ASSUME NEW s \in Threads PROVE op'[s] = op[s] \/ ~MayWriteReady(op'[s])
    BY <1>1, <2>2 DEF Goto, Ops
  <2> QED
    BY <2>2, <2>3, <2>4, BackedFrame DEF Backed, GcHarmless
<1>4. CASE PutReplace(t)
  <2> DEFINE k == op[t].key
  <2>1. /\ UNCHANGED <<row, gc>> /\ Goto(t, "put_commit") /\ k \in Keys
        /\ temp[k][TokenOf[t]] # None
        /\ payload' = [payload EXCEPT ![k] = temp[k][TokenOf[t]]]
    BY <1>4, <1>1 DEF PutReplace, At, CallOK
  <2>2. PayloadsStay /\ payload'[k] # None
    BY <2>1 DEF PayloadsStay, Sources, FilesOK
  <2>3. ASSUME NEW s \in Threads
        PROVE  op'[s] = op[s] \/ op'[s].key = k
    BY <1>1, <2>1 DEF Goto, Ops
  <2> QED
    BY <2>1, <2>2, <2>3, BackedFrame DEF Backed, GcHarmless
<1>5. CASE PutCommit(t)
  <2>1. ASSUME NEW s \in Threads PROVE op'[s] = op[s] \/ ~MayWriteReady(op'[s])
    BY <1>1, <1>5 DEF PutCommit, Ops
  <2>2. MayWriteReady(op[t]) /\ UNCHANGED <<payload, gc>>
        /\ \E r : Upsert(op[t].key, r)
    BY <1>5 DEF PutCommit, At, files
  <2> QED
    BY <2>1, <2>2, BackedUpsert
<1> QED
  BY <1>2, <1>3, <1>4, <1>5 DEF PutStep

LEMMA BackedGet ==
    ASSUME Backed, Sources, NEW t \in Threads, GetStep(t)
    PROVE  Backed'
<1> USE DEF MayWriteReady
<1>1. op \in [Threads -> Ops] /\ op[t] \in Ops /\ CallOK(op[t])
  BY DEF Sources, CallsOK
<1>2. CASE GetHot(t) \/ GetStat(t) \/ GetRead(t) \/ GetFill(t)
  <2>1. UNCHANGED <<row, payload, gc>>
    BY <1>2 DEF GetHot, GetStat, GetRead, GetFill, files
  <2>2. ASSUME NEW s \in Threads
        PROVE  \/ op'[s] = op[s] \/ ~MayWriteReady(op'[s])
               \/ op'[s].key = op[s].key /\ MayWriteReady(op[s])
    <3>1. CASE GetHot(t)
      <4>1. op[t].pc = "get_hot" /\ op'[t].key = op[t].key
        BY <3>1, <1>1 DEF GetHot, At, Ops
      <4> QED
        BY <4>1, <3>1, <1>1 DEF GetHot
    <3>2. CASE GetStat(t)
      <4>1. op[t].pc = "get_stat" /\ op'[t].key = op[t].key
        BY <3>2, <1>1 DEF GetStat, At, Goto, Ops
      <4> QED
        BY <4>1, <3>2, <1>1 DEF GetStat, Goto
    <3>3. CASE GetRead(t)
      <4>1. op[t].pc = "get_read" /\ op'[t].key = op[t].key
        BY <3>3, <1>1 DEF GetRead, At, Ops
      <4> QED
        BY <4>1, <3>3, <1>1 DEF GetRead
    <3>4. CASE GetFill(t)
      BY <3>4, <1>1 DEF GetFill, Return, NoOp
    <3> QED
      BY <1>2, <3>1, <3>2, <3>3, <3>4
  <2> QED
    BY <2>1, <2>2, BackedFrame DEF PayloadsStay, Backed, GcHarmless
<1>3. CASE GetTouch(t) \/ GetOrphan(t) \/ GetRefresh(t)
  <2>1. ASSUME NEW s \in Threads PROVE op'[s] = op[s] \/ ~MayWriteReady(op'[s])
    BY <1>1, <1>3 DEF GetTouch, GetOrphan, GetRefresh, Return, Goto, NoOp, Ops
  <2>2. MayWriteReady(op[t]) /\ UNCHANGED <<payload, gc>>
        /\ \E r : Upsert(op[t].key, r)
    BY <1>3 DEF GetTouch, GetOrphan, GetRefresh, At, files
  <2> QED
    BY <2>1, <2>2, BackedUpsert
<1> QED
  BY <1>2, <1>3 DEF GetStep

LEMMA BackedGc ==
    ASSUME NoCollection, Backed, Sources,
           \/ GcStep \/ GcExhaust \/ GcCrash \/ (\E m \in Modes : GcStart(m))
    PROVE  Backed'
<1> USE DEF GcAt, Bounded
<1>1. \/ (\E f \in Keys \X Tokens : GcTemp(f)) \/ GcTempsDone \/ GcLoad \/ GcScan
      \/ GcReported \/ GcPrune \/ GcCrash \/ (\E m \in Modes : GcStart(m))
  BY DEF GcStep, GcExhaust, Backed, GcHarmless, GcExpire, GcUnlink, GcBegin, GcCommit,
         GcRefs, GcList, GcUnlinkDone
<1>2. UNCHANGED <<row, payload>>
  BY <1>1 DEF GcTemp, GcTempsDone, GcLoad, GcScan, GcReported, GcPrune, GcCrash, GcStart, files
<1>3. GcHarmless'
  <2>1. CASE \E m \in Modes : GcStart(m)
    <3>1. PICK m \in Modes : GcStart(m)
      BY <2>1
    <3>2. m \in {"verify", "cleanup"}
      BY CacheAssumption DEF NoCollection
    <3>3. PICK todo : gc' = [NoGc EXCEPT !.mode = m, !.left = MaxDelete, !.todo = todo,
                             !.pc = IF m = "cleanup" THEN "temps" ELSE "load"]
      <4>1. gc' = [NoGc EXCEPT !.mode = m, !.left = MaxDelete,
                      !.todo = IF m = "cleanup" THEN TempFiles ELSE {},
                      !.pc = IF m = "cleanup" THEN "temps" ELSE "load"]
        BY <3>1, <3>2 DEF GcStart, NoGc
      <4> QED
        BY <4>1
    <3> USE DEF NoGc
    <3> QED
      BY <3>2, <3>3 DEF GcHarmless
  <2>2. CASE GcReported \/ GcPrune \/ GcCrash
    <3>1. gc' = NoGc
      BY <2>2 DEF GcReported, GcPrune, GcCrash
    <3> QED
      BY <3>1 DEF NoGc, GcHarmless
  <2>3. CASE (\E f \in Keys \X Tokens : GcTemp(f)) \/ GcTempsDone \/ GcLoad \/ GcScan
    <3>1. gc'.mode = gc.mode
      BY <2>3 DEF GcTemp, GcTempsDone, GcLoad, GcScan, Backed, GcHarmless
    <3> QED
      BY <2>3, <3>1 DEF GcTemp, GcTempsDone, GcLoad, GcScan, Backed, GcHarmless
  <2> QED
    BY <1>1, <2>1, <2>2, <2>3
<1>4. ASSUME NEW s \in Threads PROVE op'[s] = op[s] \/ ~MayWriteReady(op'[s])
  <2>1. CASE GcPrune
    BY <2>1 DEF GcPrune, NoOp, MayWriteReady
  <2>2. CASE ~GcPrune
    BY <1>1, <2>2 DEF GcTemp, GcTempsDone, GcLoad, GcScan, GcReported, GcCrash, GcStart
  <2> QED
    BY <2>1, <2>2
<1> QED
  BY <1>2, <1>3, <1>4, BackedFrame DEF PayloadsStay

LEMMA BackedCrash ==
    ASSUME Backed, Sources, NEW p \in Procs, Crash(p)
    PROVE  Backed'
<1> DEFINE dead == {t \in Threads : ProcOf[t] = p}
           closed(f) == IF f = None THEN None ELSE [f EXCEPT !.open = @ \ dead]
<1>1. /\ payload' = [k \in Keys |-> closed(payload[k])] /\ UNCHANGED <<row, gc>>
      /\ op' = [t \in Threads |-> IF t \in dead THEN NoOp ELSE op[t]]
  BY DEF Crash
<1>2. ASSUME NEW f \in File PROVE closed(f) # None
  BY NoneAssumption DEF File
<1>3. PayloadsStay
  BY <1>1, <1>2 DEF PayloadsStay, Sources, FilesOK
<1>4. ASSUME NEW s \in Threads PROVE op'[s] = op[s] \/ ~MayWriteReady(op'[s])
  BY <1>1 DEF NoOp, MayWriteReady
<1> QED
  BY <1>1, <1>3, <1>4, BackedFrame DEF Backed, GcHarmless

LEMMA BackedStep ==
    ASSUME NoCollection, Backed, Sources, [Next]_vars
    PROVE  Backed'
<1>1. ASSUME NEW t \in Threads,
             \/ (\E k \in Keys, c \in Contents, ttl \in Ttls : PutLoad(t, k, c, ttl))
             \/ (\E k \in Keys : GetLoad(t, k)) \/ Abort(t)
      PROVE  Backed'
  <2>1. UNCHANGED <<row, payload, gc>>
    BY <1>1 DEF PutLoad, GetLoad, Abort, files
  <2>2. ASSUME NEW s \in Threads
        PROVE  \/ op'[s] = op[s] \/ ~MayWriteReady(op'[s])
               \/ op'[s].key \in Keys /\ payload'[op'[s].key] # None
    <3>1. CASE \E k \in Keys : GetLoad(t, k)
      <4>1. PICK k \in Keys : GetLoad(t, k)
        BY <3>1
      <4>2. Ready(row[k]) => payload[k] # None
        BY DEF Backed, ReadyHasPayload
      <4> QED
        BY <4>1, <4>2, <2>1 DEF GetLoad, NoOp, MayWriteReady, Sources, CallsOK
    <3>2. CASE Abort(t)
      BY <3>2 DEF Abort, Return, NoOp, MayWriteReady, Sources, CallsOK
    <3>3. CASE \E k \in Keys, c \in Contents, ttl \in Ttls : PutLoad(t, k, c, ttl)
      <4>1. /\ s # t => op'[s] = op[s]
            /\ op'[t].pc = "put_check"
        BY <3>3 DEF PutLoad, NoOp, Sources, CallsOK
      <4> QED
        BY <4>1 DEF MayWriteReady
    <3> QED
      BY <1>1, <3>1, <3>2, <3>3
  <2> QED
    BY <2>1, <2>2, BackedFrame DEF PayloadsStay, Backed, GcHarmless
<1>2. CASE Tick \/ UNCHANGED vars
  <2>1. UNCHANGED <<row, payload, gc, op>>
    BY <1>2 DEF Tick, vars, files
  <2> QED
    BY <2>1, BackedFrame DEF PayloadsStay, Backed, GcHarmless
<1> QED
  BY <1>1, <1>2, BackedPut, BackedGet, BackedGc, BackedCrash DEF Next

(* put_artifact renames the payload into place before it commits the row,  *)
(* and get_artifact only writes back a row that had its payload: while     *)
(* collectors verify and sweep temp files only, every row a lookup may     *)
(* answer from has its payload file, also when writers share a temp path   *)
(* and wherever processes are killed.                                      *)
THEOREM RowsHavePayloads ==
    ASSUME NoCollection
    PROVE  Spec => []ReadyHasPayload
<1>1. Init => Backed
  BY DEF Init, Backed, GcHarmless, NoGc, ReadyHasPayload, Ready, CallsHavePayloads,
         MayWriteReady, NoOp
<1>2. Backed /\ Sources /\ [Next]_vars => Backed'
  BY BackedStep
<1>3. Backed => ReadyHasPayload
  BY DEF Backed
<1> QED
  BY <1>1, <1>2, <1>3, SourcesInvariant, PTL DEF Spec
==============================================================================
