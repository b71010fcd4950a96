---------------------------- MODULE StoresProofs ----------------------------
(***************************************************************************)
(* Proofs about three stores of their own:                                 *)
(*  - the plan replay cache implements LossyCache, for any keys, payloads  *)
(*    and processes: whatever is found in the artifact cache, in the file, *)
(*    in the memory of a process or on its way between them was handed     *)
(*    over under its key;                                                  *)
(*  - a command finds a valid settings record unless commands crossed in   *)
(*    persisting, for any number of commands killed at any point;          *)
(*  - the hot tier, for any keys, weights and limits, accounts for what it *)
(*    holds, and holds what was used last.                                 *)
(***************************************************************************)
EXTENDS PlanReplayStore, SettingsStore, MCHotTier, SumsProofs, SequenceTheorems

-----------------------------------------------------------------------------
(* The plan replay cache.                                                  *)
GoodList(list) ==
    \A e \in list :
        /\ e = [key |-> e.key, content |-> e.content, place |-> e.place]
        /\ e.key \in PlanKeys
        /\ e.content \in handed[e.key]

(* The calls there may be, and what they carry.                            *)
CallOK(c) ==
    \/ c = NoCall
    \/ /\ c.key \in PlanKeys
       /\ \/ c = [pc |-> "get", key |-> c.key]
          \/ c = [pc |-> "stat", key |-> c.key]
          \/ c = [pc |-> "parse", key |-> c.key, stamp |-> c.stamp]
    \/ /\ c.key \in PlanKeys
       /\ c.payload \in handed[c.key]
       /\ \/ c = [pc |-> "put", key |-> c.key, payload |-> c.payload]
          \/ c = [pc |-> "stat", key |-> c.key, payload |-> c.payload]
          \/ c = [pc |-> "parse", key |-> c.key, stamp |-> c.stamp,
                  payload |-> c.payload]
          \/ /\ c.pc \in {"open", "write", "remember"}
             /\ c = [pc |-> c.pc, key |-> c.key, body |-> c.body,
                     payload |-> c.payload]
             /\ GoodList(c.body.list)

HandedOK ==
    /\ handed = [k \in PlanKeys |-> handed[k]]
    /\ artifact = [k \in PlanKeys |-> artifact[k]]
    /\ \A k \in PlanKeys : artifact[k] \subseteq handed[k]

RecallOK ==
    /\ recall = [p \in Processes |-> recall[p]]
    /\ \A p \in Processes : \A r \in recall[p] : GoodList(r.body.list)

CallsOK ==
    /\ call = [p \in Processes |-> call[p]]
    /\ reply = [p \in Processes |-> reply[p]]
    /\ \A p \in Processes :
          /\ CallOK(call[p])
          /\ call[p].pc # "idle" => reply[p] = {}

ReplayInv == HandedOK /\ GoodList(body.list) /\ RecallOK /\ CallsOK

-----------------------------------------------------------------------------
(* What was handed over stays handed over.                                 *)
LEMMA GoodStays ==
    ASSUME NEW c, CallOK(c), \A k \in PlanKeys : handed[k] \subseteq handed'[k]
    PROVE  CallOK(c)'
<1>1. \A list : GoodList(list) => GoodList(list)'
  BY DEF GoodList
<1> QED
  BY <1>1 DEF CallOK

(* A step of one process that hands nothing over.                          *)
LEMMA OneCall ==
    ASSUME ReplayInv, NEW p \in Processes, NEW c, Go(p, c), CallOK(c),
           UNCHANGED handed,
           \/ UNCHANGED reply /\ call[p].pc # "idle"
           \/ c = NoCall /\ \E r : reply' = [reply EXCEPT ![p] = r]
    PROVE  CallsOK'
<1>1. call' = [q \in Processes |-> IF q = p THEN c ELSE call[q]]
  BY DEF Go, ReplayInv, CallsOK
<1>2. \A q \in Processes : CallOK(call'[q])
  BY <1>1 DEF ReplayInv, CallsOK
<1>3. \A q \in Processes : CallOK(call[q])'
  BY <1>2 DEF CallOK, GoodList
<1>4. /\ reply' = [q \in Processes |-> reply'[q]]
      /\ \A q \in Processes : q # p => reply'[q] = reply[q]
      /\ c.pc # "idle" => reply'[p] = {}
  BY DEF ReplayInv, CallsOK, NoCall
<1> QED
  BY <1>1, <1>3, <1>4 DEF ReplayInv, CallsOK

LEMMA GoodFound ==
    ASSUME ReplayInv, NEW p \in Processes, NEW list, GoodList(list),
           NEW r \in Found(p, list)
    PROVE  \E c \in handed[call[p].key] : r = [key |-> call[p].key, content |-> c]
BY DEF Found, GoodList

LEMMA GoodPushed ==
    ASSUME ReplayInv, NEW p \in Processes, NEW list, GoodList(list),
           call[p].key \in PlanKeys, call[p].payload \in handed[call[p].key]
    PROVE  GoodList(Pushed(p, list))
<1> DEFINE others == {e \in list : e.key # call[p].key}
           place(e) == 2 + Cardinality({d \in others : d.place < e.place})
           newest == [key |-> call[p].key, content |-> call[p].payload, place |-> 1]
<1>1. \A e \in others : [e EXCEPT !.place = place(e)]
                            = [key |-> e.key, content |-> e.content, place |-> place(e)]
  <2> HIDE DEF place
  <2> QED
    BY DEF GoodList
<1>2. Pushed(p, list) \subseteq {newest} \cup {[d EXCEPT !.place = place(d)] : d \in others}
  BY DEF Pushed
<1>3. \A e \in others : /\ e.key \in PlanKeys
                        /\ e.content \in handed[e.key]
  BY DEF GoodList
<1> HIDE DEF place, others
<1>4. \A e \in Pushed(p, list) :
         e = newest \/ \E d \in others : e = [key |-> d.key, content |-> d.content,
                                              place |-> place(d)]
  <2> TAKE e \in Pushed(p, list)
  <2>1. e # newest => e \in {[d EXCEPT !.place = place(d)] : d \in others}
    BY <1>2
  <2>2. e # newest => \E d \in others : e = [d EXCEPT !.place = place(d)]
    BY <2>1
  <2> QED
    BY <2>2, <1>1
<1>5. ASSUME NEW e \in Pushed(p, list)
      PROVE  /\ e = [key |-> e.key, content |-> e.content, place |-> e.place]
             /\ e.key \in PlanKeys
             /\ e.content \in handed[e.key]
  <2>1. CASE e = newest
    BY <2>1
  <2>2. CASE e # newest
    <3>1. PICK d \in others : e = [key |-> d.key, content |-> d.content,
                                   place |-> place(d)]
      BY <2>2, <1>4
    <3> QED
      BY <3>1, <1>3
  <2> QED
    BY <2>1, <2>2
<1> QED
  BY <1>5 DEF GoodList

(* Nobody is answered, or one process is.                                  *)
LEMMA Stutters ==
    ASSUME UNCHANGED <<handed, reply>>
    PROVE  [Lossy!Next]_Lossy!vars
BY DEF Lossy!vars, Replies

LEMMA Answers ==
    ASSUME ReplayInv, NEW p \in Processes, UNCHANGED handed, call[p].pc # "idle",
           call[p].key \in PlanKeys,
           NEW rs, reply' = [reply EXCEPT ![p] = rs],
           \A r \in rs : \E c \in handed[call[p].key] :
               r = [key |-> call[p].key, content |-> c]
    PROVE  [Lossy!Next]_Lossy!vars
<1> DEFINE k == call[p].key
<1>1. reply[p] = {} /\ reply' = [q \in Processes |-> IF q = p THEN rs ELSE reply[q]]
  BY DEF ReplayInv, CallsOK
<1>2. CASE rs = {}
  <2>1. \A q \in Processes : reply'[q] = reply[q]
    BY <1>1, <1>2
  <2>2. Replies' = Replies
    BY <2>1 DEF Replies
  <2> QED
    BY <2>2 DEF Lossy!vars
<1>3. CASE rs # {}
  <2> DEFINE r == TheReply(rs)
  <2>1. r \in rs
    BY <1>3 DEF TheReply
  <2>2. PICK c \in handed[k] : r = [key |-> k, content |-> c]
    BY <2>1
  <2>3. Replies' = [q \in Processes |-> IF q = p THEN r ELSE Replies[q]]
    BY <1>1, <1>3 DEF Replies
  <2> HIDE DEF r, k
  <2>4. Replies[p] = NoReply /\ Replies = [q \in Processes |-> Replies[q]]
    BY <1>1 DEF Replies
  <2>5. Replies' = [Replies EXCEPT ![p] = [key |-> k, content |-> c]]
    BY <2>2, <2>3, <2>4
  <2>6. Lossy!Answer(p, k)
    BY <2>4, <2>5, <2>2 DEF Lossy!Answer
  <2>7. k \in PlanKeys
    BY DEF k
  <2> QED
    BY <2>6, <2>7 DEF Lossy!Next
<1> QED
  BY <1>2, <1>3

-----------------------------------------------------------------------------
(* The steps.                                                              *)
fileAndMemory == <<stamp, body, whole, recall>>

LEMMA KeepHanded ==
    ReplayInv /\ UNCHANGED <<handed, artifact>> => HandedOK'
BY DEF ReplayInv, HandedOK

LEMMA KeepFile ==
    ReplayInv /\ UNCHANGED <<handed, body>> => GoodList(body.list)'
BY DEF ReplayInv, GoodList

LEMMA KeepRecall ==
    ReplayInv /\ UNCHANGED <<handed, recall>> => RecallOK'
BY DEF ReplayInv, RecallOK, GoodList

(* A process remembers a list of good entries, or nothing.                 *)
LEMMA NewRecall ==
    ASSUME ReplayInv, UNCHANGED handed, NEW p \in Processes, NEW rs,
           recall' = [recall EXCEPT ![p] = rs], \A r \in rs : GoodList(r.body.list)
    PROVE  RecallOK'
<1>1. recall' = [q \in Processes |-> IF q = p THEN rs ELSE recall[q]]
  BY DEF ReplayInv, RecallOK
<1>2. \A q \in Processes : \A r \in recall'[q] : GoodList(r.body.list)
  BY <1>1 DEF ReplayInv, RecallOK
<1> QED
  BY <1>1, <1>2 DEF RecallOK, GoodList

LEMMA LookupStep ==
    ASSUME ReplayInv, NEW p \in Processes, NEW k \in PlanKeys, Lookup(p, k)
    PROVE  ReplayInv' /\ [Lossy!Next]_Lossy!vars
<1> DEFINE c == [pc |-> "get", key |-> k]
<1>1. call' = [q \in Processes |-> IF q = p THEN c ELSE call[q]]
  BY DEF Lookup, Go, ReplayInv, CallsOK
<1>2. CallOK(c)
  BY DEF CallOK
<1> HIDE DEF c
<1>3. \A q \in Processes : CallOK(call'[q])
  BY <1>1, <1>2 DEF ReplayInv, CallsOK
<1>4. \A q \in Processes : CallOK(call[q])'
  BY <1>3 DEF Lookup, CallOK, GoodList
<1>5. reply' = reply /\ reply[p] = {}
  BY DEF Lookup
<1>6. CallsOK'
  BY <1>1, <1>4, <1>5 DEF ReplayInv, CallsOK
<1> QED
  BY <1>6, KeepHanded, KeepFile, KeepRecall, Stutters DEF Lookup, fileState, ReplayInv

LEMMA StoreStep ==
    ASSUME ReplayInv, NEW p \in Processes, NEW k \in PlanKeys, NEW x \in Payloads,
           Store(p, k, x)
    PROVE  ReplayInv' /\ [Lossy!Next]_Lossy!vars
<1> DEFINE c == [pc |-> "put", key |-> k, payload |-> x]
<1>1. handed' = [j \in PlanKeys |-> IF j = k THEN handed[j] \cup {x} ELSE handed[j]]
  BY DEF Store, ReplayInv, HandedOK
<1>2. \A j \in PlanKeys : handed[j] \subseteq handed'[j]
  BY <1>1
<1>3. HandedOK'
  BY <1>1 DEF Store, ReplayInv, HandedOK
<1>4. GoodList(body.list)' /\ RecallOK'
  BY <1>2 DEF Store, fileState, ReplayInv, RecallOK, GoodList
<1>5. call' = [q \in Processes |-> IF q = p THEN c ELSE call[q]]
  BY DEF Store, Go, ReplayInv, CallsOK
<1>6. c.key = k /\ c.payload = x /\ x \in handed'[k]
  BY <1>1
<1>7. \A q \in Processes : q # p => CallOK(call[q])'
  <2> TAKE q \in Processes
  <2>1. CASE q = p
    BY <2>1
  <2>2. CASE q # p
    <3>1. CallOK(call[q]) /\ call'[q] = call[q]
      BY <1>5, <2>2 DEF ReplayInv, CallsOK
    <3> QED
      BY <3>1, <1>2 DEF CallOK, GoodList
  <2> QED
    BY <2>1, <2>2
<1>8. CallOK(call[p])'
  BY <1>5, <1>6 DEF CallOK
<1>9. CallsOK'
  BY <1>5, <1>7, <1>8 DEF Store, ReplayInv, CallsOK
<1>10. Lossy!Store(k, x)
  <2>1. handed' = [handed EXCEPT ![k] = @ \cup {x}] /\ Replies' = Replies
    BY DEF Store, Replies
  <2> QED
    BY <2>1 DEF Lossy!Store
<1> QED
  BY <1>3, <1>4, <1>9, <1>10 DEF ReplayInv, Lossy!Next

LEMMA GetStep ==
    ASSUME ReplayInv, NEW p \in Processes, Get(p)
    PROVE  ReplayInv' /\ [Lossy!Next]_Lossy!vars
<1> DEFINE k == call[p].key
<1>1. call[p] = [pc |-> "get", key |-> k] /\ k \in PlanKeys
  BY DEF Get, ReplayInv, CallsOK, CallOK, NoCall
<1>2. UNCHANGED <<handed, artifact, body, recall>> /\ call[p].pc # "idle"
  BY <1>1 DEF Get, fileState
<1>3. HandedOK' /\ GoodList(body.list)' /\ RecallOK'
  BY <1>2, KeepHanded, KeepFile, KeepRecall
<1>4. ASSUME NEW c \in artifact[k], Go(p, NoCall),
             reply' = [reply EXCEPT ![p] = {[key |-> k, content |-> c]}]
      PROVE  ReplayInv' /\ [Lossy!Next]_Lossy!vars
  <2>1. c \in handed[k]
    BY <1>1 DEF ReplayInv, HandedOK
  <2> DEFINE rs == {[key |-> k, content |-> c]}
  <2>5. \A r \in rs : \E d \in handed[k] : r = [key |-> k, content |-> d]
    BY <2>1
  <2>6. reply' = [reply EXCEPT ![p] = rs]
    BY <1>4
  <2> HIDE DEF rs
  <2>2. [Lossy!Next]_Lossy!vars
    BY <2>5, <2>6, <1>1, <1>2, Answers
  <2>3. CallOK(NoCall)
    BY DEF CallOK
  <2>4. CallsOK'
    BY <2>3, <1>2, <1>4, OneCall
  <2> QED
    BY <2>2, <2>4, <1>3 DEF ReplayInv
<1>5. ASSUME Go(p, [call[p] EXCEPT !.pc = "stat"]), UNCHANGED reply
      PROVE  ReplayInv' /\ [Lossy!Next]_Lossy!vars
  <2>1. [call[p] EXCEPT !.pc = "stat"] = [pc |-> "stat", key |-> k]
    BY <1>1
  <2>2. CallOK([pc |-> "stat", key |-> k])
    BY <1>1 DEF CallOK
  <2>3. CallsOK'
    BY <2>1, <2>2, <1>2, <1>5, OneCall
  <2> QED
    BY <2>3, <1>2, <1>3, <1>5, Stutters DEF ReplayInv
<1> QED
  BY <1>4, <1>5 DEF Get

LEMMA PutStep ==
    ASSUME ReplayInv, NEW p \in Processes, Put(p)
    PROVE  ReplayInv' /\ [Lossy!Next]_Lossy!vars
<1> DEFINE k == call[p].key
           x == call[p].payload
           given == [artifact EXCEPT ![k] = @ \cup {x}]
<1>1. call[p] = [pc |-> "put", key |-> k, payload |-> x] /\ k \in PlanKeys /\ x \in handed[k]
  BY DEF Put, ReplayInv, CallsOK, CallOK, NoCall
<1>2. UNCHANGED <<handed, body, recall, reply>> /\ call[p].pc # "idle"
  BY <1>1 DEF Put, fileState
<1>3. GoodList(body.list)' /\ RecallOK' /\ [Lossy!Next]_Lossy!vars
  BY <1>2, KeepFile, KeepRecall, Stutters
<1>4. HandedOK'
  <2>1. artifact' \in {artifact, given}
    BY DEF Put
  <2>2. given = [j \in PlanKeys |-> IF j = k THEN artifact[j] \cup {x} ELSE artifact[j]]
    BY DEF ReplayInv, HandedOK
  <2> QED
    BY <2>1, <2>2, <1>1, <1>2 DEF ReplayInv, HandedOK
<1>5. CASE Go(p, [pc |-> "open", key |-> k, body |-> Marker, payload |-> x])
  <2>1. CallOK([pc |-> "open", key |-> k, body |-> Marker, payload |-> x])
    BY <1>1 DEF CallOK, Marker, GoodList
  <2>2. CallsOK'
    BY <2>1, <1>2, <1>5, OneCall
  <2> QED
    BY <2>2, <1>3, <1>4 DEF ReplayInv
<1>6. CASE Go(p, [call[p] EXCEPT !.pc = "stat"])
  <2>1. [call[p] EXCEPT !.pc = "stat"] = [pc |-> "stat", key |-> k, payload |-> x]
    BY <1>1
  <2>2. CallOK([pc |-> "stat", key |-> k, payload |-> x])
    BY <1>1 DEF CallOK
  <2>3. CallsOK'
    BY <2>1, <2>2, <1>2, <1>6, OneCall
  <2> QED
    BY <2>3, <1>3, <1>4 DEF ReplayInv
<1> QED
  BY <1>5, <1>6 DEF Put

(* A call that asks the file, and what it carries.                         *)
LEMMA Asking ==
    ASSUME ReplayInv, NEW p \in Processes, call[p].pc \in {"stat", "parse"}
    PROVE  /\ call[p].key \in PlanKeys
           /\ Storing(p) => call[p].payload \in handed[call[p].key]
<1>1. CallOK(call[p]) /\ call[p] # NoCall
  BY DEF ReplayInv, CallsOK, NoCall
<1>2. call[p].key \in PlanKeys
  BY <1>1 DEF CallOK
<1>3. CASE call[p] = [pc |-> "stat", key |-> call[p].key]
  <2>1. DOMAIN call[p] = {"pc", "key"}
    BY <1>3
  <2> QED
    BY <2>1, <1>2 DEF Storing
<1>4. CASE call[p] = [pc |-> "parse", key |-> call[p].key, stamp |-> call[p].stamp]
  <2>1. DOMAIN call[p] = {"pc", "key", "stamp"}
    BY <1>4
  <2> QED
    BY <2>1, <1>2 DEF Storing
<1>5. CASE call[p].payload \in handed[call[p].key]
  BY <1>2, <1>5
<1>6. call[p] # [pc |-> "get", key |-> call[p].key]
  OBVIOUS
<1> QED
  BY <1>1, <1>3, <1>4, <1>5, <1>6 DEF CallOK

LEMMA UseStep ==
    ASSUME ReplayInv, NEW p \in Processes, NEW list, GoodList(list), UNCHANGED handed,
           call[p].pc \in {"stat", "parse"}, Use(p, list)
    PROVE  CallsOK' /\ [Lossy!Next]_Lossy!vars
<1> DEFINE k == call[p].key
           x == call[p].payload
<1>1. call[p].pc # "idle" /\ k \in PlanKeys /\ (Storing(p) => x \in handed[k])
  BY Asking
<1>2. CASE Storing(p)
  <2> DEFINE c == [pc |-> "open", key |-> k, body |-> Entries(Pushed(p, list)),
                   payload |-> x]
  <2>1. GoodList(Entries(Pushed(p, list)).list)
    BY <1>1, <1>2, GoodPushed DEF Entries
  <2>2. CallOK(c)
    BY <2>1, <1>1, <1>2 DEF CallOK
  <2>3. Go(p, c) /\ UNCHANGED reply
    BY <1>2 DEF Use
  <2> HIDE DEF c
  <2> QED
    BY <2>2, <2>3, <1>1, OneCall, Stutters
<1>3. CASE ~Storing(p)
  <2> DEFINE rs == Found(p, list)
  <2>1. Go(p, NoCall) /\ reply' = [reply EXCEPT ![p] = rs]
    BY <1>3 DEF Use
  <2>2. \A r \in rs : \E c \in handed[k] : r = [key |-> k, content |-> c]
    BY GoodFound
  <2>3. CallOK(NoCall)
    BY DEF CallOK
  <2> HIDE DEF rs
  <2> QED
    BY <2>1, <2>2, <2>3, <1>1, OneCall, Answers
<1> QED
  BY <1>2, <1>3

LEMMA StatStep ==
    ASSUME ReplayInv, NEW p \in Processes, Stat(p)
    PROVE  ReplayInv' /\ [Lossy!Next]_Lossy!vars
<1> DEFINE k == call[p].key
           x == call[p].payload
<1>1. UNCHANGED <<handed, artifact, body, recall>> /\ call[p].pc = "stat"
  BY DEF Stat, fileState
<1>2. HandedOK' /\ GoodList(body.list)' /\ RecallOK'
  BY <1>1, KeepHanded, KeepFile, KeepRecall
<1>3. k \in PlanKeys /\ (Storing(p) => x \in handed[k])
  BY <1>1, Asking
<1>4. ASSUME NEW list, GoodList(list), Use(p, list)
      PROVE  ReplayInv' /\ [Lossy!Next]_Lossy!vars
  BY <1>1, <1>2, <1>4, UseStep DEF ReplayInv
<1>5. CASE Use(p, {})
  BY <1>4, <1>5 DEF GoodList
<1>6. ASSUME NEW r \in recall[p], Use(p, r.body.list)
      PROVE  ReplayInv' /\ [Lossy!Next]_Lossy!vars
  BY <1>4, <1>6 DEF ReplayInv, RecallOK
<1>7. ASSUME NEW c, CallOK(c), Go(p, c), UNCHANGED reply
      PROVE  ReplayInv' /\ [Lossy!Next]_Lossy!vars
  BY <1>1, <1>2, <1>7, OneCall, Stutters DEF ReplayInv
<1>8. CASE Storing(p) /\ Go(p, [pc |-> "parse", key |-> k, stamp |-> stamp, payload |-> x])
           /\ UNCHANGED reply
  <2>1. CallOK([pc |-> "parse", key |-> k, stamp |-> stamp, payload |-> x])
    BY <1>3, <1>8 DEF CallOK
  <2> QED
    BY <2>1, <1>7, <1>8
<1>9. CASE Go(p, [pc |-> "parse", key |-> k, stamp |-> stamp]) /\ UNCHANGED reply
  <2>1. CallOK([pc |-> "parse", key |-> k, stamp |-> stamp])
    BY <1>3 DEF CallOK
  <2> QED
    BY <2>1, <1>7, <1>9
<1> QED
  BY <1>5, <1>6, <1>8, <1>9 DEF Stat

LEMMA ParseStep ==
    ASSUME ReplayInv, NEW p \in Processes, Parse(p)
    PROVE  ReplayInv' /\ [Lossy!Next]_Lossy!vars
<1>1. UNCHANGED <<handed, artifact, body>> /\ call[p].pc = "parse"
  BY DEF Parse, fileState
<1>2. HandedOK' /\ GoodList(body.list)'
  BY <1>1, KeepHanded, KeepFile
<1>3. ASSUME Use(p, body.list)
      PROVE  CallsOK' /\ [Lossy!Next]_Lossy!vars
  BY <1>1, <1>3, UseStep DEF ReplayInv
<1>4. ASSUME Go(p, NoCall) /\ UNCHANGED reply
      PROVE  CallsOK' /\ [Lossy!Next]_Lossy!vars
  <2>1. CallOK(NoCall)
    BY DEF CallOK
  <2> QED
    BY <2>1, <1>1, <1>4, OneCall, Stutters DEF ReplayInv
<1>5. RecallOK'
  <2>1. CASE body.kind = "entries"
    <3> DEFINE rs == {[stamp |-> call[p].stamp, body |-> body]}
    <3>1. recall' = [recall EXCEPT ![p] = rs]
      BY <2>1 DEF Parse
    <3>2. \A r \in rs : GoodList(r.body.list)
      BY DEF ReplayInv
    <3> HIDE DEF rs
    <3> QED
      BY <3>1, <3>2, <1>1, NewRecall
  <2>2. CASE body.kind # "entries"
    BY <2>2, <1>1, KeepRecall DEF Parse
  <2> QED
    BY <2>1, <2>2
<1>6. CallsOK' /\ [Lossy!Next]_Lossy!vars
  BY <1>3, <1>4 DEF Parse
<1> QED
  BY <1>2, <1>5, <1>6 DEF ReplayInv

(* A call about to write the file, and what it will write. *)
LEMMA Writing ==
    ASSUME ReplayInv, NEW p \in Processes, call[p].pc \in {"open", "write", "remember"}
    PROVE  /\ call[p].key \in PlanKeys
           /\ call[p].payload \in handed[call[p].key]
           /\ call[p] = [pc |-> call[p].pc, key |-> call[p].key,
                         body |-> call[p].body, payload |-> call[p].payload]
           /\ GoodList(call[p].body.list)
<1>1. CallOK(call[p]) /\ call[p] # NoCall
  BY DEF ReplayInv, CallsOK, NoCall
<1> QED
  BY <1>1 DEF CallOK

(* The next stage of a call that writes the file. *)
LEMMA WritingOn ==
    ASSUME ReplayInv, NEW p \in Processes, call[p].pc \in {"open", "write", "remember"},
           NEW s \in {"write", "remember"}, Go(p, [call[p] EXCEPT !.pc = s]),
           UNCHANGED <<handed, reply>>
    PROVE  CallsOK'
<1> DEFINE c == [pc |-> s, key |-> call[p].key, body |-> call[p].body,
                 payload |-> call[p].payload]
<1>1. [call[p] EXCEPT !.pc = s] = c
  <2>1. call[p] = [pc |-> call[p].pc, key |-> call[p].key,
                   body |-> call[p].body, payload |-> call[p].payload]
    BY Writing
  <2> QED
    BY <2>1
<1>2. CallOK(c)
  BY Writing DEF CallOK
<1> HIDE DEF c
<1> QED
  BY <1>1, <1>2, OneCall

LEMMA OpenStep ==
    ASSUME ReplayInv, NEW p \in Processes, OpenFile(p)
    PROVE  ReplayInv' /\ [Lossy!Next]_Lossy!vars
<1>1. UNCHANGED <<handed, artifact, recall, reply>> /\ call[p].pc = "open"
  BY DEF OpenFile
<1>2. HandedOK' /\ RecallOK' /\ [Lossy!Next]_Lossy!vars
  BY <1>1, KeepHanded, KeepRecall, Stutters
<1>3. CASE body' = Broken /\ Go(p, [call[p] EXCEPT !.pc = "write"])
  <2>1. GoodList(body.list)'
    BY <1>3 DEF Broken, GoodList
  <2>2. CallsOK'
    BY <1>1, <1>3, WritingOn
  <2> QED
    BY <2>1, <2>2, <1>2 DEF ReplayInv
<1>4. CASE UNCHANGED fileState
           /\ Go(p, [pc |-> "stat", key |-> call[p].key, payload |-> call[p].payload])
  <2>1. CallOK([pc |-> "stat", key |-> call[p].key, payload |-> call[p].payload])
    BY <1>1, Writing DEF CallOK
  <2>2. CallsOK'
    BY <2>1, <1>1, <1>4, OneCall
  <2>3. GoodList(body.list)'
    BY <1>1, <1>4, KeepFile DEF fileState
  <2> QED
    BY <2>2, <2>3, <1>2 DEF ReplayInv
<1> QED
  BY <1>3, <1>4 DEF OpenFile

LEMMA WriteStep ==
    ASSUME ReplayInv, NEW p \in Processes, WriteFile(p)
    PROVE  ReplayInv' /\ [Lossy!Next]_Lossy!vars
<1>1. /\ UNCHANGED <<handed, artifact, recall, reply>> /\ call[p].pc = "write"
      /\ body' \in {call[p].body, Broken} /\ Go(p, [call[p] EXCEPT !.pc = "remember"])
  BY DEF WriteFile
<1>2. HandedOK' /\ RecallOK' /\ [Lossy!Next]_Lossy!vars
  BY <1>1, KeepHanded, KeepRecall, Stutters
<1>3. GoodList(body'.list)
  <2>1. GoodList(call[p].body.list)
    BY <1>1, Writing
  <2>2. GoodList(Broken.list)
    BY DEF Broken, GoodList
  <2> QED
    BY <1>1, <2>1, <2>2
<1>4. GoodList(body.list)'
  BY <1>1, <1>3 DEF GoodList
<1>5. CallsOK'
  BY <1>1, WritingOn
<1> QED
  BY <1>2, <1>4, <1>5 DEF ReplayInv

LEMMA RememberStep ==
    ASSUME ReplayInv, NEW p \in Processes, Remember(p)
    PROVE  ReplayInv' /\ [Lossy!Next]_Lossy!vars
<1> DEFINE rs == {[stamp |-> stamp, body |-> call[p].body]}
<1>1. /\ UNCHANGED <<handed, artifact, body, reply>> /\ call[p].pc = "remember"
      /\ recall' = [recall EXCEPT ![p] = rs] /\ Go(p, NoCall)
  BY DEF Remember, fileState
<1>2. \A r \in rs : GoodList(r.body.list)
  <2>1. GoodList(call[p].body.list)
    BY <1>1, Writing
  <2> QED
    BY <2>1
<1> HIDE DEF rs
<1>3. RecallOK'
  BY <1>1, <1>2, NewRecall
<1>4. CallOK(NoCall)
  BY DEF CallOK
<1>5. CallsOK'
  BY <1>1, <1>4, OneCall
<1> QED
  BY <1>1, <1>3, <1>5, KeepHanded, KeepFile, Stutters DEF ReplayInv

LEMMA KillStep ==
    ASSUME ReplayInv, NEW p \in Processes, KillProcess(p)
    PROVE  ReplayInv' /\ [Lossy!Next]_Lossy!vars
<1>1. /\ UNCHANGED <<handed, artifact, body, reply>> /\ call[p].pc # "idle"
      /\ recall' = [recall EXCEPT ![p] = {}] /\ Go(p, NoCall)
  BY DEF KillProcess, fileState
<1>2. RecallOK'
  BY <1>1, NewRecall
<1>3. CallOK(NoCall)
  BY DEF CallOK
<1>4. CallsOK'
  BY <1>1, <1>3, OneCall
<1> QED
  BY <1>1, <1>2, <1>4, KeepHanded, KeepFile, Stutters DEF ReplayInv

(* The caller takes its answer, which the cache then forgets. *)
LEMMA TakeStep ==
    ASSUME ReplayInv, NEW p \in Processes, TakeReply(p)
    PROVE  ReplayInv' /\ [Lossy!Next]_Lossy!vars
<1>1. UNCHANGED <<handed, artifact, body, recall, call>>
  BY DEF TakeReply, fileState
<1>2. reply' = [q \in Processes |-> IF q = p THEN {} ELSE reply[q]]
  BY DEF TakeReply, ReplayInv, CallsOK
<1>3. \A q \in Processes : CallOK(call[q])'
  BY <1>1 DEF ReplayInv, CallsOK, CallOK, GoodList
<1>4. CallsOK'
  BY <1>1, <1>2, <1>3 DEF ReplayInv, CallsOK
<1>5. Replies' = [q \in Processes |-> IF q \in {p} THEN NoReply ELSE Replies[q]]
  BY <1>2 DEF Replies
<1>6. Lossy!Forget({p})
  BY <1>1, <1>5 DEF Lossy!Forget
<1>7. [Lossy!Next]_Lossy!vars
  BY <1>6 DEF Lossy!Next
<1> QED
  BY <1>1, <1>4, <1>7, KeepHanded, KeepFile, KeepRecall DEF ReplayInv

-----------------------------------------------------------------------------
LEMMA ReplayInitial == ReplayInit => ReplayInv /\ Lossy!Init
<1> SUFFICES ASSUME ReplayInit PROVE ReplayInv /\ Lossy!Init
  OBVIOUS
<1>1. HandedOK /\ GoodList(body.list) /\ RecallOK
  BY DEF ReplayInit, HandedOK, RecallOK, GoodList, Broken
<1>2. CallsOK
  BY DEF ReplayInit, CallsOK, CallOK, NoCall
<1>3. Lossy!Init
  BY DEF ReplayInit, Lossy!Init, Replies
<1> QED
  BY <1>1, <1>2, <1>3 DEF ReplayInv

LEMMA ReplayStep ==
    ReplayInv /\ [ReplayNext]_replayVars => ReplayInv' /\ [Lossy!Next]_Lossy!vars
<1> SUFFICES ASSUME ReplayInv, [ReplayNext]_replayVars
             PROVE  ReplayInv' /\ [Lossy!Next]_Lossy!vars
  OBVIOUS
<1>1. CASE UNCHANGED replayVars
  <2>1. UNCHANGED <<handed, artifact, body, recall, call, reply>>
    BY <1>1 DEF replayVars
  <2>2. CallsOK'
    BY <2>1 DEF ReplayInv, CallsOK, CallOK, GoodList
  <2> QED
    BY <2>1, <2>2, KeepHanded, KeepFile, KeepRecall, Stutters DEF ReplayInv
<1> QED
  BY <1>1, LookupStep, StoreStep, GetStep, PutStep, StatStep, ParseStep, OpenStep,
     WriteStep, RememberStep, TakeStep, KillStep DEF ReplayNext

(* A plan that is replayed was handed over under the key it is asked for,  *)
(* whatever of the artifact cache, the file and the memories failed.       *)
THEOREM ReplayKeepsItsPromise == ReplaySpec => ReplayLossy
BY ReplayInitial, ReplayStep, PTL DEF ReplaySpec, ReplayLossy, Lossy!Spec

-----------------------------------------------------------------------------
(* The settings store.                                                     *)
cur == "current"
lkg == "last known good"
Phases == {"idle", "load", "nothing", "check", "raised", "resolved", "open", "write",
           "replace", "report"}

Is(c, h, n) == step[c][1] = h /\ step[c][2] = n

FilesType ==
    /\ at \in [Names -> Inodes]
    /\ temp \in [Names -> Inodes \cup {0}]
    /\ bytes \in [Inodes -> {Whole, Cut, Garbled}]
    /\ filled \subseteq Inodes
    /\ step \in [Commands -> Phases \X Names]
    /\ fd \in [Commands -> Inodes \cup {0}]

SettingsType == FilesType /\ crossings \in Nat /\ seen \in [Commands -> Nat]

(* A name, a temp name and a command do not share a file, except that a    *)
(* command may have the file of its own name or temp name open.            *)
OwnFiles ==
    /\ at[cur] # at[lkg]
    /\ temp[cur] = temp[lkg] => temp[cur] = 0
    /\ \A n, m \in Names : at[n] # temp[m]
    /\ \A c \in Commands : (fd[c] # 0) <=> (step[c][1] = "write")
    /\ \A c \in Commands, n, m \in Names :
          Is(c, "write", n) /\ n # m => fd[c] \notin {at[m], temp[m]}
    /\ \A c, d \in Commands :
          Is(c, "write", cur) /\ Is(d, "write", lkg) => fd[c] # fd[d]

(* What a load of the file finds is whole, and stays it.                   *)
Intact(n) == bytes[at[n]] = Whole /\ \A c \in Commands : fd[c] # at[n]

(* c has the temp file of n to itself.                                     *)
Clean(c, n) ==
    /\ Is(c, "write", n) => fd[c] = temp[n] /\ fd[c] \notin filled
    /\ Is(c, "replace", n) => temp[n] # 0 /\ bytes[temp[n]] = Whole

(* While no commands have crossed, one persists at most, on its own.       *)
Uncrossed ==
    /\ \A c, d \in Commands : Persisting(c) /\ Persisting(d) => c = d
    /\ \A n \in Names : Intact(n)
    /\ \A c \in Commands, n \in Names : Clean(c, n)

(* Once they have, two may, ...                                            *)
AtMostTwo ==
    \A c, d, e \in Commands :
       Persisting(c) /\ Persisting(d) /\ Persisting(e) => c = d \/ d = e \/ c = e

(* ... a file that is renamed under its writer leaves no temp file, and    *)
(* nobody is about to open a new one, ...                                  *)
NobodyOpens(n) == temp[n] = 0 /\ \A c \in Commands : ~ Is(c, "open", n)
RenamedOpen ==
    \A c \in Commands, n \in Names :
       Is(c, "write", n) /\ fd[c] # temp[n] => NobodyOpens(n)

(* ... a command that is busy with the current file has left the last      *)
(* known good one to the other, or the current one is intact and it is the *)
(* only one, ...                                                           *)
Early(c) == \E h \in {"open", "write", "replace"} : Is(c, h, cur)
Single(c) == \A d \in Commands : Persisting(d) => d = c
EarlySafe ==
    \A c \in Commands : Early(c) =>
       \/ /\ Intact(lkg)
          /\ \A d \in Commands : d # c => Clean(d, lkg)
       \/ Intact(cur) /\ Clean(c, cur) /\ Single(c)

(* ... what is about to ruin the current file has been written to by the   *)
(* other one, which then is not past it, ...                               *)
Past(c) == ~ Persisting(c) \/ Is(c, "write", cur) \/ Is(c, "replace", cur)
Ruinous(c) ==
    \/ Is(c, "replace", cur) /\ temp[cur] # 0 /\ bytes[temp[cur]] # Whole
    \/ Is(c, "write", cur) /\ fd[c] = temp[cur] /\ fd[c] \in filled
RuinedByOther ==
    \A c, d \in Commands : Ruinous(c) /\ c # d => Past(d)

(* ... and if the current file is not intact, the last known good one is   *)
(* and stays it: all but one will never come to it, because they do not    *)
(* persist or will find the temp file of the current one gone.             *)
Doomed(c) ==
    \/ ~ Persisting(c)
    \/ (Is(c, "write", cur) \/ Is(c, "replace", cur)) /\ NobodyOpens(cur)

Guarded ==
    /\ Intact(lkg)
    /\ \E c \in Commands : /\ Clean(c, lkg)
                           /\ \A d \in Commands : d # c => Doomed(d)

RuinGuarded == Intact(cur) \/ Guarded

CrossedOnce ==
    AtMostTwo /\ RenamedOpen /\ EarlySafe /\ RuinedByOther /\ RuinGuarded

FilesOK ==
    /\ OwnFiles
    /\ crossings = 0 => Uncrossed
    /\ crossings <= 1 => CrossedOnce

(* A command has seen the crossings there are; one that turned to the last *)
(* known good file has seen two, or that one is safe.                      *)
LoadsOK ==
    \A c \in Commands :
       /\ step[c][1] # "idle" => seen[c] >= crossings
       /\ Is(c, "load", lkg) /\ seen[c] <= 1 => seen[c] = 1 /\ Guarded

SettingsInv == SettingsType /\ FilesOK /\ LoadsOK /\ SettingsReadable

LEMMA NoZeroInode == 0 \notin Inodes
BY FS_CardinalityType, SettingsConstants DEF Inodes

(* The commands other than c stand still.                                  *)
Others(c) ==
    \A d \in Commands : d # c => step'[d] = step[d] /\ fd'[d] = fd[d]

(* What each step of a command that persists does to the files.            *)
FilesKept ==
    /\ FilesType' /\ OwnFiles'
    /\ Uncrossed => Uncrossed'
    /\ CrossedOnce => CrossedOnce'
    /\ CrossedOnce /\ Guarded => Guarded'

LEMMA WhoPersists ==
    ASSUME FilesType, OwnFiles, NEW c \in Commands
    PROVE  /\ Persisting(c) <=>
                 \E h \in {"open", "write", "replace"}, n \in Names : Is(c, h, n)
           /\ fd[c] # 0 <=> \E n \in Names : Is(c, "write", n)
<1>1. step[c][2] \in Names
  BY DEF FilesType
<1> QED
  BY <1>1 DEF Persisting, Is, OwnFiles

-----------------------------------------------------------------------------
(* Opening a temp file.                                                    *)
Opens(c, n, i) ==
    /\ i \in Inodes /\ i # 0
    /\ Is(c, "open", n) /\ Is(c, "write", n)' /\ fd'[c] = i
    /\ Others(c)
    /\ at' = at /\ temp'[n] = i
    /\ \A m \in Names : /\ i # at[m]
                        /\ m # n => i # temp[m] /\ temp'[m] = temp[m]
    /\ \A d \in Commands : fd[d] = i => fd[d] = temp[n]
    /\ temp[n] # 0 => i = temp[n]
    /\ \A j \in Inodes : j # i => bytes'[j] = bytes[j]
    /\ filled' = filled \ {i}

LEMMA OpenFacts ==
    ASSUME FilesType, OwnFiles, NEW c \in Commands, NEW n \in Names, Open(c, n)
    PROVE  FilesType' /\ \E i \in Inodes : Opens(c, n, i)
<1>1. PICK i \in Temps(n) :
         /\ temp' = [temp EXCEPT ![n] = i] /\ fd' = [fd EXCEPT ![c] = i]
         /\ bytes' = [bytes EXCEPT ![i] = Cut] /\ filled' = filled \ {i}
  BY DEF Open
<1>2. step[c] = <<"open", n>> /\ step' = [step EXCEPT ![c] = <<"write", n>>] /\ at' = at
  BY DEF Open, Goes
<1>3. i \in Inodes /\ (temp[n] # 0 => i = temp[n])
      /\ (temp[n] = 0 => /\ \A m \in Names : i # at[m] /\ i # temp[m]
                         /\ \A d \in Commands : fd[d] # i)
  BY <1>1 DEF Temps, FreeFiles, FilesType
<1>4. i # 0
  BY <1>3, NoZeroInode
<1>5. \A m \in Names : i # at[m] /\ (m # n => i # temp[m])
  <2>1. CASE temp[n] = 0
    BY <1>3, <2>1
  <2>2. CASE temp[n] # 0
    BY <1>3, <2>2 DEF OwnFiles, Names, cur, lkg
  <2> QED
    BY <2>1, <2>2
<1>6. \A d \in Commands : fd[d] = i => fd[d] = temp[n]
  BY <1>3
<1>7. FilesType'
  <2>1. <<"write", n>> \in Phases \X Names
    BY DEF Phases
  <2>2. step' \in [Commands -> Phases \X Names]
    BY <1>2, <2>1 DEF FilesType
  <2> QED
    BY <1>1, <1>2, <1>3, <2>2 DEF FilesType
<1>8. step'[c] = <<"write", n>> /\ fd'[c] = i /\ Others(c)
  BY <1>1, <1>2 DEF FilesType, Others
<1>9. /\ temp'[n] = i /\ \A m \in Names : m # n => temp'[m] = temp[m]
      /\ \A j \in Inodes : j # i => bytes'[j] = bytes[j]
  BY <1>1, <1>3 DEF FilesType
<1>10. Is(c, "open", n) /\ Is(c, "write", n)'
  BY <1>2, <1>8 DEF Is
<1> QED
  BY <1>1, <1>2, <1>3, <1>4, <1>5, <1>6, <1>7, <1>8, <1>9, <1>10 DEF Opens

LEMMA OpensOwn ==
    ASSUME FilesType, OwnFiles, NEW c \in Commands, NEW n \in Names, NEW i, Opens(c, n, i)
    PROVE  OwnFiles'
<1> USE DEF cur, lkg
<1>1. /\ at'[cur] # at'[lkg]
      /\ temp'[cur] = temp'[lkg] => temp'[cur] = 0
      /\ \A j, m \in Names : at'[j] # temp'[m]
  <2>1. /\ at[cur] # at[lkg]
        /\ temp[cur] = temp[lkg] => temp[cur] = 0
        /\ \A j, m \in Names : at[j] # temp[m]
    BY DEF OwnFiles
  <2>2. /\ at' = at /\ temp'[n] = i /\ n \in {cur, lkg} /\ i # 0
        /\ \A m \in {cur, lkg} : i # at[m] /\ (m # n => i # temp[m] /\ temp'[m] = temp[m])
    BY DEF Opens, Names
  <2>3. temp'[cur] # temp'[lkg]
    BY <2>2
  <2>4. \A j, m \in {cur, lkg} : at'[j] # temp'[m]
    BY <2>1, <2>2 DEF Names
  <2> QED
    BY <2>1, <2>2, <2>3, <2>4 DEF Names
<1>2. ASSUME NEW q \in Commands PROVE (fd'[q] # 0) <=> (step'[q][1] = "write")
  <2>1. CASE q = c
    BY <2>1 DEF Opens, Is
  <2>2. CASE q # c
    <3>1. step'[q] = step[q] /\ fd'[q] = fd[q]
      BY <2>2 DEF Opens, Others
    <3> QED
      BY <3>1 DEF OwnFiles
  <2> QED
    BY <2>1, <2>2
<1>3. ASSUME NEW q \in Commands, NEW j \in Names, Is(q, "write", j)'
      PROVE  \/ q = c /\ j = n /\ fd'[q] = i
             \/ q # c /\ Is(q, "write", j) /\ fd'[q] = fd[q]
  BY <1>3 DEF Opens, Others, Is
<1>4. ASSUME NEW q \in Commands, NEW j \in Names, NEW m \in Names, Is(q, "write", j), j # m
      PROVE  fd[q] \notin {at[m], temp[m]} /\ (m = n => fd[q] # i)
  <2>1. fd[q] \notin {at[m], temp[m]}
    BY <1>4 DEF OwnFiles
  <2> QED
    BY <2>1 DEF Opens
<1>5. ASSUME NEW q \in Commands, NEW j \in Names, NEW m \in Names, Is(q, "write", j)', j # m
      PROVE  fd'[q] \notin {at'[m], temp'[m]}
  <2>1. CASE q = c /\ j = n /\ fd'[q] = i
    BY <1>5, <2>1 DEF Opens
  <2>2. CASE q # c /\ Is(q, "write", j) /\ fd'[q] = fd[q]
    <3>1. fd[q] \notin {at[m], temp[m]} /\ (m = n => fd[q] # i)
      BY <1>4, <1>5, <2>2
    <3> QED
      BY <2>2, <3>1 DEF Opens
  <2> QED
    BY <1>3, <1>5, <2>1, <2>2
<1>6. ASSUME NEW q \in Commands, NEW r \in Commands,
             Is(q, "write", cur)', Is(r, "write", lkg)'
      PROVE  fd'[q] # fd'[r]
  <2>1. cur \in Names /\ lkg \in Names /\ cur # lkg
    BY DEF Names
  <2>2. \/ q = c /\ n = cur /\ fd'[q] = i
        \/ Is(q, "write", cur) /\ fd'[q] = fd[q]
    BY <1>3, <1>6, <2>1
  <2>3. \/ r = c /\ n = lkg /\ fd'[r] = i
        \/ Is(r, "write", lkg) /\ fd'[r] = fd[r]
    BY <1>3, <1>6, <2>1
  <2>4. CASE Is(q, "write", cur) /\ fd'[q] = fd[q] /\ Is(r, "write", lkg) /\ fd'[r] = fd[r]
    BY <2>4 DEF OwnFiles
  <2> HIDE DEF cur, lkg
  <2>5. CASE n = cur /\ fd'[q] = i /\ Is(r, "write", lkg) /\ fd'[r] = fd[r]
    BY <1>4, <2>1, <2>5
  <2>6. CASE n = lkg /\ fd'[r] = i /\ Is(q, "write", cur) /\ fd'[q] = fd[q]
    BY <1>4, <2>1, <2>6
  <2> QED
    BY <2>1, <2>2, <2>3, <2>4, <2>5, <2>6
<1> QED
  BY <1>1, <1>2, <1>5, <1>6 DEF OwnFiles

(* What was intact or clean stays it, but for the temp file that another   *)
(* command has open or has written.                                        *)
LEMMA OpensKeeps ==
    ASSUME FilesType, OwnFiles, NEW c \in Commands, NEW n \in Names, NEW i, Opens(c, n, i)
    PROVE  /\ \A m \in Names : Intact(m) => Intact(m)'
           /\ \A d \in Commands, m \in Names :
                 Clean(d, m) /\ (m # n \/ d = c) => Clean(d, m)'
           /\ \A d \in Commands : Persisting(d)' => Persisting(d)
           /\ \A d \in Commands : Early(d)' => Early(d)
<1>1. ASSUME NEW m \in Names, Intact(m) PROVE Intact(m)'
  <2>1. at[m] \in Inodes /\ at[m] # i /\ at' = at
    BY DEF FilesType, Opens
  <2>2. bytes'[at[m]] = bytes[at[m]]
    BY <2>1 DEF Opens
  <2>3. \A d \in Commands : fd'[d] # at[m]
    BY <1>1, <2>1 DEF Intact, Opens, Others
  <2> QED
    BY <1>1, <2>1, <2>2, <2>3 DEF Intact
<1>2. ASSUME NEW d \in Commands, NEW m \in Names, Clean(d, m), m # n \/ d = c
      PROVE  Clean(d, m)'
  <2>1. CASE d = c
    <3>1. Is(c, "write", m)' => m = n
      BY DEF Opens, Is
    <3>2. ~ Is(c, "replace", m)'
      BY DEF Opens, Is
    <3>3. fd'[c] = temp'[n] /\ fd'[c] \notin filled'
      BY DEF Opens
    <3> QED
      BY <2>1, <3>1, <3>2, <3>3 DEF Clean
  <2>2. CASE d # c /\ m # n
    <3>1. /\ step'[d] = step[d] /\ fd'[d] = fd[d] /\ temp'[m] = temp[m] /\ temp[m] # i
          /\ temp[m] # 0 => temp[m] \in Inodes
      BY <2>2 DEF FilesType, Opens, Others
    <3>2. temp[m] # 0 => bytes'[temp[m]] = bytes[temp[m]]
      BY <3>1 DEF Opens
    <3>3. fd[d] \notin filled => fd[d] \notin filled'
      BY DEF Opens
    <3> QED
      BY <1>2, <3>1, <3>2, <3>3 DEF Clean, Is
  <2> QED
    BY <1>2, <2>1, <2>2
<1>3. \A d \in Commands : Persisting(d)' => Persisting(d)
  BY DEF Opens, Others, Persisting, Is
<1>4. \A d \in Commands : Early(d)' => Early(d)
  BY DEF Opens, Others, Early, Is
<1> QED
  BY <1>1, <1>2, <1>3, <1>4

LEMMA OpensUncrossed ==
    ASSUME FilesType, OwnFiles, Uncrossed,
           NEW c \in Commands, NEW n \in Names, NEW i, Opens(c, n, i)
    PROVE  Uncrossed'
<1>1. Persisting(c)
  BY DEF Opens, Persisting, Is
<1>2. ASSUME NEW d \in Commands, NEW m \in Names PROVE Clean(d, m)'
  <2>1. CASE d = c
    BY <2>1, OpensKeeps DEF Uncrossed
  <2>2. CASE d # c
    <3>1. ~ Persisting(d) /\ step'[d] = step[d]
      BY <1>1, <2>2 DEF Uncrossed, Opens, Others
    <3> QED
      BY <3>1 DEF Clean, Is, Persisting
  <2> QED
    BY <2>1, <2>2
<1> QED
  BY <1>2, OpensKeeps DEF Uncrossed

LEMMA OpensCrossed ==
    ASSUME FilesType, OwnFiles, CrossedOnce,
           NEW c \in Commands, NEW n \in Names, NEW i, Opens(c, n, i)
    PROVE  CrossedOnce' /\ (Guarded => Guarded')
<1>1. /\ Is(c, "open", n) /\ Is(c, "write", n)' /\ fd'[c] = i /\ temp'[n] = i /\ i # 0
      /\ \A m \in Names : m # n => temp'[m] = temp[m]
      /\ \A d \in Commands : d # c => step'[d] = step[d] /\ fd'[d] = fd[d]
      /\ temp[n] # 0 => i = temp[n]
  BY DEF Opens, Others
<1>2. Persisting(c)
  BY <1>1 DEF Persisting, Is
<1>3. cur \in Names /\ lkg \in Names /\ cur # lkg /\ (n = cur \/ n = lkg)
  BY DEF Names, cur, lkg
<1>4. AtMostTwo'
  BY OpensKeeps DEF CrossedOnce, AtMostTwo
<1>5. RenamedOpen'
  <2> SUFFICES ASSUME NEW q \in Commands, NEW m \in Names,
                      Is(q, "write", m)', fd'[q] # temp'[m]
               PROVE  NobodyOpens(m)'
    BY DEF RenamedOpen
  <2>1. q # c
    BY <1>1 DEF Is
  <2>2. Is(q, "write", m) /\ fd'[q] = fd[q]
    BY <1>1, <2>1 DEF Is
  <2>3. fd[q] # 0
    BY <2>2 DEF OwnFiles, Is
  <2>4. CASE m = n
    <3>1. ~ NobodyOpens(n)
      BY <1>1 DEF NobodyOpens
    <3>2. fd[q] = temp[n]
      BY <2>2, <2>4, <3>1 DEF CrossedOnce, RenamedOpen
    <3> QED
      BY <1>1, <2>2, <2>3, <2>4, <3>2
  <2>5. CASE m # n
    <3>1. NobodyOpens(m) /\ temp'[m] = temp[m]
      BY <1>1, <2>2, <2>5 DEF CrossedOnce, RenamedOpen
    <3>2. \A d \in Commands : Is(d, "open", m)' => Is(d, "open", m)
      BY <1>1 DEF Is
    <3> QED
      BY <3>1, <3>2 DEF NobodyOpens
  <2> QED
    BY <2>4, <2>5
<1>6. EarlySafe'
  <2> SUFFICES ASSUME NEW q \in Commands, Early(q)'
               PROVE  \/ /\ Intact(lkg)'
                         /\ \A r \in Commands : r # q => Clean(r, lkg)'
                      \/ Intact(cur)' /\ Clean(q, cur)' /\ Single(q)'
    BY DEF EarlySafe
  <2>1. Early(q) /\ Persisting(q)
    BY OpensKeeps DEF Early, Persisting, Is
  <2>2. CASE Intact(lkg) /\ \A r \in Commands : r # q => Clean(r, lkg)
    <3>1. ASSUME NEW r \in Commands, r # q PROVE Clean(r, lkg)'
      <4>1. CASE n = lkg /\ r # c
        <5>1. q # c
          BY <1>1, <1>3, <2>1, <4>1 DEF Early, Is
        <5>2. ~ Persisting(r)
          BY <1>2, <2>1, <3>1, <4>1, <5>1 DEF CrossedOnce, AtMostTwo
        <5> QED
          BY <1>1, <4>1, <5>2 DEF Clean, Persisting, Is
      <4>2. CASE n # lkg \/ r = c
        BY <1>3, <2>2, <3>1, <4>2, OpensKeeps
      <4> QED
        BY <4>1, <4>2
    <3> QED
      BY <1>3, <2>2, <3>1, OpensKeeps
  <2>3. CASE Intact(cur) /\ Clean(q, cur) /\ Single(q)
    <3>1. q = c
      BY <1>2, <2>3 DEF Single
    <3>2. Single(q)'
      BY <2>3, OpensKeeps DEF Single
    <3> QED
      BY <1>3, <2>3, <3>1, <3>2, OpensKeeps
  <2> QED
    BY <2>1, <2>2, <2>3 DEF CrossedOnce, EarlySafe
<1>7. RuinedByOther'
  <2> SUFFICES ASSUME NEW r \in Commands, NEW q \in Commands, Ruinous(r)', r # q
               PROVE  Past(q)'
    BY DEF RuinedByOther
  <2>1. r # c
    BY DEF Opens, Ruinous, Is
  <2>2. CASE q = c /\ n = cur
    BY <1>1, <2>2 DEF Past
  <2>3. CASE q = c /\ n = lkg
    <3>1. /\ temp'[cur] = temp[cur] /\ temp[cur] # i
          /\ temp[cur] # 0 => temp[cur] \in Inodes
      BY <1>3, <2>3 DEF FilesType, Opens
    <3>2. step'[r] = step[r] /\ fd'[r] = fd[r]
      BY <1>1, <2>1
    <3>3. temp[cur] # 0 => bytes'[temp[cur]] = bytes[temp[cur]]
      BY <3>1 DEF Opens
    <3>4. filled' \subseteq filled
      BY DEF Opens
    <3>5. Ruinous(r)
      BY <3>1, <3>2, <3>3, <3>4 DEF Is, Ruinous
    <3>6. Past(c)
      BY <2>1, <2>3, <3>5 DEF CrossedOnce, RuinedByOther
    <3> QED
      BY <1>1, <1>2, <3>6 DEF Past, Is
  <2>4. CASE q # c
    <3>1. Persisting(r)
      BY OpensKeeps DEF Ruinous, Persisting, Is
    <3>2. ~ Persisting(q)
      BY <1>2, <2>1, <2>4, <3>1 DEF CrossedOnce, AtMostTwo
    <3> QED
      BY <3>2, OpensKeeps DEF Past
  <2> QED
    BY <1>3, <2>2, <2>3, <2>4
<1>8. ASSUME Guarded PROVE Guarded'
  <2>1. PICK q \in Commands : Clean(q, lkg) /\ \A r \in Commands : r # q => Doomed(r)
    BY <1>8 DEF Guarded
  <2>2. q = c
    BY <1>1, <1>2, <2>1 DEF Doomed, Is
  <2>3. ASSUME NEW r \in Commands, r # q PROVE Doomed(r)'
    <3>1. Doomed(r) /\ step'[r] = step[r]
      BY <1>1, <2>1, <2>2, <2>3
    <3>2. CASE NobodyOpens(cur)
      <4>1. n # cur
        BY <1>1, <3>2 DEF NobodyOpens
      <4>2. \A d \in Commands : Is(d, "open", cur)' => Is(d, "open", cur)
        BY <1>1 DEF Is
      <4>3. NobodyOpens(cur)'
        BY <1>1, <1>3, <3>2, <4>1, <4>2 DEF NobodyOpens
      <4> QED
        BY <3>1, <4>3, OpensKeeps DEF Doomed, Is
    <3>3. CASE ~ Persisting(r)
      BY <3>3, OpensKeeps DEF Doomed
    <3> QED
      BY <3>1, <3>2, <3>3 DEF Doomed
  <2>4. Clean(q, lkg)' /\ Intact(lkg)'
    BY <1>3, <1>8, <2>1, <2>2, OpensKeeps DEF Guarded
  <2> QED
    BY <2>3, <2>4 DEF Guarded
<1>9. RuinGuarded'
  BY <1>3, <1>8, OpensKeeps DEF CrossedOnce, RuinGuarded
<1> QED
  BY <1>4, <1>5, <1>6, <1>7, <1>8, <1>9 DEF CrossedOnce

-----------------------------------------------------------------------------
(* Writing the record to the file held open.                               *)
Writes(c, n, b) ==
    /\ fd[c] \in Inodes /\ fd[c] # 0
    /\ Is(c, "write", n) /\ Is(c, "replace", n)' /\ fd'[c] = 0
    /\ Others(c)
    /\ at' = at /\ temp' = temp
    /\ bytes'[fd[c]] = b /\ (b # Whole => fd[c] \in filled)
    /\ \A j \in Inodes : j # fd[c] => bytes'[j] = bytes[j]
    /\ filled' = filled \cup {fd[c]}

LEMMA WriteFacts ==
    ASSUME FilesType, OwnFiles, NEW c \in Commands, NEW n \in Names, Write(c, n)
    PROVE  FilesType' /\ \E b : Writes(c, n, b)
<1>1. PICK b \in {Whole} \cup IF fd[c] \in filled THEN {Cut, Garbled} ELSE {} :
         bytes' = [bytes EXCEPT ![fd[c]] = b]
  BY DEF Write
<1>2. /\ step[c] = <<"write", n>> /\ step' = [step EXCEPT ![c] = <<"replace", n>>]
      /\ fd' = [fd EXCEPT ![c] = 0] /\ at' = at /\ temp' = temp
      /\ filled' = filled \cup {fd[c]}
  BY DEF Write, Goes
<1>3. fd[c] \in Inodes /\ fd[c] # 0
  <2>1. fd[c] # 0
    BY <1>2 DEF OwnFiles
  <2> QED
    BY <2>1 DEF FilesType
<1>4. b \in {Whole, Cut, Garbled} /\ (b # Whole => fd[c] \in filled)
  OBVIOUS
<1>5. FilesType'
  <2>1. <<"replace", n>> \in Phases \X Names
    BY DEF Phases
  <2>2. step' \in [Commands -> Phases \X Names]
    BY <1>2, <2>1 DEF FilesType
  <2> QED
    BY <1>1, <1>2, <1>3, <1>4, <2>2 DEF FilesType
<1>6. step'[c] = <<"replace", n>> /\ fd'[c] = 0 /\ Others(c)
  BY <1>2 DEF FilesType, Others
<1>7. bytes'[fd[c]] = b /\ \A j \in Inodes : j # fd[c] => bytes'[j] = bytes[j]
  BY <1>1, <1>3 DEF FilesType
<1>8. Is(c, "write", n) /\ Is(c, "replace", n)'
  BY <1>2, <1>6 DEF Is
<1> QED
  BY <1>2, <1>3, <1>4, <1>5, <1>6, <1>7, <1>8 DEF Writes

(* A command that closes its file keeps the files apart.                   *)
LEMMA ClosesOwn ==
    ASSUME OwnFiles, NEW c \in Commands, Others(c), at' = at, temp' = temp,
           fd'[c] = 0, step'[c][1] # "write"
    PROVE  OwnFiles'
<1>1. ASSUME NEW q \in Commands PROVE (fd'[q] # 0) <=> (step'[q][1] = "write")
  <2>1. CASE q = c
    BY <2>1
  <2>2. CASE q # c
    <3>1. step'[q] = step[q] /\ fd'[q] = fd[q]
      BY <2>2 DEF Others
    <3> QED
      BY <3>1 DEF OwnFiles
  <2> QED
    BY <2>1, <2>2
<1>2. ASSUME NEW q \in Commands, NEW j, Is(q, "write", j)'
      PROVE  Is(q, "write", j) /\ fd'[q] = fd[q]
  BY <1>2 DEF Is, Others
<1>3. \A q \in Commands, j, m \in Names :
         Is(q, "write", j)' /\ j # m => fd'[q] \notin {at'[m], temp'[m]}
  BY <1>2 DEF OwnFiles
<1>4. \A q, r \in Commands :
         Is(q, "write", cur)' /\ Is(r, "write", lkg)' => fd'[q] # fd'[r]
  BY <1>2 DEF OwnFiles
<1> QED
  BY <1>1, <1>3, <1>4 DEF OwnFiles

LEMMA WritesKeeps ==
    ASSUME FilesType, OwnFiles, NEW c \in Commands, NEW n \in Names, NEW b, Writes(c, n, b)
    PROVE  /\ \A m \in Names : Intact(m) => Intact(m)'
           /\ \A d \in Commands, m \in Names :
                 Clean(d, m) /\ (m # n \/ d = c) => Clean(d, m)'
           /\ \A d \in Commands : Persisting(d)' => Persisting(d)
           /\ \A d \in Commands : Early(d)' => Early(d)
<1>1. ASSUME NEW m \in Names, Intact(m) PROVE Intact(m)'
  <2>1. at[m] \in Inodes /\ at[m] # fd[c] /\ at[m] # 0 /\ at' = at
    <3>1. at[m] \in Inodes
      BY DEF FilesType
    <3> QED
      BY <1>1, <3>1, NoZeroInode DEF Writes, Intact
  <2>2. bytes'[at[m]] = bytes[at[m]]
    BY <2>1 DEF Writes
  <2>3. \A d \in Commands : fd'[d] # at[m]
    BY <1>1, <2>1 DEF Intact, Writes, Others
  <2> QED
    BY <1>1, <2>1, <2>2, <2>3 DEF Intact
<1>2. ASSUME NEW d \in Commands, NEW m \in Names, Clean(d, m), m # n \/ d = c
      PROVE  Clean(d, m)'
  <2>1. CASE d = c
    <3>1. ~ Is(c, "write", m)' /\ (Is(c, "replace", m)' => m = n)
      BY DEF Writes, Is
    <3>2. ASSUME m = n PROVE temp'[n] # 0 /\ bytes'[temp'[n]] = Whole
      <4>1. fd[c] = temp[n] /\ fd[c] \notin filled
        BY <1>2, <2>1, <3>2 DEF Clean, Writes
      <4> QED
        BY <4>1 DEF Writes
    <3> QED
      BY <2>1, <3>1, <3>2 DEF Clean
  <2>2. CASE d # c /\ m # n
    <3>1. step'[d] = step[d] /\ fd'[d] = fd[d] /\ temp' = temp
      BY <2>2 DEF Writes, Others
    <3>2. fd[c] # temp[m] /\ (Is(d, "write", m) => fd[d] # fd[c])
      <4>1. Is(c, "write", n)
        BY DEF Writes
      <4>2. (n = cur /\ m = lkg) \/ (n = lkg /\ m = cur)
        BY <2>2 DEF Names, cur, lkg
      <4> QED
        BY <2>2, <4>1, <4>2 DEF OwnFiles
    <3>3. temp[m] # 0 => bytes'[temp[m]] = bytes[temp[m]]
      <4>1. temp[m] # 0 => temp[m] \in Inodes
        BY DEF FilesType
      <4> QED
        BY <3>2, <4>1 DEF Writes
    <3>4. Is(d, "write", m) /\ fd[d] \notin filled => fd[d] \notin filled'
      BY <3>2 DEF Writes
    <3> QED
      BY <1>2, <3>1, <3>3, <3>4 DEF Clean, Is
  <2> QED
    BY <1>2, <2>1, <2>2
<1>3. \A d \in Commands : Persisting(d)' => Persisting(d)
  BY DEF Writes, Others, Persisting, Is
<1>4. \A d \in Commands : Early(d)' => Early(d)
  BY DEF Writes, Others, Early, Is
<1> QED
  BY <1>1, <1>2, <1>3, <1>4

LEMMA WritesUncrossed ==
    ASSUME FilesType, OwnFiles, Uncrossed,
           NEW c \in Commands, NEW n \in Names, NEW b, Writes(c, n, b)
    PROVE  Uncrossed'
<1>1. Persisting(c)
  BY DEF Writes, Persisting, Is
<1>2. ASSUME NEW d \in Commands, NEW m \in Names PROVE Clean(d, m)'
  <2>1. CASE d = c
    BY <2>1, WritesKeeps DEF Uncrossed
  <2>2. CASE d # c
    <3>1. ~ Persisting(d) /\ step'[d] = step[d]
      BY <1>1, <2>2 DEF Uncrossed, Writes, Others
    <3> QED
      BY <3>1 DEF Clean, Is, Persisting
  <2> QED
    BY <2>1, <2>2
<1> QED
  BY <1>2, WritesKeeps DEF Uncrossed

LEMMA WritesCrossed ==
    ASSUME FilesType, OwnFiles, CrossedOnce,
           NEW c \in Commands, NEW n \in Names, NEW b, Writes(c, n, b)
    PROVE  CrossedOnce' /\ (Guarded => Guarded')
<1>1. /\ Is(c, "write", n) /\ Is(c, "replace", n)' /\ fd'[c] = 0
      /\ at' = at /\ temp' = temp /\ fd[c] \in Inodes
      /\ \A d \in Commands : d # c => step'[d] = step[d] /\ fd'[d] = fd[d]
      /\ bytes'[fd[c]] = b /\ (b # Whole => fd[c] \in filled)
      /\ \A j \in Inodes : j # fd[c] => bytes'[j] = bytes[j]
      /\ filled' = filled \cup {fd[c]}
  BY DEF Writes, Others
<1>2. Persisting(c)
  BY <1>1 DEF Persisting, Is
<1>3. cur \in Names /\ lkg \in Names /\ cur # lkg /\ (n = cur \/ n = lkg)
  BY DEF Names, cur, lkg
<1>4. AtMostTwo'
  BY WritesKeeps DEF CrossedOnce, AtMostTwo
<1>5. /\ \A d \in Commands, m \in Names :
            Is(d, "write", m)' => Is(d, "write", m) /\ fd'[d] = fd[d] /\ d # c
      /\ \A m \in Names : NobodyOpens(m) => NobodyOpens(m)'
  BY <1>1 DEF NobodyOpens, Is
<1>6. RenamedOpen'
  BY <1>1, <1>5 DEF CrossedOnce, RenamedOpen
<1>7. EarlySafe'
  <2> SUFFICES ASSUME NEW q \in Commands, Early(q)'
               PROVE  \/ /\ Intact(lkg)'
                         /\ \A r \in Commands : r # q => Clean(r, lkg)'
                      \/ Intact(cur)' /\ Clean(q, cur)' /\ Single(q)'
    BY DEF EarlySafe
  <2>1. Early(q) /\ Persisting(q)
    BY WritesKeeps DEF Early, Persisting, Is
  <2>2. CASE Intact(lkg) /\ \A r \in Commands : r # q => Clean(r, lkg)
    <3>1. ASSUME NEW r \in Commands, r # q PROVE Clean(r, lkg)'
      <4>1. CASE n = lkg /\ r # c
        <5>1. q # c
          BY <1>1, <1>3, <2>1, <4>1 DEF Early, Is
        <5>2. ~ Persisting(r)
          BY <1>2, <2>1, <3>1, <4>1, <5>1 DEF CrossedOnce, AtMostTwo
        <5> QED
          BY <1>1, <4>1, <5>2 DEF Clean, Persisting, Is
      <4>2. CASE n # lkg \/ r = c
        BY <1>3, <2>2, <3>1, <4>2, WritesKeeps
      <4> QED
        BY <4>1, <4>2
    <3> QED
      BY <1>3, <2>2, <3>1, WritesKeeps
  <2>3. CASE Intact(cur) /\ Clean(q, cur) /\ Single(q)
    <3>1. q = c
      BY <1>2, <2>3 DEF Single
    <3>2. Single(q)'
      BY <2>3, WritesKeeps DEF Single
    <3> QED
      BY <1>3, <2>3, <3>1, <3>2, WritesKeeps
  <2> QED
    BY <2>1, <2>2, <2>3 DEF CrossedOnce, EarlySafe
<1>8. RuinedByOther'
  <2> SUFFICES ASSUME NEW r \in Commands, NEW q \in Commands, Ruinous(r)', r # q
               PROVE  Past(q)'
    BY DEF RuinedByOther
  <2>1. CASE r = c
    <3>1. n = cur /\ temp[cur] # 0 /\ bytes'[temp[cur]] # Whole
      BY <1>1, <2>1 DEF Ruinous, Is
    <3>2. fd[c] = temp[cur]
      BY <1>1, <1>3, <3>1 DEF CrossedOnce, RenamedOpen, NobodyOpens
    <3>3. Past(q)
      BY <1>1, <2>1, <3>1, <3>2 DEF Ruinous, CrossedOnce, RuinedByOther
    <3>4. step'[q] = step[q]
      BY <1>1, <2>1
    <3> QED
      BY <3>3, <3>4 DEF Past, Persisting, Is
  <2>2. CASE q = c /\ n = cur
    BY <1>1, <2>2 DEF Past
  <2>3. CASE q = c /\ n = lkg /\ r # c
    <3>1. fd[c] # temp[cur] /\ (temp[cur] # 0 => temp[cur] \in Inodes)
      BY <1>1, <1>3, <2>3 DEF FilesType, OwnFiles
    <3>2. step'[r] = step[r] /\ fd'[r] = fd[r] /\ temp[cur] # 0
             => bytes'[temp[cur]] = bytes[temp[cur]]
      BY <1>1, <2>3, <3>1
    <3>3. Ruinous(r)
      BY <1>1, <2>3, <3>1, <3>2 DEF Is, Ruinous
    <3>4. Past(c)
      BY <2>3, <3>3 DEF CrossedOnce, RuinedByOther
    <3> QED
      BY <1>1, <1>2, <1>3, <2>3, <3>4 DEF Past, Is
  <2>4. CASE q # c /\ r # c
    <3>1. Persisting(r)
      BY WritesKeeps DEF Ruinous, Persisting, Is
    <3>2. ~ Persisting(q)
      BY <1>2, <2>4, <3>1 DEF CrossedOnce, AtMostTwo
    <3> QED
      BY <3>2, WritesKeeps DEF Past
  <2> QED
    BY <1>3, <2>1, <2>2, <2>3, <2>4
<1>9. ASSUME NEW d \in Commands, Doomed(d) PROVE Doomed(d)'
  <2>1. CASE ~ Persisting(d)
    BY <2>1, WritesKeeps DEF Doomed
  <2>2. CASE (Is(d, "write", cur) \/ Is(d, "replace", cur)) /\ NobodyOpens(cur)
    <3>1. Is(d, "write", cur)' \/ Is(d, "replace", cur)'
      BY <1>1, <2>2 DEF Is
    <3> QED
      BY <1>3, <1>5, <2>2, <3>1 DEF Doomed
  <2> QED
    BY <1>9, <2>1, <2>2 DEF Doomed
<1>10. ASSUME Guarded PROVE Guarded'
  <2>1. PICK q \in Commands : Clean(q, lkg) /\ \A r \in Commands : r # q => Doomed(r)
    BY <1>10 DEF Guarded
  <2>2. Clean(q, lkg)'
    <3>1. CASE q = c
      BY <1>3, <2>1, <3>1, WritesKeeps
    <3>2. CASE q # c
      <4>1. n = cur
        BY <1>1, <1>2, <2>1, <3>2 DEF Doomed, Is
      <4> QED
        BY <1>3, <2>1, <4>1, WritesKeeps
    <3> QED
      BY <3>1, <3>2
  <2> QED
    BY <1>3, <1>9, <1>10, <2>1, <2>2, WritesKeeps DEF Guarded
<1>11. RuinGuarded'
  BY <1>3, <1>10, WritesKeeps DEF CrossedOnce, RuinGuarded
<1> QED
  BY <1>4, <1>6, <1>7, <1>8, <1>10, <1>11 DEF CrossedOnce

-----------------------------------------------------------------------------
(* A command that is killed or finds its temp file gone, which may leave   *)
(* part of its record in the file it has open.                             *)
Ends(c) ==
    /\ Persisting(c) /\ ~ Persisting(c)' /\ fd'[c] = 0
    /\ Others(c)
    /\ at' = at /\ temp' = temp
    /\ \A j \in Inodes : j # fd[c] => bytes'[j] = bytes[j] /\ (j \in filled' => j \in filled)

LEMMA KillFacts ==
    ASSUME FilesType, OwnFiles, NEW c \in Commands, KillPersist(c)
    PROVE  FilesType' /\ Ends(c)
<1>1. /\ Persisting(c) /\ step' = [step EXCEPT ![c] = <<"idle", "current">>]
      /\ fd' = [fd EXCEPT ![c] = 0] /\ at' = at /\ temp' = temp
  BY DEF KillPersist, Goes
<1>2. \/ bytes' = bytes /\ filled' = filled
      \/ /\ fd[c] # 0 /\ filled' = filled \cup {fd[c]}
         /\ \E b \in {Cut, Garbled} : bytes' = [bytes EXCEPT ![fd[c]] = b]
  BY DEF KillPersist
<1>3. /\ bytes' \in [Inodes -> {Whole, Cut, Garbled}] /\ filled' \subseteq Inodes
      /\ \A j \in Inodes : j # fd[c] => bytes'[j] = bytes[j] /\ (j \in filled' => j \in filled)
  <2>1. fd[c] # 0 => fd[c] \in Inodes
    BY DEF FilesType
  <2> QED
    BY <1>2, <2>1 DEF FilesType
<1>4. step' \in [Commands -> Phases \X Names]
  BY <1>1 DEF FilesType, Phases, Names
<1>5. FilesType'
  BY <1>1, <1>3, <1>4 DEF FilesType
<1>6. step'[c] = <<"idle", "current">> /\ fd'[c] = 0 /\ Others(c)
  BY <1>1 DEF FilesType, Others
<1>7. ~ Persisting(c)'
  BY <1>6 DEF Persisting
<1> QED
  BY <1>1, <1>3, <1>5, <1>6, <1>7 DEF Ends

LEMMA EndsKeeps ==
    ASSUME FilesType, OwnFiles, NEW c \in Commands, Ends(c)
    PROVE  /\ OwnFiles'
           /\ \A m \in Names : Intact(m) => Intact(m)'
           /\ \A d \in Commands, m \in Names :
                 Clean(d, m) /\ (fd[c] # 0 => ~ Is(c, "write", m)) => Clean(d, m)'
           /\ \A d \in Commands, m \in Names : ~ Persisting(d)' => Clean(d, m)'
           /\ \A d \in Commands : Persisting(d)' <=> Persisting(d) /\ d # c
           /\ \A d \in Commands : Early(d)' => Early(d)
<1>1. OwnFiles'
  <2>1. step'[c][1] # "write"
    BY DEF Ends, Persisting
  <2> QED
    BY <2>1, ClosesOwn DEF Ends
<1>2. ASSUME NEW m \in Names, Intact(m) PROVE Intact(m)'
  <2>1. at[m] \in Inodes /\ at[m] # 0 /\ at' = at
    BY NoZeroInode DEF FilesType, Ends
  <2>2. bytes'[at[m]] = bytes[at[m]]
    BY <1>2, <2>1 DEF Ends, Intact
  <2>3. \A d \in Commands : fd'[d] # at[m]
    BY <1>2, <2>1 DEF Intact, Ends, Others
  <2> QED
    BY <1>2, <2>1, <2>2, <2>3 DEF Intact
<1>3. ASSUME NEW d \in Commands, NEW m \in Names, ~ Persisting(d)' PROVE Clean(d, m)'
  BY <1>3 DEF Clean, Persisting, Is
<1>4. ASSUME NEW d \in Commands, NEW m \in Names, Clean(d, m),
             fd[c] # 0 => ~ Is(c, "write", m)
      PROVE  Clean(d, m)'
  <2>1. CASE d = c
    BY <1>3, <2>1 DEF Ends
  <2>2. CASE d # c
    <3>1. step'[d] = step[d] /\ fd'[d] = fd[d] /\ temp' = temp
      BY <2>2 DEF Ends, Others
    <3>2. fd[c] # 0 => fd[c] # temp[m] /\ (Is(d, "write", m) => fd[d] # fd[c])
      <4> SUFFICES ASSUME fd[c] # 0
                   PROVE  fd[c] # temp[m] /\ (Is(d, "write", m) => fd[d] # fd[c])
        OBVIOUS
      <4>1. PICK n \in Names : Is(c, "write", n)
        BY WhoPersists
      <4>2. (n = cur /\ m = lkg) \/ (n = lkg /\ m = cur)
        BY <1>4, <4>1 DEF Names, cur, lkg
      <4> QED
        BY <2>2, <4>1, <4>2 DEF OwnFiles
    <3>3. temp[m] # 0 => bytes'[temp[m]] = bytes[temp[m]]
      <4>1. temp[m] # 0 => temp[m] \in Inodes
        BY DEF FilesType
      <4> QED
        BY <3>2, <4>1 DEF Ends
    <3>4. ASSUME Is(d, "write", m), fd[d] \notin filled PROVE fd[d] \notin filled'
      <4>1. fd[d] # 0
        BY <3>4 DEF Is, OwnFiles
      <4>2. fd[d] \in Inodes
        BY <4>1 DEF FilesType
      <4> QED
        BY <3>2, <3>4, <4>1, <4>2 DEF Ends
    <3> QED
      BY <1>4, <3>1, <3>3, <3>4 DEF Clean, Is
  <2> QED
    BY <2>1, <2>2
<1>5. \A d \in Commands : Persisting(d)' <=> Persisting(d) /\ d # c
  BY DEF Ends, Others, Persisting
<1>6. ASSUME NEW d \in Commands, Early(d)' PROVE Early(d)
  <2>1. Persisting(d)'
    BY <1>6 DEF Early, Persisting, Is
  <2>2. step'[d] = step[d]
    BY <1>5, <2>1 DEF Ends, Others
  <2> QED
    BY <1>6, <2>2 DEF Early, Is
<1> QED
  BY <1>1, <1>2, <1>3, <1>4, <1>5, <1>6

LEMMA EndsFiles ==
    ASSUME FilesType, OwnFiles, NEW c \in Commands, Ends(c)
    PROVE  /\ Uncrossed => Uncrossed'
           /\ CrossedOnce => CrossedOnce' /\ (Guarded => Guarded')
<1>1. /\ at' = at /\ temp' = temp /\ Persisting(c) /\ ~ Persisting(c)'
      /\ \A d \in Commands : d # c => step'[d] = step[d] /\ fd'[d] = fd[d]
  BY DEF Ends, Others
<1>2. cur \in Names /\ lkg \in Names /\ cur # lkg
  BY DEF Names, cur, lkg
<1>3. ASSUME Uncrossed PROVE Uncrossed'
  <2>1. \A d \in Commands : ~ Persisting(d)'
    BY <1>1, <1>3, EndsKeeps DEF Uncrossed
  <2> QED
    BY <1>3, <2>1, EndsKeeps DEF Uncrossed
<1>4. ASSUME CrossedOnce PROVE CrossedOnce' /\ (Guarded => Guarded')
  <2>1. AtMostTwo'
    BY <1>4, EndsKeeps DEF CrossedOnce, AtMostTwo
  <2>2. ASSUME NEW d \in Commands, NEW h \in {"open", "write", "replace"}, NEW m,
               Is(d, h, m)'
        PROVE  d # c /\ Is(d, h, m) /\ step'[d] = step[d] /\ fd'[d] = fd[d]
    <3>1. Persisting(d)'
      BY <2>2 DEF Is, Persisting
    <3>2. d # c
      BY <1>1, <3>1
    <3> QED
      BY <1>1, <2>2, <3>2 DEF Is
  <2>3. ASSUME NEW m \in Names, NobodyOpens(m) PROVE NobodyOpens(m)'
    BY <1>1, <2>2, <2>3 DEF NobodyOpens
  <2>4. RenamedOpen'
    <3> SUFFICES ASSUME NEW d \in Commands, NEW m \in Names,
                        Is(d, "write", m)', fd'[d] # temp'[m]
                 PROVE  NobodyOpens(m)'
      BY DEF RenamedOpen
    <3>1. Is(d, "write", m) /\ fd[d] # temp[m]
      BY <1>1, <2>2
    <3> QED
      BY <1>4, <2>3, <3>1 DEF CrossedOnce, RenamedOpen
  <2>5. EarlySafe'
    <3> SUFFICES ASSUME NEW q \in Commands, Early(q)'
                 PROVE  /\ Intact(lkg)'
                        /\ \A r \in Commands : r # q => Clean(r, lkg)'
      BY DEF EarlySafe
    <3>1. Early(q) /\ Persisting(q)' /\ q # c /\ Persisting(q)
      <4>1. Persisting(q)'
        BY DEF Early, Persisting, Is
      <4> QED
        BY <4>1, EndsKeeps
    <3>2. ~ Single(q)
      BY <1>1, <3>1 DEF Single
    <3>3. Intact(lkg) /\ \A r \in Commands : r # q => Clean(r, lkg)
      BY <1>4, <3>1, <3>2 DEF CrossedOnce, EarlySafe
    <3>4. \A r \in Commands : r # q => ~ Persisting(r)'
      BY <1>1, <1>4, <3>1, EndsKeeps DEF CrossedOnce, AtMostTwo
    <3> QED
      BY <1>2, <3>3, <3>4, EndsKeeps
  <2>6. RuinedByOther'
    <3> SUFFICES ASSUME NEW r \in Commands, NEW q \in Commands, Ruinous(r)', r # q
                 PROVE  Past(q)'
      BY DEF RuinedByOther
    <3>1. Persisting(r)'
      BY DEF Ruinous, Persisting, Is
    <3>2. ~ Persisting(q)'
      BY <1>1, <1>4, <3>1, EndsKeeps DEF CrossedOnce, AtMostTwo
    <3> QED
      BY <3>2 DEF Past
  <2>7. ASSUME NEW d \in Commands, Doomed(d) PROVE Doomed(d)'
    <3>1. CASE ~ Persisting(d)'
      BY <3>1 DEF Doomed
    <3>2. CASE Persisting(d)'
      <4>1. Persisting(d) /\ d # c
        BY <3>2, EndsKeeps
      <4>2. step'[d] = step[d]
        BY <1>1, <4>1
      <4> QED
        BY <1>2, <2>3, <2>7, <4>1, <4>2 DEF Doomed, Is
    <3> QED
      BY <3>1, <3>2
  <2>8. ASSUME Guarded PROVE Guarded'
    <3>1. PICK q \in Commands : Clean(q, lkg) /\ \A r \in Commands : r # q => Doomed(r)
      BY <2>8 DEF Guarded
    <3>2. Clean(q, lkg)'
      <4>1. CASE q = c
        BY <1>1, <1>2, <4>1, EndsKeeps
      <4>2. CASE q # c
        <5>1. ~ Is(c, "write", lkg)
          BY <1>1, <1>2, <3>1, <4>2 DEF Doomed, Is
        <5> QED
          BY <1>2, <3>1, <5>1, EndsKeeps
      <4> QED
        BY <4>1, <4>2
    <3> QED
      BY <1>2, <2>7, <2>8, <3>1, <3>2, EndsKeeps DEF Guarded
  <2>9. RuinGuarded'
    BY <1>2, <1>4, <2>8, EndsKeeps DEF CrossedOnce, RuinGuarded
  <2> QED
    BY <2>1, <2>4, <2>5, <2>6, <2>8, <2>9 DEF CrossedOnce
<1> QED
  BY <1>3, <1>4

-----------------------------------------------------------------------------
(* Renaming the temp file.                                                 *)
Renames(c, n) ==
    /\ Is(c, "replace", n) /\ fd[c] = 0
    /\ \/ ~ Persisting(c)'
       \/ n = cur /\ Is(c, "open", lkg)'
    /\ \A d \in Commands : d # c => step'[d] = step[d]
    /\ fd' = fd /\ bytes' = bytes /\ filled' = filled
    /\ temp[n] \in Inodes /\ temp[n] # 0 /\ at'[n] = temp[n] /\ temp'[n] = 0
    /\ \A m \in Names : m # n => at'[m] = at[m] /\ temp'[m] = temp[m]

LEMMA AfterSteps ==
    ASSUME NEW n \in Names, NEW s \in After(n)
    PROVE  /\ s \in Phases \X Names
           /\ s[1] = "report" \/ (n = cur /\ s[1] = "open" /\ s[2] = lkg)
<1>1. s = <<"report", "current">> \/ (n = cur /\ s = <<"open", "last known good">>)
  BY DEF After, Names, cur
<1>2. /\ <<"report", "current">> \in Phases \X Names
      /\ <<"open", "last known good">> \in Phases \X Names
  BY DEF Phases, Names
<1>3. CASE s = <<"report", "current">>
  BY <1>2, <1>3
<1>4. CASE n = cur /\ s = <<"open", "last known good">>
  <2>1. s \in Phases \X Names
    BY <1>2, <1>4
  <2>2. s[1] = "open" /\ s[2] = lkg
    BY <1>4 DEF lkg
  <2> QED
    BY <1>4, <2>1, <2>2
<1> QED
  BY <1>1, <1>3, <1>4

LEMMA ReplaceFacts ==
    ASSUME FilesType, OwnFiles, NEW c \in Commands, NEW n \in Names, Replace(c, n)
    PROVE  FilesType' /\ (Ends(c) \/ Renames(c, n))
<1>1. step[c] = <<"replace", n>> /\ bytes' = bytes /\ filled' = filled /\ fd' = fd
  BY DEF Replace
<1>2. Is(c, "replace", n) /\ fd[c] = 0 /\ Persisting(c)
  BY <1>1 DEF Is, OwnFiles, Persisting
<1>3. CASE Rename(n) /\ \E s \in After(n) : Goes(c, s)
  <2>1. PICK s \in After(n) : step' = [step EXCEPT ![c] = s]
    BY <1>3 DEF Goes
  <2>2. temp[n] # 0 /\ at' = [at EXCEPT ![n] = temp[n]] /\ temp' = [temp EXCEPT ![n] = 0]
    BY <1>3 DEF Rename
  <2>3. temp[n] \in Inodes
    BY <2>2 DEF FilesType
  <2>4. s \in Phases \X Names /\ (s[1] = "report" \/ (n = cur /\ s[1] = "open" /\ s[2] = lkg))
    BY AfterSteps
  <2>5. step'[c] = s /\ \A d \in Commands : d # c => step'[d] = step[d]
    BY <2>1 DEF FilesType
  <2>6. ~ Persisting(c)' \/ (n = cur /\ Is(c, "open", lkg)')
    BY <2>4, <2>5 DEF Persisting, Is
  <2>7. /\ at'[n] = temp[n] /\ temp'[n] = 0
        /\ \A m \in Names : m # n => at'[m] = at[m] /\ temp'[m] = temp[m]
    BY <2>2 DEF FilesType
  <2>8. FilesType'
    <3>1. step' \in [Commands -> Phases \X Names]
      BY <2>1, <2>4 DEF FilesType
    <3> QED
      BY <1>1, <2>2, <2>3, <3>1 DEF FilesType
  <2> QED
    BY <1>1, <1>2, <2>2, <2>3, <2>5, <2>6, <2>7, <2>8 DEF Renames
<1>4. CASE temp[n] = 0 /\ Goes(c, <<"idle", "current">>) /\ at' = at /\ temp' = temp
  <2>1. step' = [step EXCEPT ![c] = <<"idle", "current">>]
    BY <1>4 DEF Goes
  <2>2. step' \in [Commands -> Phases \X Names]
    BY <2>1 DEF FilesType, Phases, Names
  <2>3. step'[c] = <<"idle", "current">> /\ \A d \in Commands : d # c => step'[d] = step[d]
    BY <2>1 DEF FilesType
  <2>4. FilesType'
    BY <1>1, <1>4, <2>2 DEF FilesType
  <2>5. ~ Persisting(c)'
    BY <2>3 DEF Persisting
  <2> QED
    BY <1>1, <1>2, <1>4, <2>3, <2>4, <2>5 DEF Ends, Others
<1> QED
  BY <1>3, <1>4 DEF Replace

LEMMA RenamesKeeps ==
    ASSUME FilesType, OwnFiles, NEW c \in Commands, NEW n \in Names, Renames(c, n)
    PROVE  /\ Persisting(c)
           /\ \A d \in Commands : Persisting(d)' => Persisting(d)
           /\ \A d \in Commands, h \in {"write", "replace"}, m \in Names :
                 Is(d, h, m)' => d # c /\ Is(d, h, m)
           /\ \A d \in Commands, m \in Names : Is(d, "open", m)' =>
                 \/ d # c /\ Is(d, "open", m)
                 \/ d = c /\ n = cur /\ m = lkg
           /\ \A m \in Names : m # n /\ Intact(m) => Intact(m)'
           /\ bytes[temp[n]] = Whole /\ (\A d \in Commands : fd[d] # temp[n]) => Intact(n)'
           /\ \A m \in Names : Clean(c, m)'
           /\ \A d \in Commands, m \in Names : Clean(d, m) /\ m # n => Clean(d, m)'
           /\ \A d \in Commands, m \in Names : ~ Persisting(d)' => Clean(d, m)'
<1>1. Persisting(c)
  BY DEF Renames, Persisting, Is
<1>2. \A d \in Commands : Persisting(d)' => Persisting(d)
  BY <1>1 DEF Renames, Persisting
<1>3. \A d \in Commands, h \in {"write", "replace"}, m \in Names :
         Is(d, h, m)' => d # c /\ Is(d, h, m)
  BY DEF Renames, Persisting, Is
<1>4. \A d \in Commands, m \in Names : Is(d, "open", m)' =>
         \/ d # c /\ Is(d, "open", m)
         \/ d = c /\ n = cur /\ m = lkg
  BY DEF Renames, Persisting, Is
<1>5. \A m \in Names : m # n /\ Intact(m) => Intact(m)'
  BY DEF Renames, Intact
<1>6. bytes[temp[n]] = Whole /\ (\A d \in Commands : fd[d] # temp[n]) => Intact(n)'
  BY DEF Renames, Intact
<1>7. \A m \in Names : Clean(c, m)'
  BY <1>3 DEF Clean
<1>8. \A d \in Commands, m \in Names : Clean(d, m) /\ m # n => Clean(d, m)'
  BY <1>3 DEF Renames, Clean
<1>9. \A d \in Commands, m \in Names : ~ Persisting(d)' => Clean(d, m)'
  BY DEF Clean, Persisting, Is
<1> QED
  BY <1>1, <1>2, <1>3, <1>4, <1>5, <1>6, <1>7, <1>8, <1>9

LEMMA RenamesOwn ==
    ASSUME FilesType, OwnFiles, NEW c \in Commands, NEW n \in Names, Renames(c, n)
    PROVE  OwnFiles'
<1>1. cur \in Names /\ lkg \in Names /\ (n = cur \/ n = lkg) /\ cur # lkg
      /\ \A m \in Names : m = cur \/ m = lkg
  BY DEF Names, cur, lkg
<1>2. /\ temp[n] # 0 /\ at'[n] = temp[n] /\ temp'[n] = 0
      /\ \A m \in Names : m # n => at'[m] = at[m] /\ temp'[m] = temp[m]
  BY DEF Renames
<1>3. /\ at'[cur] # at'[lkg]
      /\ temp'[cur] = temp'[lkg] => temp'[cur] = 0
      /\ \A j, m \in Names : at'[j] # temp'[m]
  <2>1. at[cur] # 0 /\ at[lkg] # 0
    BY <1>1, NoZeroInode DEF FilesType
  <2>2. /\ at[cur] # at[lkg]
        /\ temp[cur] = temp[lkg] => temp[cur] = 0
        /\ \A j, m \in Names : at[j] # temp[m]
    BY DEF OwnFiles
  <2>3. CASE n = cur
    BY <1>1, <1>2, <2>1, <2>2, <2>3
  <2>4. CASE n = lkg
    BY <1>1, <1>2, <2>1, <2>2, <2>4
  <2> QED
    BY <1>1, <2>3, <2>4
<1>4. ASSUME NEW q \in Commands PROVE (fd'[q] # 0) <=> (step'[q][1] = "write")
  <2>1. CASE q = c
    BY <2>1 DEF Renames, Persisting, Is
  <2>2. CASE q # c
    <3>1. step'[q] = step[q] /\ fd'[q] = fd[q]
      BY <2>2 DEF Renames
    <3> QED
      BY <3>1 DEF OwnFiles
  <2> QED
    BY <2>1, <2>2
<1>5. ASSUME NEW q \in Commands, NEW j \in Names, NEW m \in Names, Is(q, "write", j)', j # m
      PROVE  fd'[q] \notin {at'[m], temp'[m]}
  <2>1. Is(q, "write", j) /\ fd'[q] = fd[q]
    BY <1>5, RenamesKeeps DEF Renames
  <2>2. fd[q] \notin {at[m], temp[m]} /\ fd[q] # 0
    BY <1>5, <2>1 DEF OwnFiles, Is
  <2> QED
    BY <1>2, <2>1, <2>2
<1>6. \A q, r \in Commands :
         Is(q, "write", cur)' /\ Is(r, "write", lkg)' => fd'[q] # fd'[r]
  BY <1>1, RenamesKeeps DEF Renames, OwnFiles
<1> QED
  BY <1>3, <1>4, <1>5, <1>6 DEF OwnFiles

LEMMA RenamesUncrossed ==
    ASSUME FilesType, OwnFiles, Uncrossed,
           NEW c \in Commands, NEW n \in Names, Renames(c, n)
    PROVE  Uncrossed'
<1>1. \A d \in Commands : d # c => ~ Persisting(d)
  BY RenamesKeeps DEF Uncrossed
<1>2. Intact(n)'
  <2>1. Clean(c, n) /\ Is(c, "replace", n) /\ fd[c] = 0 /\ temp[n] # 0
    BY DEF Uncrossed, Renames
  <2>2. bytes[temp[n]] = Whole
    BY <2>1 DEF Clean
  <2>3. \A d \in Commands : fd[d] # temp[n]
    <3>1. \A d \in Commands : d # c => fd[d] = 0
      BY <1>1 DEF OwnFiles, Persisting
    <3> QED
      BY <2>1, <3>1
  <2> QED
    BY <2>2, <2>3, RenamesKeeps
<1>3. \A m \in Names : Intact(m)'
  BY <1>2, RenamesKeeps DEF Uncrossed
<1>4. \A d \in Commands, m \in Names : Clean(d, m)'
  BY <1>1, RenamesKeeps
<1> QED
  BY <1>1, <1>3, <1>4, RenamesKeeps DEF Uncrossed

LEMMA RenamesCrossed ==
    ASSUME FilesType, OwnFiles, CrossedOnce,
           NEW c \in Commands, NEW n \in Names, Renames(c, n)
    PROVE  CrossedOnce' /\ (Guarded => Guarded')
<1>1. /\ Is(c, "replace", n) /\ fd[c] = 0 /\ fd' = fd /\ bytes' = bytes /\ filled' = filled
      /\ temp[n] # 0 /\ at'[n] = temp[n] /\ temp'[n] = 0
      /\ \A m \in Names : m # n => at'[m] = at[m] /\ temp'[m] = temp[m]
      /\ \A d \in Commands : d # c => step'[d] = step[d]
      /\ ~ Persisting(c)' \/ n = cur
  BY DEF Renames
<1>2. Persisting(c)
  BY RenamesKeeps
<1>3. cur \in Names /\ lkg \in Names /\ cur # lkg /\ (n = cur \/ n = lkg)
  BY DEF Names, cur, lkg
<1>4. AtMostTwo'
  BY RenamesKeeps DEF CrossedOnce, AtMostTwo
<1>5. ASSUME NEW d \in Commands, d # c, Persisting(d), n = cur
      PROVE  Intact(lkg) /\ Clean(d, lkg)
  <2>1. Early(c) /\ ~ Single(c)
    BY <1>1, <1>5 DEF Early, Single
  <2> QED
    BY <1>5, <2>1 DEF CrossedOnce, EarlySafe
<1>6. ASSUME NEW d \in Commands, Is(d, "write", n)
      PROVE  /\ d # c /\ Persisting(d)
             /\ \A e \in Commands : Is(e, "open", n)' => FALSE
  <2>1. d # c /\ Persisting(d)
    BY <1>1, <1>6 DEF Is, Persisting
  <2>2. ASSUME NEW e \in Commands, Is(e, "open", n)' PROVE FALSE
    <3>1. e # c /\ Is(e, "open", n)
      BY <1>3, <2>2, RenamesKeeps
    <3>2. Persisting(e) /\ e # d
      BY <1>6, <3>1 DEF Is, Persisting
    <3> QED
      BY <1>2, <2>1, <3>1, <3>2 DEF CrossedOnce, AtMostTwo
  <2> QED
    BY <2>1, <2>2
<1>7. RenamedOpen'
  <2> SUFFICES ASSUME NEW q \in Commands, NEW m \in Names,
                      Is(q, "write", m)', fd'[q] # temp'[m]
               PROVE  NobodyOpens(m)'
    BY DEF RenamedOpen
  <2>1. q # c /\ Is(q, "write", m) /\ Persisting(q)
    BY RenamesKeeps DEF Persisting, Is
  <2>2. CASE m = n
    BY <1>1, <1>6, <2>1, <2>2 DEF NobodyOpens
  <2>3. CASE m # n
    <3>1. NobodyOpens(m) /\ temp'[m] = temp[m] /\ fd[q] # temp[m]
      BY <1>1, <2>1, <2>3 DEF CrossedOnce, RenamedOpen
    <3>2. ~ (n = cur /\ m = lkg)
      BY <1>5, <2>1, <3>1 DEF Clean
    <3> QED
      BY <3>1, <3>2, RenamesKeeps DEF NobodyOpens
  <2> QED
    BY <2>2, <2>3
<1>8. EarlySafe'
  <2> SUFFICES ASSUME NEW q \in Commands, Early(q)'
               PROVE  /\ Intact(lkg)'
                      /\ \A r \in Commands : r # q => Clean(r, lkg)'
    BY DEF EarlySafe
  <2>1. q # c /\ Early(q) /\ Persisting(q)
    <3>1. q # c /\ Early(q)
      BY <1>3, RenamesKeeps DEF Early
    <3> QED
      BY <3>1 DEF Early, Persisting, Is
  <2>2. ~ Single(q)
    BY <1>2, <2>1 DEF Single
  <2>3. Intact(lkg) /\ Clean(c, lkg)
    BY <2>1, <2>2 DEF CrossedOnce, EarlySafe
  <2>4. \A r \in Commands : r # q /\ r # c => ~ Persisting(r)
    BY <1>2, <2>1 DEF CrossedOnce, AtMostTwo
  <2>5. \A r \in Commands : r # q => Clean(r, lkg)'
    BY <1>3, <2>4, RenamesKeeps
  <2>6. CASE n = cur
    BY <1>3, <2>3, <2>5, <2>6, RenamesKeeps
  <2>7. CASE n = lkg
    <3>1. bytes[temp[lkg]] = Whole
      BY <1>1, <2>3, <2>7 DEF Clean
    <3>2. ASSUME NEW d \in Commands PROVE fd[d] # temp[lkg]
      <4>1. CASE Is(d, "write", cur)
        BY <1>3, <4>1 DEF OwnFiles
      <4>2. CASE fd[d] = 0
        BY <1>1, <2>7, <4>2
      <4>3. CASE fd[d] # 0
        <5>1. Persisting(d) /\ d # c
          BY <1>1, <4>3 DEF OwnFiles, Persisting
        <5>2. d = q
          BY <2>4, <5>1
        <5>3. Is(d, "write", cur)
          BY <2>1, <4>3, <5>2 DEF Early, OwnFiles, Is
        <5> QED
          BY <4>1, <5>3
      <4> QED
        BY <4>2, <4>3
    <3>3. Intact(lkg)'
      BY <2>7, <3>1, <3>2, RenamesKeeps
    <3> QED
      BY <2>5, <3>3
  <2> QED
    BY <1>3, <2>6, <2>7
<1>9. RuinedByOther'
  <2> SUFFICES ASSUME NEW r \in Commands, NEW q \in Commands, Ruinous(r)', r # q
               PROVE  Past(q)'
    BY DEF RuinedByOther
  <2>1. r # c /\ Persisting(r)
    BY <1>3, RenamesKeeps DEF Ruinous, Persisting, Is
  <2>2. CASE q # c
    <3>1. ~ Persisting(q)
      BY <1>2, <2>1, <2>2 DEF CrossedOnce, AtMostTwo
    <3> QED
      BY <3>1, RenamesKeeps DEF Past
  <2>3. CASE q = c /\ n = cur
    <3>1. Is(r, "write", cur)' => fd'[r] # 0
      BY RenamesOwn DEF OwnFiles, Is
    <3> QED
      BY <1>1, <2>3, <3>1 DEF Ruinous
  <2>4. CASE q = c /\ n = lkg
    BY <1>1, <1>3, <2>4 DEF Past
  <2> QED
    BY <1>3, <2>2, <2>3, <2>4
<1>10. ASSUME NEW d \in Commands, d # c, Doomed(d) PROVE Doomed(d)'
  <2>1. CASE ~ Persisting(d)
    BY <2>1, RenamesKeeps DEF Doomed
  <2>2. CASE (Is(d, "write", cur) \/ Is(d, "replace", cur)) /\ NobodyOpens(cur)
    <3>1. NobodyOpens(cur)'
      <4>1. n # cur
        BY <1>1, <2>2 DEF NobodyOpens
      <4> QED
        BY <1>1, <1>3, <2>2, <4>1, RenamesKeeps DEF NobodyOpens
    <3>2. Is(d, "write", cur)' \/ Is(d, "replace", cur)'
      BY <1>1, <1>10, <2>2 DEF Is
    <3> QED
      BY <3>1, <3>2 DEF Doomed
  <2> QED
    BY <1>10, <2>1, <2>2 DEF Doomed
<1>11. ASSUME Guarded PROVE Guarded'
  <2>1. PICK q \in Commands : Clean(q, lkg) /\ \A r \in Commands : r # q => Doomed(r)
    BY <1>11 DEF Guarded
  <2>2. q = c
    BY <1>1, <1>2, <2>1 DEF Doomed, NobodyOpens, Is
  <2>3. Intact(lkg)'
    <3>1. CASE n = cur
      BY <1>3, <1>11, <3>1, RenamesKeeps DEF Guarded
    <3>2. CASE n = lkg
      <4>1. bytes[temp[lkg]] = Whole
        BY <1>1, <2>1, <2>2, <3>2 DEF Clean
      <4>2. ASSUME NEW d \in Commands PROVE fd[d] # temp[lkg]
        <5>1. CASE fd[d] = 0
          BY <1>1, <3>2, <5>1
        <5>2. CASE fd[d] # 0
          <6>1. d # c /\ step[d][1] = "write" /\ Persisting(d)
            BY <1>1, <5>2 DEF OwnFiles, Persisting
          <6>2. Is(d, "write", cur)
            BY <2>1, <2>2, <6>1 DEF Doomed, Is
          <6> QED
            BY <1>3, <6>2 DEF OwnFiles
        <5> QED
          BY <5>1, <5>2
      <4> QED
        BY <3>2, <4>1, <4>2, RenamesKeeps
    <3> QED
      BY <1>3, <3>1, <3>2
  <2> QED
    BY <1>3, <1>10, <2>1, <2>2, <2>3, RenamesKeeps DEF Guarded
<1>12. RuinGuarded'
  <2>1. CASE n = lkg
    BY <1>3, <1>11, <2>1, RenamesKeeps DEF CrossedOnce, RuinGuarded
  <2>2. CASE n = cur /\ bytes[temp[cur]] = Whole /\ \A d \in Commands : fd[d] # temp[cur]
    BY <2>2, RenamesKeeps DEF RuinGuarded
  <2>3. CASE n = cur /\ Single(c) /\ Intact(cur) /\ Clean(c, cur)
    <3>1. bytes[temp[cur]] = Whole
      BY <1>1, <2>3 DEF Clean
    <3>2. \A d \in Commands : fd[d] # temp[cur]
      <4>1. \A d \in Commands : fd[d] # 0 => d = c
        BY <2>3 DEF Single, OwnFiles, Persisting
      <4> QED
        BY <1>1, <2>3, <4>1
    <3> QED
      BY <2>2, <2>3, <3>1, <3>2
  <2>4. CASE n = cur /\ Intact(lkg)
             /\ ~ (bytes[temp[cur]] = Whole /\ \A d \in Commands : fd[d] # temp[cur])
    <3>1. ASSUME NEW d \in Commands, d # c PROVE Doomed(d)'
      <4>1. CASE ~ Persisting(d)
        BY <4>1, RenamesKeeps DEF Doomed
      <4>2. CASE Persisting(d)
        <5>1. \A e \in Commands : Persisting(e) => e = c \/ e = d
          BY <1>2, <3>1, <4>2 DEF CrossedOnce, AtMostTwo
        <5>2. Is(d, "write", cur) \/ Is(d, "replace", cur)
          <6>1. CASE bytes[temp[cur]] # Whole
            <7>1. Ruinous(c)
              BY <1>1, <2>4, <6>1 DEF Ruinous
            <7> QED
              BY <3>1, <4>2, <7>1 DEF CrossedOnce, RuinedByOther, Past
          <6>2. ASSUME NEW e \in Commands, fd[e] = temp[cur] PROVE Is(d, "write", cur)
            <7>1. fd[e] # 0 /\ e # c
              BY <1>1, <2>4, <6>2
            <7>2. PICK m \in Names : Is(e, "write", m)
              BY <7>1, WhoPersists
            <7>3. m = cur
              BY <1>3, <6>2, <7>2 DEF OwnFiles
            <7>4. e = d
              BY <5>1, <7>1, <7>2 DEF Persisting, Is
            <7> QED
              BY <7>2, <7>3, <7>4
          <6> QED
            BY <2>4, <6>1, <6>2
        <5>3. \A e \in Commands : ~ Is(e, "open", cur)'
          <6> SUFFICES ASSUME NEW e \in Commands, Is(e, "open", cur)' PROVE FALSE
            OBVIOUS
          <6>1. e # c /\ Is(e, "open", cur)
            BY <1>3, RenamesKeeps
          <6>2. e = d
            BY <5>1, <6>1 DEF Persisting, Is
          <6> QED
            BY <5>2, <6>1, <6>2 DEF Is
        <5>4. NobodyOpens(cur)'
          BY <1>1, <2>4, <5>3 DEF NobodyOpens
        <5>5. Is(d, "write", cur)' \/ Is(d, "replace", cur)'
          BY <1>1, <3>1, <5>2 DEF Is
        <5> QED
          BY <5>4, <5>5 DEF Doomed
      <4> QED
        BY <4>1, <4>2
    <3>2. Clean(c, lkg)' /\ Intact(lkg)'
      BY <1>3, <2>4, RenamesKeeps
    <3> QED
      BY <3>1, <3>2 DEF RuinGuarded, Guarded
  <2>5. n = cur => Intact(lkg) \/ (Single(c) /\ Intact(cur) /\ Clean(c, cur))
    BY <1>1 DEF CrossedOnce, EarlySafe, Early
  <2> QED
    BY <1>3, <2>1, <2>2, <2>3, <2>4, <2>5
<1> QED
  BY <1>4, <1>7, <1>8, <1>9, <1>11, <1>12 DEF CrossedOnce

-----------------------------------------------------------------------------
(* Coming to persist: on its own, or beside one that already does.         *)
LEMMA PersistFacts ==
    ASSUME FilesType, OwnFiles, NEW c \in Commands, Persist(c)
    PROVE  /\ FilesType' /\ OwnFiles' /\ at' = at /\ temp' = temp
           /\ bytes' = bytes /\ filled' = filled /\ fd' = fd
           /\ ~ Persisting(c) /\ Is(c, "open", cur)'
           /\ \A d \in Commands : d # c => step'[d] = step[d]
<1>1. /\ step[c][1] = "resolved" /\ step' = [step EXCEPT ![c] = <<"open", "current">>]
      /\ at' = at /\ temp' = temp /\ bytes' = bytes /\ filled' = filled /\ fd' = fd
  BY DEF Persist, Goes, fileVars
<1>2. step'[c] = <<"open", "current">> /\ \A d \in Commands : d # c => step'[d] = step[d]
  BY <1>1 DEF FilesType
<1>3. FilesType'
  <2>1. step' \in [Commands -> Phases \X Names]
    BY <1>1 DEF FilesType, Phases, Names
  <2> QED
    BY <1>1, <2>1 DEF FilesType
<1>4. ~ Persisting(c) /\ Is(c, "open", cur)'
  BY <1>1, <1>2 DEF Persisting, Is, cur
<1>5. OwnFiles'
  <2>1. fd[c] = 0 /\ fd'[c] = 0 /\ step'[c][1] # "write" /\ Others(c)
    <3>1. fd[c] = 0
      BY <1>4 DEF OwnFiles, Persisting
    <3>2. step'[c][1] # "write"
      BY <1>2
    <3> QED
      BY <1>1, <1>2, <3>1, <3>2 DEF Others
  <2> QED
    BY <1>1, <2>1, ClosesOwn
<1> QED
  BY <1>1, <1>2, <1>3, <1>4, <1>5

LEMMA PersistAlone ==
    ASSUME FilesType, OwnFiles, NEW c \in Commands, Persist(c),
           \A d \in Commands : ~ Persisting(d)
    PROVE  FilesKept
<1>1. /\ FilesType' /\ OwnFiles' /\ at' = at /\ temp' = temp
      /\ bytes' = bytes /\ filled' = filled /\ fd' = fd
      /\ Is(c, "open", cur)'
      /\ \A d \in Commands : d # c => step'[d] = step[d]
  BY PersistFacts
<1>2. \A d \in Commands : Persisting(d)' => d = c
  BY <1>1 DEF Persisting
<1>3. \A d \in Commands, m \in Names : Clean(d, m)'
  BY <1>1, <1>2 DEF Clean, Is, Persisting
<1>4. \A m \in Names : Intact(m) => Intact(m)'
  BY <1>1 DEF Intact
<1>5. Uncrossed => Uncrossed'
  BY <1>2, <1>3, <1>4 DEF Uncrossed
<1>6. cur \in Names /\ lkg \in Names
  BY DEF Names, cur, lkg
<1>7. Guarded => Guarded'
  BY <1>2, <1>3, <1>4, <1>6 DEF Guarded, Doomed
<1>8. ASSUME CrossedOnce PROVE CrossedOnce'
  <2>1. AtMostTwo' /\ RenamedOpen' /\ RuinedByOther'
    <3>1. \A d \in Commands : \A m : ~ Is(d, "write", m)' /\ ~ Is(d, "replace", m)'
      BY <1>1, <1>2 DEF Is, Persisting
    <3> QED
      BY <1>2, <3>1 DEF AtMostTwo, RenamedOpen, RuinedByOther, Ruinous
  <2>2. EarlySafe'
    <3> SUFFICES ASSUME NEW q \in Commands, Early(q)'
                 PROVE  \/ /\ Intact(lkg)'
                           /\ \A r \in Commands : r # q => Clean(r, lkg)'
                        \/ Intact(cur)' /\ Clean(q, cur)' /\ Single(q)'
      BY DEF EarlySafe
    <3>1. Single(q)'
      BY <1>2 DEF Early, Single, Persisting, Is
    <3>2. Intact(cur) \/ Intact(lkg)
      BY <1>8 DEF CrossedOnce, RuinGuarded, Guarded
    <3> QED
      BY <1>3, <1>4, <1>6, <3>1, <3>2
  <2>3. RuinGuarded'
    BY <1>4, <1>6, <1>7, <1>8 DEF CrossedOnce, RuinGuarded
  <2> QED
    BY <2>1, <2>2, <2>3 DEF CrossedOnce
<1> QED
  BY <1>1, <1>5, <1>7, <1>8 DEF FilesKept

LEMMA PersistBeside ==
    ASSUME FilesType, OwnFiles, Uncrossed, NEW c \in Commands, Persist(c)
    PROVE  CrossedOnce'
<1>1. /\ at' = at /\ temp' = temp
      /\ bytes' = bytes /\ filled' = filled /\ fd' = fd
      /\ ~ Persisting(c) /\ Is(c, "open", cur)'
      /\ \A d \in Commands : d # c => step'[d] = step[d]
  BY PersistFacts
<1>2. cur \in Names /\ lkg \in Names
  BY DEF Names, cur, lkg
<1>3. \A d, e \in Commands : Persisting(d)' /\ Persisting(e)' /\ d # c /\ e # c => d = e
  BY <1>1 DEF Uncrossed, Persisting
<1>4. AtMostTwo'
  BY <1>3 DEF AtMostTwo
<1>5. ASSUME NEW d \in Commands, NEW h \in {"write", "replace"}, NEW m, Is(d, h, m)'
      PROVE  Is(d, h, m)
  <2>1. d # c
    BY <1>1, <1>5 DEF Is
  <2> QED
    BY <1>1, <1>5, <2>1 DEF Is
<1>6. \A d \in Commands, m \in Names : Clean(d, m)'
  BY <1>1, <1>5 DEF Uncrossed, Clean
<1>7. \A m \in Names : Intact(m)'
  BY <1>1 DEF Uncrossed, Intact
<1>8. RenamedOpen' /\ RuinedByOther'
  BY <1>2, <1>6 DEF RenamedOpen, RuinedByOther, Ruinous, Clean
<1>9. EarlySafe' /\ RuinGuarded'
  BY <1>2, <1>6, <1>7 DEF EarlySafe, RuinGuarded
<1> QED
  BY <1>4, <1>8, <1>9 DEF CrossedOnce

-----------------------------------------------------------------------------
(* A step of a command that does not persist, before and after.            *)
Aside(c) ==
    /\ UNCHANGED fileVars
    /\ \A d \in Commands : d # c => step'[d] = step[d]
    /\ ~ Persisting(c) /\ ~ Persisting(c)'

LEMMA AsideFiles ==
    ASSUME FilesType', OwnFiles, NEW c \in Commands, Aside(c)
    PROVE  FilesKept
<1>1. /\ at' = at /\ temp' = temp /\ bytes' = bytes /\ filled' = filled /\ fd' = fd
      /\ \A d \in Commands : d # c => step'[d] = step[d]
      /\ ~ Persisting(c) /\ ~ Persisting(c)'
  BY DEF Aside, fileVars
<1>2. \A d \in Commands : Persisting(d)' <=> Persisting(d)
  BY <1>1 DEF Persisting
<1>3. \A d \in Commands, h \in {"open", "write", "replace"} : \A m :
         Is(d, h, m)' <=> Is(d, h, m)
  <2> SUFFICES ASSUME NEW d \in Commands, NEW h \in {"open", "write", "replace"}, NEW m
               PROVE  Is(d, h, m)' <=> Is(d, h, m)
    OBVIOUS
  <2>1. CASE d = c
    BY <1>1, <2>1 DEF Is, Persisting
  <2>2. CASE d # c
    BY <1>1, <2>2 DEF Is
  <2> QED
    BY <2>1, <2>2
<1>4. OwnFiles'
  <2>1. fd'[c] = 0 /\ step'[c][1] # "write" /\ Others(c)
    <3>1. fd[c] = 0
      BY <1>1 DEF OwnFiles, Persisting
    <3>2. step'[c][1] # "write"
      BY <1>1 DEF Persisting
    <3> QED
      BY <1>1, <3>1, <3>2 DEF Others
  <2> QED
    BY <1>1, <2>1, ClosesOwn
<1>5. \A d \in Commands, m \in Names : Clean(d, m)' <=> Clean(d, m)
  BY <1>1, <1>3 DEF Clean
<1>6. \A m \in Names : (Intact(m)' <=> Intact(m)) /\ (NobodyOpens(m)' <=> NobodyOpens(m))
  BY <1>1, <1>3 DEF Intact, NobodyOpens
<1>7. cur \in Names /\ lkg \in Names
  BY DEF Names, cur, lkg
<1>8. Uncrossed => Uncrossed'
  BY <1>2, <1>5, <1>6 DEF Uncrossed
<1>9. Guarded' <=> Guarded
  BY <1>2, <1>3, <1>5, <1>6, <1>7 DEF Guarded, Doomed
<1>10. ASSUME CrossedOnce PROVE CrossedOnce'
  <2>1. AtMostTwo'
    BY <1>2, <1>10 DEF CrossedOnce, AtMostTwo
  <2>2. RenamedOpen'
    BY <1>1, <1>3, <1>6, <1>10 DEF CrossedOnce, RenamedOpen
  <2>3. EarlySafe'
    <3>1. \A d \in Commands : (Early(d)' <=> Early(d)) /\ (Single(d)' <=> Single(d))
      BY <1>2, <1>3 DEF Early, Single
    <3> QED
      BY <1>5, <1>6, <1>7, <1>10, <3>1 DEF CrossedOnce, EarlySafe
  <2>4. RuinedByOther'
    <3>1. \A d \in Commands : (Ruinous(d)' <=> Ruinous(d)) /\ (Past(d)' <=> Past(d))
      BY <1>1, <1>2, <1>3 DEF Ruinous, Past
    <3> QED
      BY <1>10, <3>1 DEF CrossedOnce, RuinedByOther
  <2>5. RuinGuarded'
    BY <1>6, <1>7, <1>9, <1>10 DEF CrossedOnce, RuinGuarded
  <2> QED
    BY <2>1, <2>2, <2>3, <2>4, <2>5 DEF CrossedOnce
<1> QED
  BY <1>4, <1>8, <1>9, <1>10 DEF FilesKept

(* Files that are whole, with nobody about to change them, start anew.     *)
LEMMA SoundUncrossed ==
    ASSUME FilesType', OwnFiles', Sound' PROVE Uncrossed'
<1>1. \A c \in Commands : ~ Persisting(c)'
  BY DEF Sound
<1>2. \A c \in Commands : fd'[c] = 0 /\ step'[c][1] \notin {"open", "write", "replace"}
  BY <1>1 DEF OwnFiles, Persisting
<1>3. \A n \in Names : at'[n] # 0
  BY NoZeroInode DEF FilesType
<1>4. \A n \in Names : Intact(n)'
  BY <1>2, <1>3 DEF Sound, Intact
<1>5. \A c \in Commands, n \in Names : Clean(c, n)'
  BY <1>2 DEF Clean, Is
<1> QED
  BY <1>1, <1>4, <1>5 DEF Uncrossed

LEMMA UncrossedToo ==
    ASSUME Uncrossed' PROVE CrossedOnce'
<1>1. cur \in Names /\ lkg \in Names
  BY DEF Names, cur, lkg
<1>2. AtMostTwo'
  BY DEF Uncrossed, AtMostTwo
<1>3. RenamedOpen' /\ RuinedByOther'
  BY <1>1 DEF Uncrossed, RenamedOpen, RuinedByOther, Ruinous, Clean
<1>4. EarlySafe' /\ RuinGuarded'
  BY <1>1 DEF Uncrossed, EarlySafe, RuinGuarded
<1> QED
  BY <1>2, <1>3, <1>4 DEF CrossedOnce

-----------------------------------------------------------------------------
LEMMA FilesStay ==
    ASSUME SettingsType, FilesOK, FilesKept,
           crossings' = crossings \/ (crossings' = 0 /\ Sound')
    PROVE  FilesOK'
<1>1. CASE crossings' = crossings
  BY <1>1 DEF FilesOK, FilesKept
<1>2. CASE crossings' = 0 /\ Sound'
  <2>1. Uncrossed'
    BY <1>2, SoundUncrossed DEF FilesKept
  <2>2. CrossedOnce'
    BY <2>1, UncrossedToo
  <2> QED
    BY <2>1, <2>2 DEF FilesOK, FilesKept
<1> QED
  BY <1>1, <1>2

(* A step of c that keeps the files and what has been seen.                *)
LEMMA LoadsKept ==
    ASSUME SettingsInv, FilesKept, NEW c \in Commands, step[c][1] # "idle",
           \A d \in Commands : d # c => step'[d] = step[d],
           seen' = seen, crossings' \in Nat, crossings' <= crossings,
           step'[c][1] = "raised" => seen[c] >= 1,
           step'[c][1] = "nothing" => seen[c] >= 2,
           Is(c, "load", lkg)' /\ seen[c] <= 1 => seen[c] = 1 /\ Guarded
    PROVE  LoadsOK' /\ SettingsReadable'
<1>1. ASSUME NEW d \in Commands, step'[d][1] # "idle" PROVE seen'[d] >= crossings'
  <2>1. step[d][1] # "idle"
    BY <1>1
  <2>2. seen[d] >= crossings /\ seen[d] \in Nat /\ crossings \in Nat
    BY <2>1 DEF SettingsInv, SettingsType, LoadsOK
  <2> QED
    BY <2>2
<1>2. ASSUME NEW d \in Commands, Is(d, "load", lkg)', seen'[d] <= 1
      PROVE  seen'[d] = 1 /\ Guarded'
  <2>1. seen[d] = 1 /\ Guarded
    <3>1. CASE d = c
      BY <1>2, <3>1
    <3>2. CASE d # c
      BY <1>2, <3>2 DEF SettingsInv, LoadsOK, Is
    <3> QED
      BY <3>1, <3>2
  <2>2. step[d][1] # "idle"
    BY <1>2 DEF Is
  <2>3. crossings <= 1
    <3>1. seen[d] >= crossings /\ crossings \in Nat
      BY <2>2 DEF SettingsInv, SettingsType, LoadsOK
    <3> QED
      BY <2>1, <3>1
  <2> QED
    BY <2>1, <2>3 DEF FilesKept, SettingsInv, FilesOK
<1>3. SettingsReadable'
  BY DEF SettingsInv, SettingsReadable
<1> QED
  BY <1>1, <1>2, <1>3 DEF LoadsOK

LEMMA WorkStep ==
    ASSUME SettingsInv, NEW c \in Commands,
           KillPersist(c) \/ \E n \in Names : Open(c, n) \/ Write(c, n) \/ Replace(c, n)
    PROVE  SettingsInv'
<1>1. FilesType /\ OwnFiles /\ SettingsType /\ FilesOK
  BY DEF SettingsInv, SettingsType, FilesOK
<1>2. CASE \E n \in Names : Open(c, n)
  <2>1. PICK n \in Names : Open(c, n)
    BY <1>2
  <2>2. PICK i : Opens(c, n, i)
    BY <1>1, <2>1, OpenFacts
  <2>3. FilesKept
    BY <1>1, <2>1, <2>2, OpenFacts, OpensOwn, OpensUncrossed, OpensCrossed DEF FilesKept
  <2>4. /\ step[c][1] = "open" /\ step'[c][1] = "write"
        /\ \A d \in Commands : d # c => step'[d] = step[d]
    BY <2>2 DEF Opens, Others, Is
  <2>5. seen' = seen /\ crossings' = crossings
    BY <2>1 DEF Open
  <2>6. SettingsType' /\ FilesOK'
    BY <1>1, <2>3, <2>5, FilesStay DEF SettingsType, FilesKept
  <2>7. LoadsOK' /\ SettingsReadable'
    BY <1>1, <2>3, <2>4, <2>5, LoadsKept DEF SettingsType, Is
  <2> QED
    BY <2>6, <2>7 DEF SettingsInv
<1>3. CASE \E n \in Names : Write(c, n)
  <2>1. PICK n \in Names : Write(c, n)
    BY <1>3
  <2>2. PICK b : Writes(c, n, b)
    BY <1>1, <2>1, WriteFacts
  <2>3. FilesKept
    <3>1. OwnFiles'
      <4>1. step'[c][1] # "write"
        BY <2>2 DEF Writes, Is
      <4> QED
        BY <1>1, <2>2, <4>1, ClosesOwn DEF Writes
    <3> QED
      BY <1>1, <2>1, <2>2, <3>1, WriteFacts, WritesUncrossed, WritesCrossed DEF FilesKept
  <2>4. /\ step[c][1] = "write" /\ step'[c][1] = "replace"
        /\ \A d \in Commands : d # c => step'[d] = step[d]
    BY <2>2 DEF Writes, Others, Is
  <2>5. seen' = seen /\ crossings' = crossings
    BY <2>1 DEF Write
  <2>6. SettingsType' /\ FilesOK'
    BY <1>1, <2>3, <2>5, FilesStay DEF SettingsType, FilesKept
  <2>7. LoadsOK' /\ SettingsReadable'
    BY <1>1, <2>3, <2>4, <2>5, LoadsKept DEF SettingsType, Is
  <2> QED
    BY <2>6, <2>7 DEF SettingsInv
<1>4. CASE KillPersist(c) \/ \E n \in Names : Replace(c, n)
  <2>1. /\ seen' = seen
        /\ crossings' = crossings \/ (crossings' = 0 /\ Sound')
    BY <1>4 DEF KillPersist, Replace, Recount
  <2>2. FilesKept /\ \A d \in Commands : d # c => step'[d] = step[d]
    <3>1. ASSUME Ends(c), FilesType'
          PROVE  FilesKept /\ \A d \in Commands : d # c => step'[d] = step[d]
      <4>1. FilesKept
        BY <1>1, <3>1, EndsKeeps, EndsFiles DEF FilesKept
      <4> QED
        BY <3>1, <4>1 DEF Ends, Others
    <3>2. ASSUME NEW n \in Names, Renames(c, n), FilesType'
          PROVE  FilesKept /\ \A d \in Commands : d # c => step'[d] = step[d]
      <4>1. FilesKept
        BY <1>1, <3>2, RenamesOwn, RenamesUncrossed, RenamesCrossed DEF FilesKept
      <4> QED
        BY <3>2, <4>1 DEF Renames
    <3>3. CASE KillPersist(c)
      BY <1>1, <3>1, <3>3, KillFacts
    <3>4. ASSUME NEW n \in Names, Replace(c, n)
          PROVE  FilesKept /\ \A d \in Commands : d # c => step'[d] = step[d]
      BY <1>1, <3>1, <3>2, <3>4, ReplaceFacts
    <3> QED
      BY <1>4, <3>3, <3>4
  <2>3. step[c][1] # "idle" /\ step'[c][1] \in {"idle", "open", "report"}
    <3>1. CASE KillPersist(c)
      BY <1>1, <3>1 DEF KillPersist, Goes, Persisting, FilesType
    <3>2. ASSUME NEW n \in Names, Replace(c, n)
          PROVE  step[c][1] # "idle" /\ step'[c][1] \in {"idle", "open", "report"}
      <4>1. step[c] = <<"replace", n>>
        BY <3>2 DEF Replace
      <4>2. PICK s : step' = [step EXCEPT ![c] = s] /\ s[1] \in {"idle", "open", "report"}
        <5>1. CASE \E s \in After(n) : Goes(c, s)
          <6>1. PICK s \in After(n) : Goes(c, s)
            BY <5>1
          <6>2. s[1] = "report" \/ (n = cur /\ s[1] = "open" /\ s[2] = lkg)
            BY AfterSteps
          <6> QED
            BY <6>1, <6>2 DEF Goes
        <5>2. CASE Goes(c, <<"idle", "current">>)
          <6>1. \A m : <<"idle", m>>[1] = "idle"
            OBVIOUS
          <6> QED
            BY <5>2, <6>1 DEF Goes
        <5> QED
          BY <3>2, <5>1, <5>2 DEF Replace
      <4>3. step'[c] = s
        BY <1>1, <4>2 DEF FilesType
      <4> QED
        BY <4>1, <4>2, <4>3
    <3> QED
      BY <1>4, <3>1, <3>2
  <2>4. crossings' \in Nat /\ crossings' <= crossings
    BY <1>1, <2>1 DEF SettingsType
  <2>5. SettingsType' /\ FilesOK'
    BY <1>1, <2>1, <2>2, <2>4, FilesStay DEF SettingsType, FilesKept
  <2>6. LoadsOK' /\ SettingsReadable'
    BY <2>1, <2>2, <2>3, <2>4, LoadsKept DEF Is
  <2> QED
    BY <2>5, <2>6 DEF SettingsInv
<1> QED
  BY <1>2, <1>3, <1>4

(* What a load may find.                                                   *)
LEMMA ReadsWhole ==
    ASSUME NEW n, Intact(n) PROVE Readings(n) = {Whole}
BY DEF Readings, Intact

LEMMA ReadsSafely ==
    ASSUME SettingsInv, NEW c \in Commands, NEW n \in Names, NEW b \in Readings(n),
           b # Whole, step[c][1] # "idle"
    PROVE  /\ seen[c] >= 1
           /\ n = cur /\ seen[c] <= 1 => seen[c] = 1 /\ Guarded
           /\ Is(c, "load", lkg) /\ n = lkg => seen[c] >= 2
<1>1. ~ Intact(n)
  BY ReadsWhole
<1>2. seen[c] \in Nat /\ crossings \in Nat /\ seen[c] >= crossings
  BY DEF SettingsInv, SettingsType, LoadsOK
<1>3. crossings # 0
  BY <1>1 DEF SettingsInv, FilesOK, Uncrossed
<1>4. seen[c] >= 1
  BY <1>2, <1>3
<1>5. ASSUME n = cur, seen[c] <= 1 PROVE seen[c] = 1 /\ Guarded
  <2>1. seen[c] = 1 /\ crossings <= 1
    BY <1>2, <1>4, <1>5
  <2> QED
    BY <1>1, <1>5, <2>1 DEF SettingsInv, FilesOK, CrossedOnce, RuinGuarded
<1>6. ASSUME Is(c, "load", lkg), n = lkg PROVE seen[c] >= 2
  <2>1. ~ Guarded
    BY <1>1, <1>6 DEF Guarded
  <2>2. ~ (seen[c] <= 1)
    BY <1>6, <2>1 DEF SettingsInv, LoadsOK
  <2> QED
    BY <1>2, <2>2
<1> QED
  BY <1>4, <1>5, <1>6

(* The steps of a command that resolves the settings or reports on them.   *)
Looks(c, s) ==
    /\ Goes(c, s) /\ UNCHANGED <<fileVars, crossings>>
    /\ s \in Phases \X Names
    /\ s[1] \notin {"open", "write", "replace"}
    /\ step[c][1] \notin {"open", "write", "replace"}

LEMMA LookFacts ==
    ASSUME NEW c \in Commands, NEW h \in Phases \ {"open", "write", "replace"},
           NEW m \in Names, Goes(c, <<h, m>>), UNCHANGED <<fileVars, crossings>>,
           step[c][1] \notin {"open", "write", "replace"}
    PROVE  \E s : Looks(c, s) /\ s[1] = h /\ s[2] = m
<1> DEFINE s == <<h, m>>
<1>1. s[1] = h /\ s[2] = m /\ s \in Phases \X Names
  OBVIOUS
<1> HIDE DEF s
<1>2. Looks(c, s)
  <2>1. Goes(c, s)
    BY DEF s
  <2> QED
    BY <1>1, <2>1 DEF Looks
<1> QED
  BY <1>1, <1>2

LEMMA LooksKeep ==
    ASSUME SettingsInv, NEW c \in Commands, NEW s, Looks(c, s)
    PROVE  /\ FilesKept /\ FilesOK' /\ step'[c] = s
           /\ \A d \in Commands : d # c => step'[d] = step[d]
<1>1. step'[c] = s /\ \A d \in Commands : d # c => step'[d] = step[d]
  BY DEF SettingsInv, SettingsType, FilesType, Looks, Goes
<1>2. FilesType'
  BY DEF SettingsInv, SettingsType, FilesType, Looks, Goes, fileVars
<1>3. Aside(c)
  BY <1>1 DEF Aside, Looks, Persisting
<1>4. FilesKept
  BY <1>2, <1>3, AsideFiles DEF SettingsInv, FilesOK
<1>5. crossings' = crossings
  BY DEF Looks
<1> QED
  BY <1>1, <1>4, <1>5, FilesStay DEF SettingsInv

LEMMA LookStep ==
    ASSUME SettingsInv, NEW c \in Commands, NEW s, Looks(c, s), seen' = seen,
           step[c][1] # "idle",
           s[1] = "raised" => seen[c] >= 1,
           s[1] = "nothing" => seen[c] >= 2,
           s[1] = "load" /\ s[2] = lkg /\ seen[c] <= 1 => seen[c] = 1 /\ Guarded
    PROVE  SettingsInv'
<1>1. /\ FilesKept /\ FilesOK' /\ step'[c] = s
      /\ \A d \in Commands : d # c => step'[d] = step[d]
  BY LooksKeep
<1>2. crossings' = crossings /\ crossings \in Nat
  BY DEF Looks, SettingsInv, SettingsType
<1>3. Is(c, "load", lkg)' => s[1] = "load" /\ s[2] = lkg
  BY <1>1 DEF Is
<1>4. LoadsOK' /\ SettingsReadable'
  <2> USE <1>1, <1>2, <1>3
  <2>1. crossings' \in Nat /\ crossings' <= crossings
    OBVIOUS
  <2> QED
    BY <2>1, LoadsKept
<1>5. SettingsType'
  BY <1>1, <1>2 DEF SettingsInv, SettingsType, FilesKept
<1> QED
  BY <1>1, <1>4, <1>5 DEF SettingsInv

LEMMA PersistStep ==
    ASSUME SettingsInv, NEW c \in Commands, Persist(c) PROVE SettingsInv'
<1>1. FilesType /\ OwnFiles /\ SettingsType /\ FilesOK /\ crossings \in Nat
      /\ seen \in [Commands -> Nat]
  BY DEF SettingsInv, SettingsType, FilesOK
<1>2. /\ FilesType' /\ OwnFiles' /\ Is(c, "open", cur)' /\ step[c][1] = "resolved"
      /\ \A d \in Commands : d # c => step'[d] = step[d]
  BY <1>1, PersistFacts DEF Persist
<1>3. CASE \A d \in Commands : ~ Persisting(d)
  <2>1. FilesKept
    BY <1>1, <1>3, PersistAlone
  <2>2. crossings' = crossings /\ seen' = seen
    BY <1>3 DEF Persist
  <2>3. SettingsType' /\ FilesOK'
    BY <1>1, <2>1, <2>2, FilesStay DEF SettingsType, FilesKept
  <2>4. LoadsOK' /\ SettingsReadable'
    BY <1>1, <1>2, <2>1, <2>2, LoadsKept DEF Is
  <2> QED
    BY <2>3, <2>4 DEF SettingsInv
<1>4. CASE \E d \in Commands : Persisting(d)
  <2>1. /\ crossings' = crossings + 1
        /\ seen' = [d \in Commands |-> IF step[d][1] = "idle" THEN seen[d] ELSE seen[d] + 1]
    BY <1>4 DEF Persist
  <2>2. SettingsType'
    BY <1>1, <1>2, <2>1 DEF SettingsType
  <2>3. FilesOK'
    <3>1. crossings' # 0 /\ (crossings' <= 1 => crossings = 0)
      BY <1>1, <2>1
    <3>2. crossings' <= 1 => CrossedOnce'
      BY <1>1, <3>1, PersistBeside DEF FilesOK
    <3> QED
      BY <1>2, <3>1, <3>2 DEF FilesOK
  <2>4. ASSUME NEW d \in Commands, step'[d][1] # "idle"
        PROVE  seen'[d] = seen[d] + 1 /\ seen[d] \in Nat /\ seen[d] >= crossings
    <3>1. step[d][1] # "idle"
      BY <1>2, <2>4
    <3> QED
      BY <1>1, <2>1, <3>1 DEF SettingsInv, LoadsOK
  <2>5. LoadsOK'
    <3>1. ASSUME NEW d \in Commands, Is(d, "load", lkg)', seen'[d] <= 1 PROVE FALSE
      <4>1. d # c /\ Is(d, "load", lkg)
        BY <1>2, <3>1 DEF Is
      <4>2. seen'[d] = seen[d] + 1 /\ seen[d] \in Nat
        BY <2>4, <3>1 DEF Is
      <4>3. seen[d] = 0
        BY <3>1, <4>2
      <4>4. seen[d] = 1
        BY <4>1, <4>3 DEF SettingsInv, LoadsOK
      <4> QED
        BY <4>3, <4>4
    <3>2. ASSUME NEW d \in Commands, step'[d][1] # "idle" PROVE seen'[d] >= crossings'
      BY <1>1, <2>1, <2>4, <3>2
    <3> QED
      BY <3>1, <3>2 DEF LoadsOK
  <2>6. SettingsReadable'
    <3> SUFFICES ASSUME NEW d \in Commands
                 PROVE  /\ step'[d][1] = "raised" => seen'[d] >= 1
                        /\ step'[d][1] = "nothing" => seen'[d] >= 2
      BY DEF SettingsReadable
    <3>1. CASE d = c
      BY <1>2, <3>1 DEF Is
    <3>2. CASE d # c
      <4>1. step'[d] = step[d]
        BY <1>2, <3>2
      <4>2. step[d][1] \in {"raised", "nothing"} => seen'[d] = seen[d] + 1 /\ seen[d] \in Nat
        BY <2>4, <4>1
      <4>3. /\ step[d][1] = "raised" => seen[d] >= 1
            /\ step[d][1] = "nothing" => seen[d] >= 2
        BY DEF SettingsInv, SettingsReadable
      <4> QED
        BY <4>1, <4>2, <4>3
    <3> QED
      BY <3>1, <3>2
  <2> QED
    BY <2>2, <2>3, <2>5, <2>6 DEF SettingsInv
<1> QED
  BY <1>3, <1>4

LEMMA StartStep ==
    ASSUME SettingsInv, NEW c \in Commands, StartCommand(c) PROVE SettingsInv'
<1>1. PICK s : Looks(c, s) /\ s[1] = "load" /\ s[2] = cur
  <2>1. /\ Goes(c, <<"load", cur>>) /\ UNCHANGED <<fileVars, crossings>>
        /\ step[c][1] \notin {"open", "write", "replace"}
    BY DEF StartCommand, cur
  <2>2. "load" \in Phases \ {"open", "write", "replace"} /\ cur \in Names
    BY DEF Phases, Names, cur
  <2> QED
    BY <2>1, <2>2, LookFacts
<1>2. /\ FilesKept /\ FilesOK' /\ step'[c] = s
      /\ \A d \in Commands : d # c => step'[d] = step[d]
  BY <1>1, LooksKeep
<1>3. /\ seen' = [seen EXCEPT ![c] = crossings] /\ crossings' = crossings
      /\ crossings \in Nat /\ seen \in [Commands -> Nat]
  BY DEF StartCommand, SettingsInv, SettingsType
<1>4. SettingsType'
  BY <1>2, <1>3 DEF SettingsType, FilesKept
<1>5. ASSUME NEW d \in Commands
      PROVE  /\ step'[d][1] # "idle" => seen'[d] >= crossings'
             /\ Is(d, "load", lkg)' /\ seen'[d] <= 1 => seen'[d] = 1 /\ Guarded'
             /\ step'[d][1] = "raised" => seen'[d] >= 1
             /\ step'[d][1] = "nothing" => seen'[d] >= 2
  <2>1. CASE d = c
    <3>1. step'[d][1] = "load" /\ step'[d][2] # lkg
      BY <1>1, <1>2, <2>1 DEF cur, lkg
    <3>2. seen'[d] >= crossings'
      BY <1>3, <2>1
    <3> QED
      BY <3>1, <3>2 DEF Is
  <2>2. CASE d # c
    <3>1. step'[d] = step[d] /\ seen'[d] = seen[d]
      BY <1>2, <1>3, <2>2
    <3>2. /\ step[d][1] # "idle" => seen[d] >= crossings
          /\ Is(d, "load", lkg) /\ seen[d] <= 1 => seen[d] = 1 /\ Guarded
          /\ step[d][1] = "raised" => seen[d] >= 1
          /\ step[d][1] = "nothing" => seen[d] >= 2
      BY DEF SettingsInv, LoadsOK, SettingsReadable
    <3>3. ASSUME Is(d, "load", lkg), seen[d] <= 1 PROVE Guarded'
      <4>1. crossings <= 1
        <5>1. seen[d] = 1 /\ seen[d] >= crossings
          BY <3>2, <3>3 DEF Is
        <5> QED
          BY <1>3, <5>1
      <4> QED
        BY <1>2, <3>2, <3>3, <4>1 DEF FilesKept, SettingsInv, FilesOK
    <3> QED
      BY <1>3, <3>1, <3>2, <3>3 DEF Is
  <2> QED
    BY <2>1, <2>2
<1>6. LoadsOK' /\ SettingsReadable'
  BY <1>5 DEF LoadsOK, SettingsReadable
<1> QED
  BY <1>2, <1>4, <1>6 DEF SettingsInv

LEMMA LoadStep ==
    ASSUME SettingsInv, NEW c \in Commands, NEW n \in Names, LoadSettings(c, n)
    PROVE  SettingsInv'
<1>1. /\ step[c] = <<"load", n>> /\ UNCHANGED <<fileVars, crossings>> /\ seen' = seen
      /\ cur \in Names /\ lkg \in Names
  BY DEF LoadSettings, Names, cur, lkg
<1>2. /\ step[c][1] \notin {"idle", "open", "write", "replace"} /\ Is(c, "load", n)
      /\ n = cur \/ n = lkg
  <2>1. step[c][1] = "load" /\ step[c][2] = n
    BY <1>1
  <2> QED
    BY <2>1 DEF Is, Names, cur, lkg
<1>3. PICK b \in Readings(n) :
         \/ b = Whole /\ Goes(c, <<"check", cur>>)
         \/ b = Cut /\ n = cur /\ Goes(c, <<"load", lkg>>)
         \/ b = Cut /\ n # cur /\ Goes(c, <<"nothing", n>>)
         \/ b = Garbled /\ Goes(c, <<"raised", n>>)
  BY DEF LoadSettings, cur, lkg
<1>4. b # Whole =>
         /\ seen[c] >= 1
         /\ n = cur /\ seen[c] <= 1 => seen[c] = 1 /\ Guarded
         /\ n = lkg => seen[c] >= 2
  BY <1>2, ReadsSafely
<1>5. ASSUME NEW h \in {"check", "load", "nothing", "raised"}, NEW m \in Names,
             Goes(c, <<h, m>>),
             h = "raised" => seen[c] >= 1,
             h = "nothing" => seen[c] >= 2,
             h = "load" => (seen[c] <= 1 => seen[c] = 1 /\ Guarded)
      PROVE  SettingsInv'
  <2>1. h \in Phases \ {"open", "write", "replace"}
    BY DEF Phases
  <2>2. PICK s : Looks(c, s) /\ s[1] = h /\ s[2] = m
    BY <1>1, <1>2, <1>5, <2>1, LookFacts
  <2> QED
    BY <1>1, <1>2, <1>5, <2>2, LookStep
<1>6. Cut # Whole /\ Garbled # Whole
  BY DEF Cut, Whole, Garbled
<1>7. CASE b = Whole /\ Goes(c, <<"check", cur>>)
  BY <1>1, <1>5, <1>7
<1>8. CASE b = Cut /\ n = cur /\ Goes(c, <<"load", lkg>>)
  BY <1>1, <1>4, <1>5, <1>6, <1>8
<1>9. CASE b = Cut /\ n # cur /\ Goes(c, <<"nothing", n>>)
  BY <1>2, <1>4, <1>5, <1>6, <1>9
<1>10. CASE b = Garbled /\ Goes(c, <<"raised", n>>)
  BY <1>4, <1>5, <1>6, <1>10
<1> QED
  BY <1>3, <1>7, <1>8, <1>9, <1>10

LEMMA CheckStep ==
    ASSUME SettingsInv, NEW c \in Commands, NEW n \in Names, CheckSettings(c, n)
    PROVE  SettingsInv'
<1>1. PICK look \in {"check", "report"}, b \in Readings(n) :
         /\ step[c] = <<look, n>>
         /\ \/ b = Garbled /\ Goes(c, <<"raised", n>>)
            \/ Goes(c, <<look, "last known good">>) \/ Goes(c, <<look, "current">>)
            \/ Goes(c, <<"resolved", n>>) \/ Goes(c, <<"idle", "current">>)
  BY DEF CheckSettings
<1>2. /\ step[c][1] \notin {"idle", "open", "write", "replace"}
      /\ UNCHANGED <<fileVars, crossings>> /\ seen' = seen
  <2>1. step[c] = <<look, n>>
    BY <1>1
  <2>2. step[c][1] = look
    BY <2>1
  <2>3. UNCHANGED <<fileVars, crossings>> /\ seen' = seen
    BY DEF CheckSettings
  <2> QED
    BY <2>2, <2>3
<1>3. ASSUME NEW h \in {"raised", "check", "report", "resolved", "idle"}, NEW m \in Names,
             Goes(c, <<h, m>>), h = "raised" => seen[c] >= 1
      PROVE  SettingsInv'
  <2>1. h \in Phases \ {"open", "write", "replace"}
    BY DEF Phases
  <2>2. PICK s : Looks(c, s) /\ s[1] = h /\ s[2] = m
    BY <1>2, <1>3, <2>1, LookFacts
  <2> QED
    BY <1>2, <1>3, <2>2, LookStep
<1>4. ASSUME b = Garbled PROVE seen[c] >= 1
  <2>1. b # Whole
    BY <1>4 DEF Garbled, Whole
  <2> QED
    BY <1>2, <2>1, ReadsSafely
<1>5. "current" \in Names /\ "last known good" \in Names
  BY DEF Names
<1> QED
  BY <1>1, <1>3, <1>4, <1>5

LEMMA RestStep ==
    ASSUME SettingsInv, NEW c \in Commands, UseDefaults(c) \/ EndCommand(c)
    PROVE  SettingsInv'
<1>1. PICK h \in {"check", "idle"} : Goes(c, <<h, cur>>)
  BY DEF UseDefaults, EndCommand, cur
<1>2. /\ step[c][1] \in {"nothing", "resolved", "raised"}
      /\ UNCHANGED <<fileVars, crossings>> /\ seen' = seen
  BY DEF UseDefaults, EndCommand
<1>3. h \in Phases \ {"open", "write", "replace"} /\ cur \in Names
  BY DEF Phases, Names, cur
<1>4. PICK s : Looks(c, s) /\ s[1] = h /\ s[2] = cur
  BY <1>1, <1>2, <1>3, LookFacts
<1> QED
  BY <1>2, <1>4, LookStep

LEMMA SettingsInitial == SettingsInit => SettingsInv
<1> SUFFICES ASSUME SettingsInit PROVE SettingsInv
  OBVIOUS
<1>1. /\ at = [n \in Names |-> IF n = "current" THEN 1 ELSE 2]
      /\ temp = [n \in Names |-> 0]
      /\ bytes = [i \in Inodes |-> IF i <= 2 THEN Whole ELSE Cut]
      /\ filled = {1, 2}
      /\ step = [c \in Commands |-> <<"idle", "current">>]
      /\ fd = [c \in Commands |-> 0]
      /\ crossings = 0
      /\ seen = [c \in Commands |-> 0]
  BY DEF SettingsInit
<1>2. 1 \in Inodes /\ 2 \in Inodes
  BY FS_CardinalityType, SettingsConstants DEF Inodes
<1>3. FilesType
  <2>1. step \in [Commands -> Phases \X Names]
    BY <1>1 DEF Phases, Names
  <2>2. at \in [Names -> Inodes] /\ temp \in [Names -> Inodes \cup {0}]
    BY <1>1, <1>2
  <2>3. bytes \in [Inodes -> {Whole, Cut, Garbled}] /\ filled \subseteq Inodes
    BY <1>1, <1>2
  <2>4. fd \in [Commands -> Inodes \cup {0}]
    BY <1>1
  <2> QED
    BY <2>1, <2>2, <2>3, <2>4 DEF FilesType
<1>4. \A c \in Commands : step[c][1] = "idle" /\ fd[c] = 0 /\ seen[c] = 0
  BY <1>1
<1>5. cur \in Names /\ lkg \in Names /\ \A m \in Names : m = cur \/ m = lkg
  BY DEF Names, cur, lkg
<1>6. at[cur] = 1 /\ at[lkg] = 2 /\ temp[cur] = 0 /\ temp[lkg] = 0
  BY <1>1, <1>5 DEF cur, lkg
<1>7. bytes[1] = Whole /\ bytes[2] = Whole
  BY <1>1, <1>2
<1>8. OwnFiles
  BY <1>4, <1>5, <1>6 DEF OwnFiles, Is
<1>9. Uncrossed
  BY <1>4, <1>5, <1>6, <1>7 DEF Uncrossed, Persisting, Intact, Clean, Is
<1>10. CrossedOnce
  <2>1. AtMostTwo /\ RenamedOpen /\ EarlySafe /\ RuinedByOther
    BY <1>4 DEF AtMostTwo, RenamedOpen, EarlySafe, Early, RuinedByOther, Ruinous, Persisting, Is
  <2> QED
    BY <1>5, <1>9, <2>1 DEF CrossedOnce, RuinGuarded, Uncrossed
<1>11. SettingsType
  BY <1>1, <1>3 DEF SettingsType
<1>12. LoadsOK /\ SettingsReadable
  BY <1>4 DEF LoadsOK, SettingsReadable, Is
<1> QED
  BY <1>8, <1>9, <1>10, <1>11, <1>12 DEF SettingsInv, FilesOK

LEMMA SettingsStutters ==
    ASSUME SettingsInv, UNCHANGED settingsVars PROVE SettingsInv'
<1>1. SettingsType' /\ OwnFiles' /\ SettingsReadable'
  BY DEF settingsVars, fileVars, SettingsInv, SettingsType, FilesType, FilesOK, OwnFiles, Is,
         SettingsReadable
<1>2. Uncrossed' <=> Uncrossed
  BY DEF settingsVars, fileVars, Uncrossed, Persisting, Intact, Clean, Is
<1>3. Guarded' <=> Guarded
  BY DEF settingsVars, fileVars, Guarded, Persisting, Intact, Clean, Doomed, NobodyOpens, Is
<1>4. CrossedOnce' <=> CrossedOnce
  <2>1. (AtMostTwo' <=> AtMostTwo) /\ (RenamedOpen' <=> RenamedOpen)
    BY DEF settingsVars, fileVars, AtMostTwo, Persisting, RenamedOpen, NobodyOpens, Is
  <2>2. EarlySafe' <=> EarlySafe
    BY DEF settingsVars, fileVars, EarlySafe, Early, Single, Persisting, Intact, Clean, Is
  <2>3. RuinedByOther' <=> RuinedByOther
    BY DEF settingsVars, fileVars, RuinedByOther, Ruinous, Past, Persisting, Is
  <2>4. RuinGuarded' <=> RuinGuarded
    BY <1>3 DEF settingsVars, fileVars, RuinGuarded, Intact
  <2> QED
    BY <2>1, <2>2, <2>3, <2>4 DEF CrossedOnce
<1>5. FilesOK'
  BY <1>1, <1>2, <1>4 DEF settingsVars, SettingsInv, FilesOK
<1>6. LoadsOK'
  BY <1>3 DEF settingsVars, SettingsInv, LoadsOK, Is
<1> QED
  BY <1>1, <1>5, <1>6 DEF SettingsInv

LEMMA SettingsStep == SettingsInv /\ [SettingsNext]_settingsVars => SettingsInv'
<1> SUFFICES ASSUME SettingsInv, [SettingsNext]_settingsVars PROVE SettingsInv'
  OBVIOUS
<1>1. CASE UNCHANGED settingsVars
  BY <1>1, SettingsStutters
<1>2. CASE SettingsNext
  BY <1>2, StartStep, RestStep, PersistStep, WorkStep, LoadStep, CheckStep DEF SettingsNext
<1> QED
  BY <1>1, <1>2

(* SettingsReadable, of any number of commands that are killed anywhere: a *)
(* command raises only if commands crossed in persisting since both files  *)
(* were last whole, and finds no valid record only if they crossed twice.  *)
THEOREM SettingsStayReadable == SettingsSpec => []SettingsReadable
<1>1. SettingsInv => SettingsReadable
  BY DEF SettingsInv
<1> QED
  BY <1>1, SettingsInitial, SettingsStep, PTL DEF SettingsSpec

-----------------------------------------------------------------------------
(* The hot tier.                                                           *)
(* A sequence that has nothing twice, and what taking an element out of it *)
(* leaves.                                                                 *)
Once(s) == \A i, j \in 1 .. Len(s) : s[i] = s[j] => i = j

LEMMA TakenOut ==
    ASSUME NEW s \in Seq(Keys), Once(s), NEW p \in 1 .. Len(s)
    PROVE  /\ RemoveFirst(s, s[p]) \in Seq(Keys)
           /\ Len(RemoveFirst(s, s[p])) = Len(s) - 1
           /\ \A i \in 1 .. Len(s) - 1 :
                 RemoveFirst(s, s[p])[i] = IF i < p THEN s[i] ELSE s[i + 1]
<1> DEFINE I == {i \in 1 .. Len(s) : s[i] = s[p]}
<1>1. Len(s) \in Nat /\ p \in Nat /\ p <= Len(s) /\ 1 <= p
      /\ \A i \in 1 .. Len(s) : s[i] \in Keys
  BY ElementOfSeq
<1>2. I = {p}
  BY DEF Once
<1>3. Min(I) = p
  <2>1. p <= p
    BY <1>1
  <2> HIDE DEF I
  <2> QED
    BY <1>2, <2>1 DEF Min
<1>4. SelectInSeq(s, LAMBDA v : v = s[p]) = p
  BY <1>2, <1>3 DEF SelectInSeq
<1>5. RemoveFirst(s, s[p]) = SubSeq(s, 1, p - 1) \o SubSeq(s, p + 1, Len(s))
  BY <1>4 DEF RemoveFirst, RemoveAt
<1> DEFINE a == SubSeq(s, 1, p - 1)
           b == SubSeq(s, p + 1, Len(s))
<1>6. /\ a \in Seq(Keys) /\ Len(a) = p - 1
      /\ \A i \in 1 .. p - 1 : a[i] = s[i]
  <2>1. 1 \in Int /\ p - 1 \in Int /\ \A i \in 1 .. p - 1 : s[i] \in Keys
    BY <1>1
  <2>2. /\ a \in Seq(Keys) /\ Len(a) = IF 1 <= p - 1 THEN p - 1 - 1 + 1 ELSE 0
        /\ \A i \in 1 .. p - 1 - 1 + 1 : a[i] = s[1 + i - 1]
    BY <2>1, SubSeqProperties
  <2> HIDE DEF a
  <2> QED
    BY <1>1, <2>2
<1>7. /\ b \in Seq(Keys) /\ Len(b) = Len(s) - p
      /\ \A i \in 1 .. Len(s) - p : b[i] = s[p + i]
  <2>1. p + 1 \in Int /\ Len(s) \in Int /\ \A i \in p + 1 .. Len(s) : s[i] \in Keys
    BY <1>1
  <2>2. /\ b \in Seq(Keys)
        /\ Len(b) = IF p + 1 <= Len(s) THEN Len(s) - (p + 1) + 1 ELSE 0
        /\ \A i \in 1 .. Len(s) - (p + 1) + 1 : b[i] = s[p + 1 + i - 1]
    BY <2>1, SubSeqProperties
  <2> HIDE DEF b
  <2>3. ASSUME NEW i \in 1 .. Len(s) - p PROVE b[i] = s[p + i]
    <3>1. i \in 1 .. Len(s) - (p + 1) + 1 /\ p + 1 + i - 1 = p + i
      BY <1>1
    <3> QED
      BY <2>2, <3>1
  <2> QED
    BY <1>1, <2>2, <2>3
<1> HIDE DEF a, b
<1>8. /\ a \o b \in Seq(Keys) /\ Len(a \o b) = Len(a) + Len(b)
      /\ \A i \in 1 .. Len(a) + Len(b) :
            (a \o b)[i] = IF i <= Len(a) THEN a[i] ELSE b[i - Len(a)]
  BY <1>6, <1>7, ConcatProperties
<1>9. ASSUME NEW i \in 1 .. Len(s) - 1
      PROVE  (a \o b)[i] = IF i < p THEN s[i] ELSE s[i + 1]
  <2>1. i \in 1 .. Len(a) + Len(b)
    BY <1>1, <1>6, <1>7
  <2>2. CASE i < p
    BY <1>1, <1>6, <1>8, <2>1, <2>2
  <2>3. CASE ~(i < p)
    <3>1. i - (p - 1) \in 1 .. Len(s) - p /\ p + (i - (p - 1)) = i + 1 /\ ~(i <= p - 1)
      BY <1>1, <2>3
    <3>2. b[i - (p - 1)] = s[i + 1]
      BY <1>7, <3>1
    <3> QED
      BY <1>6, <1>8, <2>1, <2>3, <3>1, <3>2
  <2> QED
    BY <2>2, <2>3
<1>10. Len(a \o b) = Len(s) - 1
  BY <1>1, <1>6, <1>7, <1>8
<1> QED
  BY <1>5, <1>8, <1>9, <1>10 DEF a, b

LEMMA NotThere ==
    ASSUME NEW s, NEW k, \A i \in 1 .. Len(s) : s[i] # k
    PROVE  RemoveFirst(s, k) = s
BY DEF RemoveFirst

(* What is left has nothing twice, and has what was there but the element. *)
LEMMA LeftOver ==
    ASSUME NEW s \in Seq(Keys), Once(s), NEW k
    PROVE  LET r == RemoveFirst(s, k)
           IN  /\ r \in Seq(Keys) /\ Once(r) /\ Len(r) <= Len(s)
               /\ \A j : (\E i \in 1 .. Len(r) : r[i] = j) <=>
                            j # k /\ \E i \in 1 .. Len(s) : s[i] = j
<1>1. CASE \A i \in 1 .. Len(s) : s[i] # k
  <2>1. RemoveFirst(s, k) = s
    BY <1>1, NotThere
  <2>2. Len(s) \in Nat
    OBVIOUS
  <2> QED
    BY <1>1, <2>1, <2>2
<1>2. ASSUME NEW p \in 1 .. Len(s), s[p] = k
      PROVE  LET r == RemoveFirst(s, k)
             IN  /\ r \in Seq(Keys) /\ Once(r) /\ Len(r) <= Len(s)
                 /\ \A j : (\E i \in 1 .. Len(r) : r[i] = j) <=>
                              j # k /\ \E i \in 1 .. Len(s) : s[i] = j
  <2> DEFINE r == RemoveFirst(s, k)
  <2>1. /\ r \in Seq(Keys) /\ Len(r) = Len(s) - 1
        /\ \A i \in 1 .. Len(s) - 1 : r[i] = IF i < p THEN s[i] ELSE s[i + 1]
    BY <1>2, TakenOut
  <2>2. Len(s) \in Nat /\ p \in Nat
    OBVIOUS
  <2> HIDE DEF r
  <2>3. ASSUME NEW i \in 1 .. Len(r)
        PROVE  \E j \in 1 .. Len(s) : /\ r[i] = s[j] /\ j # p
                                      /\ j = IF i < p THEN i ELSE i + 1
    <3>1. i \in 1 .. Len(s) - 1 /\ i \in 1 .. Len(s) /\ i + 1 \in 1 .. Len(s)
      BY <2>1, <2>2
    <3>2. CASE i < p
      BY <2>1, <2>2, <3>1, <3>2
    <3>3. CASE ~(i < p)
      <4>1. r[i] = s[i + 1] /\ i + 1 # p
        BY <2>1, <2>2, <3>1, <3>3
      <4> QED
        BY <3>1, <3>3, <4>1
    <3> QED
      BY <3>2, <3>3
  <2>4. Once(r)
    <3> SUFFICES ASSUME NEW i \in 1 .. Len(r), NEW j \in 1 .. Len(r), r[i] = r[j]
                 PROVE  i = j
      BY DEF Once
    <3>1. PICK x \in 1 .. Len(s) : r[i] = s[x] /\ x = IF i < p THEN i ELSE i + 1
      BY <2>3
    <3>2. PICK y \in 1 .. Len(s) : r[j] = s[y] /\ y = IF j < p THEN j ELSE j + 1
      BY <2>3
    <3>3. x = y
      BY <3>1, <3>2 DEF Once
    <3> QED
      BY <2>1, <2>2, <3>1, <3>2, <3>3
  <2>5. ASSUME NEW j, NEW i \in 1 .. Len(r), r[i] = j
        PROVE  j # k /\ \E x \in 1 .. Len(s) : s[x] = j
    <3>1. PICK x \in 1 .. Len(s) : r[i] = s[x] /\ x # p
      BY <2>3
    <3> QED
      BY <1>2, <2>5, <3>1 DEF Once
  <2>6. ASSUME NEW j, j # k, NEW x \in 1 .. Len(s), s[x] = j
        PROVE  \E i \in 1 .. Len(r) : r[i] = j
    <3>1. x # p
      BY <1>2, <2>6
    <3>2. CASE x < p
      <4>1. x \in 1 .. Len(s) - 1
        BY <2>2, <3>2
      <4> QED
        BY <2>1, <2>6, <3>2, <4>1
    <3>3. CASE x > p
      <4>1. x - 1 \in 1 .. Len(s) - 1 /\ ~(x - 1 < p) /\ x - 1 + 1 = x
        BY <2>2, <3>3
      <4>2. r[x - 1] = j
        BY <2>1, <2>6, <4>1
      <4> QED
        BY <2>1, <4>1, <4>2
    <3> QED
      BY <2>2, <3>1, <3>2, <3>3
  <2>7. Len(r) <= Len(s)
    BY <2>1, <2>2
  <2> QED
    BY <2>1, <2>4, <2>5, <2>6, <2>7 DEF r
<1> QED
  BY <1>1, <1>2

-----------------------------------------------------------------------------
(* What a tier holds.                                                      *)
HeldBy(h) == {k \in Keys : h.held[k] # None}
HeldWeights(h) == [k \in HeldBy(h) |-> h.held[k].weight]

(* The dictionary and the total fit together: each key held has one place  *)
(* in the order, and the total is the weight of them all.                  *)
TierHolds(h) ==
    /\ h.order \in Seq(Keys) /\ Once(h.order)
    /\ h.held = [k \in Keys |-> h.held[k]]
    /\ \A k : k \in HeldBy(h) <=> \E i \in 1 .. Len(h.order) : h.order[i] = k
    /\ \A k \in HeldBy(h) : h.held[k].weight \in Nat \ {0}
    /\ h.total = SumFunction(HeldWeights(h))

LEMMA HeldCounted ==
    ASSUME NEW h, TierHolds(h)
    PROVE  /\ IsFiniteSet(HeldBy(h)) /\ Cardinality(HeldBy(h)) = Len(h.order)
           /\ Len(h.order) \in Nat
<1> DEFINE n == Len(h.order)
           f == [i \in 1 .. n |-> h.order[i]]
<1>1. n \in Nat
  BY DEF TierHolds
<1>2. f \in Bijection(1 .. n, HeldBy(h))
  <2>1. f \in [1 .. n -> HeldBy(h)]
    BY DEF TierHolds
  <2>2. \A i, j \in 1 .. n : f[i] = f[j] => i = j
    BY DEF TierHolds, Once
  <2>3. \A k \in HeldBy(h) : \E i \in 1 .. n : f[i] = k
    BY DEF TierHolds
  <2> HIDE DEF f
  <2> QED
    BY <2>1, <2>2, <2>3 DEF Bijection, Injection, Surjection, IsInjective
<1>3. IsFiniteSet(1 .. n) /\ Cardinality(1 .. n) = n
  BY <1>1, FS_Interval
<1> HIDE DEF f, n
<1>4. ExistsBijection(1 .. n, HeldBy(h))
  BY <1>2 DEF ExistsBijection
<1>5. IsFiniteSet(HeldBy(h)) /\ Cardinality(HeldBy(h)) = Cardinality(1 .. n)
  BY <1>3, <1>4, FS_Bijection
<1> QED
  BY <1>1, <1>3, <1>5 DEF n

LEMMA HeldSummed ==
    ASSUME NEW h, TierHolds(h)
    PROVE  /\ DOMAIN HeldWeights(h) = HeldBy(h) /\ IsFiniteSet(HeldBy(h))
           /\ \A k \in HeldBy(h) : /\ HeldWeights(h)[k] = h.held[k].weight
                                   /\ HeldWeights(h)[k] \in Nat
           /\ h.total = SumFunction(HeldWeights(h)) /\ h.total \in Nat
<1>1. /\ DOMAIN HeldWeights(h) = HeldBy(h) /\ IsFiniteSet(HeldBy(h))
      /\ \A k \in HeldBy(h) : /\ HeldWeights(h)[k] = h.held[k].weight
                              /\ HeldWeights(h)[k] \in Nat
  BY HeldCounted DEF HeldWeights, TierHolds
<1>2. SumFunction(HeldWeights(h)) \in Nat
  BY <1>1, SumNat
<1> QED
  BY <1>1, <1>2 DEF TierHolds

LEMMA PopHolds ==
    ASSUME NEW h, TierHolds(h), NEW k \in Keys
    PROVE  /\ TierHolds(HotPop(h, k))
           /\ HotPop(h, k).order = RemoveFirst(h.order, k)
           /\ HeldBy(HotPop(h, k)) = HeldBy(h) \ {k}
           /\ HotPop(h, k).total <= h.total
           /\ Len(HotPop(h, k).order) <= Len(h.order)
<1>1. CASE h.held[k] = None
  <2>1. k \notin HeldBy(h) /\ HotPop(h, k) = h
    BY <1>1 DEF HeldBy, HotPop
  <2>2. RemoveFirst(h.order, k) = h.order
    BY <2>1, NotThere DEF TierHolds
  <2>3. h.total <= h.total /\ Len(h.order) <= Len(h.order)
    BY HeldCounted, HeldSummed
  <2> QED
    BY <2>1, <2>2, <2>3
<1>2. CASE h.held[k] # None
  <2> DEFINE g == HotPop(h, k)
             r == RemoveFirst(h.order, k)
  <2>1. /\ g.order = r
        /\ g.held = [h.held EXCEPT ![k] = None]
        /\ g.total = Monus(h.total, h.held[k].weight)
    BY <1>2 DEF HotPop
  <2>2. k \in HeldBy(h)
    BY <1>2 DEF HeldBy
  <2>3. /\ r \in Seq(Keys) /\ Once(r) /\ Len(r) <= Len(h.order)
        /\ \A j : (\E i \in 1 .. Len(r) : r[i] = j) <=>
                     j # k /\ \E i \in 1 .. Len(h.order) : h.order[i] = j
    <3> DEFINE s == h.order
    <3>1. s \in Seq(Keys) /\ Once(s)
      BY DEF TierHolds
    <3> HIDE DEF s
    <3>2. LET q == RemoveFirst(s, k)
          IN  /\ q \in Seq(Keys) /\ Once(q) /\ Len(q) <= Len(s)
              /\ \A j : (\E i \in 1 .. Len(q) : q[i] = j) <=>
                           j # k /\ \E i \in 1 .. Len(s) : s[i] = j
      BY <3>1, LeftOver
    <3> QED
      BY <3>2 DEF s
  <2> HIDE DEF g, r
  <2>4. /\ g.held = [j \in Keys |-> g.held[j]]
        /\ g.held[k] = None
        /\ \A j \in Keys \ {k} : g.held[j] = h.held[j]
    BY <2>1 DEF TierHolds
  <2>5. HeldBy(g) = HeldBy(h) \ {k}
    BY <2>4 DEF HeldBy
  <2>6. \A j \in HeldBy(g) : j \in HeldBy(h) /\ g.held[j] = h.held[j]
    BY <2>4, <2>5 DEF HeldBy
  <2>7. \A j \in HeldBy(g) : g.held[j].weight \in Nat \ {0}
    BY <2>6 DEF TierHolds
  <2>8. HeldWeights(g) = [j \in HeldBy(h) \ {k} |-> HeldWeights(h)[j]]
    BY <2>5, <2>6 DEF HeldWeights
  <2>9. h.total = h.held[k].weight + SumFunction(HeldWeights(g))
    <3> DEFINE f == HeldWeights(h)
    <3>1. /\ DOMAIN f = HeldBy(h) /\ IsFiniteSet(DOMAIN f)
          /\ \A j \in DOMAIN f : f[j] \in Nat
          /\ f[k] = h.held[k].weight /\ h.total = SumFunction(f)
      BY <2>2, HeldSummed
    <3>2. HeldWeights(g) = [j \in DOMAIN f \ {k} |-> f[j]]
      BY <2>8, <3>1
    <3> HIDE DEF f
    <3>3. SumFunction(f) = f[k] + SumFunction([j \in DOMAIN f \ {k} |-> f[j]])
      BY <2>2, <3>1, SumWithout
    <3> QED
      BY <3>1, <3>2, <3>3
  <2>10. SumFunction(HeldWeights(g)) \in Nat
    <3>1. IsFiniteSet(HeldBy(g))
      BY <2>5, HeldCounted, FS_RemoveElement
    <3> QED
      BY <2>7, <3>1, SumNat DEF HeldWeights
  <2>11. g.total = SumFunction(HeldWeights(g)) /\ g.total <= h.total
    <3>1. h.held[k].weight \in Nat
      BY <2>2 DEF TierHolds
    <3> DEFINE w == h.held[k].weight
               x == SumFunction(HeldWeights(g))
               y == h.total
    <3>2. g.total = Monus(y, w) /\ y = w + x /\ w \in Nat /\ x \in Nat
      BY <2>1, <2>9, <2>10, <3>1
    <3> HIDE DEF w, x, y
    <3>3. g.total = x /\ x <= y
      BY <3>2 DEF Monus
    <3> QED
      BY <3>3 DEF x, y
  <2>12. \A j : j \in HeldBy(g) <=> \E i \in 1 .. Len(g.order) : g.order[i] = j
    BY <2>1, <2>3, <2>5 DEF TierHolds
  <2> QED
    BY <2>1, <2>3, <2>4, <2>5, <2>7, <2>11, <2>12 DEF TierHolds, g, r
<1> QED
  BY <1>1, <1>2

(* A key that the order does not have takes its recent end.                *)
LEMMA TakesRecentEnd ==
    ASSUME NEW s \in Seq(Keys), Once(s), NEW k \in Keys,
           \A i \in 1 .. Len(s) : s[i] # k
    PROVE  /\ Append(s, k) \in Seq(Keys) /\ Once(Append(s, k))
           /\ Len(Append(s, k)) = Len(s) + 1
           /\ \A j : (\E i \in 1 .. Len(Append(s, k)) : Append(s, k)[i] = j) <=>
                        j = k \/ \E i \in 1 .. Len(s) : s[i] = j
<1> DEFINE a == Append(s, k)
<1>1. /\ a \in Seq(Keys) /\ Len(a) = Len(s) + 1 /\ a[Len(s) + 1] = k
      /\ \A i \in 1 .. Len(s) : a[i] = s[i]
  BY AppendProperties
<1>2. Len(s) \in Nat
  OBVIOUS
<1> HIDE DEF a
<1>3. \A i \in 1 .. Len(a) : i \in 1 .. Len(s) \/ i = Len(s) + 1
  BY <1>1, <1>2
<1>4. Once(a)
  BY <1>1, <1>3 DEF Once
<1>5. Len(s) + 1 \in 1 .. Len(a) /\ \A i \in 1 .. Len(s) : i \in 1 .. Len(a)
  BY <1>1, <1>2
<1>6. ASSUME NEW j
      PROVE  (\E i \in 1 .. Len(a) : a[i] = j) <=>
               j = k \/ \E i \in 1 .. Len(s) : s[i] = j
  BY <1>1, <1>3, <1>5
<1> QED
  BY <1>1, <1>4, <1>6 DEF a

LEMMA InsertHolds ==
    ASSUME NEW h, TierHolds(h), NEW k \in Keys, k \notin HeldBy(h), NEW w \in Nat \ {0},
           NEW c, [content |-> c, weight |-> w] # None
    PROVE  /\ TierHolds(HotInsert(h, k, c, w))
           /\ HotInsert(h, k, c, w).order = Append(h.order, k)
<1> DEFINE g == HotInsert(h, k, c, w)
<1>1. /\ g.order = Append(h.order, k)
      /\ g.held = [h.held EXCEPT ![k] = [content |-> c, weight |-> w]]
      /\ g.total = h.total + w
  BY DEF HotInsert
<1> HIDE DEF g
<1>2. /\ g.held = [j \in Keys |-> g.held[j]]
      /\ g.held[k] # None /\ g.held[k].weight = w
      /\ \A j \in Keys \ {k} : g.held[j] = h.held[j]
  BY <1>1 DEF TierHolds
<1>3. HeldBy(g) = HeldBy(h) \cup {k}
  BY <1>2 DEF HeldBy
<1>4. \A j \in HeldBy(h) : j # k /\ g.held[j] = h.held[j]
  BY <1>2 DEF HeldBy
<1>5. \A j \in HeldBy(g) : g.held[j].weight \in Nat \ {0}
  BY <1>2, <1>3, <1>4 DEF TierHolds
<1>6. SumFunction(HeldWeights(g)) = w + SumFunction(HeldWeights(h))
  <2>1. /\ DOMAIN HeldWeights(g) = HeldBy(h) \cup {k}
        /\ HeldWeights(g)[k] = w
        /\ \A j \in HeldBy(g) : HeldWeights(g)[j] \in Nat
    BY <1>2, <1>3, <1>5 DEF HeldWeights
  <2>2. \A j \in HeldBy(h) : HeldWeights(g)[j] = HeldWeights(h)[j]
    BY <1>3, <1>4 DEF HeldWeights
  <2>3. HeldWeights(h) = [j \in HeldBy(h) |-> HeldWeights(h)[j]]
    BY DEF HeldWeights
  <2>4. DOMAIN HeldWeights(h) = HeldBy(h) /\ IsFiniteSet(HeldBy(h))
    BY HeldSummed
  <2> DEFINE f == HeldWeights(h)
             e == HeldWeights(g)
  <2>5. /\ IsFiniteSet(DOMAIN f) /\ k \notin DOMAIN f /\ DOMAIN e = DOMAIN f \cup {k}
        /\ \A j \in DOMAIN f : e[j] = f[j]
        /\ \A j \in DOMAIN e : e[j] \in Nat
        /\ f = [j \in DOMAIN f |-> f[j]]
    BY <1>3, <2>1, <2>2, <2>3, <2>4
  <2> HIDE DEF f, e
  <2>6. SumFunction(e) = e[k] + SumFunction(f)
    BY <2>5, SumWith
  <2> QED
    BY <2>1, <2>6 DEF f, e
<1>7. g.total = SumFunction(HeldWeights(g))
  BY <1>1, <1>6, HeldSummed
<1>8. /\ g.order \in Seq(Keys) /\ Once(g.order)
      /\ \A j : (\E i \in 1 .. Len(g.order) : g.order[i] = j) <=>
                   j = k \/ \E i \in 1 .. Len(h.order) : h.order[i] = j
  <2>1. \A i \in 1 .. Len(h.order) : h.order[i] # k
    BY DEF TierHolds
  <2> QED
    BY <1>1, <2>1, TakesRecentEnd DEF TierHolds
<1>9. \A j : j \in HeldBy(g) <=> \E i \in 1 .. Len(g.order) : g.order[i] = j
  BY <1>3, <1>8 DEF TierHolds
<1> QED
  BY <1>1, <1>2, <1>5, <1>7, <1>8, <1>9 DEF TierHolds, g

(* A lookup changes the order alone.                                       *)
LEMMA TouchHolds ==
    ASSUME NEW h, TierHolds(h), NEW k \in Keys
    PROVE  /\ TierHolds(HotTouch(h, k))
           /\ Len(HotTouch(h, k).order) = Len(h.order)
           /\ HotTouch(h, k).total = h.total
           /\ HotTouch(h, k).order = IF HotLookup(h, k) = None THEN h.order
                                     ELSE Append(RemoveFirst(h.order, k), k)
<1>1. CASE h.held[k] = None
  BY <1>1 DEF HotTouch, HotLookup
<1>2. CASE h.held[k] # None
  <2> DEFINE g == HotTouch(h, k)
             r == RemoveFirst(h.order, k)
  <2>1. /\ g.order = Append(r, k) /\ g.held = h.held /\ g.total = h.total
        /\ HotLookup(h, k) # None
    BY <1>2 DEF HotTouch, HotLookup
  <2>2. h.order \in Seq(Keys) /\ Once(h.order)
    BY DEF TierHolds
  <2>3. PICK p \in 1 .. Len(h.order) : h.order[p] = k
    <3>1. k \in HeldBy(h)
      BY <1>2 DEF HeldBy
    <3> QED
      BY <3>1 DEF TierHolds
  <2>4. /\ r \in Seq(Keys) /\ Once(r)
        /\ \A j : (\E i \in 1 .. Len(r) : r[i] = j) <=>
                     j # k /\ \E i \in 1 .. Len(h.order) : h.order[i] = j
    <3> DEFINE s == h.order
    <3>1. s \in Seq(Keys) /\ Once(s)
      BY <2>2
    <3> HIDE DEF s
    <3>2. LET q == RemoveFirst(s, k)
          IN  /\ q \in Seq(Keys) /\ Once(q) /\ Len(q) <= Len(s)
              /\ \A j : (\E i \in 1 .. Len(q) : q[i] = j) <=>
                           j # k /\ \E i \in 1 .. Len(s) : s[i] = j
      BY <3>1, LeftOver
    <3> QED
      BY <3>2 DEF s
  <2>5. Len(r) = Len(h.order) - 1 /\ Len(h.order) \in Nat
    <3> DEFINE s == h.order
    <3>1. s \in Seq(Keys) /\ Once(s) /\ p \in 1 .. Len(s) /\ s[p] = k
      BY <2>2, <2>3
    <3> HIDE DEF s
    <3>2. Len(RemoveFirst(s, s[p])) = Len(s) - 1 /\ Len(s) \in Nat
      BY <3>1, TakenOut
    <3> QED
      BY <3>1, <3>2 DEF s
  <2> HIDE DEF g, r
  <2>6. /\ g.order \in Seq(Keys) /\ Once(g.order) /\ Len(g.order) = Len(r) + 1
        /\ \A j : (\E i \in 1 .. Len(g.order) : g.order[i] = j) <=>
                     j = k \/ \E i \in 1 .. Len(r) : r[i] = j
    <3>1. r \in Seq(Keys) /\ Once(r) /\ \A i \in 1 .. Len(r) : r[i] # k
      BY <2>4
    <3>2. /\ Append(r, k) \in Seq(Keys) /\ Once(Append(r, k))
          /\ Len(Append(r, k)) = Len(r) + 1
          /\ \A j : (\E i \in 1 .. Len(Append(r, k)) : Append(r, k)[i] = j) <=>
                       j = k \/ \E i \in 1 .. Len(r) : r[i] = j
      BY <3>1, TakesRecentEnd
    <3> QED
      BY <2>1, <3>2
  <2>7. \A j : j \in HeldBy(g) <=> \E i \in 1 .. Len(g.order) : g.order[i] = j
    BY <2>1, <2>3, <2>4, <2>6 DEF HeldBy, TierHolds
  <2>8. HeldBy(g) = HeldBy(h) /\ HeldWeights(g) = HeldWeights(h)
    BY <2>1 DEF HeldBy, HeldWeights
  <2>9. TierHolds(g)
    BY <2>1, <2>6, <2>7, <2>8 DEF TierHolds
  <2>10. Len(g.order) = Len(h.order)
    BY <2>5, <2>6
  <2> QED
    BY <1>2, <2>1, <2>9, <2>10 DEF g, r, HotLookup
<1> QED
  BY <1>1, <1>2

(* Dropping the n oldest takes their weight off the total.                 *)
LEMMA DroppedHolds ==
    ASSUME NEW h, TierHolds(h), NEW n \in 0 .. Len(h.order)
    PROVE  /\ TierHolds(HotDropped(h, n))
           /\ HotDropped(h, n).order = SubSeq(h.order, n + 1, Len(h.order))
           /\ n = Len(h.order) => HotDropped(h, n).total = 0
<1> DEFINE g == HotDropped(h, n)
           s == h.order
           r == SubSeq(s, n + 1, Len(s))
           old == Oldest(h, n)
<1>1. /\ g.order = r
      /\ g.held = [k \in Keys |-> IF k \in old THEN None ELSE h.held[k]]
      /\ g.total = Monus(h.total, Weighs(h, old))
  BY DEF HotDropped
<1>2. /\ s \in Seq(Keys) /\ Once(s) /\ Len(s) \in Nat /\ n \in Nat /\ n <= Len(s)
      /\ \A i \in 1 .. Len(s) : s[i] \in Keys
  BY ElementOfSeq DEF TierHolds
<1>3. \A k : k \in old <=> \E i \in 1 .. n : s[i] = k
  BY DEF Oldest
<1>4. \A k : k \in HeldBy(h) <=> \E i \in 1 .. Len(s) : s[i] = k
  BY DEF TierHolds
<1>5. /\ r \in Seq(Keys) /\ Len(r) = Len(s) - n
      /\ \A i \in 1 .. Len(s) - n : r[i] = s[n + i]
  <2>1. n + 1 \in Int /\ Len(s) \in Int /\ \A i \in n + 1 .. Len(s) : s[i] \in Keys
    BY <1>2
  <2> HIDE DEF s
  <2>2. /\ r \in Seq(Keys)
        /\ Len(r) = IF n + 1 <= Len(s) THEN Len(s) - (n + 1) + 1 ELSE 0
        /\ \A i \in 1 .. Len(s) - (n + 1) + 1 : r[i] = s[n + 1 + i - 1]
    BY <2>1, SubSeqProperties
  <2> HIDE DEF r
  <2>3. ASSUME NEW i \in 1 .. Len(s) - n PROVE r[i] = s[n + i]
    <3>1. i \in 1 .. Len(s) - (n + 1) + 1 /\ n + 1 + i - 1 = n + i
      BY <1>2
    <3> QED
      BY <2>2, <3>1
  <2> QED
    BY <1>2, <2>2, <2>3
<1> HIDE DEF g, s, r, old
<1>6. Once(r)
  <2> SUFFICES ASSUME NEW i \in 1 .. Len(r), NEW j \in 1 .. Len(r), r[i] = r[j]
               PROVE  i = j
    BY DEF Once
  <2>1. /\ i \in 1 .. Len(s) - n /\ j \in 1 .. Len(s) - n
        /\ n + i \in 1 .. Len(s) /\ n + j \in 1 .. Len(s)
    BY <1>2, <1>5
  <2>2. s[n + i] = s[n + j]
    BY <1>5, <2>1
  <2>3. n + i = n + j
    BY <1>2, <2>1, <2>2 DEF Once
  <2> QED
    BY <1>2, <2>1, <2>3
<1>7. HeldBy(g) = HeldBy(h) \ old
  BY <1>1 DEF HeldBy
<1>8. \A k \in HeldBy(g) : k \in HeldBy(h) /\ k \notin old /\ g.held[k] = h.held[k]
  BY <1>1, <1>7 DEF HeldBy
<1>9. old \subseteq HeldBy(h)
  <2>1. \A i \in 1 .. n : i \in 1 .. Len(s)
    BY <1>2
  <2> QED
    BY <2>1, <1>3, <1>4
<1>10. ASSUME NEW k
       PROVE  k \in HeldBy(g) <=> \E i \in 1 .. Len(r) : r[i] = k
  <2>1. ASSUME k \in HeldBy(g)
        PROVE  \E i \in 1 .. Len(r) : r[i] = k
    <3>1. PICK i \in 1 .. Len(s) : s[i] = k
      BY <1>4, <1>8, <2>1
    <3>2. ~(i \in 1 .. n)
      BY <1>3, <1>8, <2>1, <3>1
    <3>3. i - n \in 1 .. Len(s) - n /\ n + (i - n) = i
      BY <1>2, <3>2
    <3>4. r[i - n] = k
      BY <1>5, <3>1, <3>3
    <3> QED
      BY <1>5, <3>3, <3>4
  <2>2. ASSUME NEW i \in 1 .. Len(r), r[i] = k
        PROVE  k \in HeldBy(g)
    <3>1. i \in 1 .. Len(s) - n /\ n + i \in 1 .. Len(s)
      BY <1>2, <1>5
    <3>2. s[n + i] = k
      BY <1>5, <2>2, <3>1
    <3>3. k \notin old
      <4>1. \A j \in 1 .. n : j \in 1 .. Len(s) /\ j # n + i
        BY <1>2, <3>1
      <4> QED
        BY <1>2, <1>3, <3>1, <3>2, <4>1 DEF Once
    <3> QED
      BY <1>4, <1>7, <3>1, <3>2, <3>3
  <2> QED
    BY <2>1, <2>2
<1>11. g.held = [k \in Keys |-> g.held[k]]
  BY <1>1
<1>12. \A k \in HeldBy(g) : g.held[k].weight \in Nat \ {0}
  BY <1>8 DEF TierHolds
<1>13. /\ h.total = Weighs(h, old) + SumFunction(HeldWeights(g))
       /\ Weighs(h, old) \in Nat /\ SumFunction(HeldWeights(g)) \in Nat
  <2> DEFINE f == HeldWeights(h)
             a == [k \in old |-> f[k]]
             b == [k \in DOMAIN f \ old |-> f[k]]
  <2>1. /\ DOMAIN f = HeldBy(h) /\ IsFiniteSet(DOMAIN f)
        /\ \A k \in DOMAIN f : f[k] = h.held[k].weight /\ f[k] \in Nat
        /\ h.total = SumFunction(f)
    BY HeldSummed
  <2>2. f = [k \in DOMAIN f |-> f[k]]
    BY DEF HeldWeights
  <2>3. Weighs(h, old) = SumFunction(a)
    <3>1. a = [k \in old |-> h.held[k].weight]
      BY <1>9, <2>1
    <3> QED
      BY <3>1 DEF Weighs
  <2>4. HeldWeights(g) = b
    BY <1>7, <1>8, <2>1 DEF HeldWeights
  <2>5. SumFunction(a) \in Nat /\ SumFunction(b) \in Nat
    <3>1. IsFiniteSet(old) /\ IsFiniteSet(DOMAIN f \ old)
      BY <1>9, <2>1, FS_Subset
    <3>2. /\ DOMAIN a = old /\ DOMAIN b = DOMAIN f \ old
          /\ \A k \in old : a[k] \in Nat
          /\ \A k \in DOMAIN f \ old : b[k] \in Nat
      BY <1>9, <2>1
    <3> HIDE DEF a, b
    <3> QED
      BY <3>1, <3>2, SumNat
  <2> HIDE DEF f
  <2>6. SumFunction([k \in DOMAIN f |-> f[k]]) = SumFunction(a) + SumFunction(b)
    BY <1>9, <2>1, SumSplit
  <2>7. SumFunction(f) = SumFunction(a) + SumFunction(b)
    BY <2>2, <2>6
  <2> QED
    BY <2>1, <2>3, <2>4, <2>5, <2>7
<1>14. g.total = SumFunction(HeldWeights(g))
  BY <1>1, <1>13 DEF Monus
<1>15. n = Len(s) => g.total = 0
  <2> SUFFICES ASSUME n = Len(s) PROVE g.total = 0
    OBVIOUS
  <2>1. HeldBy(g) = {}
    BY <1>3, <1>4, <1>7
  <2>2. DOMAIN HeldWeights(g) = {}
    BY <2>1 DEF HeldWeights
  <2> QED
    BY <2>2, <1>14, SumEmpty
<1>16. TierHolds(g)
  BY <1>1, <1>5, <1>6, <1>10, <1>11, <1>12, <1>14 DEF TierHolds
<1> QED
  BY <1>1, <1>15, <1>16 DEF g, s, r

(* Eviction ends at a tier that fits.                                      *)
LEMMA EvictHolds ==
    ASSUME NEW h, TierHolds(h)
    PROVE  /\ TierHolds(HotEvict(h)) /\ HotFits(HotEvict(h))
           /\ \E n \in 0 .. Len(h.order) :
                 HotEvict(h).order = SubSeq(h.order, n + 1, Len(h.order))
<1> DEFINE N == Len(h.order)
           Good(n) == n = N \/ HotFits(HotDropped(h, n))
           S == {n \in 0 .. N : Good(n)}
           f == [n \in S |-> n]
<1>1. N \in Nat /\ N \in S
  BY DEF TierHolds
<1>2. IsFiniteSet(S)
  <2>1. IsFiniteSet(0 .. N)
    BY <1>1, FS_Interval
  <2> QED
    BY <2>1, FS_Subset
<1>3. PICK m \in S : \A n \in S : m <= n
  <2>1. /\ DOMAIN f = S /\ \A n \in S : f[n] = n /\ f[n] \in Nat
        /\ S # {}
    BY <1>1
  <2> HIDE DEF f, S
  <2>2. \E m \in DOMAIN f : \A n \in DOMAIN f : f[m] <= f[n]
    BY <1>2, <2>1, Extremes
  <2> QED
    BY <2>1, <2>2
<1>4. \E n \in 0 .. N : /\ Good(n)
                        /\ \A k \in 0 .. n - 1 : ~HotFits(HotDropped(h, k))
  <2>1. ASSUME NEW k \in 0 .. m - 1 PROVE ~HotFits(HotDropped(h, k))
    <3>1. m \in 0 .. N /\ k \in 0 .. N /\ ~(m <= k)
      BY <1>1
    <3>2. k \notin S
      BY <1>3, <3>1
    <3> QED
      BY <3>1, <3>2
  <2> QED
    BY <2>1
<1>5. PICK n \in 0 .. N : Good(n) /\ HotEvict(h) = HotDropped(h, n)
  <2> HIDE DEF S, f
  <2> QED
    BY <1>4 DEF HotEvict
<1>6. /\ TierHolds(HotDropped(h, n))
      /\ HotDropped(h, n).order = SubSeq(h.order, n + 1, N)
      /\ n = N => HotDropped(h, n).total = 0
  BY DroppedHolds
<1>7. CASE n = N
  <2>1. SubSeq(h.order, N + 1, N) = << >>
    BY <1>1, SubSeqEmpty
  <2>2. HotFits(HotDropped(h, n))
    BY <1>6, <1>7, <2>1, HotAssumption DEF HotFits
  <2> QED
    BY <1>5, <1>6, <2>2
<1> QED
  BY <1>5, <1>6, <1>7

(* A tier that fits limits of which one is zero is empty.                  *)
LEMMA FitsNothing ==
    ASSUME NEW h, TierHolds(h), HotFits(h), HotMaxEntries = 0 \/ HotMaxTokens = 0
    PROVE  h.order = << >>
<1>1. h.order \in Seq(Keys) /\ Len(h.order) \in Nat
  BY DEF TierHolds
<1>2. CASE HotMaxEntries = 0
  BY <1>1, <1>2 DEF HotFits
<1>3. CASE HotMaxTokens = 0
  <2>1. SUFFICES ASSUME Len(h.order) # 0 PROVE FALSE
    BY <1>1
  <2>2. h.order[1] \in HeldBy(h)
    BY <1>1, <2>1 DEF TierHolds
  <2> DEFINE f == HeldWeights(h)
             k == h.order[1]
             rest == [j \in DOMAIN f \ {k} |-> f[j]]
  <2>3. /\ DOMAIN f = HeldBy(h) /\ IsFiniteSet(DOMAIN f)
        /\ \A j \in DOMAIN f : f[j] = h.held[j].weight /\ f[j] \in Nat
        /\ h.total = SumFunction(f)
    BY HeldSummed
  <2>4. k \in DOMAIN f /\ f[k] \in Nat \ {0}
    BY <2>2, <2>3 DEF TierHolds
  <2>5. SumFunction(rest) \in Nat
    <3>1. DOMAIN rest = DOMAIN f \ {k} /\ IsFiniteSet(DOMAIN f \ {k})
      BY <2>3, FS_RemoveElement
    <3>2. \A j \in DOMAIN f \ {k} : rest[j] \in Nat
      BY <2>3
    <3> HIDE DEF rest
    <3> QED
      BY <3>1, <3>2, SumNat
  <2> HIDE DEF f, k
  <2>6. SumFunction(f) = f[k] + SumFunction(rest)
    BY <2>3, <2>4, SumWithout
  <2> HIDE DEF rest
  <2>7. h.total # 0 /\ h.total \in Nat
    BY <2>3, <2>4, <2>5, <2>6
  <2> QED
    BY <1>3, <2>7 DEF HotFits
<1> QED
  BY <1>2, <1>3

(* put leaves a tier that fits, if it found one, without the key or with   *)
(* it at the recent end.                                                   *)
LEMMA PutHolds ==
    ASSUME NEW h, TierHolds(h), HotFits(h), NEW k \in Keys, NEW w \in Nat
    PROVE  LET g == HotPut(h, k, Content, w)
               r == RemoveFirst(h.order, k)
           IN  /\ TierHolds(g) /\ HotFits(g)
               /\ w > HotMaxTokens => g.order = r
               /\ w <= HotMaxTokens =>
                     \/ g.order = << >>
                     \/ \E n \in 0 .. Len(Append(r, k)) :
                           g.order = SubSeq(Append(r, k), n + 1, Len(Append(r, k)))
<1> DEFINE popped == HotPop(h, k)
           weight == IF w < 1 THEN 1 ELSE w
           more == HotInsert(popped, k, Content, weight)
           g == HotPut(h, k, Content, w)
           r == RemoveFirst(h.order, k)
<1>1. g = IF HotMaxEntries = 0 \/ HotMaxTokens = 0 \/ weight > HotMaxTokens
          THEN popped ELSE HotEvict(more)
  BY DEF HotPut
<1>2. /\ TierHolds(popped) /\ popped.order = r
      /\ HeldBy(popped) = HeldBy(h) \ {k}
      /\ popped.total <= h.total /\ Len(popped.order) <= Len(h.order)
  BY PopHolds
<1>3. HotFits(popped)
  <2>1. /\ popped.total \in Nat /\ h.total \in Nat
        /\ Len(popped.order) \in Nat /\ Len(h.order) \in Nat
    <3> HIDE DEF popped
    <3> QED
      BY <1>2, HeldSummed, HeldCounted
  <2> HIDE DEF popped
  <2>2. /\ Len(popped.order) <= HotMaxEntries /\ popped.total <= HotMaxTokens
    BY <1>2, <2>1, HotAssumption DEF HotFits
  <2> QED
    BY <2>2 DEF HotFits
<1>4. weight \in Nat \ {0} /\ (weight > HotMaxTokens => w > HotMaxTokens \/ HotMaxTokens = 0)
      /\ (w > HotMaxTokens => weight > HotMaxTokens)
  BY HotAssumption
<1> HIDE DEF popped, weight, g, r
<1>5. CASE HotMaxEntries = 0 \/ HotMaxTokens = 0 \/ weight > HotMaxTokens
  <2>1. g = popped
    BY <1>1, <1>5
  <2>2. w <= HotMaxTokens => HotMaxEntries = 0 \/ HotMaxTokens = 0
    BY <1>4, <1>5, HotAssumption
  <2>3. w <= HotMaxTokens => g.order = << >>
    BY <1>2, <1>3, <2>1, <2>2, FitsNothing
  <2> QED
    BY <1>2, <1>3, <2>1, <2>3 DEF g, r
<1>6. CASE ~(HotMaxEntries = 0 \/ HotMaxTokens = 0 \/ weight > HotMaxTokens)
  <2>1. g = HotEvict(more) /\ ~(w > HotMaxTokens)
    BY <1>1, <1>4, <1>6
  <2>2. [content |-> Content, weight |-> weight] # None
    <3>1. weight \in 1 .. HotMaxTokens
      BY <1>4, <1>6, HotAssumption
    <3> QED
      BY <3>1, TierAssumption
  <2>3. TierHolds(more) /\ more.order = Append(r, k)
    BY <1>2, <1>4, <2>2, InsertHolds
  <2> HIDE DEF more
  <2>4. /\ TierHolds(HotEvict(more)) /\ HotFits(HotEvict(more))
        /\ \E n \in 0 .. Len(more.order) :
              HotEvict(more).order = SubSeq(more.order, n + 1, Len(more.order))
    BY <2>3, EvictHolds
  <2> QED
    BY <2>1, <2>3, <2>4 DEF g, r
<1> QED
  BY <1>5, <1>6

-----------------------------------------------------------------------------
(* s is the recent end of t.                                               *)
RecentEnd(s, t) ==
    /\ Len(s) <= Len(t)
    /\ \A i \in 1 .. Len(s) : s[i] = t[Len(t) - Len(s) + i]

LEMMA RecentEndIsSuffix ==
    ASSUME NEW s \in Seq(Keys), NEW t \in Seq(Keys), RecentEnd(s, t)
    PROVE  IsSuffix(s, t)
<1> DEFINE a == Reverse(s)
           b == Reverse(t)
           n == Len(s)
<1>1. /\ n \in Nat /\ Len(t) \in Nat /\ n <= Len(t)
      /\ \A i \in 1 .. n : s[i] = t[Len(t) - n + i] /\ s[i] \in Keys
      /\ \A i \in 1 .. Len(t) : t[i] \in Keys
  BY ElementOfSeq DEF RecentEnd
<1>2. /\ a \in Seq(Keys) /\ Len(a) = n
      /\ \A i \in 1 .. n : a[i] = s[(n - i) + 1]
  BY <1>1 DEF Reverse
<1>3. /\ b \in Seq(Keys) /\ Len(b) = Len(t)
      /\ \A i \in 1 .. Len(t) : b[i] = t[(Len(t) - i) + 1]
  BY <1>1 DEF Reverse
<1> HIDE DEF a, b, n
<1>4. ASSUME NEW i \in 1 .. n PROVE a[i] = b[i] /\ a[i] \in Keys /\ b[i] \in Keys
  <2>1. /\ (n - i) + 1 \in 1 .. n /\ i \in 1 .. Len(t) /\ (Len(t) - i) + 1 \in 1 .. Len(t)
        /\ Len(t) - n + ((n - i) + 1) = (Len(t) - i) + 1
    BY <1>1
  <2>2. s[(n - i) + 1] = t[Len(t) - n + ((n - i) + 1)] /\ s[(n - i) + 1] \in Keys
    BY <1>1, <2>1
  <2> QED
    BY <1>2, <1>3, <2>1, <2>2
<1>5. /\ SubSeq(a, 1, n) \in Seq(Keys) /\ Len(SubSeq(a, 1, n)) = n
      /\ \A i \in 1 .. n : SubSeq(a, 1, n)[i] = a[i]
  BY <1>1, <1>2, <1>4
<1>6. /\ SubSeq(b, 1, n) \in Seq(Keys) /\ Len(SubSeq(b, 1, n)) = n
      /\ \A i \in 1 .. n : SubSeq(b, 1, n)[i] = b[i]
  BY <1>1, <1>3, <1>4
<1>7. SubSeq(a, 1, n) = SubSeq(b, 1, n)
  BY <1>4, <1>5, <1>6, SeqEqual
<1> QED
  BY <1>1, <1>2, <1>3, <1>7 DEF IsSuffix, IsPrefix, a, b, n

(* It stays so when a key is taken out of both, when a key is appended to  *)
(* both, and when the oldest of it are dropped.                            *)
LEMMA EndTakenOut ==
    ASSUME NEW s \in Seq(Keys), NEW t \in Seq(Keys), Once(s), Once(t),
           RecentEnd(s, t), NEW k
    PROVE  RecentEnd(RemoveFirst(s, k), RemoveFirst(t, k))
<1> DEFINE n == Len(s)
           m == Len(t)
           d == m - n
           a == RemoveFirst(s, k)
           b == RemoveFirst(t, k)
<1>1. /\ n \in Nat /\ m \in Nat /\ d \in Nat /\ n <= m
      /\ \A i \in 1 .. n : s[i] = t[d + i] /\ d + i \in 1 .. m
  BY DEF RecentEnd
<1>2. CASE \A i \in 1 .. m : t[i] # k
  <2>1. \A i \in 1 .. n : s[i] # k
    BY <1>1, <1>2
  <2> QED
    BY <1>2, <2>1, NotThere
<1>3. ASSUME NEW q \in 1 .. m, t[q] = k, \A i \in 1 .. n : s[i] # k
      PROVE  RecentEnd(a, b)
  <2>1. a = s
    BY <1>3, NotThere
  <2>2. /\ Len(b) = m - 1
        /\ \A i \in 1 .. m - 1 : b[i] = IF i < q THEN t[i] ELSE t[i + 1]
    BY <1>3, TakenOut
  <2> HIDE DEF n, m, d, a, b
  <2>3. q <= d
    <3>1. SUFFICES ASSUME ~(q <= d) PROVE FALSE
      OBVIOUS
    <3>2. q - d \in 1 .. n /\ d + (q - d) = q
      <4>1. d = m - n /\ q \in Nat /\ q <= m /\ 1 <= q
        BY <1>1 DEF d
      <4> QED
        BY <1>1, <3>1, <4>1
    <3>3. s[q - d] = k
      BY <1>1, <1>3, <3>2
    <3> QED
      BY <1>3, <3>2, <3>3
  <2>4. d = m - n
    BY DEF d
  <2>5. n <= m - 1
    BY <1>1, <2>3, <2>4
  <2>6. ASSUME NEW i \in 1 .. n PROVE s[i] = b[(m - 1) - n + i]
    <3>1. /\ (m - 1) - n + i \in 1 .. m - 1 /\ ~((m - 1) - n + i < q)
          /\ (m - 1) - n + i + 1 = d + i
      BY <1>1, <2>3, <2>4
    <3>2. b[(m - 1) - n + i] = t[d + i]
      BY <2>2, <3>1
    <3> QED
      BY <1>1, <3>2
  <2> QED
    BY <2>1, <2>2, <2>5, <2>6 DEF RecentEnd, n
<1>4. ASSUME NEW p \in 1 .. n, s[p] = k
      PROVE  RecentEnd(a, b)
  <2>1. /\ Len(a) = n - 1
        /\ \A i \in 1 .. n - 1 : a[i] = IF i < p THEN s[i] ELSE s[i + 1]
    BY <1>4, TakenOut
  <2>2. d + p \in 1 .. m /\ t[d + p] = k
    BY <1>1, <1>4
  <2>3. /\ Len(b) = m - 1
        /\ \A i \in 1 .. m - 1 : b[i] = IF i < d + p THEN t[i] ELSE t[i + 1]
    <3> HIDE DEF d
    <3>1. /\ Len(RemoveFirst(t, t[d + p])) = Len(t) - 1
          /\ \A i \in 1 .. Len(t) - 1 :
                RemoveFirst(t, t[d + p])[i] = IF i < d + p THEN t[i] ELSE t[i + 1]
      BY <2>2, TakenOut
    <3> QED
      BY <2>2, <3>1
  <2>4. d = m - n
    OBVIOUS
  <2> HIDE DEF n, m, d, a, b
  <2>5. ASSUME NEW i \in 1 .. n - 1 PROVE a[i] = b[(m - 1) - (n - 1) + i]
    <3>1. /\ i \in 1 .. n /\ i + 1 \in 1 .. n /\ d + i \in 1 .. m - 1
          /\ (m - 1) - (n - 1) + i = d + i /\ d + (i + 1) = d + i + 1
          /\ (d + i < d + p <=> i < p)
      BY <1>1, <2>4
    <3>2. b[d + i] = IF i < p THEN t[d + i] ELSE t[d + i + 1]
      BY <2>3, <3>1
    <3>3. s[i] = t[d + i] /\ s[i + 1] = t[d + (i + 1)]
      BY <1>1, <3>1
    <3> QED
      BY <2>1, <3>1, <3>2, <3>3
  <2>6. n - 1 <= m - 1
    BY <1>1
  <2> QED
    BY <2>1, <2>3, <2>5, <2>6 DEF RecentEnd
<1> QED
  BY <1>2, <1>3, <1>4

LEMMA EndAppended ==
    ASSUME NEW s \in Seq(Keys), NEW t \in Seq(Keys), RecentEnd(s, t), NEW k \in Keys
    PROVE  RecentEnd(Append(s, k), Append(t, k))
<1> DEFINE a == Append(s, k)
           b == Append(t, k)
           n == Len(s)
           m == Len(t)
<1>1. /\ Len(a) = n + 1 /\ a[n + 1] = k /\ \A i \in 1 .. n : a[i] = s[i]
      /\ Len(b) = m + 1 /\ b[m + 1] = k /\ \A i \in 1 .. m : b[i] = t[i]
  BY AppendProperties
<1>2. /\ n \in Nat /\ m \in Nat /\ n <= m
      /\ \A i \in 1 .. n : s[i] = t[m - n + i]
  BY DEF RecentEnd
<1> HIDE DEF a, b, n, m
<1>3. ASSUME NEW i \in 1 .. n + 1 PROVE a[i] = b[(m + 1) - (n + 1) + i]
  <2>1. CASE i = n + 1
    <3>1. (m + 1) - (n + 1) + i = m + 1
      BY <1>2, <2>1
    <3> QED
      BY <1>1, <2>1, <3>1
  <2>2. CASE i # n + 1
    <3>1. i \in 1 .. n /\ (m + 1) - (n + 1) + i = m - n + i /\ m - n + i \in 1 .. m
      BY <1>2, <2>2
    <3> QED
      BY <1>1, <1>2, <3>1
  <2> QED
    BY <2>1, <2>2
<1>4. n + 1 <= m + 1
  BY <1>2
<1> QED
  BY <1>1, <1>3, <1>4 DEF RecentEnd, a, b

LEMMA EndDropped ==
    ASSUME NEW s \in Seq(Keys), NEW t \in Seq(Keys), RecentEnd(s, t),
           NEW x \in 0 .. Len(s)
    PROVE  RecentEnd(SubSeq(s, x + 1, Len(s)), t)
<1> DEFINE a == SubSeq(s, x + 1, Len(s))
           n == Len(s)
           m == Len(t)
<1>1. /\ n \in Nat /\ m \in Nat /\ n <= m /\ x \in Nat /\ x <= n
      /\ \A i \in 1 .. n : s[i] = t[m - n + i] /\ s[i] \in Keys
  BY ElementOfSeq DEF RecentEnd
<1>2. Len(a) = n - x /\ \A i \in 1 .. n - x : a[i] = s[x + i]
  <2>1. x + 1 \in Int /\ n \in Int /\ \A i \in x + 1 .. n : s[i] \in Keys
    BY <1>1
  <2> HIDE DEF n
  <2>2. /\ Len(SubSeq(s, x + 1, n)) = IF x + 1 <= n THEN n - (x + 1) + 1 ELSE 0
        /\ \A i \in 1 .. n - (x + 1) + 1 : SubSeq(s, x + 1, n)[i] = s[x + 1 + i - 1]
    BY <2>1, SubSeqProperties
  <2>3. a = SubSeq(s, x + 1, n)
    BY DEF n
  <2> HIDE DEF a
  <2>4. ASSUME NEW i \in 1 .. n - x PROVE a[i] = s[x + i]
    <3>1. i \in 1 .. n - (x + 1) + 1 /\ x + 1 + i - 1 = x + i
      BY <1>1
    <3> QED
      BY <2>2, <2>3, <3>1
  <2> QED
    BY <1>1, <2>2, <2>3, <2>4
<1> HIDE DEF a, n, m
<1>3. ASSUME NEW i \in 1 .. n - x PROVE a[i] = t[m - (n - x) + i]
  <2>1. x + i \in 1 .. n /\ m - n + (x + i) = m - (n - x) + i
    BY <1>1
  <2> QED
    BY <1>1, <1>2, <2>1
<1>4. n - x <= m
  BY <1>1
<1> QED
  BY <1>2, <1>3, <1>4 DEF RecentEnd, a, m

-----------------------------------------------------------------------------
TierInv ==
    /\ TierHolds(tier) /\ HotFits(tier)
    /\ used \in Seq(Keys) /\ Once(used)
    /\ RecentEnd(tier.order, used)

LEMMA TierStart == TierInit => TierInv
<1> SUFFICES ASSUME TierInit PROVE TierInv
  OBVIOUS
<1>1. /\ tier.order = << >> /\ tier.held = [k \in Keys |-> None] /\ tier.total = 0
      /\ used = << >>
  BY DEF TierInit, EmptyTier
<1>2. HeldBy(tier) = {}
  BY <1>1 DEF HeldBy
<1>3. SumFunction(HeldWeights(tier)) = 0
  BY <1>2, SumEmpty DEF HeldWeights
<1>4. /\ << >> \in Seq(Keys) /\ Len(<< >>) = 0
  BY EmptySeq
<1>5. Once(<< >>) /\ RecentEnd(<< >>, << >>)
  BY <1>4 DEF Once, RecentEnd
<1>6. TierHolds(tier)
  BY <1>1, <1>2, <1>3, <1>4, <1>5 DEF TierHolds
<1> QED
  BY <1>1, <1>4, <1>5, <1>6, HotAssumption DEF TierInv, HotFits

(* The order of use after a use of k.                                      *)
LEMMA UsedAgain ==
    ASSUME NEW s \in Seq(Keys), Once(s), NEW k \in Keys
    PROVE  /\ RemoveFirst(s, k) \in Seq(Keys) /\ Once(RemoveFirst(s, k))
           /\ Append(RemoveFirst(s, k), k) \in Seq(Keys)
           /\ Once(Append(RemoveFirst(s, k), k))
<1> DEFINE r == RemoveFirst(s, k)
<1>1. /\ r \in Seq(Keys) /\ Once(r)
      /\ \A j : (\E i \in 1 .. Len(r) : r[i] = j) <=>
                   j # k /\ \E i \in 1 .. Len(s) : s[i] = j
  BY LeftOver
<1> HIDE DEF r
<1>2. \A i \in 1 .. Len(r) : r[i] # k
  BY <1>1
<1>3. Append(r, k) \in Seq(Keys) /\ Once(Append(r, k))
  BY <1>1, <1>2, TakesRecentEnd
<1> QED
  BY <1>1, <1>3 DEF r

LEMMA TierStep ==
    ASSUME TierInv, [TierNext]_tierVars
    PROVE  TierInv'
<1> DEFINE o == tier.order
<1>1. /\ TierHolds(tier) /\ HotFits(tier)
      /\ o \in Seq(Keys) /\ Once(o) /\ used \in Seq(Keys) /\ Once(used)
      /\ RecentEnd(o, used)
  BY DEF TierInv, TierHolds
<1> HIDE DEF o
<1>2. ASSUME NEW k \in Keys
      PROVE  /\ RemoveFirst(o, k) \in Seq(Keys)
             /\ RemoveFirst(used, k) \in Seq(Keys) /\ Once(RemoveFirst(used, k))
             /\ Used(k) \in Seq(Keys) /\ Once(Used(k))
             /\ Append(RemoveFirst(o, k), k) \in Seq(Keys)
             /\ RecentEnd(RemoveFirst(o, k), RemoveFirst(used, k))
             /\ RecentEnd(Append(RemoveFirst(o, k), k), Used(k))
  <2>1. /\ RemoveFirst(o, k) \in Seq(Keys) /\ RemoveFirst(used, k) \in Seq(Keys)
        /\ Once(RemoveFirst(used, k))
        /\ Append(RemoveFirst(o, k), k) \in Seq(Keys)
        /\ Used(k) \in Seq(Keys) /\ Once(Used(k))
    BY <1>1, UsedAgain DEF Used
  <2>2. RecentEnd(RemoveFirst(o, k), RemoveFirst(used, k))
    BY <1>1, EndTakenOut
  <2>3. RecentEnd(Append(RemoveFirst(o, k), k), Append(RemoveFirst(used, k), k))
    BY <2>1, <2>2, EndAppended
  <2> QED
    BY <2>1, <2>2, <2>3 DEF Used
<1>3. ASSUME NEW k \in Keys, HotGet(k)
      PROVE  TierInv'
  <2>1. /\ tier' = HotTouch(tier, k)
        /\ used' = IF HotLookup(tier, k) = None THEN used ELSE Used(k)
    BY <1>3 DEF HotGet
  <2>2. /\ TierHolds(tier') /\ Len(tier'.order) = Len(o) /\ tier'.total = tier.total
        /\ tier'.order = IF HotLookup(tier, k) = None THEN o
                         ELSE Append(RemoveFirst(o, k), k)
    BY <1>1, <2>1, TouchHolds DEF o
  <2>3. HotFits(tier')
    BY <1>1, <2>2 DEF HotFits, o
  <2>4. used' \in Seq(Keys) /\ Once(used') /\ RecentEnd(tier'.order, used')
    BY <1>1, <1>2, <2>1, <2>2
  <2> QED
    BY <2>2, <2>3, <2>4 DEF TierInv
<1>4. ASSUME NEW k \in Keys, NEW w \in Weights, HotStore(k, w)
      PROVE  TierInv'
  <2>1. /\ tier' = HotPut(tier, k, Content, w)
        /\ used' = IF w > HotMaxTokens THEN RemoveFirst(used, k) ELSE Used(k)
    BY <1>4 DEF HotStore
  <2> DEFINE r == RemoveFirst(o, k)
             a == Append(r, k)
  <2>2. w \in Nat
    BY TierAssumption
  <2>3. /\ TierHolds(tier') /\ HotFits(tier')
        /\ w > HotMaxTokens => tier'.order = r
        /\ w <= HotMaxTokens =>
              \/ tier'.order = << >>
              \/ \E n \in 0 .. Len(a) : tier'.order = SubSeq(a, n + 1, Len(a))
    BY <1>1, <2>1, <2>2, PutHolds DEF o
  <2>4. used' \in Seq(Keys) /\ Once(used')
    BY <1>2, <2>1
  <2>5. RecentEnd(r, RemoveFirst(used, k)) /\ RecentEnd(a, Used(k)) /\ a \in Seq(Keys)
        /\ Used(k) \in Seq(Keys)
    BY <1>2
  <2> HIDE DEF r, a
  <2>6. CASE w > HotMaxTokens
    BY <2>1, <2>3, <2>4, <2>5, <2>6 DEF TierInv
  <2>7. CASE ~(w > HotMaxTokens)
    <3>1. used' = Used(k) /\ w <= HotMaxTokens
      BY <2>1, <2>2, <2>7, HotAssumption
    <3>2. RecentEnd(<< >>, Used(k))
      <4>1. Len(<< >>) = 0 /\ Len(Used(k)) \in Nat
        BY <2>5, EmptySeq
      <4> QED
        BY <4>1 DEF RecentEnd
    <3>3. ASSUME NEW n \in 0 .. Len(a)
          PROVE  RecentEnd(SubSeq(a, n + 1, Len(a)), Used(k))
      BY <2>5, EndDropped
    <3>4. RecentEnd(tier'.order, used')
      BY <2>3, <3>1, <3>2, <3>3
    <3> QED
      BY <2>3, <2>4, <3>4 DEF TierInv
  <2> QED
    BY <2>6, <2>7
<1>5. CASE UNCHANGED tierVars
  BY <1>5 DEF tierVars, TierInv
<1> QED
  BY <1>3, <1>4, <1>5 DEF TierNext

LEMMA TierAccounts == TierInv => HotAccounting
<1> SUFFICES ASSUME TierInv PROVE HotAccounting
  OBVIOUS
<1>1. TierHolds(tier) /\ HotFits(tier)
  BY DEF TierInv
<1>2. HeldKeys = HeldBy(tier)
  BY DEF HeldKeys, HeldBy
<1>3. tier.total = SumFunction([k \in HeldKeys |-> tier.held[k].weight])
  BY <1>1, <1>2 DEF TierHolds, HeldWeights
<1>4. Cardinality(HeldKeys) <= HotMaxEntries /\ tier.total <= HotMaxTokens
  BY <1>1, <1>2, HeldCounted DEF HotFits
<1> QED
  BY <1>3, <1>4 DEF HotAccounting

LEMMA TierRecent == TierInv => HotKeepsRecent
BY RecentEndIsSuffix DEF TierInv, TierHolds, HotKeepsRecent

(* The running total is the weight of what is held, and neither limit is   *)
(* exceeded, after every lookup and put.                                   *)
THEOREM HotTierAccounts == TierSpec => []HotAccounting
<1>1. TierInv /\ [TierNext]_tierVars => TierInv'
  BY TierStep
<1> QED
  BY <1>1, TierStart, TierAccounts, PTL DEF TierSpec

(* What is held is the recent end of the order of use.                     *)
THEOREM HotTierKeepsRecent == TierSpec => []HotKeepsRecent
<1>1. TierInv /\ [TierNext]_tierVars => TierInv'
  BY TierStep
<1> QED
  BY <1>1, TierStart, TierRecent, PTL DEF TierSpec
=============================================================================
