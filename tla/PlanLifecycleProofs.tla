------------------------ MODULE PlanLifecycleProofs ------------------------
(***************************************************************************)
(* Proofs about the plan lifecycle for any number of timed calls, queries, *)
(* iterations and edits, and for every choice of what the stages ask for   *)
(* and where they fail.                                                    *)
(***************************************************************************)
EXTENDS PlanLifecycle, TLAPS

(***************************************************************************)
(* The inductive invariant speaks of one plan at a time.                   *)
(***************************************************************************)

(* The passes so far wrote the stages in order: a stage that is not due    *)
(* again in this pass has a payload that answers the current query, and    *)
(* the stages before next, and those from next on, are sorted by pass.     *)
Ordered(p) ==
    p.error = 0 =>
       /\ \A s \in Stages :
             s < p.next =>
                /\ p.out[s] # None
                /\ s # 1 => p.out[s].level = p.level
       /\ p.action # None => \A s \in Stages : p.out[s] # None
       /\ \A s \in Stages : p.out[s] # None => p.out[s].pass <= Pass(p)
       /\ \A s \in Stages, t \in Stages :
             s < t /\ (t < p.next \/ p.next <= s)
                   /\ p.out[s] # None /\ p.out[t] # None =>
                p.out[s].pass <= p.out[t].pass

(* Where the pipeline stands in each phase of the worker. *)
Placed(p) ==
    /\ p.error # 0 => p.pc \in {"prepare", "replay", "finalize"}
    /\ p.pc = "queued" => p.next = 1
    /\ p.pc = "stage" => p.next \in Stages
    /\ p.pc \in {"prepare", "replay"} /\ p.error = 0 => p.next = SourcePlan
    /\ p.pc \in {"prepare", "replay", "store", "queued"} => p.action = None
    /\ p.pc = "store" => p.next = Validation
    /\ p.pc \in {"select", "iterate", "record"} => p.next = 10
    /\ p.pc = "finalize" /\ p.error = 0 => p.next = 10
    /\ p.pc \in {"iterate", "record"} => p.action # None
    /\ \A r \in Readers : p.out[r] # None => p.out[r].saw \in Worlds

(* The lookup has missed and the source plan is not stored yet. *)
KeyPending(p) ==
    \/ p.pc = "store"
    \/ /\ p.pc = "stage" /\ p.next = SourcePlan
       /\ p.config.replay /\ p.action = None

(* The source plan is the one of the payloads before it, and so is the key *)
(* it is about to be stored under.                                         *)
Made(p) ==
    /\ p.error = 0 /\ p.next >= Validation => p.made = InputsOf(p)
    /\ KeyPending(p) =>
       /\ p.key \in ReplayKeys
       /\ p.key.query = p.query
       /\ p.key.saw = InputsOf(p).saw

(* The counts of the agent loop. *)
Counted(p) ==
    /\ p.action = None =>
          /\ p.executed = 0 /\ p.requested = 0
          /\ p.level = 0 /\ p.refinement = 0
    /\ p.executed <= p.config.max
    /\ p.pc \in {"stage", "record"} /\ p.action # None =>
          p.executed < p.config.max
    /\ p.pc \in {"stage", "record", "iterate"} /\ p.action # None =>
          p.requested = p.executed + 1
    /\ p.pc = "select" => p.requested = p.executed
    /\ p.pc = "select" /\ p.action # None => p.executed > 0
    /\ p.pc = "finalize" =>
          /\ p.requested = p.executed +
               (IF p.stop \in {"max_iterations", "stage_contract_error"}
                THEN 1 ELSE 0)
          /\ p.stop = "completed" => p.executed > 0
          /\ p.stop = "max_iterations" => p.executed = p.config.max
    /\ p.pc # "finalize" => p.stop = None
    /\ p.pc = "stage" /\ p.refinement # 0 =>
          p.action = "request_more_context" /\ p.refinement = Pass(p)

GoodPlan(p) == p \in Plans /\ Ordered(p) /\ Placed(p) /\ Made(p) /\ Counted(p)

(* What a worker is answered is the source plan its own payloads give. *)
Answered(p, a) == p.pc = "replay" /\ p.error = 0 => a.content = InputsOf(p)

------------------------------------------------------------------------------
(* One plan: what each step of the worker does to it.                      *)

LEMMA InputsTyped ==
    ASSUME NEW p \in Plans, Placed(p), p.error = 0,
           \A r \in Readers : p.out[r] # None
    PROVE  InputsOf(p) = [query |-> p.query, level |-> p.level,
                          saw |-> InputsOf(p).saw]
           /\ InputsOf(p) \in Inputs
  BY DEF Plans, Placed, InputsOf, Inputs

(* A plan stays one when a field is given another value of its type. *)
LEMMA PlanFields ==
    ASSUME NEW p \in Plans
    PROVE  /\ \A v \in 1 .. 10 : [p EXCEPT !.next = v] \in Plans
           /\ \A v \in [Stages -> Payloads \cup {None}] : [p EXCEPT !.out = v] \in Plans
           /\ \A v \in Inputs \cup {None} : [p EXCEPT !.made = v] \in Plans
           /\ \A v \in ReplayKeys \cup {None} : [p EXCEPT !.key = v] \in Plans
           /\ \A v \in {0} \cup Stages : [p EXCEPT !.error = v] \in Plans
           /\ \A v \in Nat : [p EXCEPT !.level = v] \in Plans
           /\ \A v \in Nat : [p EXCEPT !.refinement = v] \in Plans
           /\ \A v \in Actions \cup {None} : [p EXCEPT !.action = v] \in Plans
           /\ \A v \in Nat : [p EXCEPT !.requested = v] \in Plans
           /\ \A v \in Nat : [p EXCEPT !.executed = v] \in Plans
           /\ \A v \in Stops \cup {None} : [p EXCEPT !.stop = v] \in Plans
           /\ \A v \in PCs : [p EXCEPT !.pc = v] \in Plans
<1>1. \A v \in 1 .. 10 : [p EXCEPT !.next = v] \in Plans
  BY DEF Plans
<1>2. \A v \in [Stages -> Payloads \cup {None}] : [p EXCEPT !.out = v] \in Plans
  BY DEF Plans
<1>3. \A v \in Inputs \cup {None} : [p EXCEPT !.made = v] \in Plans
  BY DEF Plans
<1>4. \A v \in ReplayKeys \cup {None} : [p EXCEPT !.key = v] \in Plans
  BY DEF Plans
<1>5. \A v \in {0} \cup Stages : [p EXCEPT !.error = v] \in Plans
  BY DEF Plans
<1>6. \A v \in Nat : [p EXCEPT !.level = v] \in Plans
  BY DEF Plans
<1>7. \A v \in Nat : [p EXCEPT !.refinement = v] \in Plans
  BY DEF Plans
<1>8. \A v \in Actions \cup {None} : [p EXCEPT !.action = v] \in Plans
  BY DEF Plans
<1>9. \A v \in Nat : [p EXCEPT !.requested = v] \in Plans
  BY DEF Plans
<1>10. \A v \in Nat : [p EXCEPT !.executed = v] \in Plans
  BY DEF Plans
<1>11. \A v \in Stops \cup {None} : [p EXCEPT !.stop = v] \in Plans
  BY DEF Plans
<1>12. \A v \in PCs : [p EXCEPT !.pc = v] \in Plans
  BY DEF Plans
<1> QED
  BY <1>1, <1>2, <1>3, <1>4, <1>5, <1>6, <1>7, <1>8, <1>9, <1>10, <1>11, <1>12

LEMMA StageGood ==
    ASSUME NEW p, GoodPlan(p), p.pc = "stage", NEW w \in Worlds
    PROVE  GoodPlan([p EXCEPT
             !.out[p.next] = [level |-> p.level, pass |-> Pass(p),
                              saw |-> IF p.next \in Readers THEN w ELSE 0],
             !.made = IF p.next = SourcePlan THEN InputsOf(p) ELSE @,
             !.next = p.next + 1,
             !.pc = AfterStage(p)])
<1> DEFINE x == [level |-> p.level, pass |-> Pass(p),
                 saw |-> IF p.next \in Readers THEN w ELSE 0]
           q == [p EXCEPT
             !.out[p.next] = x,
             !.made = IF p.next = SourcePlan THEN InputsOf(p) ELSE @,
             !.next = p.next + 1,
             !.pc = AfterStage(p)]
<1>1. p \in Plans /\ p.next \in Stages /\ p.error = 0
  BY DEF GoodPlan, Placed
<1>2. /\ q.query = p.query /\ q.config = p.config /\ q.key = p.key
      /\ q.error = p.error /\ q.level = p.level /\ q.stop = p.stop
      /\ q.refinement = p.refinement /\ q.action = p.action
      /\ q.requested = p.requested /\ q.executed = p.executed
      /\ q.next = p.next + 1 /\ q.pc = AfterStage(p)
      /\ q.made = IF p.next = SourcePlan THEN InputsOf(p) ELSE p.made
      /\ q.out = [p.out EXCEPT ![p.next] = x]
  BY <1>1 DEF Plans
<1>3. q.out[p.next] = x /\ \A s \in Stages \ {p.next} : q.out[s] = p.out[s]
  BY <1>1, <1>2 DEF Plans
<1>4. x \in Payloads /\ x # None
  BY <1>1, NoneIsNothing DEF Plans, Payloads, Pass
<1>5. \A r \in Readers : p.next = SourcePlan => p.out[r] # None
  BY <1>1 DEF GoodPlan, Ordered, Readers, Stages, SourcePlan
<1>6. AfterStage(p) \in {"record", "select", "finalize", "prepare", "store", "stage"}
  BY DEF AfterStage
<1>7. p.next = SourcePlan => InputsOf(p) \in Inputs
  BY <1>1, <1>5, InputsTyped DEF GoodPlan
<1>8. q \in Plans
  <2>1. q.out \in [Stages -> Payloads \cup {None}]
    BY <1>1, <1>2, <1>4 DEF Plans
  <2>2. q.made \in Inputs \cup {None}
    BY <1>1, <1>2, <1>7 DEF Plans
  <2>3. q.pc \in PCs /\ q.next \in 1 .. 10
    BY <1>1, <1>2, <1>6 DEF PCs, Stages
  <2> QED
    BY <1>1, <1>2, <2>1, <2>2, <2>3 DEF Plans
<1>9. Pass(q) = Pass(p) /\ Pass(p) \in Nat
  BY <1>1, <1>2 DEF Pass, Plans
<1>10. Ordered(q)
  <2>1. \A s \in Stages : s < p.next => p.out[s] # None /\ p.out[s] \in Payloads
                                       /\ (s # 1 => p.out[s].level = p.level)
    BY <1>1 DEF GoodPlan, Ordered, Plans
  <2>2. \A s \in Stages : s < q.next => q.out[s] # None
                                       /\ (s # 1 => q.out[s].level = q.level)
    BY <1>1, <1>2, <1>3, <1>4, <2>1 DEF Stages
  <2>3. q.action # None => \A s \in Stages : q.out[s] # None
    BY <1>1, <1>2, <1>3, <1>4 DEF GoodPlan, Ordered
  <2>4. \A s \in Stages : q.out[s] # None =>
           q.out[s].pass <= Pass(q) /\ q.out[s].pass \in Nat
    BY <1>1, <1>2, <1>3, <1>4, <1>9 DEF GoodPlan, Ordered, Plans, Payloads
  <2>5. ASSUME NEW s \in Stages, NEW u \in Stages, s < u,
               u < q.next \/ q.next <= s, q.out[s] # None, q.out[u] # None
        PROVE  q.out[s].pass <= q.out[u].pass
    <3>1. CASE u = p.next
      BY <3>1, <2>4, <2>5, <1>3, <1>9
    <3>2. CASE u # p.next
      <4>1. s # p.next /\ (u < p.next \/ p.next <= s)
        BY <3>2, <2>5, <1>1, <1>2 DEF Stages
      <4> QED
        BY <4>1, <3>2, <2>5, <1>1, <1>3 DEF GoodPlan, Ordered
    <3> QED
      BY <3>1, <3>2
  <2> QED
    BY <2>2, <2>3, <2>4, <2>5 DEF Ordered
<1>11. Placed(q)
  <2>1. \A r \in Readers : q.out[r] # None => q.out[r].saw \in Worlds
    BY <1>1, <1>3 DEF GoodPlan, Placed, Readers, Stages
  <2> QED
    BY <2>1, <1>1, <1>2 DEF GoodPlan, Placed, AfterStage, Stages, Validation,
       ContextRefine, SourcePlan
<1>12. Made(q)
  <2>1. p.next \notin Readers => InputsOf(q) = InputsOf(p)
    BY <1>2, <1>3 DEF InputsOf, Readers, Stages
  <2>2. q.next >= Validation => p.next \in {SourcePlan, Validation}
    BY <1>1, <1>2 DEF Stages, SourcePlan, Validation
  <2>3. q.next >= Validation => q.made = InputsOf(q)
    BY <1>1, <1>2, <2>1, <2>2 DEF GoodPlan, Made, Readers, SourcePlan, Validation
  <2>4. KeyPending(q) => KeyPending(p) /\ p.next = SourcePlan
    BY <1>1, <1>2 DEF KeyPending, AfterStage, Stages, SourcePlan, Validation,
       ContextRefine
  <2>5. KeyPending(q) => q.key \in ReplayKeys /\ q.key.query = q.query
                         /\ q.key.saw = InputsOf(q).saw
    BY <1>1, <1>2, <2>1, <2>4 DEF GoodPlan, Made, Readers, SourcePlan
  <2> QED
    BY <2>3, <2>5 DEF Made
<1>13. Counted(q)
  BY <1>1, <1>2, <1>6, <1>9, NoneIsNothing
     DEF GoodPlan, Counted, AfterStage, Plans, Validation, ContextRefine, SourcePlan,
         Stops
<1> QED
  BY <1>8, <1>10, <1>11, <1>12, <1>13 DEF GoodPlan

(* Steps that leave the payloads alone leave them in order. *)
LEMMA SameStages ==
    ASSUME NEW p, GoodPlan(p), NEW q \in Plans,
           q.out = p.out, q.next = p.next, q.level = p.level,
           q.query = p.query, q.error = p.error,
           q.action # None => p.action # None \/ p.next = 10,
           Pass(q) >= Pass(p)
    PROVE  /\ Ordered(q)
           /\ InputsOf(q) = InputsOf(p)
           /\ \A r \in Readers : q.out[r] # None => q.out[r].saw \in Worlds
<1>1. p \in Plans /\ Pass(p) \in Nat /\ Pass(q) \in Nat
  BY DEF GoodPlan, Plans, Pass
<1>2. \A s \in Stages : q.out[s] # None /\ q.error = 0 =>
         q.out[s].pass <= Pass(q)
  BY <1>1 DEF GoodPlan, Ordered, Plans, Payloads
<1>3. q.action # None /\ q.error = 0 => \A s \in Stages : q.out[s] # None
  BY <1>1 DEF GoodPlan, Ordered, Stages
<1>4. Ordered(q)
  BY <1>1, <1>2, <1>3 DEF GoodPlan, Ordered
<1> QED
  BY <1>4 DEF GoodPlan, Placed, InputsOf

(* The worker moves on without touching its plan. *)
LEMMA MoveGood ==
    ASSUME NEW p, GoodPlan(p), NEW pc,
           \/ p.pc = "queued" /\ pc \in {"stage", "cancelled"}
           \/ p.pc = "prepare" /\ pc = "replay"
           \/ p.pc = "prepare" /\ p.error = 0 /\ ~p.config.replay /\ pc = "stage"
           \/ p.pc \in {"prepare", "replay"} /\ p.error # 0 /\ pc = "finalize"
           \/ p.pc = "store" /\ pc = "stage"
    PROVE  GoodPlan([p EXCEPT !.pc = pc])
<1> DEFINE q == [p EXCEPT !.pc = pc]
<1>1. p \in Plans /\ p.action = None /\ p.stop = None /\ p.next \in 1 .. 10
  BY DEF GoodPlan, Placed, Counted, Plans
<1>2. q \in Plans
  <2>1. pc \in PCs
    BY DEF PCs
  <2> QED
    BY <1>1, <2>1, PlanFields
<1>3. /\ q.query = p.query /\ q.config = p.config /\ q.key = p.key
      /\ q.error = p.error /\ q.level = p.level /\ q.stop = p.stop
      /\ q.refinement = p.refinement /\ q.action = p.action
      /\ q.requested = p.requested /\ q.executed = p.executed
      /\ q.next = p.next /\ q.made = p.made /\ q.out = p.out
      /\ q.pc = pc
  BY <1>1 DEF Plans
<1> HIDE DEF q
<1>4. Pass(q) = Pass(p) /\ Pass(p) = 0
  BY <1>1, <1>3 DEF Pass
<1>5. /\ Ordered(q)
      /\ InputsOf(q) = InputsOf(p)
      /\ \A r \in Readers : q.out[r] # None => q.out[r].saw \in Worlds
  BY <1>1, <1>2, <1>3, <1>4, SameStages
<1>6. Placed(q)
  BY <1>1, <1>3, <1>5 DEF GoodPlan, Placed, Stages, SourcePlan, Validation
<1>7. Made(q)
  BY <1>1, <1>3, <1>5 DEF GoodPlan, Placed, Made, KeyPending, SourcePlan, Validation
<1>8. Counted(q)
  BY <1>1, <1>2, <1>3, <1>4, NoneIsNothing DEF GoodPlan, Counted, Plans, Stops
<1> QED
  BY <1>2, <1>5, <1>6, <1>7, <1>8 DEF GoodPlan, q

(* A plan just submitted, or just ended. *)
LEMMA FreshGood ==
    ASSUME NEW query \in Queries,
           NEW cf \in [replay : BOOLEAN, loop : BOOLEAN, max : Nat],
           NEW pc \in {"queued", "done", "raised"}
    PROVE  GoodPlan([Fresh(query, cf) EXCEPT !.pc = pc])
<1> DEFINE q == [Fresh(query, cf) EXCEPT !.pc = pc]
<1>1. q \in Plans
  BY DEF Fresh, Plans, PCs, Stages
<1>2. /\ q.config = cf /\ q.pc = pc /\ q.next = 1 /\ q.error = 0
      /\ q.out = [s \in Stages |-> None] /\ q.level = 0 /\ q.refinement = 0
      /\ q.action = None /\ q.requested = 0 /\ q.executed = 0 /\ q.stop = None
  BY DEF Fresh
<1> HIDE DEF q
<1>3. Ordered(q)
  BY <1>2 DEF Ordered, Stages
<1>4. Placed(q)
  BY <1>2 DEF Placed, Readers, Stages
<1>5. Made(q)
  BY <1>2 DEF Made, KeyPending, Validation, SourcePlan
<1>6. Counted(q)
  BY <1>2 DEF Counted
<1> QED
  BY <1>1, <1>3, <1>4, <1>5, <1>6 DEF GoodPlan, q

(* A stage broke its contract. *)
LEMMA RejectGood ==
    ASSUME NEW p, GoodPlan(p), p.pc = "stage"
    PROVE  GoodPlan([p EXCEPT
             !.error = p.next,
             !.stop = IF p.action # None THEN "stage_contract_error" ELSE @,
             !.pc = IF p.action = None /\ p.next <= ContextRefine
                    THEN "prepare" ELSE "finalize"])
<1> DEFINE pc == IF p.action = None /\ p.next <= ContextRefine
                 THEN "prepare" ELSE "finalize"
           stop == IF p.action # None THEN "stage_contract_error" ELSE p.stop
           q == [p EXCEPT !.error = p.next, !.stop = stop, !.pc = pc]
<1>1. p \in Plans /\ p.next \in Stages /\ p.stop = None /\ p.error = 0
  BY DEF GoodPlan, Placed, Counted
<1>2. q \in Plans
  <2>1. pc \in PCs /\ stop \in Stops \cup {None} /\ p.next \in {0} \cup Stages
    BY <1>1 DEF PCs, Stops
  <2> HIDE DEF pc, stop
  <2> QED
    BY <1>1, <2>1, PlanFields
<1>3. /\ q.query = p.query /\ q.config = p.config /\ q.key = p.key
      /\ q.error = p.next /\ q.level = p.level /\ q.stop = stop
      /\ q.refinement = p.refinement /\ q.action = p.action
      /\ q.requested = p.requested /\ q.executed = p.executed
      /\ q.next = p.next /\ q.made = p.made /\ q.out = p.out
      /\ q.pc = pc
  BY <1>1 DEF Plans
<1> HIDE DEF q
<1>4. Ordered(q)
  BY <1>1, <1>3 DEF Ordered, Stages
<1>5. Placed(q)
  BY <1>1, <1>3 DEF GoodPlan, Placed, Stages
<1>6. Made(q)
  BY <1>1, <1>3 DEF Made, KeyPending, Stages
<1>7. Counted(q)
  BY <1>1, <1>3, NoneIsNothing DEF GoodPlan, Counted, Plans, Stops
<1> QED
  BY <1>2, <1>4, <1>5, <1>6, <1>7 DEF GoodPlan, q

(* The lookup misses: its key is kept for the store. *)
LEMMA KeyTyped ==
    ASSUME NEW p, GoodPlan(p), world \in Worlds
    PROVE  /\ KeyOf(p) \in ReplayKeys
           /\ KeyOf(p).query = p.query
           /\ (\A r \in Readers : p.out[r] # None) =>
                 KeyOf(p).saw = InputsOf(p).saw
<1>1. p \in Plans /\ 1 \in Worlds /\ Placed(p)
  BY LifecycleConstants DEF GoodPlan, Worlds
<1>2. KeyOf(p).saw \in [Readers -> Worlds]
  BY <1>1 DEF KeyOf, Placed
<1>3. KeyOf(p) \in ReplayKeys
  BY <1>1, <1>2 DEF KeyOf, ReplayKeys, Plans
<1> QED
  BY <1>3 DEF KeyOf, InputsOf

LEMMA MissGood ==
    ASSUME NEW p, GoodPlan(p), p.pc = "prepare", world \in Worlds
    PROVE  GoodPlan([p EXCEPT
             !.key = KeyOf(p),
             !.pc = IF p.error # 0 THEN "finalize" ELSE "stage"])
<1> DEFINE pc == IF p.error # 0 THEN "finalize" ELSE "stage"
           q == [p EXCEPT !.key = KeyOf(p), !.pc = pc]
<1>1. p \in Plans /\ p.action = None /\ p.stop = None
      /\ (p.error = 0 => p.next = SourcePlan)
  BY DEF GoodPlan, Placed, Counted
<1>2. KeyOf(p) \in ReplayKeys /\ KeyOf(p).query = p.query
  BY KeyTyped
<1>3. p.error = 0 => \A r \in Readers : p.out[r] # None
  BY <1>1 DEF GoodPlan, Ordered, Readers, SourcePlan, Stages
<1>4. q \in Plans
  <2>1. pc \in PCs /\ KeyOf(p) \in ReplayKeys \cup {None}
    BY <1>2 DEF PCs
  <2> HIDE DEF pc
  <2> QED
    BY <1>1, <2>1, PlanFields
<1>5. /\ q.query = p.query /\ q.config = p.config /\ q.key = KeyOf(p)
      /\ q.error = p.error /\ q.level = p.level /\ q.stop = p.stop
      /\ q.refinement = p.refinement /\ q.action = p.action
      /\ q.requested = p.requested /\ q.executed = p.executed
      /\ q.next = p.next /\ q.made = p.made /\ q.out = p.out
      /\ q.pc = pc
  BY <1>1 DEF Plans
<1> HIDE DEF q
<1>6. Pass(q) = Pass(p) /\ Pass(p) = 0
  BY <1>1, <1>5 DEF Pass
<1>7. /\ Ordered(q)
      /\ InputsOf(q) = InputsOf(p)
      /\ \A r \in Readers : q.out[r] # None => q.out[r].saw \in Worlds
  BY <1>1, <1>4, <1>5, <1>6, SameStages
<1>8. Placed(q)
  BY <1>1, <1>5, <1>7 DEF GoodPlan, Placed, Stages, SourcePlan
<1>9. Made(q)
  <2>1. p.error = 0 => KeyOf(p).saw = InputsOf(p).saw
    BY <1>3, KeyTyped
  <2>2. KeyPending(q) => p.error = 0
    BY <1>5 DEF KeyPending
  <2>3. q.error = 0 /\ q.next >= Validation => FALSE
    BY <1>1, <1>5 DEF SourcePlan, Validation
  <2> QED
    BY <2>1, <2>2, <2>3, <1>2, <1>5, <1>7 DEF Made
<1>10. Counted(q)
  BY <1>1, <1>5, <1>6, NoneIsNothing DEF GoodPlan, Counted, Plans, Stops
<1> QED
  BY <1>4, <1>7, <1>8, <1>9, <1>10 DEF GoodPlan, q

(* The source plan is taken from the cache. *)
LEMMA ReuseGood ==
    ASSUME NEW p, GoodPlan(p), p.pc = "replay", p.error = 0
    PROVE  GoodPlan([p EXCEPT
             !.out[SourcePlan] = [level |-> 0, pass |-> 0, saw |-> 0],
             !.made = InputsOf(p),
             !.next = Validation,
             !.pc = "stage"])
<1> DEFINE x == [level |-> 0, pass |-> 0, saw |-> 0]
           q == [p EXCEPT !.out[SourcePlan] = x, !.made = InputsOf(p),
                          !.next = Validation, !.pc = "stage"]
<1>1. p \in Plans /\ p.next = SourcePlan /\ p.action = None /\ p.stop = None
      /\ p.level = 0
  BY DEF GoodPlan, Placed, Counted
<1>2. \A s \in Stages : s < SourcePlan =>
         p.out[s] # None /\ (s # 1 => p.out[s].level = 0)
  BY <1>1 DEF GoodPlan, Ordered
<1>3. InputsOf(p) \in Inputs
  BY <1>1, <1>2, InputsTyped DEF GoodPlan, Readers, Stages, SourcePlan
<1>4. x \in Payloads /\ x # None
  BY NoneIsNothing DEF Payloads
<1>5. q \in Plans
  <2>1. [p.out EXCEPT ![SourcePlan] = x] \in [Stages -> Payloads \cup {None}]
    BY <1>1, <1>4 DEF Plans
  <2>2. "stage" \in PCs /\ Validation \in 1 .. 10
    BY DEF PCs, Validation
  <2> QED
    BY <1>1, <1>3, <2>1, <2>2, PlanFields
<1>6. /\ q.query = p.query /\ q.config = p.config /\ q.key = p.key
      /\ q.error = p.error /\ q.level = p.level /\ q.stop = p.stop
      /\ q.refinement = p.refinement /\ q.action = p.action
      /\ q.requested = p.requested /\ q.executed = p.executed
      /\ q.next = Validation /\ q.made = InputsOf(p) /\ q.pc = "stage"
      /\ q.out = [p.out EXCEPT ![SourcePlan] = x]
  BY <1>1 DEF Plans
<1> HIDE DEF q
<1>7. q.out[SourcePlan] = x
      /\ \A s \in Stages \ {SourcePlan} : q.out[s] = p.out[s]
  BY <1>1, <1>6 DEF Plans, Stages, SourcePlan
<1>8. Pass(q) = 0 /\ Pass(p) = 0
  BY <1>1, <1>6 DEF Pass
<1>9. \A s \in Stages : q.out[s] # None => q.out[s].pass = 0
  BY <1>1, <1>4, <1>7, <1>8 DEF GoodPlan, Ordered, Plans, Payloads
<1>10. Ordered(q)
  <2>1. \A s \in Stages : s < q.next =>
           q.out[s] # None /\ (s # 1 => q.out[s].level = q.level)
    BY <1>1, <1>2, <1>4, <1>6, <1>7 DEF Stages, SourcePlan, Validation
  <2> QED
    BY <2>1, <1>1, <1>6, <1>8, <1>9 DEF Ordered
<1>11. Placed(q)
  BY <1>1, <1>6, <1>7 DEF GoodPlan, Placed, Readers, Stages, SourcePlan, Validation
<1>12. Made(q)
  <2>1. InputsOf(q) = InputsOf(p)
    BY <1>6, <1>7 DEF InputsOf, Readers, Stages, SourcePlan
  <2>2. ~KeyPending(q)
    BY <1>6 DEF KeyPending, SourcePlan, Validation
  <2> QED
    BY <2>1, <2>2, <1>6 DEF Made
<1>13. Counted(q)
  BY <1>1, <1>6, <1>8, NoneIsNothing DEF GoodPlan, Counted, Plans, Stops
<1> QED
  BY <1>5, <1>10, <1>11, <1>12, <1>13 DEF GoodPlan, q

(* The next action is selected, or none is. *)
LEMMA SelectGood ==
    ASSUME NEW p, GoodPlan(p), p.pc = "select", NEW a \in Actions
    PROVE  GoodPlan([p EXCEPT !.requested = @ + 1, !.action = a, !.pc = "iterate"])
<1> DEFINE q == [p EXCEPT !.requested = @ + 1, !.action = a, !.pc = "iterate"]
<1>1. p \in Plans /\ p.next = 10 /\ p.stop = None /\ p.error = 0
  BY DEF GoodPlan, Placed, Counted
<1>2. q \in Plans /\ a # None
  <2>1. "iterate" \in PCs /\ a \in Actions \cup {None} /\ p.requested + 1 \in Nat
    BY <1>1 DEF PCs, Plans
  <2> QED
    BY <1>1, <2>1, NoneIsNothing, PlanFields
<1>3. /\ q.query = p.query /\ q.config = p.config /\ q.key = p.key
      /\ q.error = p.error /\ q.level = p.level /\ q.stop = p.stop
      /\ q.refinement = p.refinement /\ q.action = a
      /\ q.requested = p.requested + 1 /\ q.executed = p.executed
      /\ q.next = p.next /\ q.made = p.made /\ q.out = p.out
      /\ q.pc = "iterate"
  BY <1>1 DEF Plans
<1> HIDE DEF q
<1>4. Pass(q) >= Pass(p)
  BY <1>1, <1>2, <1>3 DEF Pass, Plans
<1>5. /\ Ordered(q)
      /\ InputsOf(q) = InputsOf(p)
      /\ \A r \in Readers : q.out[r] # None => q.out[r].saw \in Worlds
  BY <1>1, <1>2, <1>3, <1>4, SameStages
<1>6. Placed(q)
  BY <1>1, <1>2, <1>3, <1>5 DEF Placed
<1>7. Made(q)
  BY <1>1, <1>3, <1>5 DEF GoodPlan, Made, KeyPending
<1>8. Counted(q)
  BY <1>1, <1>2, <1>3 DEF GoodPlan, Counted, Plans
<1> QED
  BY <1>2, <1>5, <1>6, <1>7, <1>8 DEF GoodPlan, q

LEMMA StopGood ==
    ASSUME NEW p, GoodPlan(p), NEW stop,
           \/ /\ p.pc = "select"
              /\ stop = IF p.action = None THEN "no_action" ELSE "completed"
           \/ /\ p.pc = "iterate" /\ ~CanContinue(p)
              /\ stop = "max_iterations"
    PROVE  GoodPlan([p EXCEPT !.stop = stop, !.pc = "finalize"])
<1> DEFINE q == [p EXCEPT !.stop = stop, !.pc = "finalize"]
<1>1. p \in Plans /\ p.next = 10 /\ p.error = 0
  BY DEF GoodPlan, Placed
<1>2. q \in Plans
  <2>1. stop \in Stops \cup {None} /\ "finalize" \in PCs
    BY DEF Stops, PCs
  <2> QED
    BY <1>1, <2>1, PlanFields
<1>3. /\ q.query = p.query /\ q.config = p.config /\ q.key = p.key
      /\ q.error = p.error /\ q.level = p.level /\ q.stop = stop
      /\ q.refinement = p.refinement /\ q.action = p.action
      /\ q.requested = p.requested /\ q.executed = p.executed
      /\ q.next = p.next /\ q.made = p.made /\ q.out = p.out
      /\ q.pc = "finalize"
  BY <1>1 DEF Plans
<1> HIDE DEF q
<1>4. Pass(q) = Pass(p) /\ Pass(p) \in Nat
  BY <1>1, <1>3 DEF Pass, Plans
<1>5. /\ Ordered(q)
      /\ InputsOf(q) = InputsOf(p)
      /\ \A r \in Readers : q.out[r] # None => q.out[r].saw \in Worlds
  BY <1>1, <1>2, <1>3, <1>4, SameStages
<1>6. Placed(q)
  BY <1>1, <1>3, <1>5 DEF Placed
<1>7. Made(q)
  BY <1>1, <1>3, <1>5 DEF GoodPlan, Made, KeyPending
<1>8. Counted(q)
  BY <1>1, <1>3, <1>4 DEF GoodPlan, Placed, Counted, CanContinue, Plans
<1> QED
  BY <1>2, <1>5, <1>6, <1>7, <1>8 DEF GoodPlan, q

(* The pipeline is set back to the first stage the action reruns. *)
LEMMA IterateGood ==
    ASSUME NEW p, GoodPlan(p), p.pc = "iterate", CanContinue(p),
           NEW more \in BOOLEAN, more => p.action = "request_more_context"
    PROVE  GoodPlan([p EXCEPT
             !.refinement = IF more THEN p.executed + 1 ELSE 0,
             !.level = IF more THEN @ + 1 ELSE @,
             !.next = RerunFrom(p.action),
             !.pc = "stage"])
<1> DEFINE q == [p EXCEPT
             !.refinement = IF more THEN p.executed + 1 ELSE 0,
             !.level = IF more THEN @ + 1 ELSE @,
             !.next = RerunFrom(p.action),
             !.pc = "stage"]
<1>1. p \in Plans /\ p.next = 10 /\ p.error = 0 /\ p.action \in Actions
      /\ p.action # None /\ p.stop = None
  BY DEF GoodPlan, Placed, Counted, Plans
<1>2. /\ RerunFrom(p.action) \in {Index, SourcePlan, Validation}
      /\ more => RerunFrom(p.action) = Index
  BY <1>1 DEF RerunFrom, Actions
<1>3. q \in Plans
  <2>1. /\ "stage" \in PCs
        /\ RerunFrom(p.action) \in 1 .. 10
        /\ (IF more THEN p.executed + 1 ELSE 0) \in Nat
        /\ (IF more THEN p.level + 1 ELSE p.level) \in Nat
    BY <1>1, <1>2 DEF Plans, PCs, Index, SourcePlan, Validation
  <2> DEFINE q1 == [p EXCEPT !.refinement = IF more THEN p.executed + 1 ELSE 0]
             q2 == [q1 EXCEPT !.level = IF more THEN p.level + 1 ELSE p.level]
             q3 == [q2 EXCEPT !.next = RerunFrom(p.action)]
             q4 == [q3 EXCEPT !.pc = "stage"]
  <2>2. q1 \in Plans
    BY <1>1, <2>1, PlanFields
  <2>3. q2 \in Plans
    BY <2>1, <2>2, PlanFields
  <2>4. q3 \in Plans
    BY <2>1, <2>3, PlanFields
  <2>5. q4 \in Plans
    BY <2>1, <2>4, PlanFields
  <2>6. q = q4
    BY <1>1 DEF Plans
  <2> QED
    BY <2>5, <2>6
<1>4. /\ q.query = p.query /\ q.config = p.config /\ q.key = p.key
      /\ q.error = p.error /\ q.stop = p.stop
      /\ q.level = (IF more THEN p.level + 1 ELSE p.level)
      /\ q.refinement = (IF more THEN p.executed + 1 ELSE 0)
      /\ q.action = p.action
      /\ q.requested = p.requested /\ q.executed = p.executed
      /\ q.next = RerunFrom(p.action) /\ q.made = p.made /\ q.out = p.out
      /\ q.pc = "stage"
  BY <1>1 DEF Plans
<1> HIDE DEF q
<1>5. Pass(q) = Pass(p) /\ Pass(p) = p.executed + 1
  BY <1>1, <1>4 DEF Pass
<1>6. InputsOf(q).saw = InputsOf(p).saw
  BY <1>4 DEF InputsOf
<1>7. Ordered(q)
  <2>1. \A s \in Stages : p.out[s] # None /\ p.out[s].pass <= Pass(p)
                          /\ (s # 1 => p.out[s].level = p.level)
    BY <1>1 DEF GoodPlan, Ordered, Stages
  <2>2. \A s \in Stages : s < q.next /\ s # 1 => q.level = p.level
    BY <1>2, <1>4 DEF Stages, Index
  <2>3. \A s \in Stages, t \in Stages : s < t => p.out[s].pass <= p.out[t].pass
    BY <1>1, <2>1 DEF GoodPlan, Ordered, Stages
  <2> QED
    BY <2>1, <2>2, <2>3, <1>4, <1>5 DEF Ordered
<1>8. Placed(q)
  BY <1>1, <1>2, <1>4 DEF GoodPlan, Placed, Stages, Index, SourcePlan, Validation
<1>9. Made(q)
  <2>1. q.next >= Validation => ~more /\ InputsOf(q) = InputsOf(p)
    BY <1>2, <1>4 DEF InputsOf, Index, Validation
  <2>2. ~KeyPending(q)
    BY <1>1, <1>4 DEF KeyPending
  <2> QED
    BY <2>1, <2>2, <1>1, <1>4 DEF GoodPlan, Made, Validation
<1>10. Counted(q)
  BY <1>1, <1>4, <1>5 DEF GoodPlan, Counted, CanContinue, Plans
<1> QED
  BY <1>3, <1>7, <1>8, <1>9, <1>10 DEF GoodPlan, q

LEMMA RecordGood ==
    ASSUME NEW p, GoodPlan(p), p.pc = "record"
    PROVE  GoodPlan([p EXCEPT !.executed = @ + 1, !.pc = "select"])
<1> DEFINE q == [p EXCEPT !.executed = @ + 1, !.pc = "select"]
<1>1. p \in Plans /\ p.next = 10 /\ p.error = 0 /\ p.action # None
      /\ p.stop = None
  BY DEF GoodPlan, Placed, Counted
<1>2. q \in Plans
  <2>1. "select" \in PCs /\ p.executed + 1 \in Nat
    BY <1>1 DEF PCs, Plans
  <2> QED
    BY <1>1, <2>1, PlanFields
<1>3. /\ q.query = p.query /\ q.config = p.config /\ q.key = p.key
      /\ q.error = p.error /\ q.level = p.level /\ q.stop = p.stop
      /\ q.refinement = p.refinement /\ q.action = p.action
      /\ q.requested = p.requested /\ q.executed = p.executed + 1
      /\ q.next = p.next /\ q.made = p.made /\ q.out = p.out
      /\ q.pc = "select"
  BY <1>1 DEF Plans
<1> HIDE DEF q
<1>4. Pass(q) >= Pass(p)
  BY <1>1, <1>3 DEF Pass, Plans
<1>5. /\ Ordered(q)
      /\ InputsOf(q) = InputsOf(p)
      /\ \A r \in Readers : q.out[r] # None => q.out[r].saw \in Worlds
  BY <1>1, <1>2, <1>3, <1>4, SameStages
<1>6. Placed(q)
  BY <1>1, <1>3, <1>5 DEF Placed
<1>7. Made(q)
  BY <1>1, <1>3, <1>5 DEF GoodPlan, Made, KeyPending
<1>8. Counted(q)
  BY <1>1, <1>3 DEF GoodPlan, Counted, Plans
<1> QED
  BY <1>2, <1>5, <1>6, <1>7, <1>8 DEF GoodPlan, q

(* A plan that ended, or was cancelled, keeps nothing but its place. *)
LEMMA EndedGood ==
    ASSUME NEW p \in Plans, NEW pc \in {"done", "raised"}
    PROVE  GoodPlan(Ended(p, pc)) /\ Ended(p, pc).pc = pc
<1>1. /\ p.query \in Queries
      /\ p.config \in [replay : BOOLEAN, loop : BOOLEAN, max : Nat]
  BY DEF Plans
<1>2. GoodPlan([Fresh(p.query, p.config) EXCEPT !.pc = pc])
  BY <1>1, FreshGood
<1> QED
  BY <1>2 DEF Ended, Fresh

------------------------------------------------------------------------------
(* All plans: what they are answered, and what the cache is given. *)

PlansGood ==
    \A c \in Calls : plan[c] # None =>
        GoodPlan(plan[c]) /\ Answered(plan[c], answer[c])

(* A caller waits for a plan. *)
Awaited == \A c \in Calls : caller[c] = "waiting" => plan[c] # None

IInv == TypeOK /\ StoredUnderItsInputs /\ Awaited /\ PlansGood

LEMMA OnePlan ==
    ASSUME IInv, NEW c \in Calls, NEW v,
           plan' = [plan EXCEPT ![c] = v],
           GoodPlan(v), Answered(v, answer'[c]),
           \A d \in Calls \ {c} : answer'[d] = answer[d],
           caller' = caller
    PROVE  /\ plan' \in [Calls -> Plans \cup {None}]
           /\ PlansGood' /\ Awaited'
<1>1. plan'[c] = v /\ \A d \in Calls \ {c} : plan'[d] = plan[d]
  BY DEF IInv, TypeOK
<1>2. plan' \in [Calls -> Plans \cup {None}]
  BY DEF IInv, TypeOK, GoodPlan
<1>3. ASSUME NEW d \in Calls, plan'[d] # None
      PROVE  GoodPlan(plan'[d]) /\ Answered(plan'[d], answer'[d])
  <2>1. CASE d = c
    BY <1>1, <2>1
  <2>2. CASE d # c
    BY <1>1, <1>3, <2>2 DEF IInv, PlansGood
  <2> QED
    BY <2>1, <2>2
<1>4. PlansGood'
  BY <1>3 DEF PlansGood
<1>5. Awaited'
  BY <1>1, NoneIsNoPlan DEF IInv, Awaited, GoodPlan
<1> QED
  BY <1>2, <1>4, <1>5

(* A step of one worker that leaves the cache alone. *)
LEMMA WorkerStep ==
    ASSUME IInv, NEW c \in Calls, NEW v,
           plan' = [plan EXCEPT ![c] = v],
           GoodPlan(v), v.pc # "replay",
           UNCHANGED <<caller, world, given, answer>>
    PROVE  IInv'
<1>1. Answered(v, answer'[c])
  BY DEF Answered
<1>2. plan' \in [Calls -> Plans \cup {None}] /\ PlansGood' /\ Awaited'
  BY <1>1, OnePlan
<1> QED
  BY <1>2 DEF IInv, TypeOK, StoredUnderItsInputs

LEMMA InvariantInit == Init => IInv
<1> SUFFICES ASSUME Init PROVE IInv
  OBVIOUS
<1>1. TypeOK
  BY LifecycleConstants DEF Init, Replay!Init, TypeOK
<1>2. StoredUnderItsInputs
  BY DEF Init, Replay!Init, StoredUnderItsInputs
<1> QED
  BY <1>1, <1>2 DEF Init, IInv, Awaited, PlansGood

(* What the calls do. *)
LEMMA InvariantCall ==
    ASSUME IInv, NEW c \in Calls,
           \/ \E q \in Queries, cf \in Configs[c] : Submit(c, q, cf)
           \/ Deliver(c) \/ Timeout(c)
    PROVE  IInv'
<1>1. CASE \E q \in Queries, cf \in Configs[c] : Submit(c, q, cf)
  <2> PICK q \in Queries, cf \in Configs[c] : Submit(c, q, cf)
    BY <1>1
  <2> DEFINE v == Fresh(q, cf)
  <2>1. cf \in [replay : BOOLEAN, loop : BOOLEAN, max : Nat]
    BY LifecycleConstants
  <2>2. GoodPlan([v EXCEPT !.pc = "queued"])
    BY <2>1, FreshGood
  <2>3. v = [v EXCEPT !.pc = "queued"] /\ v.pc = "queued"
    BY DEF Fresh
  <2>4. GoodPlan(v)
    BY <2>2, <2>3
  <2> HIDE DEF v
  <2>5. plan' = [plan EXCEPT ![c] = v] /\ UNCHANGED <<world, given, answer>>
    BY DEF Submit, v
  <2>6. plan'[c] = v /\ \A d \in Calls \ {c} : plan'[d] = plan[d]
    BY <2>5 DEF IInv, TypeOK
  <2>7. PlansGood'
    BY <2>3, <2>4, <2>5, <2>6 DEF IInv, PlansGood, Answered
  <2>8. Awaited'
    BY <2>4, <2>6, NoneIsNoPlan DEF IInv, Awaited, Submit, TypeOK, GoodPlan
  <2>9. TypeOK'
    BY <2>4, <2>5 DEF IInv, TypeOK, Submit, GoodPlan
  <2> QED
    BY <2>5, <2>7, <2>8, <2>9 DEF IInv, StoredUnderItsInputs
<1>2. CASE Deliver(c)
  BY <1>2 DEF Deliver, IInv, TypeOK, Awaited, PlansGood, StoredUnderItsInputs
<1>3. CASE Timeout(c)
  <2> DEFINE p == plan[c]
             v == [p EXCEPT !.pc = IF @ = "queued" THEN "cancelled" ELSE @]
  <2>1. p # None /\ p \in Plans /\ GoodPlan(p)
    BY <1>3 DEF Timeout, IInv, Awaited, PlansGood, TypeOK
  <2>2. GoodPlan(v)
    <3>1. CASE p.pc = "queued"
      BY <3>1, <2>1, MoveGood
    <3>2. CASE p.pc # "queued"
      <4>1. v = p
        BY <3>2, <2>1 DEF Plans
      <4> QED
        BY <4>1, <2>1
    <3> QED
      BY <3>1, <3>2
  <2>3. plan' = [plan EXCEPT ![c] = v] /\ UNCHANGED <<world, given, answer>>
    BY <1>3 DEF Timeout
  <2>4. Answered(v, answer[c])
    <3>1. v.pc = "replay" => v = p
      BY <2>1 DEF Plans
    <3> QED
      BY <3>1, <2>1 DEF IInv, PlansGood, Answered
  <2> HIDE DEF v
  <2>5. plan'[c] = v /\ \A d \in Calls \ {c} : plan'[d] = plan[d]
    BY <2>3 DEF IInv, TypeOK
  <2>6. PlansGood'
    BY <2>2, <2>3, <2>4, <2>5 DEF IInv, PlansGood, Answered
  <2>7. Awaited'
    BY <1>3, <2>5 DEF IInv, Awaited, Timeout, TypeOK
  <2>8. TypeOK'
    BY <1>3, <2>2, <2>3 DEF IInv, TypeOK, Timeout, GoodPlan
  <2> QED
    BY <2>3, <2>6, <2>7, <2>8 DEF IInv, StoredUnderItsInputs
<1> QED
  BY <1>1, <1>2, <1>3

(* What the workers do to their plans. *)
LEMMA InvariantWork ==
    ASSUME IInv, NEW c \in Calls, Work(c) \/ Raise(c)
    PROVE  IInv'
<1> DEFINE p == plan[c]
<1>1. p # None /\ p \in Plans /\ GoodPlan(p) /\ Answered(p, answer[c])
  BY DEF Work, Raise, Start, RunStage, RejectStage, SkipReplay, LookupMiss,
     LookupHit, Reuse, Store, Select, Iterate, Exhaust, RecordIteration, Finalize,
     At, IInv, TypeOK, PlansGood
<1>2. world \in Worlds
  BY DEF IInv, TypeOK, Worlds
<1>3. ASSUME Start(c) PROVE IInv'
  <2> DEFINE v == [p EXCEPT !.pc = "stage"]
  <2>1. GoodPlan(v)
    BY <1>1, <1>3, MoveGood DEF Start, At
  <2>2. v.pc = "stage"
    BY <1>1 DEF Plans
  <2>3. plan' = [plan EXCEPT ![c] = v] /\ UNCHANGED <<caller, world, given, answer>>
    BY <1>3 DEF Start
  <2> HIDE DEF v
  <2> QED
    BY <2>1, <2>2, <2>3, WorkerStep
<1>4. ASSUME RunStage(c) PROVE IInv'
  <2> DEFINE v == [p EXCEPT
                !.out[p.next] = [level |-> p.level, pass |-> Pass(p),
                                 saw |-> IF p.next \in Readers THEN world ELSE 0],
                !.made = IF p.next = SourcePlan THEN InputsOf(p) ELSE @,
                !.next = p.next + 1,
                !.pc = AfterStage(p)]
  <2>1. GoodPlan(v)
    BY <1>1, <1>2, <1>4, StageGood DEF RunStage, At
  <2>2. v.pc # "replay"
    BY <1>1 DEF Plans, AfterStage
  <2>3. plan' = [plan EXCEPT ![c] = v] /\ UNCHANGED <<caller, world, given, answer>>
    BY <1>4 DEF RunStage
  <2> HIDE DEF v
  <2> QED
    BY <2>1, <2>2, <2>3, WorkerStep
<1>5. ASSUME RejectStage(c) PROVE IInv'
  <2> DEFINE v == [p EXCEPT
                !.error = p.next,
                !.stop = IF p.action # None THEN "stage_contract_error" ELSE @,
                !.pc = IF p.action = None /\ p.next <= ContextRefine
                       THEN "prepare" ELSE "finalize"]
  <2>1. GoodPlan(v)
    BY <1>1, <1>5, RejectGood DEF RejectStage, At
  <2>2. v.pc # "replay"
    BY <1>1 DEF Plans
  <2>3. plan' = [plan EXCEPT ![c] = v] /\ UNCHANGED <<caller, world, given, answer>>
    BY <1>5 DEF RejectStage
  <2> HIDE DEF v
  <2> QED
    BY <2>1, <2>2, <2>3, WorkerStep
<1>6. ASSUME SkipReplay(c) PROVE IInv'
  <2> DEFINE pc == IF p.error # 0 THEN "finalize" ELSE "stage"
             v == [p EXCEPT !.pc = pc]
  <2>1. GoodPlan(v)
    BY <1>1, <1>6, MoveGood DEF SkipReplay, At
  <2>2. v.pc # "replay"
    BY <1>1 DEF Plans
  <2>3. plan' = [plan EXCEPT ![c] = v] /\ UNCHANGED <<caller, world, given, answer>>
    BY <1>6 DEF SkipReplay
  <2> HIDE DEF v
  <2> QED
    BY <2>1, <2>2, <2>3, WorkerStep
<1>7. ASSUME LookupMiss(c) PROVE IInv'
  <2> DEFINE v == [p EXCEPT
                !.key = KeyOf(p),
                !.pc = IF p.error # 0 THEN "finalize" ELSE "stage"]
  <2>1. GoodPlan(v)
    BY <1>1, <1>2, <1>7, MissGood DEF LookupMiss, At
  <2>2. v.pc # "replay"
    BY <1>1 DEF Plans
  <2>3. plan' = [plan EXCEPT ![c] = v] /\ UNCHANGED <<caller, world, given, answer>>
    BY <1>7 DEF LookupMiss
  <2> HIDE DEF v
  <2> QED
    BY <2>1, <2>2, <2>3, WorkerStep
<1>8. ASSUME LookupHit(c) PROVE IInv'
  <2> DEFINE v == [p EXCEPT !.pc = "replay"]
  <2>1. p.pc = "prepare" /\ answer[c] = None
    BY <1>8 DEF LookupHit, At, Replay!Answer
  <2>2. PICK i \in given[KeyOf(p)] :
           answer' = [answer EXCEPT ![c] = [key |-> KeyOf(p), content |-> i]]
    BY <1>8 DEF LookupHit, Replay!Answer
  <2>3. KeyOf(p) \in ReplayKeys /\ KeyOf(p).query = p.query
    BY <1>1, <1>2, KeyTyped
  <2>4. i \in Inputs
    BY <2>3 DEF IInv, TypeOK
  <2>5. i = [query |-> p.query, level |-> 0, saw |-> KeyOf(p).saw]
    BY <2>3 DEF IInv, StoredUnderItsInputs
  <2>6. GoodPlan(v)
    BY <1>1, <2>1, MoveGood
  <2>7. /\ v.pc = "replay" /\ v.error = p.error /\ v.query = p.query
        /\ v.level = p.level /\ v.out = p.out
    BY <1>1 DEF Plans
  <2>8. /\ plan' = [plan EXCEPT ![c] = v]
        /\ UNCHANGED <<caller, world, given>>
    BY <1>8 DEF LookupHit, Replay!Answer
  <2>9. answer'[c].content = i /\ \A d \in Calls \ {c} : answer'[d] = answer[d]
    BY <2>2 DEF IInv, TypeOK
  <2> HIDE DEF v
  <2>10. p.error = 0 => i = InputsOf(p)
    <3>1. p.level = 0 /\ (p.error = 0 => p.next = SourcePlan)
      BY <1>1, <2>1 DEF GoodPlan, Placed, Counted
    <3>2. p.error = 0 => \A r \in Readers : p.out[r] # None
      <4>1. \A r \in Readers : r \in Stages /\ r < SourcePlan
        BY DEF Readers, Stages, SourcePlan
      <4> QED
        BY <1>1, <3>1, <4>1 DEF GoodPlan, Ordered
    <3>3. p.error = 0 => KeyOf(p).saw = InputsOf(p).saw
      BY <1>1, <1>2, <3>2, KeyTyped
    <3>4. p.error = 0 => InputsOf(p) = [query |-> p.query, level |-> p.level,
                                        saw |-> InputsOf(p).saw]
      BY <1>1, <3>2, InputsTyped DEF GoodPlan
    <3> QED
      BY <2>5, <3>1, <3>3, <3>4
  <2>11. Answered(v, answer'[c])
    <3>1. InputsOf(v) = InputsOf(p)
      BY <2>7 DEF InputsOf
    <3> QED
      BY <3>1, <2>7, <2>9, <2>10 DEF Answered
  <2>12. plan' \in [Calls -> Plans \cup {None}] /\ PlansGood' /\ Awaited'
    BY <2>6, <2>8, <2>9, <2>11, OnePlan
  <2>13. answer' \in [Calls -> [key : ReplayKeys, content : Inputs] \cup {None}]
    BY <2>2, <2>3, <2>4 DEF IInv, TypeOK
  <2> QED
    BY <2>8, <2>12, <2>13 DEF IInv, TypeOK, StoredUnderItsInputs
<1>9. ASSUME Reuse(c) PROVE IInv'
  <2> DEFINE v == IF p.error # 0 THEN [p EXCEPT !.pc = "finalize"]
                  ELSE [p EXCEPT
                         !.out[SourcePlan] = [level |-> 0, pass |-> 0, saw |-> 0],
                         !.made = InputsOf(p),
                         !.next = Validation,
                         !.pc = "stage"]
  <2>1. p.pc = "replay"
    BY <1>9 DEF Reuse, At
  <2>2. p.error = 0 => answer[c].content = InputsOf(p)
    BY <1>1, <2>1 DEF Answered
  <2>3. GoodPlan(v)
    BY <1>1, <2>1, MoveGood, ReuseGood
  <2>4. v.pc # "replay"
    BY <1>1 DEF Plans
  <2>5. /\ plan' = [plan EXCEPT ![c] = v]
        /\ UNCHANGED <<caller, world, given>>
    BY <1>9, <2>2 DEF Reuse, Replay!Forget
  <2>6. answer' = [d \in Calls |-> IF d \in {c} THEN None ELSE answer[d]]
    BY <1>9 DEF Reuse, Replay!Forget
  <2> HIDE DEF v
  <2>7. Answered(v, answer'[c])
    BY <2>4 DEF Answered
  <2>8. \A d \in Calls \ {c} : answer'[d] = answer[d]
    BY <2>6
  <2>9. plan' \in [Calls -> Plans \cup {None}] /\ PlansGood' /\ Awaited'
    BY <2>3, <2>5, <2>7, <2>8, OnePlan
  <2>10. answer' \in [Calls -> [key : ReplayKeys, content : Inputs] \cup {None}]
    BY <2>6 DEF IInv, TypeOK
  <2> QED
    BY <2>5, <2>9, <2>10 DEF IInv, TypeOK, StoredUnderItsInputs
<1>10. ASSUME Store(c) PROVE IInv'
  <2> DEFINE v == [p EXCEPT !.pc = "stage"]
  <2>1. p.pc = "store"
    BY <1>10 DEF Store, At
  <2>2. p.error = 0 /\ p.next = Validation /\ p.action = None /\ p.level = 0
    BY <1>1, <2>1 DEF GoodPlan, Placed, Counted
  <2>3. /\ p.made = InputsOf(p) /\ p.key \in ReplayKeys
        /\ p.key.query = p.query /\ p.key.saw = InputsOf(p).saw
    BY <1>1, <2>1, <2>2 DEF GoodPlan, Made, KeyPending, Validation
  <2>4. /\ p.made = [query |-> p.key.query, level |-> 0, saw |-> p.key.saw]
        /\ p.made \in Inputs
    <3>1. \A r \in Readers : p.out[r] # None
      <4>1. \A r \in Readers : r \in Stages /\ r < Validation
        BY DEF Readers, Stages, Validation
      <4> QED
        BY <1>1, <2>2, <4>1 DEF GoodPlan, Ordered
    <3>2. /\ InputsOf(p) = [query |-> p.query, level |-> p.level,
                            saw |-> InputsOf(p).saw]
          /\ InputsOf(p) \in Inputs
      BY <1>1, <2>2, <3>1, InputsTyped DEF GoodPlan
    <3> QED
      BY <2>2, <2>3, <3>2
  <2>5. given' = [given EXCEPT ![p.key] = @ \cup {p.made}]
        /\ UNCHANGED <<caller, world, answer>>
    BY <1>10 DEF Store, Replay!Store
  <2>6. GoodPlan(v)
    BY <1>1, <2>1, MoveGood
  <2>7. v.pc # "replay"
    BY <1>1 DEF Plans
  <2>8. plan' = [plan EXCEPT ![c] = v]
    BY <1>10 DEF Store
  <2> HIDE DEF v
  <2>9. Answered(v, answer'[c])
    BY <2>7 DEF Answered
  <2>10. plan' \in [Calls -> Plans \cup {None}] /\ PlansGood' /\ Awaited'
    BY <2>5, <2>6, <2>8, <2>9, OnePlan
  <2>11. given' \in [ReplayKeys -> SUBSET Inputs]
    BY <2>3, <2>4, <2>5 DEF IInv, TypeOK
  <2>12. StoredUnderItsInputs'
    BY <2>3, <2>4, <2>5 DEF IInv, TypeOK, StoredUnderItsInputs
  <2> QED
    BY <2>5, <2>10, <2>11, <2>12 DEF IInv, TypeOK
<1>11. ASSUME Select(c) PROVE IInv'
  <2>1. p.pc = "select" /\ UNCHANGED <<caller, world, given, answer>>
    BY <1>11 DEF Select, At
  <2>2. ASSUME NEW a \in Actions,
               plan' = [plan EXCEPT ![c].requested = @ + 1, ![c].action = a,
                                    ![c].pc = "iterate"]
        PROVE  IInv'
    <3> DEFINE v == [p EXCEPT !.requested = @ + 1, !.action = a, !.pc = "iterate"]
    <3>1. GoodPlan(v)
      BY <1>1, <2>1, SelectGood
    <3>2. v.pc # "replay"
      BY <1>1 DEF Plans
    <3>3. plan' = [plan EXCEPT ![c] = v]
      BY <2>2
    <3> HIDE DEF v
    <3> QED
      BY <2>1, <3>1, <3>2, <3>3, WorkerStep
  <2>3. ASSUME plan' = [plan EXCEPT
                 ![c].stop = IF p.action = None THEN "no_action" ELSE "completed",
                 ![c].pc = "finalize"]
        PROVE  IInv'
    <3> DEFINE stop == IF p.action = None THEN "no_action" ELSE "completed"
               v == [p EXCEPT !.stop = stop, !.pc = "finalize"]
    <3>1. GoodPlan(v)
      BY <1>1, <2>1, StopGood
    <3>2. v.pc # "replay"
      BY <1>1 DEF Plans
    <3>3. plan' = [plan EXCEPT ![c] = v]
      BY <2>3
    <3> HIDE DEF v
    <3> QED
      BY <2>1, <3>1, <3>2, <3>3, WorkerStep
  <2> QED
    BY <1>11, <2>2, <2>3 DEF Select
<1>12. ASSUME NEW hinted \in BOOLEAN, Iterate(c, hinted) PROVE IInv'
  <2> DEFINE more == p.action = "request_more_context" /\ hinted
             v == [p EXCEPT
                !.refinement = IF more THEN p.executed + 1 ELSE 0,
                !.level = IF more THEN @ + 1 ELSE @,
                !.next = RerunFrom(p.action),
                !.pc = "stage"]
  <2>1. p.pc = "iterate" /\ CanContinue(p)
    BY <1>12 DEF Iterate, At
  <2>2. more \in BOOLEAN /\ (more => p.action = "request_more_context")
    OBVIOUS
  <2>3. plan' = [plan EXCEPT ![c] = v] /\ UNCHANGED <<caller, world, given, answer>>
    BY <1>12 DEF Iterate
  <2> HIDE DEF more
  <2>4. GoodPlan(v)
    BY <1>1, <2>1, <2>2, IterateGood
  <2>5. v.pc # "replay"
    BY <1>1 DEF Plans
  <2> HIDE DEF v
  <2> QED
    BY <2>3, <2>4, <2>5, WorkerStep
<1>13. ASSUME Exhaust(c) PROVE IInv'
  <2> DEFINE v == [p EXCEPT !.stop = "max_iterations", !.pc = "finalize"]
  <2>1. GoodPlan(v)
    BY <1>1, <1>13, StopGood DEF Exhaust, At
  <2>2. v.pc # "replay"
    BY <1>1 DEF Plans
  <2>3. plan' = [plan EXCEPT ![c] = v] /\ UNCHANGED <<caller, world, given, answer>>
    BY <1>13 DEF Exhaust
  <2> HIDE DEF v
  <2> QED
    BY <2>1, <2>2, <2>3, WorkerStep
<1>14. ASSUME RecordIteration(c) PROVE IInv'
  <2> DEFINE v == [p EXCEPT !.executed = @ + 1, !.pc = "select"]
  <2>1. GoodPlan(v)
    BY <1>1, <1>14, RecordGood DEF RecordIteration, At
  <2>2. v.pc # "replay"
    BY <1>1 DEF Plans
  <2>3. plan' = [plan EXCEPT ![c] = v] /\ UNCHANGED <<caller, world, given, answer>>
    BY <1>14 DEF RecordIteration
  <2> HIDE DEF v
  <2> QED
    BY <2>1, <2>2, <2>3, WorkerStep
<1>15. ASSUME Finalize(c) \/ Raise(c) PROVE IInv'
  <2>1. PICK pc \in {"done", "raised"} :
           /\ plan' = [plan EXCEPT ![c] = Ended(p, pc)]
           /\ UNCHANGED <<caller, world, given, answer>>
    BY <1>15 DEF Finalize, Raise
  <2>2. GoodPlan(Ended(p, pc)) /\ Ended(p, pc).pc # "replay"
    BY <1>1, EndedGood
  <2> QED
    BY <2>1, <2>2, WorkerStep
<1> QED
  BY <1>3, <1>4, <1>5, <1>6, <1>7, <1>8, <1>9, <1>10, <1>11, <1>12, <1>13, <1>14,
     <1>15 DEF Work

LEMMA InvariantStep == IInv /\ [Next]_vars => IInv'
<1> SUFFICES ASSUME IInv, [Next]_vars PROVE IInv'
  OBVIOUS
<1>1. CASE \E c \in Calls :
              \/ \E q \in Queries, cf \in Configs[c] : Submit(c, q, cf)
              \/ Deliver(c) \/ Timeout(c)
  BY <1>1, InvariantCall
<1>2. CASE \E c \in Calls : Work(c) \/ Raise(c)
  BY <1>2, InvariantWork
<1>3. CASE Edit \/ UNCHANGED vars
  BY <1>3, LifecycleConstants DEF Edit, vars, IInv, TypeOK, Awaited, PlansGood, StoredUnderItsInputs
<1> QED
  BY <1>1, <1>2, <1>3 DEF Next

LEMMA Invariant == Spec => []IInv
  BY InvariantInit, InvariantStep, PTL DEF Spec

------------------------------------------------------------------------------
(* What the invariant gives. *)

(* The state of every plan, caller and cache entry is well typed. *)
THEOREM TypeCorrect == Spec => []TypeOK
<1>1. IInv => TypeOK
  BY DEF IInv
<1> QED
  BY <1>1, Invariant, PTL

(* Only the source plan of the inputs a key fingerprints is ever stored    *)
(* under it.                                                               *)
THEOREM StoresAreExact == Spec => []StoredUnderItsInputs
<1>1. IInv => StoredUnderItsInputs
  BY DEF IInv
<1> QED
  BY <1>1, Invariant, PTL

(* The source plan of a settled plan is the one the payloads beside it     *)
(* give, whoever stored it.                                                *)
THEOREM SourcePlansAreCurrent == Spec => []SourcePlanIsCurrent
<1>1. IInv => SourcePlanIsCurrent
  BY DEF IInv, PlansGood, GoodPlan, Placed, Made, Settled, SourcePlanIsCurrent,
     Validation
<1> QED
  BY <1>1, Invariant, PTL

(* The payloads of a settled plan belong together. *)
THEOREM PassesFitTogether == Spec => []PayloadsBelongTogether
<1>1. IInv => PayloadsBelongTogether
  <2> SUFFICES ASSUME IInv, NEW c \in Calls, plan[c] # None, Settled(plan[c])
               PROVE  LET p == plan[c] IN
                      /\ \A s \in Stages : p.out[s] # None
                      /\ \A s \in Stages, t \in Stages :
                            s < t => p.out[s].pass <= p.out[t].pass
                      /\ \A s \in Index .. Validation : p.out[s].level = p.level
    BY DEF PayloadsBelongTogether
  <2> DEFINE p == plan[c]
  <2>1. p.error = 0 /\ p.next = 10 /\ Ordered(p)
    BY DEF IInv, PlansGood, GoodPlan, Placed, Settled
  <2> HIDE DEF p
  <2>2. \A s \in Stages : p.out[s] # None /\ (s # 1 => p.out[s].level = p.level)
    BY <2>1 DEF Ordered, Stages
  <2>3. \A s \in Stages, t \in Stages : s < t => p.out[s].pass <= p.out[t].pass
    BY <2>1, <2>2 DEF Ordered, Stages
  <2>4. \A s \in Index .. Validation : s \in Stages /\ s # 1
    BY DEF Stages, Index, Validation
  <2> QED
    BY <2>2, <2>3, <2>4 DEF p
<1> QED
  BY <1>1, Invariant, PTL

(* The agent loop accounts for every action it requested, within its bound. *)
THEOREM ActionsAreCounted == Spec => []ActionsAddUp
<1>1. IInv => ActionsAddUp
  BY DEF IInv, PlansGood, GoodPlan, Counted, ActionsAddUp
<1> QED
  BY <1>1, Invariant, PTL

(* No stage is handed the refinement of another iteration. *)
THEOREM RefinementsAreCurrent == Spec => []RefinementIsCurrent
<1>1. IInv => RefinementIsCurrent
  BY DEF IInv, PlansGood, GoodPlan, Counted, RefinementIsCurrent
<1> QED
  BY <1>1, Invariant, PTL
==============================================================================
