------------------------- MODULE RuntimeStatsProofs -------------------------
(***************************************************************************)
(* Rollups that are added to and rollups that are rebuilt count the facts, *)
(* for any invocations, reports, scopes and readers; and a snapshot read   *)
(* in several queries is still one a single moment could have shown, as    *)
(* far as a session and all time go.                                       *)
(***************************************************************************)
EXTENDS RuntimeStats, SumsProofs

FactsOK ==
    /\ DOMAIN facts \subseteq Invocations
    /\ IsFiniteSet(DOMAIN facts)
    /\ \A i \in DOMAIN facts : facts[i] \in Reports

(* The write lock: at most one transaction is open, and the fact it found  *)
(* is the one that is there.                                               *)
OneWriter ==
    /\ \A t, u \in writing : t = u
    /\ \A t \in writing :
          /\ t.id \in Invocations /\ t.report \in Reports
          /\ t.previous = IF t.id \in DOMAIN facts THEN {facts[t.id]} ELSE {}

(* What a rollup has to say of the facts of its scope. *)
CountsOf(u, fs, s) ==
    /\ \A m \in Marks : u.marks[m] = Cardinality(Marked(fs, s, m))
    /\ DOMAIN u.lines = UNION {DOMAIN fs[i].times : i \in Members(fs, s)}
    /\ \A l \in DOMAIN u.lines : u.lines[l].count = Cardinality(Timed(fs, s, l))

Finite(fs) == IsFiniteSet(DOMAIN fs)

-----------------------------------------------------------------------------
(* The facts of a scope.                                                   *)
LEMMA PartsFinite ==
    ASSUME NEW fs, Finite(fs), NEW s
    PROVE  /\ IsFiniteSet(Members(fs, s))
           /\ \A m : /\ IsFiniteSet(Marked(fs, s, m))
                     /\ Cardinality(Marked(fs, s, m)) \in Nat
           /\ \A l : /\ IsFiniteSet(Timed(fs, s, l))
                     /\ Cardinality(Timed(fs, s, l)) \in Nat
                     /\ Cardinality(Timed(fs, s, l)) <= Cardinality(DOMAIN fs)
<1>1. /\ Members(fs, s) \subseteq DOMAIN fs
      /\ \A m : Marked(fs, s, m) \subseteq DOMAIN fs
      /\ \A l : Timed(fs, s, l) \subseteq DOMAIN fs
  BY DEF Members, Marked, Timed
<1> QED
  BY <1>1, FS_Subset, FS_CardinalityType DEF Finite

(* An invocation whose scopes, before and now, do not include s changes    *)
(* nothing in s.                                                           *)
LEMMA OutsideScope ==
    ASSUME NEW fs, NEW i, NEW r, NEW s, NEW gs,
           gs = [j \in DOMAIN fs \cup {i} |-> IF j = i THEN r ELSE fs[j]],
           s \notin ScopesOf(r), i \in DOMAIN fs => s \notin ScopesOf(fs[i])
    PROVE  \A u : CountsOf(u, fs, s) => CountsOf(u, gs, s)
<1>1. Members(gs, s) = Members(fs, s)
  BY DEF Members
<1>2. \A j \in Members(fs, s) : gs[j] = fs[j]
  BY DEF Members
<1>3. \A m : Marked(gs, s, m) = Marked(fs, s, m)
  BY <1>1, <1>2 DEF Marked
<1>4. \A l : Timed(gs, s, l) = Timed(fs, s, l)
  BY <1>1, <1>2 DEF Timed
<1>5. UNION {DOMAIN gs[j].times : j \in Members(gs, s)}
        = UNION {DOMAIN fs[j].times : j \in Members(fs, s)}
  BY <1>1, <1>2
<1> QED
  BY <1>3, <1>4, <1>5 DEF CountsOf

(* A scope without members has an empty rollup. *)
LEMMA EmptyScope ==
    ASSUME NEW fs, NEW s, Members(fs, s) = {}
    PROVE  CountsOf(NoRollup, fs, s)
<1>1. \A m : Marked(fs, s, m) = {}
  BY DEF Marked
<1>2. DOMAIN NoRollup.lines = {}
  BY DEF NoRollup
<1>3. \A m \in Marks : NoRollup.marks[m] = 0
  BY DEF NoRollup
<1>4. UNION {DOMAIN fs[j].times : j \in Members(fs, s)} = {}
  OBVIOUS
<1> QED
  BY <1>1, <1>2, <1>3, <1>4, FS_EmptySet DEF CountsOf

(* One more fact, one more report in the rollup. *)
LEMMA OneMore ==
    ASSUME NEW fs, NEW i, NEW r, NEW s, NEW gs, NEW u, Finite(fs),
           i \notin DOMAIN fs, s \in ScopesOf(r), CountsOf(u, fs, s),
           gs = [j \in DOMAIN fs \cup {i} |-> IF j = i THEN r ELSE fs[j]]
    PROVE  CountsOf(Counted(u, r), gs, s)
<1> DEFINE c == Counted(u, r)
<1>1. Members(gs, s) = Members(fs, s) \cup {i} /\ i \notin Members(fs, s)
  BY DEF Members
<1>2. gs[i] = r /\ \A j \in Members(fs, s) : gs[j] = fs[j]
  BY DEF Members
<1>3. \A m : /\ Marked(gs, s, m) = IF m \in r.marks THEN Marked(fs, s, m) \cup {i}
                                   ELSE Marked(fs, s, m)
             /\ i \notin Marked(fs, s, m)
  BY <1>1, <1>2 DEF Marked
<1>4. \A l : /\ Timed(gs, s, l) = IF l \in DOMAIN r.times THEN Timed(fs, s, l) \cup {i}
                                  ELSE Timed(fs, s, l)
             /\ i \notin Timed(fs, s, l)
  BY <1>1, <1>2 DEF Timed
<1>5. \A m \in Marks : c.marks[m] = u.marks[m] + IF m \in r.marks THEN 1 ELSE 0
  BY DEF Counted
<1>6. \A m \in Marks : c.marks[m] = Cardinality(Marked(gs, s, m))
  <2> TAKE m \in Marks
  <2>1. u.marks[m] = Cardinality(Marked(fs, s, m)) /\ u.marks[m] \in Nat
    BY PartsFinite DEF CountsOf
  <2>2. Cardinality(Marked(fs, s, m) \cup {i}) = u.marks[m] + 1
    BY <2>1, <1>3, PartsFinite, FS_AddElement
  <2>3. CASE m \in r.marks
    BY <2>2, <2>3, <1>3, <1>5
  <2>4. CASE m \notin r.marks
    <3>1. c.marks[m] = u.marks[m] + 0
      BY <2>4, <1>5
    <3>2. Marked(gs, s, m) = Marked(fs, s, m)
      BY <2>4, <1>3
    <3> HIDE DEF c
    <3> QED
      BY <3>1, <3>2, <2>1
  <2> QED
    BY <2>3, <2>4
<1>7. DOMAIN c.lines = DOMAIN u.lines \cup DOMAIN r.times
  BY DEF Counted
<1>8. DOMAIN c.lines = UNION {DOMAIN gs[j].times : j \in Members(gs, s)}
  <2>1. DOMAIN u.lines = UNION {DOMAIN fs[j].times : j \in Members(fs, s)}
    BY DEF CountsOf
  <2> DEFINE old == {DOMAIN fs[j].times : j \in Members(fs, s)}
             new == {DOMAIN gs[j].times : j \in Members(gs, s)}
  <2>2. new = old \cup {DOMAIN r.times}
    BY <1>1, <1>2
  <2>3. UNION new = (UNION old) \cup DOMAIN r.times
    <3> HIDE DEF old, new
    <3> QED  BY <2>2
  <2> QED
    BY <2>1, <2>3, <1>7
<1>9. ASSUME NEW l \in DOMAIN c.lines
      PROVE  c.lines[l].count = Cardinality(Timed(gs, s, l))
  <2>1. CASE l \notin DOMAIN r.times
    <3>1. c.lines[l] = u.lines[l] /\ l \in DOMAIN u.lines
      BY <2>1, <1>7 DEF Counted
    <3> QED
      BY <3>1, <2>1, <1>4 DEF CountsOf
  <2>2. CASE l \in DOMAIN r.times /\ l \in DOMAIN u.lines
    <3>1. c.lines[l].count = u.lines[l].count + 1
      BY <2>2 DEF Counted, Extended
    <3>2. u.lines[l].count = Cardinality(Timed(fs, s, l))
      BY <2>2 DEF CountsOf
    <3>3. Timed(gs, s, l) = Timed(fs, s, l) \cup {i} /\ i \notin Timed(fs, s, l)
      BY <2>2, <1>4
    <3>4. Cardinality(Timed(fs, s, l) \cup {i}) = Cardinality(Timed(fs, s, l)) + 1
      BY <3>3, PartsFinite, FS_AddElement
    <3> QED
      BY <3>1, <3>2, <3>3, <3>4
  <2>3. CASE l \in DOMAIN r.times /\ l \notin DOMAIN u.lines
    <3>1. c.lines[l].count = 1
      BY <2>3 DEF Counted, First
    <3>2. Timed(fs, s, l) = {}
      BY <2>3 DEF CountsOf, Timed
    <3>3. Timed(gs, s, l) = {i}
      BY <3>2, <2>3, <1>4
    <3> QED
      BY <3>1, <3>3, FS_Singleton
  <2> QED
    BY <2>1, <2>2, <2>3
<1> QED
  BY <1>6, <1>8, <1>9 DEF CountsOf

LEMMA RebuiltCounts ==
    ASSUME NEW fs, NEW s
    PROVE  CountsOf(Rebuilt(fs, s), fs, s)
<1>1. \A is, l : Summary(fs, is, l).count = Cardinality(is)
  BY DEF Summary
<1>2. \A m \in Marks : Rebuilt(fs, s).marks[m] = Cardinality(Marked(fs, s, m))
  BY DEF Rebuilt
<1>3. /\ DOMAIN Rebuilt(fs, s).lines
           = UNION {DOMAIN fs[i].times : i \in Members(fs, s)}
      /\ \A l \in DOMAIN Rebuilt(fs, s).lines :
            Rebuilt(fs, s).lines[l] = Summary(fs, Timed(fs, s, l), l)
  BY DEF Rebuilt
<1> QED
  BY <1>1, <1>2, <1>3 DEF CountsOf

(* CountsAreFacts, of any facts and rollups. *)
ScopesIn(fs) == UNION {ScopesOf(fs[i]) : i \in DOMAIN fs}
Agree(us, fs) ==
    /\ DOMAIN us = ScopesIn(fs)
    /\ \A s \in DOMAIN us : CountsOf(us[s], fs, s)

LEMMA CountsAgree == CountsAreFacts <=> Agree(rollups, facts)
BY DEF CountsAreFacts, Agree, ScopesIn, CountsOf

LEMMA ScopesHaveMembers ==
    ASSUME NEW fs, NEW s
    PROVE  s \in ScopesIn(fs) <=> Members(fs, s) # {}
BY DEF ScopesIn, Members

LEMMA ScopesWith ==
    ASSUME NEW fs, NEW i, NEW r, NEW gs,
           gs = [j \in DOMAIN fs \cup {i} |-> IF j = i THEN r ELSE fs[j]]
    PROVE  /\ ScopesIn(gs) \subseteq ScopesIn(fs) \cup ScopesOf(r)
           /\ ScopesOf(r) \subseteq ScopesIn(gs)
           /\ ScopesIn(fs) \subseteq ScopesIn(gs)
                 \cup IF i \in DOMAIN fs THEN ScopesOf(fs[i]) ELSE {}
<1>1. \A s \in ScopesIn(gs) : s \in ScopesIn(fs) \/ s \in ScopesOf(r)
  BY DEF ScopesIn
<1>2. \A s \in ScopesOf(r) : s \in ScopesIn(gs)
  <2>1. i \in DOMAIN gs /\ gs[i] = r
    OBVIOUS
  <2> QED
    BY <2>1 DEF ScopesIn
<1>3. ASSUME NEW s \in ScopesIn(fs)
      PROVE  s \in ScopesIn(gs) \/ (i \in DOMAIN fs /\ s \in ScopesOf(fs[i]))
  <2>1. PICK j \in DOMAIN fs : s \in ScopesOf(fs[j])
    BY DEF ScopesIn
  <2>2. j # i => j \in DOMAIN gs /\ gs[j] = fs[j]
    OBVIOUS
  <2> QED
    BY <2>1, <2>2 DEF ScopesIn
<1> QED
  BY <1>1, <1>2, <1>3

LEMMA IncrementedAgrees ==
    ASSUME NEW us, NEW fs, NEW i, NEW r, NEW gs, Finite(fs), Agree(us, fs),
           i \notin DOMAIN fs,
           gs = [j \in DOMAIN fs \cup {i} |-> IF j = i THEN r ELSE fs[j]]
    PROVE  Agree(Incremented(us, r), gs)
<1> DEFINE ws == Incremented(us, r)
<1>1. DOMAIN ws = ScopesIn(gs)
  <2>1. DOMAIN ws = DOMAIN us \cup ScopesOf(r)
    BY DEF Incremented
  <2>2. ScopesIn(gs) = ScopesIn(fs) \cup ScopesOf(r)
    BY ScopesWith
  <2> QED
    BY <2>1, <2>2 DEF Agree
<1>2. ASSUME NEW s \in DOMAIN ws
      PROVE  CountsOf(ws[s], gs, s)
  <2>1. CASE s \notin ScopesOf(r)
    <3>1. ws[s] = us[s] /\ s \in DOMAIN us
      BY <2>1 DEF Incremented
    <3>2. CountsOf(us[s], fs, s)
      BY <3>1 DEF Agree
    <3> QED
      BY <3>1, <3>2, <2>1, OutsideScope
  <2>2. CASE s \in ScopesOf(r) /\ s \in DOMAIN us
    <3>1. ws[s] = Counted(us[s], r)
      BY <2>2 DEF Incremented
    <3>2. CountsOf(us[s], fs, s)
      BY <2>2 DEF Agree
    <3> QED
      BY <3>1, <3>2, <2>2, OneMore
  <2>3. CASE s \in ScopesOf(r) /\ s \notin DOMAIN us
    <3>1. ws[s] = Counted(NoRollup, r)
      BY <2>3 DEF Incremented
    <3>2. CountsOf(NoRollup, fs, s)
      BY <2>3, ScopesHaveMembers, EmptyScope DEF Agree
    <3> QED
      BY <3>1, <3>2, <2>3, OneMore
  <2> QED
    BY <2>1, <2>2, <2>3
<1> QED
  BY <1>1, <1>2 DEF Agree

LEMMA RebuiltAgrees ==
    ASSUME NEW us, NEW fs, NEW i, NEW r, NEW gs, Agree(us, fs), i \in DOMAIN fs,
           gs = [j \in DOMAIN fs \cup {i} |-> IF j = i THEN r ELSE fs[j]]
    PROVE  Agree(RebuiltAll(us, gs, ScopesOf(r) \cup ScopesOf(fs[i])), gs)
<1> DEFINE scopes == ScopesOf(r) \cup ScopesOf(fs[i])
           ws == RebuiltAll(us, gs, scopes)
<1>1. ScopesIn(gs) \subseteq ScopesIn(fs) \cup scopes
  BY ScopesWith
<1>2. ScopesIn(fs) \subseteq ScopesIn(gs) \cup scopes
  BY ScopesWith
<1> HIDE DEF scopes
<1>3. DOMAIN ws = {s \in DOMAIN us \cup scopes : s \in scopes => Members(gs, s) # {}}
  BY DEF RebuiltAll
<1>4. DOMAIN ws = ScopesIn(gs)
  BY <1>1, <1>2, <1>3, ScopesHaveMembers DEF Agree
<1>5. ASSUME NEW s \in DOMAIN ws
      PROVE  CountsOf(ws[s], gs, s)
  <2>1. CASE s \in scopes
    <3>1. ws[s] = Rebuilt(gs, s)
      BY <2>1, <1>3 DEF RebuiltAll
    <3> QED
      BY <3>1, RebuiltCounts
  <2>2. CASE s \notin scopes
    <3>1. ws[s] = us[s] /\ s \in DOMAIN us
      BY <2>2, <1>3 DEF RebuiltAll
    <3>2. CountsOf(us[s], fs, s)
      BY <3>1 DEF Agree
    <3>3. s \notin ScopesOf(r) /\ s \notin ScopesOf(fs[i])
      BY <2>2 DEF scopes
    <3> QED
      BY <3>1, <3>2, <3>3, OutsideScope
  <2> QED
    BY <2>1, <2>2
<1> QED
  BY <1>4, <1>5 DEF Agree, scopes

-----------------------------------------------------------------------------
CountInv == FactsOK /\ OneWriter /\ CountsAreFacts

LEMMA CommitKeepsCounts ==
    ASSUME CountInv, NEW t \in writing, Commit(t)
    PROVE  CountInv' /\ DOMAIN facts \subseteq DOMAIN facts'
<1>1. /\ t.id \in Invocations /\ t.report \in Reports
      /\ t.previous = IF t.id \in DOMAIN facts THEN {facts[t.id]} ELSE {}
      /\ writing' = {}
  BY DEF CountInv, OneWriter, Commit
<1>2. facts' = [j \in DOMAIN facts \cup {t.id} |->
                   IF j = t.id THEN t.report ELSE facts[j]]
  BY DEF Commit, Stored
<1>3. FactsOK'
  <2>1. IsFiniteSet(DOMAIN facts')
    BY <1>2, FS_AddElement DEF CountInv, FactsOK
  <2> QED
    BY <1>1, <1>2, <2>1 DEF CountInv, FactsOK
<1>4. OneWriter'
  BY <1>1 DEF OneWriter
<1>5. Agree(rollups, facts) /\ Finite(facts)
  BY CountsAgree DEF CountInv, FactsOK, Finite
<1>6. Agree(rollups', facts')
  <2>1. CASE t.id \notin DOMAIN facts
    <3>1. rollups' = Incremented(rollups, t.report)
      BY <1>1, <2>1 DEF Commit
    <3> QED
      BY <3>1, <2>1, <1>2, <1>5, IncrementedAgrees
  <2>2. CASE t.id \in DOMAIN facts
    <3>1. UNION {ScopesOf(r) : r \in t.previous} = ScopesOf(facts[t.id])
      BY <1>1, <2>2
    <3>2. rollups' = RebuiltAll(rollups, facts',
                                ScopesOf(t.report) \cup ScopesOf(facts[t.id]))
      BY <3>1, <1>1, <2>2 DEF Commit
    <3> QED
      BY <3>2, <2>2, <1>2, <1>5, RebuiltAgrees
  <2> QED
    BY <2>1, <2>2
<1>7. CountsAreFacts'
  BY <1>6 DEF CountsAreFacts, Agree, ScopesIn, CountsOf
<1> QED
  BY <1>2, <1>3, <1>4, <1>7 DEF CountInv

LEMMA CountsInit == StatsInit => CountInv
<1> SUFFICES ASSUME StatsInit PROVE CountInv
  OBVIOUS
<1>1. DOMAIN facts = {} /\ DOMAIN rollups = {} /\ writing = {}
  BY DEF StatsInit
<1>2. Agree(rollups, facts)
  BY <1>1 DEF Agree, ScopesIn
<1> QED
  BY <1>1, <1>2, CountsAgree, FS_EmptySet DEF CountInv, FactsOK, OneWriter

(* Every other step leaves the facts and rollups alone. *)
LEMMA CountsStep ==
    ASSUME CountInv, [StatsNext]_statsVars
    PROVE  CountInv' /\ DOMAIN facts \subseteq DOMAIN facts'
<1>1. ASSUME UNCHANGED <<facts, rollups>>, OneWriter'
      PROVE  CountInv' /\ DOMAIN facts \subseteq DOMAIN facts'
  <2>1. Agree(rollups', facts')
    BY <1>1, CountsAgree DEF CountInv
  <2>2. CountsAreFacts'
    BY <2>1 DEF CountsAreFacts, Agree, ScopesIn, CountsOf
  <2> QED
    BY <1>1, <2>2 DEF CountInv, FactsOK
<1>2. ASSUME UNCHANGED <<facts, rollups, writing>>
      PROVE  CountInv' /\ DOMAIN facts \subseteq DOMAIN facts'
  BY <1>1, <1>2 DEF CountInv, OneWriter
<1>3. CASE UNCHANGED statsVars
  BY <1>2, <1>3 DEF statsVars
<1>4. CASE Begin
  <2>1. OneWriter'
    BY <1>4 DEF Begin, OneWriter
  <2> QED
    BY <2>1, <1>1, <1>4 DEF Begin
<1>5. ASSUME NEW t \in writing, Commit(t)
      PROVE  CountInv' /\ DOMAIN facts \subseteq DOMAIN facts'
  BY <1>5, CommitKeepsCounts
<1>6. ASSUME NEW t \in writing, Rollback(t)
      PROVE  CountInv' /\ DOMAIN facts \subseteq DOMAIN facts'
  <2>1. OneWriter'
    BY <1>6 DEF Rollback, OneWriter, CountInv
  <2> QED
    BY <2>1, <1>1, <1>6 DEF Rollback
<1>7. ASSUME NEW v, NEW r, NEW s, Look(v, r) \/ ReadScope(v, s) \/ Return(v)
      PROVE  CountInv' /\ DOMAIN facts \subseteq DOMAIN facts'
  BY <1>2, <1>7 DEF Look, ReadScope, Return
<1> QED
  BY <1>3, <1>4, <1>5, <1>6, <1>7 DEF StatsNext

(* Rollups and facts never disagree: there is a rollup for exactly the     *)
(* scopes some fact is in, and it counts those facts.                      *)
THEOREM RollupsCountTheFacts == StatsSpec => []CountsAreFacts
<1>1. CountInv => CountsAreFacts
  BY DEF CountInv
<1>2. CountInv /\ [StatsNext]_statsVars => CountInv'
  BY CountsStep
<1> QED
  BY <1>1, <1>2, CountsInit, PTL DEF StatsSpec

-----------------------------------------------------------------------------
(* Latencies.  What the line of a rollup has to say of the times it sums   *)
(* up, by invocation.                                                      *)
TimesOf(fs, s, l) == [i \in Timed(fs, s, l) |-> fs[i].times[l]]

LineOf(line, ts) ==
    /\ line.sum = SumFunction(ts)
    /\ \A x \in {line.min, line.max, line.last} : \E i \in DOMAIN ts : x = ts[i]
    /\ \A i \in DOMAIN ts : line.min <= ts[i] /\ ts[i] <= line.max

LinesOf(u, fs, s) ==
    \A l \in DOMAIN u.lines : LineOf(u.lines[l], TimesOf(fs, s, l))

LinesAgree(us, fs) == \A s \in DOMAIN us : LinesOf(us[s], fs, s)

Recorded(fs) ==
    /\ DOMAIN fs \subseteq Invocations
    /\ IsFiniteSet(DOMAIN fs)
    /\ \A i \in DOMAIN fs : fs[i] \in Reports

(* LatenciesAreFacts, of any facts and rollups. *)
Sound(fs, line, s, l) ==
    LET is  == Timed(fs, s, l)
        all == {fs[i].times[l] : i \in is}
    IN  /\ line.sum = SumFunction([i \in is |-> fs[i].times[l]])
        /\ {line.min, line.max, line.last} \subseteq all
        /\ \A t \in all : line.min <= t /\ t <= line.max

AllSound(us, fs) ==
    \A s \in DOMAIN us : \A l \in DOMAIN us[s].lines : Sound(fs, us[s].lines[l], s, l)

LEMMA LatenciesAgree ==
    ASSUME NEW us, NEW fs
    PROVE  AllSound(us, fs) <=> LinesAgree(us, fs)
<1>1. ASSUME NEW line, NEW s, NEW l
      PROVE  LineOf(line, TimesOf(fs, s, l)) <=> Sound(fs, line, s, l)
  <2>1. /\ DOMAIN TimesOf(fs, s, l) = Timed(fs, s, l)
        /\ \A i \in Timed(fs, s, l) : TimesOf(fs, s, l)[i] = fs[i].times[l]
        /\ TimesOf(fs, s, l) = [i \in Timed(fs, s, l) |-> fs[i].times[l]]
    BY DEF TimesOf
  <2> DEFINE is  == Timed(fs, s, l)
             ts  == TimesOf(fs, s, l)
             all == {fs[i].times[l] : i \in is}
  <2>2. SumFunction(ts) = SumFunction([i \in is |-> fs[i].times[l]])
    BY <2>1
  <2>3. \A x : x \in all <=> \E i \in DOMAIN ts : x = ts[i]
    BY <2>1
  <2> HIDE DEF is, ts, all
  <2>4. {line.min, line.max, line.last} \subseteq all <=>
          \A x \in {line.min, line.max, line.last} : \E i \in DOMAIN ts : x = ts[i]
    BY <2>3
  <2>5. (\A t \in all : line.min <= t /\ t <= line.max) <=>
          \A i \in DOMAIN ts : line.min <= ts[i] /\ ts[i] <= line.max
    BY <2>3
  <2> QED
    BY <2>2, <2>4, <2>5 DEF LineOf, Sound, is, ts, all
<1> QED
  BY <1>1 DEF AllSound, LinesAgree, LinesOf

LEMMA TimesNat ==
    ASSUME NEW fs, Recorded(fs), NEW s, NEW l
    PROVE  /\ DOMAIN TimesOf(fs, s, l) = Timed(fs, s, l)
           /\ IsFiniteSet(Timed(fs, s, l)) /\ Timed(fs, s, l) \subseteq DOMAIN fs
           /\ \A i \in Timed(fs, s, l) : /\ TimesOf(fs, s, l)[i] = fs[i].times[l]
                                         /\ TimesOf(fs, s, l)[i] \in Nat
<1>1. IsFiniteSet(Timed(fs, s, l))
  BY PartsFinite DEF Recorded, Finite
<1>2. \A i \in Timed(fs, s, l) : i \in DOMAIN fs /\ l \in DOMAIN fs[i].times
  BY DEF Timed, Members
<1>3. \A i \in Timed(fs, s, l) : fs[i].times[l] \in Nat
  BY <1>2, StatsConstants DEF Recorded
<1> QED
  BY <1>1, <1>2, <1>3 DEF TimesOf

LEMMA LinesOutsideScope ==
    ASSUME NEW fs, NEW i, NEW r, NEW s, NEW gs,
           gs = [j \in DOMAIN fs \cup {i} |-> IF j = i THEN r ELSE fs[j]],
           s \notin ScopesOf(r), i \in DOMAIN fs => s \notin ScopesOf(fs[i])
    PROVE  \A u : LinesOf(u, fs, s) => LinesOf(u, gs, s)
<1>1. Members(gs, s) = Members(fs, s)
  BY DEF Members
<1>2. \A j \in Members(fs, s) : gs[j] = fs[j]
  BY DEF Members
<1>3. \A l : Timed(gs, s, l) = Timed(fs, s, l)
  BY <1>1, <1>2 DEF Timed
<1>4. ASSUME NEW l  PROVE TimesOf(gs, s, l) = TimesOf(fs, s, l)
  <2>1. Timed(gs, s, l) = Timed(fs, s, l)
    BY <1>3
  <2>2. \A j \in Timed(fs, s, l) : gs[j].times[l] = fs[j].times[l]
    BY <1>2 DEF Timed
  <2> QED
    BY <2>1, <2>2 DEF TimesOf
<1> QED
  BY <1>4 DEF LinesOf

(* One more time in a line that has some, and in a new one.                *)
LEMMA ExtendedLine ==
    ASSUME NEW ts, NEW us, NEW i, i \notin DOMAIN ts, IsFiniteSet(DOMAIN ts),
           ts = [j \in DOMAIN ts |-> ts[j]],
           DOMAIN us = DOMAIN ts \cup {i}, \A j \in DOMAIN ts : us[j] = ts[j],
           \A j \in DOMAIN us : us[j] \in Nat,
           NEW line, line.count # 0, LineOf(line, ts)
    PROVE  LineOf(Extended(line, us[i]), us)
<1> DEFINE t == us[i]
           x == Extended(line, t)
<1>1. /\ x.sum = line.sum + t /\ x.last = t
      /\ x.min = IF t < line.min THEN t ELSE line.min
      /\ x.max = IF t > line.max THEN t ELSE line.max
  BY DEF Extended
<1>2. SumFunction(us) = t + SumFunction(ts)
  BY SumWith
<1>3. SumFunction(ts) \in Nat /\ t \in Nat
  BY SumNat
<1>4. PICK a \in DOMAIN ts, b \in DOMAIN ts : line.min = ts[a] /\ line.max = ts[b]
  BY DEF LineOf
<1>5. us[a] = line.min /\ us[b] = line.max /\ line.min \in Nat /\ line.max \in Nat
  BY <1>4
<1> HIDE DEF x, t
<1>6. x.sum = SumFunction(us)
  BY <1>1, <1>2, <1>3 DEF LineOf
<1>7. \A y \in {x.min, x.max, x.last} : \E j \in DOMAIN us : y = us[j]
  BY <1>1, <1>5 DEF t
<1>8. ASSUME NEW j \in DOMAIN us PROVE x.min <= us[j] /\ us[j] <= x.max
  <2>1. CASE j = i
    BY <1>1, <1>3, <1>5, <2>1 DEF t
  <2>2. CASE j # i
    <3>1. line.min <= us[j] /\ us[j] <= line.max /\ us[j] \in Nat
      BY <2>2 DEF LineOf
    <3> QED
      BY <1>1, <1>3, <1>5, <3>1
  <2> QED
    BY <2>1, <2>2
<1> QED
  BY <1>6, <1>7, <1>8 DEF LineOf, x, t

LEMMA FirstLine ==
    ASSUME NEW us, NEW i, DOMAIN us = {i}, us[i] \in Nat
    PROVE  LineOf(First(us[i]), us)
<1> DEFINE ts == [j \in {} |-> us[j]]
<1>1. SumFunction(us) = us[i]
  <2>1. DOMAIN ts = {} /\ IsFiniteSet({})
    BY FS_EmptySet
  <2>2. SumFunction(ts) = 0
    BY <2>1, SumEmpty
  <2>3. SumFunction(us) = us[i] + SumFunction(ts)
    <3>1. ts = [j \in DOMAIN ts |-> ts[j]] /\ i \notin DOMAIN ts
      OBVIOUS
    <3> HIDE DEF ts
    <3> QED
      BY <2>1, <3>1, SumWith
  <2> QED
    BY <2>2, <2>3
<1> QED
  BY <1>1 DEF LineOf, First

LEMMA OneMoreLine ==
    ASSUME NEW fs, NEW i, NEW r \in Reports, NEW s, NEW gs, NEW u, Recorded(fs),
           i \in Invocations,
           i \notin DOMAIN fs, s \in ScopesOf(r), CountsOf(u, fs, s), LinesOf(u, fs, s),
           gs = [j \in DOMAIN fs \cup {i} |-> IF j = i THEN r ELSE fs[j]]
    PROVE  LinesOf(Counted(u, r), gs, s)
<1> DEFINE c == Counted(u, r)
<1>1. Members(gs, s) = Members(fs, s) \cup {i} /\ i \notin Members(fs, s)
  BY DEF Members
<1>2. gs[i] = r /\ \A j \in Members(fs, s) : gs[j] = fs[j]
  BY DEF Members
<1>3. \A l : /\ Timed(gs, s, l) = IF l \in DOMAIN r.times THEN Timed(fs, s, l) \cup {i}
                                  ELSE Timed(fs, s, l)
             /\ i \notin Timed(fs, s, l)
             /\ \A j \in Timed(fs, s, l) : gs[j] = fs[j]
  BY <1>1, <1>2 DEF Timed
<1>4. Recorded(gs)
  <2>1. IsFiniteSet(DOMAIN gs)
    BY FS_AddElement DEF Recorded
  <2> QED
    BY <2>1 DEF Recorded
<1> SUFFICES ASSUME NEW l \in DOMAIN c.lines
             PROVE  LineOf(c.lines[l], TimesOf(gs, s, l))
  BY DEF LinesOf
<1> DEFINE ts == TimesOf(fs, s, l)
           us == TimesOf(gs, s, l)
<1>5. /\ DOMAIN ts = Timed(fs, s, l) /\ IsFiniteSet(DOMAIN ts)
      /\ ts = [j \in DOMAIN ts |-> ts[j]]
      /\ DOMAIN us = Timed(gs, s, l) /\ \A j \in DOMAIN us : us[j] \in Nat
      /\ \A j \in DOMAIN ts : us[j] = ts[j]
  <2>1. ts = [j \in DOMAIN ts |-> ts[j]]
    BY DEF TimesOf
  <2>2. /\ DOMAIN ts = Timed(fs, s, l) /\ DOMAIN us = Timed(gs, s, l)
        /\ \A j \in Timed(fs, s, l) : ts[j] = fs[j].times[l]
        /\ \A j \in Timed(gs, s, l) : us[j] = gs[j].times[l]
    BY DEF TimesOf
  <2>3. \A j \in Timed(fs, s, l) : j \in Timed(gs, s, l) /\ gs[j] = fs[j]
    BY <1>3
  <2>4. IsFiniteSet(Timed(fs, s, l))
    BY TimesNat
  <2>5. \A j \in Timed(gs, s, l) : us[j] \in Nat
    BY <1>4, TimesNat
  <2> HIDE DEF ts, us
  <2>6. ASSUME NEW j \in DOMAIN ts PROVE us[j] = ts[j]
    <3>1. j \in Timed(fs, s, l) /\ j \in Timed(gs, s, l) /\ gs[j] = fs[j]
      BY <2>2, <2>3
    <3>2. ts[j] = fs[j].times[l] /\ us[j] = gs[j].times[l]
      BY <2>2, <3>1
    <3> QED
      BY <3>1, <3>2
  <2> QED
    BY <2>1, <2>2, <2>4, <2>5, <2>6
<1>6. CASE l \notin DOMAIN r.times
  <2>1. c.lines[l] = u.lines[l] /\ l \in DOMAIN u.lines
    BY <1>6 DEF Counted
  <2>2. us = ts
    <3>1. Timed(gs, s, l) = Timed(fs, s, l) /\ \A j \in Timed(fs, s, l) : gs[j] = fs[j]
      BY <1>3, <1>6
    <3> QED
      BY <3>1 DEF TimesOf
  <2> QED
    BY <2>1, <2>2 DEF LinesOf
<1>7. l \in DOMAIN r.times => DOMAIN us = DOMAIN ts \cup {i} /\ i \notin DOMAIN ts
                              /\ us[i] = r.times[l]
  BY <1>2, <1>3, <1>5 DEF TimesOf
<1>8. CASE l \in DOMAIN r.times /\ l \in DOMAIN u.lines
  <2>1. c.lines[l] = Extended(u.lines[l], r.times[l])
    BY <1>8 DEF Counted
  <2>2. LineOf(u.lines[l], ts)
    BY <1>8 DEF LinesOf
  <2>3. u.lines[l].count # 0
    <3>1. u.lines[l].count = Cardinality(Timed(fs, s, l))
      BY <1>8 DEF CountsOf
    <3>2. Timed(fs, s, l) # {}
      BY <1>8 DEF CountsOf, Timed
    <3> QED
      BY <1>5, <3>1, <3>2, FS_EmptySet
  <2> HIDE DEF ts, us, c
  <2>4. LineOf(Extended(u.lines[l], us[i]), us)
    BY <1>5, <1>7, <1>8, <2>2, <2>3, ExtendedLine
  <2> QED
    BY <1>7, <1>8, <2>1, <2>4 DEF us
<1>9. CASE l \in DOMAIN r.times /\ l \notin DOMAIN u.lines
  <2>1. c.lines[l] = First(r.times[l])
    BY <1>9 DEF Counted
  <2>2. Timed(fs, s, l) = {}
    BY <1>9 DEF CountsOf, Timed
  <2>3. DOMAIN us = {i} /\ us[i] \in Nat /\ us[i] = r.times[l]
    BY <1>5, <1>7, <1>9, <2>2
  <2> HIDE DEF us, c
  <2>4. LineOf(First(us[i]), us)
    BY <2>3, FirstLine
  <2> QED
    BY <2>1, <2>3, <2>4 DEF us
<1> QED
  BY <1>6, <1>8, <1>9

(* The member that finished last is one of them.                           *)
LEMMA NewestIsMember ==
    ASSUME NEW fs, Recorded(fs), NEW is, is \subseteq DOMAIN fs, is # {}
    PROVE  Newest(fs, is) \in is
<1> DEFINE R == {p \in is \X is : \/ fs[p[1]].finished < fs[p[2]].finished
                                  \/ /\ fs[p[1]].finished = fs[p[2]].finished
                                     /\ p[1] <= p[2]}
<1>1. \A i \in is : i \in Nat /\ fs[i].finished \in Nat
  BY StatsConstants DEF Recorded
<1>2. \A i, j \in is : <<i, j>> \in R <=>
         \/ fs[i].finished < fs[j].finished
         \/ fs[i].finished = fs[j].finished /\ i <= j
  OBVIOUS
<1>3. IsFiniteSet(is)
  BY FS_Subset DEF Recorded
<1> HIDE DEF R
<1>4. ASSUME NEW i \in is, NEW j \in is PROVE <<i, j>> \in R \/ <<j, i>> \in R
  BY <1>1, <1>2
<1>5. ASSUME NEW i \in is, NEW j \in is, NEW k \in is, <<i, j>> \in R, <<j, k>> \in R
      PROVE  <<i, k>> \in R
  <2>1. /\ i \in Nat /\ j \in Nat /\ k \in Nat
        /\ fs[i].finished \in Nat /\ fs[j].finished \in Nat /\ fs[k].finished \in Nat
    BY <1>1
  <2>2. /\ \/ fs[i].finished < fs[j].finished
           \/ fs[i].finished = fs[j].finished /\ i <= j
        /\ \/ fs[j].finished < fs[k].finished
           \/ fs[j].finished = fs[k].finished /\ j <= k
    BY <1>2, <1>5
  <2>3. \/ fs[i].finished < fs[k].finished
        \/ fs[i].finished = fs[k].finished /\ i <= k
    BY <2>1, <2>2
  <2> QED
    BY <2>3, <1>2
<1>6. \E m \in is : \A j \in is : <<j, m>> \in R
  BY <1>3, <1>4, <1>5, Greatest
<1>7. \E i \in is : \A j \in is :
         \/ fs[j].finished < fs[i].finished
         \/ fs[j].finished = fs[i].finished /\ j <= i
  BY <1>2, <1>6
<1> QED
  BY <1>7 DEF Newest

(* A summary of some facts says of their times what a line has to say.     *)
LEMMA SummaryIsLine ==
    ASSUME NEW fs, Recorded(fs), NEW s, NEW l, Timed(fs, s, l) # {}
    PROVE  LineOf(Summary(fs, Timed(fs, s, l), l), TimesOf(fs, s, l))
<1> DEFINE is  == Timed(fs, s, l)
           ts  == TimesOf(fs, s, l)
           all == {fs[i].times[l] : i \in is}
           x   == Summary(fs, is, l)
<1>1. /\ DOMAIN ts = is /\ IsFiniteSet(is) /\ is \subseteq DOMAIN fs
      /\ \A i \in is : ts[i] = fs[i].times[l] /\ ts[i] \in Nat
  BY TimesNat
<1>2. /\ x.sum = SumFunction([i \in is |-> fs[i].times[l]])
      /\ x.min = Min(all) /\ x.max = Max(all)
      /\ x.last = fs[Newest(fs, is)].times[l]
  BY DEF Summary
<1>3. x.sum = SumFunction(ts)
  BY <1>2 DEF TimesOf
<1>4. \A y : y \in all <=> \E i \in is : y = ts[i]
  BY <1>1
<1>5. x.last = ts[Newest(fs, is)] /\ Newest(fs, is) \in is
  BY <1>1, <1>2, NewestIsMember
<1> HIDE DEF is, ts, all, x
<1>6. /\ \E a \in is : \A i \in is : ts[a] <= ts[i]
      /\ \E b \in is : \A i \in is : ts[i] <= ts[b]
  <2>1. is # {}
    BY DEF is
  <2> QED
    BY <1>1, <2>1, Extremes
<1>7. x.min \in all /\ \A y \in all : x.min <= y
  <2>1. \E z \in all : \A y \in all : z <= y
    <3>1. PICK a \in is : \A i \in is : ts[a] <= ts[i]
      BY <1>6
    <3>2. ts[a] \in all
      BY <1>4
    <3>3. \A y \in all : ts[a] <= y
      BY <1>4, <3>1
    <3> QED
      BY <3>2, <3>3
  <2> QED
    BY <1>2, <2>1 DEF Min
<1>8. x.max \in all /\ \A y \in all : y <= x.max
  <2>1. \E z \in all : \A y \in all : z >= y
    <3>1. PICK b \in is : \A i \in is : ts[i] <= ts[b]
      BY <1>6
    <3>2. ts[b] \in all /\ ts[b] \in Nat
      BY <1>1, <1>4
    <3>3. \A y \in all : y \in Nat /\ y <= ts[b]
      BY <1>1, <1>4, <3>1
    <3> QED
      BY <3>2, <3>3
  <2>2. x.max \in all /\ \A y \in all : x.max >= y
    BY <1>2, <2>1 DEF Max
  <2>3. \A y \in all : y \in Nat
    BY <1>1, <1>4
  <2> QED
    BY <2>2, <2>3
<1> QED
  BY <1>1, <1>3, <1>4, <1>5, <1>7, <1>8 DEF LineOf, is, ts, x

LEMMA RebuiltLines ==
    ASSUME NEW fs, Recorded(fs), NEW s
    PROVE  LinesOf(Rebuilt(fs, s), fs, s)
<1> DEFINE u == Rebuilt(fs, s)
<1>1. u.lines = [l \in UNION {DOMAIN fs[i].times : i \in Members(fs, s)} |->
                   Summary(fs, Timed(fs, s, l), l)]
  BY DEF Rebuilt
<1> SUFFICES ASSUME NEW l \in DOMAIN u.lines
             PROVE  LineOf(u.lines[l], TimesOf(fs, s, l))
  BY DEF LinesOf
<1>2. Timed(fs, s, l) # {}
  BY <1>1 DEF Timed
<1>3. u.lines[l] = Summary(fs, Timed(fs, s, l), l)
  BY <1>1
<1> QED
  BY <1>2, <1>3, SummaryIsLine

(* LinesAgree after a report is added, and after its scopes are rebuilt.   *)
LEMMA IncrementedLines ==
    ASSUME NEW us, NEW fs, NEW i \in Invocations, NEW r \in Reports, NEW gs,
           Recorded(fs), Agree(us, fs), LinesAgree(us, fs), i \notin DOMAIN fs,
           gs = [j \in DOMAIN fs \cup {i} |-> IF j = i THEN r ELSE fs[j]]
    PROVE  LinesAgree(Incremented(us, r), gs)
<1> DEFINE ws == Incremented(us, r)
<1> SUFFICES ASSUME NEW s \in DOMAIN ws
             PROVE  LinesOf(ws[s], gs, s)
  BY DEF LinesAgree
<1>1. CASE s \notin ScopesOf(r)
  <2>1. ws[s] = us[s] /\ s \in DOMAIN us
    BY <1>1 DEF Incremented
  <2>2. LinesOf(us[s], fs, s)
    BY <2>1 DEF LinesAgree
  <2> QED
    BY <2>1, <2>2, <1>1, LinesOutsideScope
<1>2. CASE s \in ScopesOf(r) /\ s \in DOMAIN us
  <2>1. ws[s] = Counted(us[s], r)
    BY <1>2 DEF Incremented
  <2>2. CountsOf(us[s], fs, s) /\ LinesOf(us[s], fs, s)
    BY <1>2 DEF Agree, LinesAgree
  <2> QED
    BY <2>1, <2>2, <1>2, OneMoreLine
<1>3. CASE s \in ScopesOf(r) /\ s \notin DOMAIN us
  <2>1. ws[s] = Counted(NoRollup, r)
    BY <1>3 DEF Incremented
  <2>2. CountsOf(NoRollup, fs, s)
    BY <1>3, ScopesHaveMembers, EmptyScope DEF Agree, Recorded, Finite
  <2>3. LinesOf(NoRollup, fs, s)
    BY DEF LinesOf, NoRollup
  <2> QED
    BY <2>1, <2>2, <2>3, <1>3, OneMoreLine
<1> QED
  BY <1>1, <1>2, <1>3

LEMMA RebuiltAllLines ==
    ASSUME NEW us, NEW fs, NEW i \in DOMAIN fs, NEW r, NEW gs,
           Recorded(gs), LinesAgree(us, fs),
           gs = [j \in DOMAIN fs \cup {i} |-> IF j = i THEN r ELSE fs[j]]
    PROVE  LinesAgree(RebuiltAll(us, gs, ScopesOf(r) \cup ScopesOf(fs[i])), gs)
<1> DEFINE scopes == ScopesOf(r) \cup ScopesOf(fs[i])
           ws == RebuiltAll(us, gs, scopes)
<1> SUFFICES ASSUME NEW s \in DOMAIN ws
             PROVE  LinesOf(ws[s], gs, s)
  BY DEF LinesAgree
<1>1. s \notin scopes => s \notin ScopesOf(r) /\ s \notin ScopesOf(fs[i])
  OBVIOUS
<1> HIDE DEF scopes
<1>2. CASE s \in scopes
  <2>1. ws[s] = Rebuilt(gs, s)
    BY <1>2 DEF RebuiltAll
  <2> QED
    BY <2>1, RebuiltLines
<1>3. CASE s \notin scopes
  <2>1. ws[s] = us[s] /\ s \in DOMAIN us
    BY <1>3 DEF RebuiltAll
  <2>2. LinesOf(us[s], fs, s)
    BY <2>1 DEF LinesAgree
  <2> QED
    BY <2>1, <2>2, <1>1, <1>3, LinesOutsideScope
<1> QED
  BY <1>2, <1>3

LatencyInv == CountInv /\ LatenciesAreFacts

LEMMA LatenciesStep ==
    ASSUME LatencyInv, [StatsNext]_statsVars
    PROVE  LatencyInv'
<1>1. CountInv /\ CountInv'
  BY CountsStep DEF LatencyInv
<1>2. Recorded(facts) /\ Recorded(facts') /\ Agree(rollups, facts)
  BY <1>1, CountsAgree DEF CountInv, FactsOK, Recorded
<1>3. LinesAgree(rollups, facts)
  <2>1. AllSound(rollups, facts)
    BY DEF LatencyInv, LatenciesAreFacts, AllSound, Sound
  <2> QED
    BY <2>1, LatenciesAgree
<1>4. ASSUME UNCHANGED <<facts, rollups>> PROVE LinesAgree(rollups', facts')
  BY <1>3, <1>4
<1>5. ASSUME NEW t \in writing, Commit(t)
      PROVE  LinesAgree(rollups', facts')
  <2>1. /\ t.id \in Invocations /\ t.report \in Reports
        /\ t.previous = IF t.id \in DOMAIN facts THEN {facts[t.id]} ELSE {}
    BY <1>1 DEF CountInv, OneWriter
  <2>2. facts' = [j \in DOMAIN facts \cup {t.id} |->
                     IF j = t.id THEN t.report ELSE facts[j]]
    BY <1>5 DEF Commit, Stored
  <2>3. CASE t.id \notin DOMAIN facts
    <3>1. rollups' = Incremented(rollups, t.report)
      BY <1>5, <2>1, <2>3 DEF Commit
    <3> QED
      BY <3>1, <2>1, <2>2, <2>3, <1>2, <1>3, IncrementedLines
  <2>4. CASE t.id \in DOMAIN facts
    <3>1. UNION {ScopesOf(r) : r \in t.previous} = ScopesOf(facts[t.id])
      BY <2>1, <2>4
    <3>2. rollups' = RebuiltAll(rollups, facts',
                                ScopesOf(t.report) \cup ScopesOf(facts[t.id]))
      BY <3>1, <1>5, <2>1, <2>4 DEF Commit
    <3> QED
      BY <3>2, <2>2, <2>4, <1>2, <1>3, RebuiltAllLines
  <2> QED
    BY <2>3, <2>4
<1>6. ASSUME LinesAgree(rollups', facts') PROVE LatenciesAreFacts'
  <2>1. AllSound(rollups', facts')
    BY <1>6, LatenciesAgree
  <2> QED
    BY <2>1 DEF LatenciesAreFacts, AllSound, Sound
<1>7. \/ UNCHANGED <<facts, rollups>>
      \/ \E t \in writing : Commit(t)
  BY DEF StatsNext, statsVars, Begin, Rollback, Look, ReadScope, Return
<1>8. LinesAgree(rollups', facts')
  BY <1>4, <1>5, <1>7
<1> QED
  BY <1>1, <1>6, <1>8 DEF LatencyInv

(* The latency line of a rollup is the sum, the least and the greatest of  *)
(* the times its facts have, and the last is one of them, whether reports  *)
(* were added to it or its scope was rebuilt.                              *)
THEOREM LatenciesAreTheFacts == StatsSpec => []LatenciesAreFacts
<1>1. StatsInit => LatencyInv
  BY CountsInit DEF LatencyInv, LatenciesAreFacts, StatsInit
<1>2. LatencyInv /\ [StatsNext]_statsVars => LatencyInv'
  BY LatenciesStep
<1>3. LatencyInv => LatenciesAreFacts
  BY DEF LatencyInv
<1> QED
  BY <1>1, <1>2, <1>3, PTL DEF StatsSpec

-----------------------------------------------------------------------------
(* Snapshots.  A viewer has read no session that has more calls than the   *)
(* facts there are; and once it has read all time, it reads no session any *)
(* more.                                                                   *)
ViewShapes ==
    views = [v \in DOMAIN views |-> [left |-> views[v].left, seen |-> views[v].seen]]

CallsMade == Cardinality(DOMAIN facts)

ViewOK(w) ==
    IF AllTime \in w.left
    THEN \A s \in DOMAIN w.seen : s[1] = "session" =>
            DOMAIN facts # {} /\ w.seen[s] \in Nat /\ w.seen[s] <= CallsMade
    ELSE /\ \A s \in w.left : s[1] # "session"
         /\ \A s \in DOMAIN w.seen : s[1] = "session" =>
               AllTime \in DOMAIN w.seen /\ w.seen[s] <= w.seen[AllTime]

ViewInv ==
    /\ CountInv
    /\ ViewShapes
    /\ \A v \in DOMAIN views : ViewOK(views[v])

(* A scope has no more calls than there are facts, and all time has them   *)
(* all.                                                                    *)
LEMMA CallsOfScope ==
    ASSUME CountInv, NEW s \in DOMAIN rollups
    PROVE  /\ CallCount(rollups[s]) \in Nat
           /\ CallCount(rollups[s]) <= CallsMade
           /\ DOMAIN facts # {}
           /\ s = AllTime => CallCount(rollups[s]) = CallsMade
<1>1. Agree(rollups, facts) /\ Finite(facts)
  BY CountsAgree DEF CountInv, FactsOK, Finite
<1>2. PICK i \in DOMAIN facts : s \in ScopesOf(facts[i])
  BY <1>1 DEF Agree, ScopesIn
<1>3. \A j \in DOMAIN facts : Total \in DOMAIN facts[j].times
  BY StatsConstants DEF CountInv, FactsOK
<1>4. Total \in DOMAIN rollups[s].lines
  <2>1. i \in Members(facts, s)
    BY <1>2 DEF Members
  <2> QED
    BY <2>1, <1>1, <1>3 DEF Agree, CountsOf
<1>5. CallCount(rollups[s]) = Cardinality(Timed(facts, s, Total))
  BY <1>1, <1>4 DEF Agree, CountsOf, CallCount
<1>6. ASSUME s = AllTime PROVE Timed(facts, s, Total) = DOMAIN facts
  BY <1>3, <1>6 DEF Timed, Members, ScopesOf
<1> QED
  BY <1>1, <1>2, <1>5, <1>6, PartsFinite DEF CallsMade

LEMMA AllTimeHasRollup ==
    CountInv /\ DOMAIN facts # {} => AllTime \in DOMAIN rollups
<1> SUFFICES ASSUME CountInv, NEW i \in DOMAIN facts PROVE AllTime \in DOMAIN rollups
  OBVIOUS
<1>1. AllTime \in ScopesOf(facts[i])
  BY DEF ScopesOf
<1> QED
  BY <1>1 DEF CountInv, CountsAreFacts

LEMMA ReadKeepsViews ==
    ASSUME ViewInv, NEW v \in DOMAIN views, NEW s, ReadScope(v, s)
    PROVE  ViewShapes' /\ \A w \in DOMAIN views' : ViewOK(views'[w])
<1> DEFINE row == {s} \cap DOMAIN rollups
           old == views[v]
           new == [left |-> old.left \ {s},
                   seen |-> [z \in DOMAIN old.seen \cup row |->
                                IF z \in row THEN CallCount(rollups[z]) ELSE old.seen[z]]]
<1>1. views' = [views EXCEPT ![v] = new]
  BY DEF ReadScope
<1>2. views' = [w \in DOMAIN views |-> IF w = v THEN new ELSE views[w]]
  BY <1>1
<1>3. ViewShapes'
  <2>1. \A w \in DOMAIN views : views[w] = [left |-> views[w].left, seen |-> views[w].seen]
    BY DEF ViewInv, ViewShapes
  <2> QED
    BY <1>2, <2>1 DEF ViewShapes
<1>4. ViewOK(old) /\ CountInv /\ s \in old.left
  BY DEF ViewInv, ReadScope
<1>5. \A z \in old.left : ScopeRank[s[1]] <= ScopeRank[z[1]]
  BY DEF ReadScope
<1>6. /\ new.left = old.left \ {s}
      /\ DOMAIN new.seen = DOMAIN old.seen \cup row
      /\ \A z \in row : new.seen[z] = CallCount(rollups[z])
      /\ \A z \in DOMAIN old.seen : z \notin row => new.seen[z] = old.seen[z]
  OBVIOUS
<1>7. \A z \in row : z = s /\ z \in DOMAIN rollups
  OBVIOUS
<1>8. s \in DOMAIN rollups => s \in row
  OBVIOUS
<1> HIDE DEF old, new, row
<1>9. ViewOK(new)
  <2>1. CASE AllTime \in old.left /\ s # AllTime
    <3> SUFFICES ASSUME NEW z \in DOMAIN new.seen, z[1] = "session"
                 PROVE  DOMAIN facts # {} /\ new.seen[z] \in Nat /\ new.seen[z] <= CallsMade
      BY <1>6, <2>1 DEF ViewOK
    <3>1. CASE z \in row
      BY <3>1, <1>4, <1>6, <1>7, CallsOfScope
    <3>2. CASE z \notin row
      BY <3>2, <1>4, <2>1, <1>6 DEF ViewOK
    <3> QED
      BY <3>1, <3>2
  <2>2. CASE s = AllTime
    <3>1. AllTime \notin new.left
      BY <2>2, <1>6
    <3>2. \A z \in new.left : z[1] # "session"
      BY <2>2, <1>5, <1>6 DEF AllTime, ScopeRank
    <3>3. ASSUME NEW z \in DOMAIN new.seen, z[1] = "session"
          PROVE  AllTime \in DOMAIN new.seen /\ new.seen[z] <= new.seen[AllTime]
      <4>1. z \notin row /\ z \in DOMAIN old.seen
        BY <3>3, <2>2, <1>6, <1>7 DEF AllTime
      <4>2. DOMAIN facts # {} /\ new.seen[z] <= CallsMade
        BY <4>1, <3>3, <1>4, <1>6, <2>2 DEF ViewOK
      <4>3. AllTime \in row
        BY <4>2, <2>2, <1>4, <1>8, AllTimeHasRollup
      <4>4. new.seen[AllTime] = CallsMade /\ AllTime \in DOMAIN new.seen
        BY <4>3, <1>4, <1>6, <1>7, CallsOfScope
      <4> QED
        BY <4>2, <4>4
    <3> QED
      BY <3>1, <3>2, <3>3 DEF ViewOK
  <2>3. CASE AllTime \notin old.left
    <3>1. s[1] # "session"
      BY <2>3, <1>4 DEF ViewOK
    <3>2. \A z \in row : z # AllTime /\ z[1] # "session"
      BY <2>3, <3>1, <1>4, <1>7
    <3> QED
      BY <2>3, <3>1, <3>2, <1>4, <1>6 DEF ViewOK
  <2> QED
    BY <1>4, <2>1, <2>2, <2>3
<1> QED
  BY <1>2, <1>3, <1>4, <1>9 DEF ViewInv

LEMMA LookKeepsViews ==
    ASSUME ViewInv, NEW v, NEW r \in Reports, Look(v, r)
    PROVE  ViewShapes' /\ \A w \in DOMAIN views' : ViewOK(views'[w])
<1> DEFINE new == [left |-> ScopesOf(r), seen |-> << >>]
<1>1. views' = [w \in DOMAIN views \cup {v} |-> IF w = v THEN new ELSE views[w]]
  BY DEF Look
<1>2. \A w \in DOMAIN views : views[w] = [left |-> views[w].left, seen |-> views[w].seen]
  BY DEF ViewInv, ViewShapes
<1>3. new = [left |-> new.left, seen |-> new.seen]
  OBVIOUS
<1>4. AllTime \in new.left /\ DOMAIN new.seen = {}
  BY DEF ScopesOf
<1> HIDE DEF new
<1>5. ViewShapes'
  BY <1>1, <1>2, <1>3 DEF ViewShapes
<1>6. ViewOK(new)
  BY <1>4 DEF ViewOK
<1> QED
  BY <1>1, <1>5, <1>6 DEF ViewInv

(* Recording only adds facts, so what was read stays within them.          *)
LEMMA ViewStep == ViewInv /\ [StatsNext]_statsVars => ViewInv'
<1> SUFFICES ASSUME ViewInv, [StatsNext]_statsVars PROVE ViewInv'
  OBVIOUS
<1>1. CountInv' /\ DOMAIN facts \subseteq DOMAIN facts'
  BY CountsStep DEF ViewInv
<1>2. CallsMade \in Nat /\ CallsMade' \in Nat /\ CallsMade <= CallsMade'
  BY <1>1, FS_Subset, FS_CardinalityType DEF ViewInv, CountInv, FactsOK, CallsMade
<1>3. \A w : ViewOK(w) => ViewOK(w)'
  BY <1>1, <1>2 DEF ViewOK
<1>4. ASSUME ViewShapes', \A w \in DOMAIN views' : ViewOK(views'[w]) PROVE ViewInv'
  BY <1>1, <1>3, <1>4 DEF ViewInv
<1>5. CASE UNCHANGED views
  BY <1>4, <1>5 DEF ViewInv, ViewShapes
<1>6. ASSUME NEW v, NEW r \in Reports, Look(v, r) PROVE ViewInv'
  BY <1>4, <1>6, LookKeepsViews
<1>7. ASSUME NEW v \in DOMAIN views, NEW s, ReadScope(v, s) PROVE ViewInv'
  BY <1>4, <1>7, ReadKeepsViews
<1>8. ASSUME NEW v \in DOMAIN views, Return(v) PROVE ViewInv'
  <2>1. ViewShapes' /\ \A w \in DOMAIN views' : ViewOK(views'[w])
    BY <1>8 DEF Return, ViewInv, ViewShapes
  <2> QED
    BY <1>4, <2>1
<1>9. CASE Begin \/ \E t \in writing : Commit(t) \/ Rollback(t)
  BY <1>5, <1>9 DEF Begin, Commit, Rollback
<1> QED
  BY <1>5, <1>6, <1>7, <1>8, <1>9 DEF StatsNext, statsVars

(* A snapshot taken while others record never shows a session with more    *)
(* calls than all of them together.                                        *)
THEOREM SnapshotsAreNested == StatsSpec => []SnapshotNested
<1>1. StatsInit => ViewInv
  <2>1. StatsInit => DOMAIN views = {} /\ views = [v \in DOMAIN views |->
                        [left |-> views[v].left, seen |-> views[v].seen]]
    BY DEF StatsInit
  <2> QED
    BY <2>1, CountsInit DEF ViewInv, ViewShapes
<1>2. ViewInv => SnapshotNested
  BY DEF ViewInv, ViewOK, SnapshotNested
<1> QED
  BY <1>1, <1>2, ViewStep, PTL DEF StatsSpec
=============================================================================
