---------------------------- MODULE RuntimeStats ----------------------------
(***************************************************************************)
(* The durable runtime statistics (runtime_stats_store.py): one fact per   *)
(* invocation, and rollups of the facts by scope.  A new invocation is     *)
(* added to the rollups of its scopes; a known one replaces its fact, and  *)
(* the scopes it was in and the scopes it is in now are rebuilt from the   *)
(* facts.  Processes share the database: a recorder writes in one          *)
(* BEGIN IMMEDIATE transaction, a snapshot reads one scope after another.  *)
(***************************************************************************)
EXTENDS Naturals, FiniteSets, FiniteSetsExt

CONSTANTS Invocations, \* invocation ids, numbered in the order of their text
          Marks,       \* what is counted of a report: its status, a contract
                       \* error, a replay, an export, each reason code
          Reports,     \* what an invocation is recorded with
          Viewers,     \* processes that read snapshots
          MaxRecords   \* bound on the calls of record_invocation

(* The latency of the invocation itself, beside those of its stages. *)
Total == "total"

ASSUME StatsConstants ==
    /\ Invocations \subseteq Nat
    /\ MaxRecords \in Nat
    /\ \A r \in Reports :
          /\ {"session", "repo", "profile", "marks", "times", "finished"}
                \subseteq DOMAIN r
          /\ r.marks \subseteq Marks
          /\ Total \in DOMAIN r.times
          /\ \A l \in DOMAIN r.times : r.times[l] \in Nat
          /\ r.finished \in Nat

VARIABLES facts,     \* invocation -> the report it has, of those recorded
          rollups,   \* scope -> its rollup, of those that have one
          writing,   \* open write transactions, with the fact they found
          views,     \* viewer -> its snapshot so far, of those reading one
          recorded   \* number of calls of record_invocation

statsVars == <<facts, rollups, writing, views, recorded>>

StatsInit ==
    /\ facts = << >>
    /\ rollups = << >>
    /\ writing = {}
    /\ views = << >>
    /\ recorded = 0

-----------------------------------------------------------------------------
(* Scopes.  An invocation has at most one profile.                         *)
AllTime == <<"all_time", "all">>
SessionOf(r) == <<"session", r.session>>

ScopesOf(r) ==
    {SessionOf(r), AllTime, <<"repo", r.repo>>}
      \cup {<<"profile", p>> : p \in r.profile}
      \cup {<<"repo_profile", r.repo, p>> : p \in r.profile}

(* The order in which the scopes are listed and read.  (AllTimeFirst is a  *)
(* mutant: a mutant is defined before the definition it replaces.)         *)
AllTimeFirst == [session |-> 2, all_time |-> 1, repo |-> 3, profile |-> 4,
                 repo_profile |-> 5]

ScopeRank == [session |-> 1, all_time |-> 2, repo |-> 3, profile |-> 4,
              repo_profile |-> 5]

(* What the query of a scope selects, and what of it has a mark or a line. *)
Members(fs, s) == {i \in DOMAIN fs : s \in ScopesOf(fs[i])}
Marked(fs, s, m) == {i \in Members(fs, s) : m \in fs[i].marks}
Timed(fs, s, l) == {i \in Members(fs, s) : l \in DOMAIN fs[i].times}

-----------------------------------------------------------------------------
(* Rollups: a count for each mark and a summary for each latency line.     *)
NoRollup == [marks |-> [m \in Marks |-> 0], lines |-> << >>]

First(t) == [count |-> 1, sum |-> t, min |-> t, max |-> t, last |-> t]

Extended(sum, t) ==
    [count |-> sum.count + 1,
     sum   |-> sum.sum + t,
     min   |-> IF sum.count = 0 \/ t < sum.min THEN t ELSE sum.min,
     max   |-> IF t > sum.max THEN t ELSE sum.max,
     last  |-> t]

(* One more report in a rollup. *)
Counted(u, r) ==
    [marks |-> [m \in Marks |-> u.marks[m] + IF m \in r.marks THEN 1 ELSE 0],
     lines |-> [l \in DOMAIN u.lines \cup DOMAIN r.times |->
                  IF l \notin DOMAIN r.times THEN u.lines[l]
                  ELSE IF l \in DOMAIN u.lines
                       THEN Extended(u.lines[l], r.times[l])
                       ELSE First(r.times[l])]]

Incremented(us, r) ==
    [s \in DOMAIN us \cup ScopesOf(r) |->
        IF s \notin ScopesOf(r) THEN us[s]
        ELSE Counted(IF s \in DOMAIN us THEN us[s] ELSE NoRollup, r)]

(* The member whose invocation finished last, the greater id of two. *)
Newest(fs, is) ==
    CHOOSE i \in is : \A j \in is :
        \/ fs[j].finished < fs[i].finished
        \/ fs[j].finished = fs[i].finished /\ j <= i

Summary(fs, is, l) ==
    LET all == {fs[i].times[l] : i \in is}
    IN  [count |-> Cardinality(is),
         sum   |-> SumFunction([i \in is |-> fs[i].times[l]]),
         min   |-> Min(all),
         max   |-> Max(all),
         last  |-> fs[Newest(fs, is)].times[l]]

(* _rebuild_scope, of a scope that has members. *)
Rebuilt(fs, s) ==
    [marks |-> [m \in Marks |-> Cardinality(Marked(fs, s, m))],
     lines |-> [l \in UNION {DOMAIN fs[i].times : i \in Members(fs, s)} |->
                  Summary(fs, Timed(fs, s, l), l)]]

RebuiltAll(us, fs, scopes) ==
    [s \in {s \in DOMAIN us \cup scopes : s \in scopes => Members(fs, s) # {}} |->
        IF s \in scopes THEN Rebuilt(fs, s) ELSE us[s]]

-----------------------------------------------------------------------------
(* record_invocation.  BEGIN IMMEDIATE waits for every other writer; the   *)
(* fact found under it decides between adding and rebuilding.              *)
BeginUnlocked ==  \* mutant: the fact is read before the lock is taken
    /\ recorded < MaxRecords
    /\ recorded' = recorded + 1
    /\ \E i \in Invocations, r \in Reports :
          writing' = writing \cup
             {[id |-> i, report |-> r,
               previous |-> IF i \in DOMAIN facts THEN {facts[i]} ELSE {}]}
    /\ UNCHANGED <<facts, rollups, views>>

Begin ==
    /\ writing = {}
    /\ recorded < MaxRecords
    /\ recorded' = recorded + 1
    /\ \E i \in Invocations, r \in Reports :
          writing' = writing \cup
             {[id |-> i, report |-> r,
               previous |-> IF i \in DOMAIN facts THEN {facts[i]} ELSE {}]}
    /\ UNCHANGED <<facts, rollups, views>>

Stored(t) ==
    [i \in DOMAIN facts \cup {t.id} |-> IF i = t.id THEN t.report ELSE facts[i]]

CommitMoved(t) ==  \* mutant: only scopes entered or left are rebuilt
    /\ writing' = writing \ {t}
    /\ facts' = Stored(t)
    /\ rollups' =
          IF t.previous = {} THEN Incremented(rollups, t.report)
          ELSE RebuiltAll(rollups, facts',
                          SymDiff(ScopesOf(t.report),
                                  UNION {ScopesOf(r) : r \in t.previous}))
    /\ UNCHANGED <<views, recorded>>

Commit(t) ==
    /\ writing' = writing \ {t}
    /\ facts' = Stored(t)
    /\ rollups' =
          IF t.previous = {} THEN Incremented(rollups, t.report)
          ELSE RebuiltAll(rollups, facts',
                          ScopesOf(t.report) \cup
                             UNION {ScopesOf(r) : r \in t.previous})
    /\ UNCHANGED <<views, recorded>>

(* An error rolls the transaction back, and so does the end of a process.  *)
Rollback(t) ==
    /\ writing' = writing \ {t}
    /\ UNCHANGED <<facts, rollups, views, recorded>>

-----------------------------------------------------------------------------
(* read_snapshot: each scope is a query of its own, with no transaction    *)
(* around them.  Of a row only its invocation_count is kept here.          *)
CallCount(u) == u.lines[Total].count

Look(v, r) ==
    /\ v \notin DOMAIN views
    /\ views' = [w \in DOMAIN views \cup {v} |->
                    IF w = v THEN [left |-> ScopesOf(r), seen |-> << >>]
                    ELSE views[w]]
    /\ UNCHANGED <<facts, rollups, writing, recorded>>

ReadScope(v, s) ==
    /\ s \in views[v].left
    /\ \A z \in views[v].left : ScopeRank[s[1]] <= ScopeRank[z[1]]
    /\ LET row == {s} \cap DOMAIN rollups
           was == views[v]
       IN  views' = [views EXCEPT ![v] =
              [left |-> was.left \ {s},
               seen |-> [z \in DOMAIN was.seen \cup row |->
                            IF z \in row THEN CallCount(rollups[z]) ELSE was.seen[z]]]]
    /\ UNCHANGED <<facts, rollups, writing, recorded>>

Return(v) ==
    /\ views[v].left = {}
    /\ views' = [w \in DOMAIN views \ {v} |-> views[w]]
    /\ UNCHANGED <<facts, rollups, writing, recorded>>

StatsNext ==
    \/ Begin
    \/ \E t \in writing : Commit(t) \/ Rollback(t)
    \/ \E v \in Viewers, r \in Reports : Look(v, r)
    \/ \E v \in DOMAIN views :
          Return(v) \/ \E s \in views[v].left : ReadScope(v, s)

StatsSpec == StatsInit /\ [][StatsNext]_statsVars

-----------------------------------------------------------------------------
(* There is a rollup for exactly the scopes some fact is in, and its       *)
(* counters count those facts, whether it was added to or rebuilt, and     *)
(* whatever scopes an invocation has moved between.                        *)
CountsAreFacts ==
    /\ DOMAIN rollups = UNION {ScopesOf(facts[i]) : i \in DOMAIN facts}
    /\ \A s \in DOMAIN rollups :
          /\ \A m \in Marks : rollups[s].marks[m] = Cardinality(Marked(facts, s, m))
          /\ DOMAIN rollups[s].lines =
                UNION {DOMAIN facts[i].times : i \in Members(facts, s)}
          /\ \A l \in DOMAIN rollups[s].lines :
                rollups[s].lines[l].count = Cardinality(Timed(facts, s, l))

(* Sum, minimum and maximum of a line are those of the facts, and the last *)
(* latency is one of them: none is left of a report that was replaced.     *)
LatenciesAreFacts ==
    \A s \in DOMAIN rollups : \A l \in DOMAIN rollups[s].lines :
        LET line == rollups[s].lines[l]
            is   == Timed(facts, s, l)
            all  == {facts[i].times[l] : i \in is}
        IN  /\ line.sum = SumFunction([i \in is |-> facts[i].times[l]])
            /\ {line.min, line.max, line.last} \subseteq all
            /\ \A t \in all : line.min <= t /\ t <= line.max

(* A snapshot reads its scopes one at a time while invocations are         *)
(* recorded, and still never shows a session with more calls than all of   *)
(* them together: the session is read first, and facts are never removed.  *)
SnapshotNested ==
    \A v \in DOMAIN views :
        LET seen == views[v].seen
        IN  AllTime \notin views[v].left =>
               \A s \in DOMAIN seen :
                  s[1] = "session" =>
                     AllTime \in DOMAIN seen /\ seen[s] <= seen[AllTime]
=============================================================================
