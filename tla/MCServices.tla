----------------------------- MODULE MCServices -----------------------------
(***************************************************************************)
(* Small instances of the parts of the runtime that share no state with    *)
(* each other, in one specification for TLC: the first state chooses which *)
(* part runs, and the others stand still.                                  *)
(***************************************************************************)
EXTENDS RuntimeStats, ParallelSignals, ConfigWatcher, SettingsStore,
        PlanReplayStore, RuntimeDb, LocalCache, EmbeddingIndex, MCHotTier, TLC

VARIABLE part

Parts == {"stats", "signals", "watcher", "settings", "replay", "db", "memory",
          "embeddings", "tier"}

Rest(p) == part # p

ServicesVars == <<statsVars, signalsVars, watcherVars, settingsVars, replayVars,
                  dbVars, localVars, embeddingVars, tierVars, part>>

-----------------------------------------------------------------------------
(* Reports that share a session, a profile or a stage, or do not.          *)
CONSTANTS sA, sB, rA, rB, pA, ok, bad

Report(s, r, p, ms, ts, at_) ==
    [session |-> s, repo |-> r, profile |-> p, marks |-> ms, times |-> ts,
     finished |-> at_]

SomeReports ==
    {Report(sA, rA, {pA}, {ok}, (Total :> 2) @@ ("index" :> 1), 1),
     Report(sB, rA, {}, {bad}, (Total :> 1), 2),
     Report(sA, rB, {pA}, {ok, bad}, (Total :> 3) @@ ("index" :> 2), 0)}

(* Calls with both signals or one, with and without a budget, and one that *)
(* does without the executor.                                              *)
SomeRequests ==
    {[wants |-> w, parallel |-> TRUE, budget |-> TRUE] : w \in {Kinds, {"worktree"}}}
      \cup {[wants |-> Kinds, parallel |-> b, budget |-> FALSE] : b \in BOOLEAN}

(* An older release of the database schema beside two newer ones.          *)
CONSTANTS old, new1, new2

LatestOf == (old :> 1) @@ (new1 :> 3) @@ (new2 :> 3)

(* Texts that change with and without the chunk contract, and a contract   *)
(* that changes without the text.                                          *)
TextTable == (1 :> "t") @@ (2 :> "u") @@ (3 :> "u")
SeesTable == (1 :> "c") @@ (2 :> "c") @@ (3 :> "d")

-----------------------------------------------------------------------------
ServicesInit ==
    /\ part \in Parts
    /\ StatsInit
    /\ SignalsInit
    /\ WatcherInit
    /\ SettingsInit
    /\ ReplayInit
    /\ DbInit
    /\ LocalInit
    /\ EmbeddingInit
    /\ TierInit
    /\ Rest("signals") =>
          hangs = {} /\ \A c \in Calls : plan[c].wants = {"worktree"}
    /\ Rest("db") => schema.version = 0
    /\ Rest("memory") =>
          rowsIn[live] = {} /\ \A h \in Handles : revised[h] = << >>
    /\ \A f \in Sources : listing[f] = 1

ServicesNext ==
    /\ \/ part = "stats" /\ StatsNext
       \/ Rest("stats") /\ UNCHANGED statsVars
    /\ \/ part = "signals" /\ SignalsNext
       \/ Rest("signals") /\ UNCHANGED signalsVars
    /\ \/ part = "watcher" /\ WatcherNext
       \/ Rest("watcher") /\ UNCHANGED watcherVars
    /\ \/ part = "settings" /\ SettingsNext
       \/ Rest("settings") /\ UNCHANGED settingsVars
    /\ \/ part = "replay" /\ ReplayNext
       \/ Rest("replay") /\ UNCHANGED replayVars
    /\ \/ part = "db" /\ DbNext
       \/ Rest("db") /\ UNCHANGED dbVars
    /\ \/ part = "memory" /\ LocalNext
       \/ Rest("memory") /\ UNCHANGED localVars
    /\ \/ part = "embeddings" /\ EmbeddingNext
       \/ Rest("embeddings") /\ UNCHANGED embeddingVars
    /\ \/ part = "tier" /\ TierNext
       \/ Rest("tier") /\ UNCHANGED tierVars
    /\ UNCHANGED part

(* The fairness of SignalsSpec and of WatcherSpec, each while its part runs.*)
SignalsFairHere ==
    LET Here(A) == part = "signals" /\ A
    IN  /\ \A c \in Calls : /\ WF_signalsVars(Here(Step(c)))
                            /\ WF_signalsVars(Here(Deadline(c)))
        /\ WF_signalsVars(Here(Take))
        /\ \A t \in Tasks : WF_signalsVars(Here(Finish(t)))

WatcherFairHere ==
    LET Here(A) == part = "watcher" /\ A
    IN  WF_watcherVars(Here(Loop)) /\ WF_watcherVars(Here(Tick))

Services ==
    /\ ServicesInit
    /\ [][ServicesNext]_ServicesVars
    /\ SignalsFairHere
    /\ WatcherFairHere
=============================================================================
