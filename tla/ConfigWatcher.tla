--------------------------- MODULE ConfigWatcher ----------------------------
(***************************************************************************)
(* The config watcher (runtime/hot_reload.py) and the loop of the          *)
(* watch-config command (cli_app/commands/runtime.py): each layer of the   *)
(* configuration is a file polled by a watcher of its own, a change is     *)
(* reported when it has stayed the same for the debounce time, and after   *)
(* a report all layers are loaded again.                                   *)
(*                                                                         *)
(* A file is the number of the edit that made it, or 0 while there is none;*)
(* an edit changes the modification time, so a number stands for the       *)
(* stat, and for the bytes, as well.                                       *)
(***************************************************************************)
EXTENDS Naturals

CONSTANTS Layers,       \* number of files, polled in order
          Debounce,     \* debounce time, in ticks of the clock
          MaxConfigEdits, \* bound on the edits
          Invalid       \* edits that make the configuration invalid

ASSUME WatcherConstants ==
    /\ Layers \in Nat \ {0}
    /\ Debounce \in Nat
    /\ MaxConfigEdits \in Nat

VARIABLES content,  \* layer -> the edit it has, 0 when there is no file
          edited,   \* number of edits made
          baseline, \* watcher -> _last_emitted
          pending,  \* watcher -> _pending: fingerprints and their age
          poll,     \* where the round is, and of the poll in progress the
                    \* stat, the time since it began, and for how long the
                    \* pending change had been seen when it began
          changed,  \* whether a watcher of this round reported a change
          loaded,   \* layer -> what the last reload read of it
          watching, \* FALSE once the command has ended
          still     \* history: layer -> time since its last edit

watcherVars == <<content, edited, baseline, pending, poll, changed, loaded,
                 watching, still>>

Files == 1 .. Layers
Older(n) == IF n < Debounce THEN n + 1 ELSE n

(* A fingerprint: the stat and the bytes, read one after the other.  When  *)
(* the file has vanished in between its bytes count as none.               *)
Gone == [stat |-> 0, read |-> 0]
Fingerprint(stat, f) ==
    IF stat = 0 THEN Gone ELSE [stat |-> stat, read |-> content[f]]

WatcherInit ==
    /\ content \in [Files -> {0}]
    /\ edited = 0
    /\ baseline = [f \in Files |-> Gone]
    /\ pending = [f \in Files |-> {}]
    /\ poll = [at |-> 1, stat |-> {}, since |-> 0, seen |-> 0]
    /\ changed = FALSE
    /\ loaded = [f \in Files |-> 0]
    /\ watching = TRUE
    /\ still = [f \in Files |-> Debounce]

-----------------------------------------------------------------------------
(* The user edits or deletes a file; the clock advances.                   *)
EditConfig(f) ==
    /\ edited < MaxConfigEdits
    /\ edited' = edited + 1
    /\ \E n \in {0, edited + 1} : n # content[f] /\ content' = [content EXCEPT ![f] = n]
    /\ still' = [still EXCEPT ![f] = 0]
    /\ UNCHANGED <<baseline, pending, poll, changed, loaded, watching>>

(* Ages are told apart up to the debounce time. *)
Tick ==
    /\ pending' = [f \in Files |->
                     {[p EXCEPT !.age = Older(@)] : p \in pending[f]}]
    /\ poll' = [poll EXCEPT !.since = IF poll.stat = {} THEN 0 ELSE Older(@)]
    /\ still' = [f \in Files |-> Older(still[f])]
    /\ UNCHANGED <<content, edited, baseline, changed, loaded, watching>>

-----------------------------------------------------------------------------
(* A poll takes the time and the stat, and later the bytes.                *)
PollStat ==
    /\ watching
    /\ poll.at \in Files
    /\ poll.stat = {}
    /\ \E seen \in IF pending[poll.at] = {} THEN {0} ELSE {p.age : p \in pending[poll.at]} :
          poll' = [poll EXCEPT !.stat = {content[poll.at]}, !.since = 0, !.seen = seen]
    /\ UNCHANGED <<content, edited, baseline, pending, changed, loaded, watching, still>>

Keep(f, ps) == pending' = [pending EXCEPT ![f] = ps] /\ UNCHANGED <<baseline, changed>>

Emit(f, now) ==
    /\ baseline' = [baseline EXCEPT ![f] = now]
    /\ pending' = [pending EXCEPT ![f] = {}]
    /\ changed' = TRUE

Sight(now) == [print |-> now, age |-> poll.since]

(* Mutant: any change goes on with the time of the first one. *)
AwaitedAny(f, now) == pending[f] # {}

Awaited(f, now) == \E p \in pending[f] : p.print = now

(* Mutant: a change seen again counts as seen now. *)
DecideRenewing(f, now) ==
    CASE now = baseline[f] -> Keep(f, {})
      [] now # baseline[f] /\ Debounce > 0 /\ (~Awaited(f, now) \/ poll.seen < Debounce) ->
            Keep(f, {Sight(now)})
      [] OTHER -> Emit(f, now)

Decide(f, now) ==
    CASE now = baseline[f] -> Keep(f, {})
      [] now # baseline[f] /\ ~Awaited(f, now) /\ Debounce > 0 -> Keep(f, {Sight(now)})
      [] now # baseline[f] /\ Awaited(f, now) /\ poll.seen < Debounce -> Keep(f, pending[f])
      [] OTHER -> Emit(f, now)

PollRead ==
    /\ \E stat \in poll.stat : Decide(poll.at, Fingerprint(stat, poll.at))
    /\ poll' = [at |-> poll.at + 1, stat |-> {}, since |-> 0, seen |-> 0]
    /\ UNCHANGED <<content, edited, loaded, watching, still>>

(* After a round with a change all layers are read again, one at a time.   *)
LoadLayer ==
    /\ watching
    /\ changed
    /\ poll.at \in Layers + 1 .. 2 * Layers
    /\ loaded' = [loaded EXCEPT ![poll.at - Layers] = content[poll.at - Layers]]
    /\ poll' = [poll EXCEPT !.at = @ + 1]
    /\ UNCHANGED <<content, edited, baseline, pending, changed, watching, still>>

(* The next round, unless what was loaded is invalid, which ends the       *)
(* command (without --fail-on-invalid, no edit counts as invalid here).    *)
EndRound ==
    /\ watching
    /\ poll.at = IF changed THEN 2 * Layers + 1 ELSE Layers + 1
    /\ watching' = (changed => \A f \in Files : loaded[f] \notin Invalid)
    /\ poll' = [poll EXCEPT !.at = 1]
    /\ changed' = FALSE
    /\ UNCHANGED <<content, edited, baseline, pending, loaded, still>>

Loop == PollStat \/ PollRead \/ LoadLayer \/ EndRound

WatcherNext == Loop \/ Tick \/ \E f \in Files : EditConfig(f)

(* The loop polls at an interval for ever (without --max-polls), and time  *)
(* passes.                                                                 *)
WatcherFair == WF_watcherVars(Loop) /\ WF_watcherVars(Tick)

WatcherSpec == WatcherInit /\ [][WatcherNext]_watcherVars /\ WatcherFair

-----------------------------------------------------------------------------
(* When the user stops, what was loaded last is what all the layers hold:  *)
(* no edit is missed that falls between the stat and the bytes of a poll,  *)
(* in the debounce time, or in the middle of a reload.                     *)
WatcherSettles == <>[](watching => loaded = content)

(* A change is reported only of a file that has been still for the         *)
(* debounce time, however often it was edited before.  (A file that is     *)
(* gone looks the same each time, so it may have been there in between.)   *)
EmitsAreDebounced ==
    [][\A f \in Files :
          baseline'[f] # baseline[f] /\ baseline'[f] # Gone => still[f] = Debounce]_watcherVars
=============================================================================
