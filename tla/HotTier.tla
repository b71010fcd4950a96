------------------------------- MODULE HotTier -------------------------------
(***************************************************************************)
(* The in-memory tier in front of the stage artifact cache:                *)
(* _StageArtifactHotTier of stage_artifact_cache.py.  A tier is an ordered *)
(* dictionary (oldest first) and a running token total that the code keeps *)
(* beside it, bounded by a number of entries and a number of tokens.  Each *)
(* operation runs under the tier's lock, so it is one operator here.       *)
(***************************************************************************)
EXTENDS Integers, Sequences, SequencesExt

CONSTANTS Keys,           \* (stage_name, cache_key) pairs
          None,           \* the absent entry
          HotMaxEntries,  \* _max_entries
          HotMaxTokens    \* _max_tokens

ASSUME HotAssumption ==
    /\ HotMaxEntries \in Nat
    /\ HotMaxTokens \in Nat

(* A tier: the keys oldest first, what each key holds, the token total. *)
EmptyTier == [order |-> << >>, held |-> [k \in Keys |-> None], total |-> 0]

(* max(0, a - b), the clamp of every subtraction from _token_total. *)
Monus(a, b) == IF a >= b THEN a - b ELSE 0

(* The payload a lookup returns, None when the key is not held. *)
HotLookup(h, k) == h.held[k]

(* Mutant: a lookup leaves the order alone. *)
HotTouchStill(h, k) == h

(* A lookup moves the key it finds to the recent end. *)
HotTouch(h, k) ==
    IF h.held[k] = None
    THEN h
    ELSE [order |-> Append(RemoveFirst(h.order, k), k),
          held  |-> h.held,
          total |-> h.total]

(* Mutant: an overwritten entry keeps its weight in the total. *)
HotPopKeepsTotal(h, k) ==
    IF h.held[k] = None
    THEN h
    ELSE [h EXCEPT !.order = RemoveFirst(@, k), !.held[k] = None]

(* put first pops what the key held and gives its weight back. *)
HotPop(h, k) ==
    IF h.held[k] = None
    THEN h
    ELSE [order |-> RemoveFirst(h.order, k),
          held  |-> [h.held EXCEPT ![k] = None],
          total |-> Monus(h.total, h.held[k].weight)]

(* The n oldest keys of a tier, and what a set of held keys weighs.        *)
Oldest(h, n) == {h.order[i] : i \in 1..n}
Weighs(h, S) == SumFunction([k \in S |-> h.held[k].weight])

(* The tier after popitem(last=False) has run n times. *)
HotDropped(h, n) ==
    [order |-> SubSeq(h.order, n + 1, Len(h.order)),
     held  |-> [k \in Keys |-> IF k \in Oldest(h, n) THEN None ELSE h.held[k]],
     total |-> Monus(h.total, Weighs(h, Oldest(h, n)))]

HotFits(h) == Len(h.order) <= HotMaxEntries /\ h.total <= HotMaxTokens

(* _evict_locked: the loop tests both limits before each entry it drops,   *)
(* so it stops at the first tier that fits.                                *)
HotEvict(h) ==
    HotDropped(h, CHOOSE n \in 0..Len(h.order) :
                      /\ n = Len(h.order) \/ HotFits(HotDropped(h, n))
                      /\ \A m \in 0..(n - 1) : ~HotFits(HotDropped(h, m)))

HotInsert(h, k, c, w) ==
    [order |-> Append(h.order, k),
     held  |-> [h.held EXCEPT ![k] = [content |-> c, weight |-> w]],
     total |-> h.total + w]

(* put: pop, refuse what can never fit, append, evict. *)
HotPut(h, k, c, w) ==
    LET popped == HotPop(h, k)
        weight == IF w < 1 THEN 1 ELSE w
    IN  IF HotMaxEntries = 0 \/ HotMaxTokens = 0 \/ weight > HotMaxTokens
        THEN popped
        ELSE HotEvict(HotInsert(popped, k, c, weight))
==============================================================================
