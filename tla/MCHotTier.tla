------------------------------ MODULE MCHotTier ------------------------------
(***************************************************************************)
(* One hot tier under every sequence of lookups and puts of a few keys and *)
(* weights, with the order in which callers used the keys as history.      *)
(***************************************************************************)
EXTENDS HotTier, FiniteSets

CONSTANTS Weights, Content

ASSUME TierAssumption ==
    /\ Weights \subseteq Nat
    /\ None \notin [content : {Content}, weight : 1 .. HotMaxTokens]

VARIABLES tier,
          used   \* history: keys in the order of their last accepted use

tierVars == <<tier, used>>

TierInit == tier = EmptyTier /\ used = << >>

Used(k) == Append(RemoveFirst(used, k), k)

HotGet(k) ==
    /\ tier' = HotTouch(tier, k)
    /\ used' = IF HotLookup(tier, k) = None THEN used ELSE Used(k)

HotStore(k, w) ==
    /\ tier' = HotPut(tier, k, Content, w)
    /\ used' = IF w > HotMaxTokens THEN RemoveFirst(used, k) ELSE Used(k)

TierNext ==
    \E k \in Keys : HotGet(k) \/ \E w \in Weights : HotStore(k, w)

TierSpec == TierInit /\ [][TierNext]_tierVars

(* What a tier holds, by its dictionary. *)
HeldKeys == {k \in Keys : tier.held[k] # None}

(* The running _token_total is the weight of what is held, through every   *)
(* pop, overwrite, refusal and eviction, and neither limit is exceeded     *)
(* when the lock is released.                                              *)
HotAccounting ==
    /\ tier.total = SumFunction([k \in HeldKeys |-> tier.held[k].weight])
    /\ tier.total <= HotMaxTokens
    /\ Cardinality(HeldKeys) <= HotMaxEntries

(* Eviction takes the least recently used keys: what is held is the recent *)
(* end of the order of use, with nothing missing from the middle.          *)
HotKeepsRecent == IsSuffix(tier.order, used)
==============================================================================
