----------------------------- MODULE LossyCache -----------------------------
(***************************************************************************)
(* What the stage artifact cache promises its callers                      *)
(* (stage_artifact_cache.py, put_artifact and get_artifact).  A payload    *)
(* handed to the cache under a key may be lost at any time, so a lookup    *)
(* may always miss; but a lookup that answers, answers with a payload that *)
(* was handed over under that key.                                         *)
(***************************************************************************)
CONSTANTS Keys, Contents, Threads, None

VARIABLES given,   \* key -> payloads handed to the cache
          answer   \* thread -> the answer it is being given, or None

vars == <<given, answer>>

Init ==
    /\ given = [k \in Keys |-> {}]
    /\ answer = [t \in Threads |-> None]

Store(k, c) ==
    /\ given' = [given EXCEPT ![k] = @ \cup {c}]
    /\ UNCHANGED answer

Answer(t, k) ==
    /\ answer[t] = None
    /\ \E c \in given[k] :
          answer' = [answer EXCEPT ![t] = [key |-> k, content |-> c]]
    /\ UNCHANGED given

(* Threads take their answers, or are killed together. *)
Forget(S) ==
    /\ answer' = [t \in Threads |-> IF t \in S THEN None ELSE answer[t]]
    /\ UNCHANGED given

Next ==
    \/ \E k \in Keys, c \in Contents : Store(k, c)
    \/ \E t \in Threads, k \in Keys : Answer(t, k)
    \/ \E S \in SUBSET Threads : Forget(S)

Spec == Init /\ [][Next]_vars
==============================================================================
