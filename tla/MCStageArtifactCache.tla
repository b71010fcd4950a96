------------------------ MODULE MCStageArtifactCache ------------------------
(***************************************************************************)
(* Small instances of the stage artifact cache for TLC.  Two threads, each *)
(* in a process of its own, as a CLI run beside an MCP server; a process   *)
(* is named by its thread.                                                 *)
(***************************************************************************)
EXTENDS StageArtifactCache

CONSTANTS k1, c1, c2, t1, t2, w1

TwoProcs == (t1 :> t1) @@ (t2 :> t2)

(* A single thread. *)
Alone == t1 :> t1

(* Every caller passes its stage name as write_token, so the writers of a  *)
(* key share one temp path; with tokens of their own, the token is named   *)
(* by the thread.                                                          *)
SharedToken == (t1 :> w1) @@ (t2 :> w1)
AloneToken == t1 :> w1
OwnTokens == (t1 :> t1) @@ (t2 :> t2)

SameWeight == [c \in Contents |-> 1]

(* Contents of equal weight, and threads of different processes with equal *)
(* or with own tokens, are interchangeable.                                *)
Symmetry == Permutations({c1, c2}) \cup Permutations({t1, t2})
==============================================================================
