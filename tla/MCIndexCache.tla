---------------------------- MODULE MCIndexCache ----------------------------
(***************************************************************************)
(* Small instances of the index cache for TLC: a file that b imports, and  *)
(* b, which every other version of .aceignore hides.                       *)
(***************************************************************************)
EXTENDS IndexCache, TLC

CONSTANTS a, b

(* Both files are committed, .aceignore does not exist. *)
StartPlain == (a :> 0) @@ (b :> 0) @@ (Ignore :> None)

(* Only b exists. *)
StartWithoutA == (a :> None) @@ (b :> 0) @@ (Ignore :> None)

HiddenByOdd ==
    [t \in Contents |-> IF t # None /\ t \in {1, 3, 5} THEN {b} ELSE {}]

ImportedByB == (a :> {b}) @@ (b :> {})

(* One file, that nothing hides and nothing imports. *)
StartAlone == (a :> 0) @@ (Ignore :> None)
HiddenByNone == [t \in Contents |-> {}]
ImportedByNone == [f \in Files |-> {}]

Symmetry == Permutations(Callers)
=============================================================================
