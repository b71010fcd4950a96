----------------------------- MODULE SumsProofs -----------------------------
(***************************************************************************)
(* Sums of finite functions to the naturals, of which SumFunction says how *)
(* they are computed: element by element, in an order it leaves open.      *)
(***************************************************************************)
EXTENDS Functions, FiniteSetTheorems, WellFoundedInduction, TLAPS

(* it is what the recursion in MapThenFoldSet defines: the sums of f over  *)
(* all subsets of S.                                                       *)
Adds(it, f, S) ==
    it = [s \in SUBSET S |->
             IF s = {} THEN 0
             ELSE LET x == CHOOSE x \in s : TRUE IN f[x] + it[s \ {x}]]

LEMMA SumIs ==
    ASSUME NEW f
    PROVE  SumFunction(f) = (CHOOSE it : Adds(it, f, DOMAIN f))[DOMAIN f]
BY Zenon DEF SumFunction, SumFunctionOnSet, FoldFunctionOnSet, MapThenFoldSet, Adds

(* A set of subsets of a finite set has a minimal one.                     *)
LEMMA MinimalSet ==
    ASSUME NEW S, IsFiniteSet(S), NEW C, C \subseteq SUBSET S, C # {}
    PROVE  \E m \in C : \A U \in C : U \subseteq m => U = m
<1> DEFINE F == FiniteSubsetsOf(S)
<1>1. C \subseteq F
  BY FS_Subset DEF FiniteSubsetsOf
<1>2. \E m \in C : \A U \in C : <<U, m>> \notin StrictSubsetOrdering(S)
  <2>1. IsWellFoundedOn(StrictSubsetOrdering(S), F)
    BY FS_StrictSubsetOrderingWellFounded
  <2> HIDE DEF F
  <2> QED
    BY <1>1, <2>1, WFMin
<1>3. \A U, m \in SUBSET S : U \subseteq m /\ U # m =>
         <<U, m>> \in StrictSubsetOrdering(S)
  BY DEF StrictSubsetOrdering
<1> QED
  BY <1>2, <1>3

LEMMA AddsAt ==
    ASSUME NEW it, NEW f, NEW S, Adds(it, f, S)
    PROVE  /\ it[{}] = 0
           /\ \A U \in SUBSET S : U # {} =>
                 \E x \in U : x = (CHOOSE y \in U : TRUE) /\ it[U] = f[x] + it[U \ {x}]
<1> DEFINE body(s) == IF s = {} THEN 0
                      ELSE LET x == CHOOSE x \in s : TRUE IN f[x] + it[s \ {x}]
<1>1. it = [s \in SUBSET S |-> body(s)]
  BY DEF Adds
<1>2. \A U \in SUBSET S : it[U] = body(U)
  <2> HIDE DEF body
  <2> QED
    BY <1>1
<1>3. it[{}] = 0
  BY <1>2
<1>4. ASSUME NEW U \in SUBSET S, U # {}
      PROVE  \E x \in U : x = (CHOOSE y \in U : TRUE) /\ it[U] = f[x] + it[U \ {x}]
  BY <1>2, <1>4
<1> QED
  BY <1>3, <1>4

(* What is summed does not depend on the rest of the functions.            *)
LEMMA AddsSame ==
    ASSUME NEW it, NEW f, NEW S, Adds(it, f, S),
           NEW jt, NEW g, NEW T, Adds(jt, g, T),
           NEW A, IsFiniteSet(A), A \subseteq S, A \subseteq T,
           \A x \in A : f[x] = g[x]
    PROVE  it[A] = jt[A]
<1> DEFINE C == {U \in SUBSET A : it[U] # jt[U]}
<1>1. SUFFICES ASSUME C # {} PROVE FALSE
  OBVIOUS
<1>2. PICK m \in C : \A U \in C : U \subseteq m => U = m
  <2> HIDE DEF C
  <2>1. C \subseteq SUBSET A
    BY DEF C
  <2> QED
    BY <1>1, <2>1, MinimalSet
<1>3. m # {}
  BY <1>2, AddsAt
<1>4. PICK x \in m : x = (CHOOSE y \in m : TRUE) /\ it[m] = f[x] + it[m \ {x}]
  BY <1>3, AddsAt
<1>5. jt[m] = g[x] + jt[m \ {x}]
  <2>1. PICK z \in m : z = (CHOOSE y \in m : TRUE) /\ jt[m] = g[z] + jt[m \ {z}]
    BY <1>3, AddsAt
  <2> QED
    BY <1>4, <2>1
<1>6. it[m \ {x}] = jt[m \ {x}]
  BY <1>2
<1> QED
  BY <1>2, <1>4, <1>5, <1>6

LEMMA AddsExists ==
    ASSUME NEW f, NEW S, IsFiniteSet(S)
    PROVE  \E it : Adds(it, f, S)
<1> DEFINE C == {T \in SUBSET S : ~ \E it : Adds(it, f, T)}
<1>1. SUFFICES ASSUME C # {} PROVE FALSE
  <2>1. S \in SUBSET S
    OBVIOUS
  <2> QED
    BY <2>1
<1>2. PICK T \in C : \A U \in C : U \subseteq T => U = T
  <2> HIDE DEF C
  <2>1. C \subseteq SUBSET S
    BY DEF C
  <2> QED
    BY <1>1, <2>1, MinimalSet
<1>3. T \in SUBSET S /\ ~ \E it : Adds(it, f, T)
  OBVIOUS
<1>4. \A U \in SUBSET T : U # T => \E it : Adds(it, f, U)
  BY <1>2
<1> DEFINE part(U) == CHOOSE it : Adds(it, f, U)
           value(U) == part(U)[U]
           it == [s \in SUBSET T |->
                     IF s = {} THEN 0
                     ELSE LET x == CHOOSE x \in s : TRUE IN f[x] + value(s \ {x})]
<1>5. \A U \in SUBSET T : U # T => Adds(part(U), f, U)
  BY <1>4
<1> HIDE DEF part, C
<1>6. ASSUME NEW U \in SUBSET T, U # T PROVE it[U] = value(U)
  <2>1. Adds(part(U), f, U)
    BY <1>5, <1>6
  <2>2. CASE U = {}
    BY <2>1, <2>2, AddsAt
  <2>3. CASE U # {}
    <3>1. PICK x \in U : /\ x = (CHOOSE y \in U : TRUE)
                         /\ part(U)[U] = f[x] + part(U)[U \ {x}]
      BY <2>1, <2>3, AddsAt
    <3>2. Adds(part(U \ {x}), f, U \ {x})
      <4>1. U \ {x} \in SUBSET T /\ U \ {x} # T
        BY <1>6
      <4> QED
        BY <1>5, <4>1
    <3>3. IsFiniteSet(U \ {x})
      BY <1>3, FS_Subset
    <3>4. part(U)[U \ {x}] = part(U \ {x})[U \ {x}]
      BY <2>1, <3>2, <3>3, AddsSame
    <3>5. it[U] = f[x] + value(U \ {x})
      BY <2>3, <3>1
    <3> QED
      BY <3>1, <3>4, <3>5
  <2> QED
    BY <2>2, <2>3
<1>7. it = [s \in SUBSET T |->
              IF s = {} THEN 0
              ELSE LET x == CHOOSE x \in s : TRUE IN f[x] + it[s \ {x}]]
  <2>1. ASSUME NEW s \in SUBSET T, s # {}
        PROVE  LET x == CHOOSE x \in s : TRUE IN value(s \ {x}) = it[s \ {x}]
    <3> DEFINE x == CHOOSE x \in s : TRUE
    <3>1. x \in s
      BY <2>1
    <3>2. s \ {x} \in SUBSET T /\ s \ {x} # T
      BY <3>1
    <3> HIDE DEF x, it, value
    <3>3. value(s \ {x}) = it[s \ {x}]
      BY <1>6, <3>2
    <3> QED
      BY <3>3 DEF x
  <2>2. \A s \in SUBSET T :
           it[s] = IF s = {} THEN 0
                   ELSE LET x == CHOOSE x \in s : TRUE IN f[x] + it[s \ {x}]
    <3>1. \A s \in SUBSET T :
           it[s] = IF s = {} THEN 0
                   ELSE LET x == CHOOSE x \in s : TRUE IN f[x] + value(s \ {x})
      OBVIOUS
    <3> HIDE DEF it, value
    <3> QED
      BY <2>1, <3>1
  <2>3. it = [s \in SUBSET T |-> it[s]]
    OBVIOUS
  <2> HIDE DEF it
  <2> QED
    BY <2>2, <2>3
<1>8. Adds(it, f, T)
  BY <1>7 DEF Adds
<1> QED
  BY <1>3, <1>8

LEMMA AddsNat ==
    ASSUME NEW it, NEW f, NEW S, Adds(it, f, S), IsFiniteSet(S),
           \A x \in S : f[x] \in Nat
    PROVE  \A U \in SUBSET S : it[U] \in Nat
<1> DEFINE C == {U \in SUBSET S : it[U] \notin Nat}
<1>1. SUFFICES ASSUME C # {} PROVE FALSE
  OBVIOUS
<1>2. PICK m \in C : \A U \in C : U \subseteq m => U = m
  <2> HIDE DEF C
  <2>1. C \subseteq SUBSET S
    BY DEF C
  <2> QED
    BY <1>1, <2>1, MinimalSet
<1>3. m # {}
  <2>1. it[{}] \in Nat
    BY AddsAt
  <2> QED
    BY <1>2, <2>1
<1>4. PICK x \in m : it[m] = f[x] + it[m \ {x}]
  BY <1>3, AddsAt
<1>5. it[m \ {x}] \in Nat
  BY <1>2
<1> QED
  BY <1>2, <1>4, <1>5

(* Any element may be taken first.                                         *)
LEMMA AddsAny ==
    ASSUME NEW it, NEW f, NEW S, Adds(it, f, S), IsFiniteSet(S),
           \A y \in S : f[y] \in Nat, NEW A \in SUBSET S, NEW a \in A
    PROVE  it[A] = f[a] + it[A \ {a}]
<1> DEFINE C == {U \in SUBSET S : \E x \in U : it[U] # f[x] + it[U \ {x}]}
<1>1. SUFFICES ASSUME C # {} PROVE FALSE
  OBVIOUS
<1>2. PICK m \in C : \A U \in C : U \subseteq m => U = m
  <2> HIDE DEF C
  <2>1. C \subseteq SUBSET S
    BY DEF C
  <2> QED
    BY <1>1, <2>1, MinimalSet
<1>3. PICK x \in m : it[m] # f[x] + it[m \ {x}]
  OBVIOUS
<1>4. PICK y \in m : it[m] = f[y] + it[m \ {y}]
  BY <1>3, AddsAt
<1>5. x # y
  BY <1>3, <1>4
<1>6. it[m \ {y}] = f[x] + it[(m \ {y}) \ {x}]
  <2>1. m \ {y} \notin C /\ m \ {y} \in SUBSET S /\ x \in m \ {y}
    BY <1>2, <1>5
  <2> QED
    BY <2>1
<1>7. it[m \ {x}] = f[y] + it[(m \ {x}) \ {y}]
  <2>1. m \ {x} \notin C /\ m \ {x} \in SUBSET S /\ y \in m \ {x}
    BY <1>2, <1>5
  <2> QED
    BY <2>1
<1>8. (m \ {y}) \ {x} = (m \ {x}) \ {y}
  OBVIOUS
<1>9. f[x] \in Nat /\ f[y] \in Nat /\ it[(m \ {x}) \ {y}] \in Nat
  <2>1. m \in SUBSET S /\ (m \ {x}) \ {y} \in SUBSET S
    OBVIOUS
  <2> QED
    BY <2>1, AddsNat
<1> DEFINE r == it[(m \ {x}) \ {y}]
<1>10. it[m] = f[y] + (f[x] + r) /\ it[m \ {x}] = f[y] + r
  BY <1>4, <1>6, <1>7, <1>8
<1>11. f[y] + (f[x] + r) = f[x] + (f[y] + r)
  BY <1>9
<1> QED
  BY <1>3, <1>10, <1>11

-----------------------------------------------------------------------------
LEMMA SumAdds ==
    ASSUME NEW f, IsFiniteSet(DOMAIN f)
    PROVE  \E it : Adds(it, f, DOMAIN f) /\ SumFunction(f) = it[DOMAIN f]
<1> DEFINE it == CHOOSE it : Adds(it, f, DOMAIN f)
<1>1. Adds(it, f, DOMAIN f)
  BY AddsExists
<1>2. SumFunction(f) = it[DOMAIN f]
  BY SumIs
<1> QED
  BY <1>1, <1>2

LEMMA SumEmpty ==
    ASSUME NEW f, DOMAIN f = {}
    PROVE  SumFunction(f) = 0
<1>1. IsFiniteSet(DOMAIN f)
  BY FS_EmptySet
<1>2. PICK it : Adds(it, f, DOMAIN f) /\ SumFunction(f) = it[DOMAIN f]
  BY <1>1, SumAdds
<1> QED
  BY <1>2, AddsAt

LEMMA SumNat ==
    ASSUME NEW f, IsFiniteSet(DOMAIN f), \A x \in DOMAIN f : f[x] \in Nat
    PROVE  SumFunction(f) \in Nat
<1>1. PICK it : Adds(it, f, DOMAIN f) /\ SumFunction(f) = it[DOMAIN f]
  BY SumAdds
<1> QED
  BY <1>1, AddsNat

LEMMA SumWithout ==
    ASSUME NEW f, IsFiniteSet(DOMAIN f), \A y \in DOMAIN f : f[y] \in Nat,
           NEW x \in DOMAIN f
    PROVE  SumFunction(f) = f[x] + SumFunction([y \in DOMAIN f \ {x} |-> f[y]])
<1> DEFINE g == [y \in DOMAIN f \ {x} |-> f[y]]
<1>1. PICK it : Adds(it, f, DOMAIN f) /\ SumFunction(f) = it[DOMAIN f]
  BY SumAdds
<1>2. IsFiniteSet(DOMAIN f \ {x})
  BY FS_RemoveElement
<1>3. PICK jt : Adds(jt, g, DOMAIN f \ {x}) /\ SumFunction(g) = jt[DOMAIN f \ {x}]
  <2>1. DOMAIN g = DOMAIN f \ {x}
    OBVIOUS
  <2> QED
    BY <1>2, <2>1, SumAdds
<1>4. it[DOMAIN f \ {x}] = jt[DOMAIN f \ {x}]
  <2> DEFINE D == DOMAIN f \ {x}
  <2>1. \A y \in D : f[y] = g[y]
    OBVIOUS
  <2>2. Adds(it, f, DOMAIN f) /\ Adds(jt, g, D) /\ D \subseteq DOMAIN f /\ IsFiniteSet(D)
    BY <1>1, <1>2, <1>3
  <2> HIDE DEF g, D
  <2>3. it[D] = jt[D]
    BY <2>1, <2>2, AddsSame
  <2> QED
    BY <2>3 DEF D
<1>5. it[DOMAIN f] = f[x] + it[DOMAIN f \ {x}]
  <2> DEFINE S == DOMAIN f
  <2>1. /\ Adds(it, f, S) /\ IsFiniteSet(S) /\ x \in S /\ S \in SUBSET S
        /\ \A y \in S : f[y] \in Nat
    BY <1>1
  <2> HIDE DEF g, S
  <2>2. it[S] = f[x] + it[S \ {x}]
    BY <2>1, AddsAny
  <2> QED
    BY <2>2 DEF S
<1> QED
  BY <1>1, <1>3, <1>4, <1>5

LEMMA SumWith ==
    ASSUME NEW f, NEW g, IsFiniteSet(DOMAIN f), NEW x, x \notin DOMAIN f,
           DOMAIN g = DOMAIN f \cup {x}, \A y \in DOMAIN f : g[y] = f[y],
           \A y \in DOMAIN g : g[y] \in Nat,
           f = [y \in DOMAIN f |-> f[y]]
    PROVE  SumFunction(g) = g[x] + SumFunction(f)
<1>1. [y \in DOMAIN g \ {x} |-> g[y]] = f
  <2>1. DOMAIN g \ {x} = DOMAIN f
    OBVIOUS
  <2> QED
    BY <2>1
<1>2. IsFiniteSet(DOMAIN g)
  BY FS_AddElement
<1> QED
  BY <1>1, <1>2, SumWithout

(* The sum of a function is that of any part of its domain and of the rest. *)
LEMMA SumSplit ==
    ASSUME NEW f, IsFiniteSet(DOMAIN f), \A y \in DOMAIN f : f[y] \in Nat,
           NEW A \in SUBSET DOMAIN f
    PROVE  SumFunction([y \in DOMAIN f |-> f[y]]) =
             SumFunction([y \in A |-> f[y]])
               + SumFunction([y \in DOMAIN f \ A |-> f[y]])
<1> DEFINE D == DOMAIN f
           Part(U) == [y \in U |-> f[y]]
           C == {U \in SUBSET A : SumFunction(Part(D)) #
                    SumFunction(Part(U)) + SumFunction(Part(D \ U))}
<1>1. SUFFICES ASSUME C # {} PROVE FALSE
  <2>1. A \notin C
    BY <1>1
  <2> QED
    BY <2>1
<1>2. IsFiniteSet(A)
  BY FS_Subset
<1>3. PICK m \in C : \A U \in C : U \subseteq m => U = m
  <2> HIDE DEF C
  <2>1. C \subseteq SUBSET A
    BY DEF C
  <2> QED
    BY <1>1, <1>2, <2>1, MinimalSet
<1>4. m \subseteq A /\ m \subseteq D /\ IsFiniteSet(m)
  BY <1>2, FS_Subset
<1>5. ASSUME NEW U, U \subseteq D
      PROVE  /\ DOMAIN Part(U) = U /\ IsFiniteSet(U)
             /\ \A y \in U : Part(U)[y] = f[y] /\ Part(U)[y] \in Nat
             /\ SumFunction(Part(U)) \in Nat
  <2>1. DOMAIN Part(U) = U /\ IsFiniteSet(U)
    BY <1>5, FS_Subset
  <2>2. \A y \in U : Part(U)[y] = f[y] /\ Part(U)[y] \in Nat
    BY <1>5
  <2> HIDE DEF Part
  <2> QED
    BY <2>1, <2>2, SumNat
<1>6. ASSUME NEW U, U \subseteq D, NEW a \in U
      PROVE  SumFunction(Part(U)) = f[a] + SumFunction(Part(U \ {a}))
  <2>1. /\ DOMAIN Part(U) = U /\ IsFiniteSet(U)
        /\ \A y \in U : Part(U)[y] = f[y] /\ Part(U)[y] \in Nat
    BY <1>5, <1>6
  <2>2. [y \in U \ {a} |-> Part(U)[y]] = Part(U \ {a})
    OBVIOUS
  <2> HIDE DEF Part
  <2> QED
    BY <2>1, <2>2, SumWithout
<1>7. m # {}
  <2>1. SumFunction(Part({})) = 0
    BY SumEmpty
  <2>2. D \ {} = D
    OBVIOUS
  <2>3. SumFunction(Part(D)) \in Nat
    BY <1>5
  <2> HIDE DEF Part, D
  <2> QED
    BY <2>1, <2>2, <2>3
<1>8. PICK a : a \in m
  BY <1>7
<1> DEFINE n == m \ {a}
<1>9. SumFunction(Part(D)) = SumFunction(Part(n)) + SumFunction(Part(D \ n))
  <2>1. n \in SUBSET A /\ n \subseteq m /\ n # m
    BY <1>4, <1>8
  <2> HIDE DEF n, Part, D
  <2> QED
    BY <1>3, <2>1
<1>10. SumFunction(Part(m)) = f[a] + SumFunction(Part(n))
  BY <1>4, <1>6, <1>8
<1>11. SumFunction(Part(D \ n)) = f[a] + SumFunction(Part(D \ m))
  <2>1. D \ n \subseteq D /\ a \in D \ n /\ (D \ n) \ {a} = D \ m
    BY <1>4, <1>8
  <2> HIDE DEF n, Part, D
  <2> QED
    BY <1>6, <2>1
<1>12. /\ SumFunction(Part(n)) \in Nat /\ SumFunction(Part(D \ m)) \in Nat
       /\ SumFunction(Part(m)) \in Nat /\ f[a] \in Nat
  <2>1. n \subseteq D /\ D \ m \subseteq D
    BY <1>4
  <2>2. f[a] \in Nat
    BY <1>4, <1>8
  <2> HIDE DEF n, Part, D
  <2> QED
    BY <1>4, <1>5, <2>1, <2>2
<1>13. SumFunction(Part(D)) # SumFunction(Part(m)) + SumFunction(Part(D \ m))
  OBVIOUS
<1> HIDE DEF n, Part, D
<1> QED
  BY <1>9, <1>10, <1>11, <1>12, <1>13

-----------------------------------------------------------------------------
(* A finite set that is ordered by the pairs of R has a greatest element.  *)
LEMMA Greatest ==
    ASSUME NEW S, IsFiniteSet(S), S # {}, NEW R,
           \A x, y \in S : <<x, y>> \in R \/ <<y, x>> \in R,
           \A x, y, z \in S : <<x, y>> \in R /\ <<y, z>> \in R => <<x, z>> \in R
    PROVE  \E m \in S : \A x \in S : <<x, m>> \in R
<1> DEFINE C == {U \in SUBSET S : U # {} /\ ~ \E m \in U : \A x \in U : <<x, m>> \in R}
<1>1. SUFFICES ASSUME C # {} PROVE FALSE
  <2>1. S \notin C
    BY <1>1
  <2> QED
    BY <2>1
<1>2. PICK T \in C : \A U \in C : U \subseteq T => U = T
  <2> HIDE DEF C
  <2>1. C \subseteq SUBSET S
    BY DEF C
  <2> QED
    BY <1>1, <2>1, MinimalSet
<1>3. PICK x \in T : x \in S
  OBVIOUS
<1>4. CASE T = {x}
  <2>1. <<x, x>> \in R
    BY <1>3
  <2> QED
    BY <1>3, <1>4, <2>1
<1>5. CASE T # {x}
  <2>1. T \ {x} \notin C
    <3>1. T \ {x} \subseteq T /\ T \ {x} # T
      BY <1>3
    <3> HIDE DEF C
    <3> QED
      BY <1>2, <3>1
  <2>2. PICK m \in T \ {x} : \A y \in T \ {x} : <<y, m>> \in R
    BY <1>3, <1>5, <2>1
  <2>3. m \in S /\ x \in S /\ T \subseteq S
    BY <1>3, <2>2
  <2>4. CASE <<x, m>> \in R
    BY <2>2, <2>4
  <2>5. CASE <<m, x>> \in R
    <3>1. <<x, x>> \in R
      BY <1>3
    <3>2. \A y \in T : <<y, x>> \in R
      BY <2>2, <2>3, <2>5, <3>1
    <3> QED
      BY <1>3, <3>2
  <2> QED
    BY <2>3, <2>4, <2>5
<1> QED
  BY <1>4, <1>5

LEMMA Extremes ==
    ASSUME NEW f, IsFiniteSet(DOMAIN f), DOMAIN f # {}, \A x \in DOMAIN f : f[x] \in Nat
    PROVE  /\ \E m \in DOMAIN f : \A x \in DOMAIN f : f[m] <= f[x]
           /\ \E m \in DOMAIN f : \A x \in DOMAIN f : f[x] <= f[m]
<1> DEFINE S == DOMAIN f
           Up == {p \in S \X S : f[p[1]] <= f[p[2]]}
           Down == {p \in S \X S : f[p[2]] <= f[p[1]]}
<1>1. /\ \A x, y \in S : <<x, y>> \in Up <=> f[x] <= f[y]
      /\ \A x, y \in S : <<x, y>> \in Down <=> f[y] <= f[x]
      /\ \A x \in S : f[x] \in Nat
      /\ S # {} /\ IsFiniteSet(S)
  OBVIOUS
<1> HIDE DEF S, Up, Down
<1>2. \E m \in S : \A x \in S : <<x, m>> \in Up
  <2>1. ASSUME NEW x \in S, NEW y \in S PROVE <<x, y>> \in Up \/ <<y, x>> \in Up
    <3>1. f[x] <= f[y] \/ f[y] <= f[x]
      BY <1>1
    <3> QED
      BY <1>1, <3>1
  <2>2. \A x, y, z \in S : <<x, y>> \in Up /\ <<y, z>> \in Up => <<x, z>> \in Up
    BY <1>1
  <2> QED
    BY <1>1, <2>1, <2>2, Greatest
<1>3. \E m \in S : \A x \in S : <<x, m>> \in Down
  <2>1. ASSUME NEW x \in S, NEW y \in S PROVE <<x, y>> \in Down \/ <<y, x>> \in Down
    <3>1. f[x] <= f[y] \/ f[y] <= f[x]
      BY <1>1
    <3> QED
      BY <1>1, <3>1
  <2>2. \A x, y, z \in S : <<x, y>> \in Down /\ <<y, z>> \in Down => <<x, z>> \in Down
    BY <1>1
  <2> QED
    BY <1>1, <2>1, <2>2, Greatest
<1>4. /\ \E m \in S : \A x \in S : f[m] <= f[x]
      /\ \E m \in S : \A x \in S : f[x] <= f[m]
  BY <1>1, <1>2, <1>3
<1> QED
  BY <1>4 DEF S
=============================================================================
