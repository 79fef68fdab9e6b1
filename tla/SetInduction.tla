---------------------------- MODULE SetInduction ----------------------------
(***************************************************************************)
(* Induction over an interval with a set for the property, and recursion   *)
(* over an interval with a function for the step: what the proofs of this  *)
(* project need of recursive definitions.                                  *)
(***************************************************************************)
EXTENDS Integers, WellFoundedInduction, TLAPS

Less == {p \in Nat \X Nat : p[1] < p[2]}

LEMMA LessIsWellFounded == IsWellFoundedOn(Less, Nat)
BY NatLessThanWellFounded DEF OpToRel, Less

LEMMA Least ==
  ASSUME NEW T, T \subseteq Nat, T # {}
  PROVE  \E n \in T : \A k \in T : n <= k
<1>1. PICK n \in T : \A k \in T : <<k, n>> \notin Less
  BY LessIsWellFounded, WFMin
<1>2. ASSUME NEW k \in T PROVE n <= k
  <2>1. <<k, n>> \in Nat \X Nat /\ <<k, n>> \notin Less
    BY <1>1
  <2>2. ~(k < n)
    BY <2>1 DEF Less
  <2>3. QED
    BY <2>2
<1>3. QED
  BY <1>2

LEMMA Induction ==
  ASSUME NEW n \in Nat, NEW S, 0 \in S, \A i \in 0..(n - 1) : i \in S => i + 1 \in S
  PROVE  \A i \in 0..n : i \in S
<1> DEFINE T == {i \in 0..n : i \notin S}
<1> SUFFICES ASSUME T # {} PROVE FALSE
  OBVIOUS
<1>1. T \subseteq Nat
  OBVIOUS
<1> HIDE DEF T
<1>2. PICK m \in T : \A k \in T : m <= k
  BY <1>1, Least
<1>3. m \in 0..n /\ m \notin S /\ m # 0
  BY <1>2 DEF T
<1>4. m - 1 \in 0..(n - 1) /\ m - 1 \notin T
  BY <1>2, <1>3
<1>5. m - 1 \in S
  BY <1>3, <1>4 DEF T
<1>6. (m - 1) + 1 \in S /\ (m - 1) + 1 = m
  BY <1>3, <1>4, <1>5
<1>7. QED
  BY <1>3, <1>6

LEMMA Greatest ==
  ASSUME NEW n \in Nat, NEW T, T \subseteq 0..n, T # {}
  PROVE  \E m \in T : \A k \in T : k <= m
<1> DEFINE R == {n - k : k \in T}
<1>1. R \subseteq Nat /\ R # {}
  OBVIOUS
<1> HIDE DEF R
<1>2. PICK r \in R : \A q \in R : r <= q
  BY <1>1, Least
<1>3. PICK m \in T : r = n - m
  BY DEF R
<1>4. ASSUME NEW k \in T PROVE k <= m
  <2>1. n - k \in R /\ k \in 0..n /\ m \in 0..n
    BY DEF R
  <2>2. n - m <= n - k
    BY <1>2, <1>3, <2>1
  <2>3. QED
    BY <2>1, <2>2
<1>5. QED
  BY <1>4

IsRecursion(f, n, a, step) == f = [i \in 0..n |-> IF i = 0 THEN a ELSE step[<<i, f[i - 1]>>]]

LEMMA RecursionExists ==
  ASSUME NEW n \in Nat, NEW a, NEW step PROVE \E f : IsRecursion(f, n, a, step)
<1> DEFINE S == {k \in Nat : \E f : IsRecursion(f, k, a, step)}
<1>1. 0 \in S
  <2>1. IsRecursion([i \in 0..0 |-> a], 0, a, step)
    BY DEF IsRecursion
  <2>2. QED
    BY <2>1
<1>2. ASSUME NEW k \in Nat, k \in S PROVE k + 1 \in S
  <2>1. PICK f : IsRecursion(f, k, a, step)
    BY <1>2
  <2> DEFINE g == [i \in 0..(k + 1) |-> IF i = k + 1 THEN step[<<k + 1, f[k]>>] ELSE f[i]]
  <2>2. \A i \in 0..k : g[i] = f[i]
    BY <1>2
  <2>3. \A i \in 0..(k + 1) : g[i] = IF i = 0 THEN a ELSE step[<<i, g[i - 1]>>]
    <3>1. TAKE i \in 0..(k + 1)
    <3>2. CASE i = k + 1
      <4>1. i # 0 /\ i - 1 = k /\ k \in 0..k
        BY <3>2
      <4>2. QED
        BY <2>2, <3>2, <4>1
    <3>3. CASE i \in 1..k
      <4>1. i - 1 \in 0..k /\ i # k + 1
        BY <3>3
      <4>2. QED
        BY <2>1, <2>2, <3>3, <4>1 DEF IsRecursion
    <3>4. CASE i = 0
      BY <2>1, <3>4 DEF IsRecursion
    <3>5. QED
      BY <3>2, <3>3, <3>4
  <2>4. IsRecursion(g, k + 1, a, step)
    BY <2>3 DEF IsRecursion
  <2>5. QED
    BY <2>4
<1> HIDE DEF S
<1>3. \A i \in 0..n : i \in S
  <2>1. \A i \in 0..(n - 1) : i \in S => i + 1 \in S
    BY <1>2
  <2>2. QED
    BY <1>1, <2>1, Induction
<1>4. QED
  BY <1>3 DEF S

\* A recursion whose step stays within a set stays within it.
LEMMA TypedRecursion ==
  ASSUME NEW n \in Nat, NEW X, NEW a \in X, NEW step \in [(1..n) \X X -> X]
  PROVE  \E f : IsRecursion(f, n, a, step) /\ \A i \in 0..n : f[i] \in X
<1>1. PICK f : IsRecursion(f, n, a, step)
  BY RecursionExists
<1> DEFINE S == {i \in Nat : f[i] \in X}
<1>2. 0 \in S
  BY <1>1 DEF IsRecursion
<1>3. ASSUME NEW i \in 0..(n - 1), i \in S PROVE i + 1 \in S
  <2>1. i + 1 \in 1..n /\ i + 1 \in 0..n /\ i + 1 # 0 /\ (i + 1) - 1 = i
    OBVIOUS
  <2>2. f[i + 1] = step[<<i + 1, f[i]>>]
    BY <1>1, <2>1 DEF IsRecursion
  <2>3. QED
    BY <1>3, <2>1, <2>2
<1> HIDE DEF S
<1>4. \A i \in 0..n : i \in S
  BY <1>2, <1>3, Induction
<1>5. QED
  BY <1>1, <1>4 DEF S

LEMMA RecursionUnique ==
  ASSUME NEW n \in Nat, NEW m \in Nat, NEW a, NEW step, NEW f, NEW g,
         IsRecursion(f, n, a, step), IsRecursion(g, m, a, step)
  PROVE  \A i \in 0..n : i \in 0..m => f[i] = g[i]
<1> DEFINE S == {i \in Nat : i \in 0..m => f[i] = g[i]}
<1>1. 0 \in S
  BY DEF IsRecursion
<1>2. ASSUME NEW i \in 0..(n - 1), i \in S PROVE i + 1 \in S
  <2>1. i + 1 \in 0..n /\ i + 1 # 0 /\ (i + 1) - 1 = i
    OBVIOUS
  <2>2. f[i + 1] = step[<<i + 1, f[i]>>]
    BY <2>1 DEF IsRecursion
  <2>3. i + 1 \in 0..m => i \in 0..m /\ g[i + 1] = step[<<i + 1, g[i]>>]
    BY <2>1 DEF IsRecursion
  <2>4. QED
    BY <1>2, <2>1, <2>2, <2>3
<1> HIDE DEF S
<1>3. \A i \in 0..n : i \in S
  BY <1>1, <1>2, Induction
<1>4. QED
  BY <1>3 DEF S

AreIterates(f, X, a, step) ==
  f \in [Nat -> X] /\ f[0] = a /\ \A k \in Nat : f[k + 1] = step[f[k]]

\* Every value has its iterates.
LEMMA Iterates ==
  ASSUME NEW X, NEW a \in X, NEW step \in [X -> X]
  PROVE  \E f : AreIterates(f, X, a, step)
<1> DEFINE all == [p \in (Nat \X X) |-> step[p[2]]]
           run(n) == CHOOSE r : IsRecursion(r, n, a, all)
           f == [n \in Nat |-> run(n)[n]]
<1>1. ASSUME NEW n \in Nat PROVE IsRecursion(run(n), n, a, all)
  BY RecursionExists
<1> HIDE DEF run, all
<1>2. ASSUME NEW n \in Nat, NEW m \in Nat, n <= m PROVE run(m)[n] = f[n]
  <2>1. IsRecursion(run(n), n, a, all) /\ IsRecursion(run(m), m, a, all)
    BY <1>1
  <2>2. n \in 0..n /\ n \in 0..m
    BY <1>2
  <2>3. QED
    BY <2>1, <2>2, RecursionUnique
<1>3. f[0] = a
  <2>1. IsRecursion(run(0), 0, a, all)
    BY <1>1
  <2>2. QED
    BY <2>1 DEF IsRecursion
<1>4. ASSUME NEW k \in Nat PROVE f[k + 1] = all[<<k + 1, f[k]>>]
  <2>1. k + 1 \in Nat /\ k + 1 \in 0..(k + 1) /\ k + 1 # 0 /\ (k + 1) - 1 = k /\ k <= k + 1
    OBVIOUS
  <2>2. IsRecursion(run(k + 1), k + 1, a, all)
    BY <1>1, <2>1
  <2>3. run(k + 1)[k + 1] = all[<<k + 1, run(k + 1)[k]>>]
    BY <2>1, <2>2 DEF IsRecursion
  <2>4. run(k + 1)[k] = f[k] /\ run(k + 1)[k + 1] = f[k + 1]
    BY <1>2, <2>1
  <2>5. QED
    BY <2>3, <2>4
<1> DEFINE S == {n \in Nat : f[n] \in X}
<1> HIDE DEF f
<1>5. \A k \in Nat : f[k] \in X => all[<<k + 1, f[k]>>] = step[f[k]]
  BY DEF all
<1>6. ASSUME NEW n \in Nat PROVE f[n] \in X
  <2>1. 0 \in S
    BY <1>3
  <2>2. ASSUME NEW i \in 0..(n - 1), i \in S PROVE i + 1 \in S
    <3>1. i \in Nat /\ i + 1 \in Nat /\ f[i] \in X
      BY <2>2
    <3>2. f[i + 1] = step[f[i]]
      BY <1>4, <1>5, <3>1
    <3>3. QED
      BY <3>1, <3>2
  <2> HIDE DEF S
  <2>3. \A i \in 0..n : i \in S
    BY <2>1, <2>2, Induction
  <2>4. QED
    BY <2>3 DEF S
<1>7. f \in [Nat -> X]
  BY <1>6 DEF f
<1>8. QED
  BY <1>3, <1>4, <1>5, <1>6, <1>7 DEF AreIterates

\* "other" has the values of m, and may have more.
Extends(m, other, W, none) == \A w \in W : m[w] = none \/ m[w] = other[w]

LEMMA ExtendsTransitive ==
  ASSUME NEW W, NEW none, NEW a, NEW b, NEW c, Extends(a, b, W, none), Extends(b, c, W, none)
  PROVE  Extends(a, c, W, none)
BY DEF Extends

\* The iterates of a step that never takes a value back have more and more values.
LEMMA IteratesExtend ==
  ASSUME NEW W, NEW X, NEW none \in X, NEW U \in [[W -> X] -> [W -> X]],
         \A m, other \in [W -> X] : Extends(m, other, W, none) => Extends(U[m], U[other], W, none),
         NEW f \in [Nat -> [W -> X]], f[0] = [w \in W |-> none], \A k \in Nat : f[k + 1] = U[f[k]]
  PROVE  \A k, j \in Nat : k <= j => Extends(f[k], f[j], W, none)
<1> DEFINE S == {k \in Nat : Extends(f[k], f[k + 1], W, none)}
<1>1. 0 \in S
  BY DEF Extends
<1>2. ASSUME NEW k \in Nat, k \in S PROVE k + 1 \in S
  <2>1. k + 1 \in Nat /\ (k + 1) + 1 \in Nat /\ f[k] \in [W -> X] /\ f[k + 1] \in [W -> X]
    OBVIOUS
  <2>2. Extends(U[f[k]], U[f[k + 1]], W, none)
    BY <1>2, <2>1
  <2>3. f[k + 1] = U[f[k]] /\ f[(k + 1) + 1] = U[f[k + 1]]
    BY <2>1
  <2>4. QED
    BY <2>1, <2>2, <2>3
<1>3. ASSUME NEW k \in Nat PROVE k \in S
  <2> HIDE DEF S
  <2>1. \A i \in 0..(k - 1) : i \in S => i + 1 \in S
    BY <1>2
  <2>2. \A i \in 0..k : i \in S
    BY <1>1, <2>1, Induction
  <2>3. QED
    BY <2>2
<1>4. SUFFICES ASSUME NEW k \in Nat, NEW d \in Nat PROVE Extends(f[k], f[k + d], W, none)
  <2>1. \A k, j \in Nat : k <= j => j - k \in Nat /\ j = k + (j - k)
    OBVIOUS
  <2>2. QED
    BY <2>1
<1> DEFINE T == {e \in Nat : Extends(f[k], f[k + e], W, none)}
<1>5. 0 \in T
  <2>1. k + 0 = k
    OBVIOUS
  <2>2. QED
    BY <2>1 DEF Extends
<1>6. ASSUME NEW e \in Nat, e \in T PROVE e + 1 \in T
  <2>1. k + e \in Nat /\ k + (e + 1) = (k + e) + 1 /\ e + 1 \in Nat
    OBVIOUS
  <2>2. Extends(f[k], f[k + e], W, none) /\ Extends(f[k + e], f[(k + e) + 1], W, none)
    BY <1>3, <1>6, <2>1
  <2>3. Extends(f[k], f[(k + e) + 1], W, none)
    BY <2>2, ExtendsTransitive
  <2>4. QED
    BY <2>1, <2>3
<1> HIDE DEF T
<1>7. \A e \in 0..(d - 1) : e \in T => e + 1 \in T
  BY <1>6
<1>8. \A e \in 0..d : e \in T
  BY <1>5, <1>7, Induction
<1>9. QED
  <2>1. d \in 0..d
    OBVIOUS
  <2>2. QED
    BY <1>8, <2>1 DEF T

\* The step's value at w asks for those at u and v, and stays when they are given.
AsksFor(U, w, u, v, W, X, none) ==
  \A m, other \in [W -> X] :
    (m[u] = none \/ m[u] = other[u]) /\ (m[v] = none \/ m[v] = other[v])
      => U[m][w] = none \/ U[m][w] = U[other][w]

AsksForTwo(U, w, W, X, none) == \E u, v \in W : AsksFor(U, w, u, v, W, X, none)

IsFixed(g, W, X, U) == g \in [W -> X] /\ g = U[g]

\* A step whose value at a place asks for those at two places has a fixed point.
LEMMA FixedPoint ==
  ASSUME NEW W, NEW X, NEW none \in X, NEW U \in [[W -> X] -> [W -> X]],
         \A w \in W : AsksForTwo(U, w, W, X, none)
  PROVE  \E g : IsFixed(g, W, X, U)
<1>1. ASSUME NEW m \in [W -> X], NEW other \in [W -> X], Extends(m, other, W, none)
      PROVE  Extends(U[m], U[other], W, none)
  BY <1>1 DEF Extends, AsksFor, AsksForTwo
<1>2. [w \in W |-> none] \in [W -> X]
  OBVIOUS
<1>3. PICK f \in [Nat -> [W -> X]] : f[0] = [w \in W |-> none] /\ \A k \in Nat : f[k + 1] = U[f[k]]
  <2>1. \E f : AreIterates(f, [W -> X], [w \in W |-> none], U)
    BY <1>2, Iterates
  <2>2. QED
    BY <2>1 DEF AreIterates
<1>4. \A k, j \in Nat : k <= j => Extends(f[k], f[j], W, none)
  BY <1>1, <1>3, IteratesExtend
<1> DEFINE at(w) == {k \in Nat : f[k][w] # none}
           g == [w \in W |-> IF at(w) = {} THEN none ELSE f[CHOOSE k \in at(w) : TRUE][w]]
<1>5. ASSUME NEW w \in W
      PROVE  /\ \A k \in Nat : f[k][w] = none \/ f[k][w] = g[w]
             /\ \E k \in Nat : f[k][w] = g[w]
             /\ g[w] \in X
  <2>1. CASE at(w) = {}
    <3>1. g[w] = none /\ \A k \in Nat : f[k][w] = none
      BY <2>1
    <3>2. QED
      BY <3>1
  <2>2. CASE at(w) # {}
    <3>1. PICK c \in at(w) : g[w] = f[c][w]
      BY <2>2
    <3>2. c \in Nat /\ f[c][w] # none /\ f[c] \in [W -> X]
      BY <3>1
    <3>3. ASSUME NEW k \in Nat PROVE f[k][w] = none \/ f[k][w] = f[c][w]
      <4>1. k <= c \/ c <= k
        BY <3>2
      <4>2. Extends(f[k], f[c], W, none) \/ Extends(f[c], f[k], W, none)
        BY <1>4, <3>2, <4>1
      <4>3. QED
        BY <3>2, <4>2 DEF Extends
    <3>4. QED
      BY <3>1, <3>2, <3>3
  <2>3. QED
    BY <2>1, <2>2
<1> DEFINE Given(k, w) == f[k][w] = g[w]
<1>6. g \in [W -> X]
  BY <1>5
<1> HIDE DEF g
<1>7. ASSUME NEW w \in W, NEW k \in Nat, NEW j \in Nat, k <= j, f[k][w] = g[w] PROVE f[j][w] = g[w]
  <2>1. Extends(f[k], f[j], W, none)
    BY <1>4, <1>7
  <2>2. QED
    BY <1>5, <1>7, <2>1 DEF Extends
<1>8. ASSUME NEW w \in W PROVE g[w] = U[g][w]
  <2>1. PICK u \in W, v \in W : \A m, other \in [W -> X] :
           (m[u] = none \/ m[u] = other[u]) /\ (m[v] = none \/ m[v] = other[v])
             => U[m][w] = none \/ U[m][w] = U[other][w]
    BY DEF AsksFor, AsksForTwo
  <2>2. PICK ku \in Nat, kv \in Nat, kw \in Nat :
          f[ku][u] = g[u] /\ f[kv][v] = g[v] /\ f[kw][w] = g[w]
    BY <1>5
  <2> DEFINE k == ku + kv + kw
  <2>3. k \in Nat /\ k + 1 \in Nat /\ ku <= k /\ kv <= k /\ kw <= k + 1
    OBVIOUS
  <2> HIDE DEF k
  <2>4. f[k][u] = g[u] /\ f[k][v] = g[v] /\ f[k + 1][w] = g[w]
    BY <1>7, <2>2, <2>3
  <2>5. f[k] \in [W -> X] /\ f[k + 1] = U[f[k]]
    BY <1>3, <2>3
  <2>6. U[f[k]][w] = none \/ U[f[k]][w] = U[g][w]
    BY <1>6, <2>1, <2>4, <2>5
  <2>7. U[g][w] = none \/ U[g][w] = U[f[k]][w]
    BY <1>6, <2>1, <2>4, <2>5
  <2>8. QED
    BY <2>4, <2>5, <2>6, <2>7
<1>9. g = U[g]
  BY <1>6, <1>8
<1>10. QED
  BY <1>6, <1>9 DEF IsFixed
=============================================================================
