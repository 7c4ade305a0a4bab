-------------------------- MODULE CapabilityProofs --------------------------
(***************************************************************************)
(* Proofs about the matcher of capability patterns and about parameters,   *)
(* for patterns and values of every size. The matcher is written in        *)
(* CapabilityMatching as recursive functions; a lemma shows that a         *)
(* recursive definition which only looks at what is left defines a         *)
(* function, and induction (from the least-number principle) says what     *)
(* that function computes.                                                 *)
(*                                                                         *)
(* Backtracking over characters and over tokens is one argument: a table   *)
(* whose cell i, j says that the pieces from i on can be laid out from j   *)
(* on has a true first cell exactly when there is a cut.                   *)
(***************************************************************************)
EXTENDS CoreFunctions, WellFoundedInduction, SequenceTheorems, TLAPS

-----------------------------------------------------------------------------
(* What recursive definitions need: induction, and that they define.       *)

\* Strict order on the naturals, as a relation.
NatLess == {ss \in Nat \X Nat : ss[1] < ss[2]}

\* NatLess has no infinite descent.
LEMMA NatLessWellFounded == IsWellFoundedOn(NatLess, Nat)
  <1>1. OpToRel(<, Nat) = NatLess
    BY DEF OpToRel, NatLess
  <1> QED
    BY <1>1, NatLessThanWellFounded

\* Least number principle.
LEMMA LeastNumber ==
  ASSUME NEW T \in SUBSET Nat, T # {}
  PROVE  \E n \in T : \A m \in T : n <= m
  <1>1. \E x \in T : \A y \in T : ~(<<y, x>> \in NatLess)
    BY NatLessWellFounded, WFMin, Zenon
  <1>2. PICK x \in T : \A y \in T : ~(<<y, x>> \in NatLess)
    BY <1>1
  <1>3. \A y \in T : x \in Nat /\ y \in Nat /\ ~(y < x)
    BY <1>2 DEF NatLess
  <1>4. \A y \in T : x <= y
    BY <1>3
  <1> QED
    BY <1>2, <1>4

\* Induction: a set of naturals with 0 and all successors holds them all.
LEMMA Induction ==
  ASSUME NEW S, 0 \in S, \A n \in Nat : n \in S => n + 1 \in S
  PROVE  Nat \subseteq S
  <1> DEFINE T == Nat \ S
  <1>1. SUFFICES ASSUME T # {} PROVE FALSE
    OBVIOUS
  <1>2. PICK n \in T : \A m \in T : n <= m
    BY <1>1, LeastNumber
  <1>3. n # 0 /\ n \in Nat
    OBVIOUS
  <1>4. n - 1 \in Nat /\ n - 1 \notin T
    BY <1>2, <1>3
  <1> QED
    BY <1>3, <1>4

\* Phi is the body of a recursive definition f[x \in D] == ... f ..., read as
\* an operation on the functions from D to V: at x it looks at its argument
\* only where the rank is lower than that of x.
IsRecursion(D, V, rank, Phi) ==
  /\ rank \in [D -> Nat]
  /\ Phi \in [[D -> V] -> [D -> V]]
  /\ [D -> V] # {}
  /\ \A g, h \in [D -> V] : \A x \in D :
       (\A y \in D : rank[y] < rank[x] => g[y] = h[y]) => Phi[g][x] = Phi[h][x]

\* A recursive definition that looks downwards only defines a function.
LEMMA RecursiveFunctionExists ==
  ASSUME NEW D, NEW V, NEW rank, NEW Phi, IsRecursion(D, V, rank, Phi)
  PROVE  \E f \in [D -> V] : f = Phi[f]
  <1>0. PICK seed : seed \in [D -> V]
    BY DEF IsRecursion
  <1>9. /\ rank \in [D -> Nat]
        /\ Phi \in [[D -> V] -> [D -> V]]
        /\ \A g, h \in [D -> V] : \A x \in D :
             (\A y \in D : rank[y] < rank[x] => g[y] = h[y])
               => Phi[g][x] = Phi[h][x]
    BY DEF IsRecursion
  <1> USE <1>9
  <1> DEFINE Good(n) ==
               {g \in [D -> V] : \A x \in D : rank[x] < n => g[x] = Phi[g][x]}
             Alike(g, h, n) == \A x \in D : rank[x] < n => g[x] = h[x]
  <1>1. \A n \in Nat : Good(n) # {}
    <2> DEFINE S == {n \in Nat : Good(n) # {}}
    <2>1. 0 \in S
      <3>1. seed \in Good(0)
        BY <1>0
      <3> QED
        BY <3>1
    <2>2. ASSUME NEW n \in Nat, n \in S PROVE n + 1 \in S
      <3>1. PICK g \in [D -> V] : \A x \in D : rank[x] < n => g[x] = Phi[g][x]
        BY <2>2
      <3>2. Phi[g] \in [D -> V]
        OBVIOUS
      <3>3. ASSUME NEW x \in D, rank[x] < n + 1
            PROVE  Phi[g][x] = Phi[Phi[g]][x]
        <4>1. \A y \in D : rank[y] < rank[x] => rank[y] < n
          BY <3>3
        <4>2. \A y \in D : rank[y] < rank[x] => g[y] = Phi[g][y]
          BY <3>1, <4>1
        <4> QED
          BY <3>2, <4>2
      <3>4. Phi[g] \in Good(n + 1)
        BY <3>2, <3>3
      <3> QED
        BY <3>4
    <2> HIDE DEF S
    <2>3. Nat \subseteq S
      BY <2>1, <2>2, Induction
    <2> QED
      BY <2>3 DEF S
  <1>2. ASSUME NEW k \in Nat, NEW g \in Good(k), NEW h \in Good(k)
        PROVE  Alike(g, h, k)
    <2> DEFINE S == {n \in Nat : n <= k => Alike(g, h, n)}
    <2>1. 0 \in S
      OBVIOUS
    <2>2. ASSUME NEW n \in Nat, n \in S PROVE n + 1 \in S
      <3>1. SUFFICES ASSUME n + 1 <= k, NEW x \in D, rank[x] < n + 1
                     PROVE  g[x] = h[x]
        OBVIOUS
      <3>2. \A y \in D : rank[y] < rank[x] => g[y] = h[y]
        BY <2>2, <3>1
      <3>3. g[x] = Phi[g][x] /\ h[x] = Phi[h][x]
        BY <3>1
      <3> QED
        BY <3>2, <3>3
    <2> HIDE DEF S
    <2>3. Nat \subseteq S
      BY <2>1, <2>2, Induction
    <2> QED
      BY <2>3 DEF S
  <1> DEFINE pick == [n \in Nat |-> CHOOSE g \in Good(n) : TRUE]
             f == [x \in D |-> pick[rank[x] + 1][x]]
  <1>3. \A n \in Nat : pick[n] \in Good(n)
    BY <1>1
  <1> HIDE DEF pick
  <1>4. \A x \in D : /\ rank[x] \in Nat /\ rank[x] + 1 \in Nat
                     /\ pick[rank[x] + 1] \in Good(rank[x] + 1)
    BY <1>3
  <1>5. f \in [D -> V]
    BY <1>4
  <1>6. ASSUME NEW x \in D PROVE f[x] = Phi[f][x]
    <2> DEFINE g == pick[rank[x] + 1]
    <2>1. g \in Good(rank[x] + 1) /\ f[x] = g[x]
      BY <1>4
    <2>2. ASSUME NEW y \in D, rank[y] < rank[x] PROVE f[y] = g[y]
      <3> DEFINE h == pick[rank[y] + 1]
      <3>1. h \in Good(rank[y] + 1) /\ f[y] = h[y]
        BY <1>4
      <3>2. g \in Good(rank[y] + 1)
        <4>1. \A z \in D : rank[z] < rank[y] + 1 => rank[z] < rank[x] + 1
          BY <1>4, <2>2
        <4>2. g \in [D -> V] /\ \A z \in D : rank[z] < rank[x] + 1 => g[z] = Phi[g][z]
          BY <2>1
        <4> HIDE DEF g
        <4> QED
          BY <4>1, <4>2
      <3>3. rank[y] + 1 \in Nat /\ rank[y] < rank[y] + 1
        BY <1>4
      <3> HIDE DEF g, h, f
      <3>4. Alike(g, h, rank[y] + 1)
        BY <1>2, <3>1, <3>2, <3>3
      <3> QED
        BY <3>1, <3>3, <3>4
    <2>3. g[x] = Phi[g][x] /\ g \in [D -> V]
      BY <1>4, <2>1
    <2> HIDE DEF g, f
    <2> QED
      BY <1>5, <2>1, <2>2, <2>3
  <1> HIDE DEF f
  <1>7. f = Phi[f]
    BY <1>5, <1>6
  <1> QED
    BY <1>5, <1>7

\* A definition on 1..(N + 1) that looks upwards only: the loops over the rest
\* of a sequence.
LooksUp(N, V, Phi) ==
  /\ Phi \in [[1..(N + 1) -> V] -> [1..(N + 1) -> V]]
  /\ V # {}
  /\ \A g, h \in [1..(N + 1) -> V] : \A n \in 1..(N + 1) :
       (\A m \in (n + 1)..(N + 1) : g[m] = h[m]) => Phi[g][n] = Phi[h][n]

\* It defines a function too.
LEMMA UpwardRecursion ==
  ASSUME NEW N \in Nat, NEW V, NEW Phi, LooksUp(N, V, Phi)
  PROVE  \E f \in [1..(N + 1) -> V] : f = Phi[f]
  <1> DEFINE D == 1..(N + 1)
             rank == [n \in D |-> N + 1 - n]
  <1>1. rank \in [D -> Nat]
    OBVIOUS
  <1>2. [D -> V] # {}
    <2>1. PICK v : v \in V
      BY DEF LooksUp
    <2>2. [n \in D |-> v] \in [D -> V]
      BY <2>1
    <2> QED
      BY <2>2
  <1>3. ASSUME NEW g \in [D -> V], NEW h \in [D -> V], NEW x \in D,
               \A y \in D : rank[y] < rank[x] => g[y] = h[y]
        PROVE  Phi[g][x] = Phi[h][x]
    <2>1. ASSUME NEW y \in (x + 1)..(N + 1) PROVE g[y] = h[y]
      <3>1. y \in D /\ rank[y] < rank[x]
        OBVIOUS
      <3> QED
        BY <1>3, <3>1
    <2> QED
      BY <2>1 DEF LooksUp
  <1>4. Phi \in [[D -> V] -> [D -> V]]
    BY DEF LooksUp
  <1> HIDE DEF D, rank
  <1>5. IsRecursion(D, V, rank, Phi)
    BY <1>1, <1>2, <1>3, <1>4 DEF IsRecursion
  <1>6. \E f \in [D -> V] : f = Phi[f]
    BY <1>5, RecursiveFunctionExists
  <1> QED
    BY <1>6 DEF D

-----------------------------------------------------------------------------
(* A table filled by backtracking, and the cuts it searches for.           *)

\* cut gives the places where P pieces of a string of length T begin, and its
\* end; F[n] holds the beginnings and ends that suit piece n.
IsCut(P, T, F, cut) ==
  /\ cut \in [1..(P + 1) -> 1..(T + 1)]
  /\ cut[1] = 1 /\ cut[P + 1] = T + 1
  /\ \A n \in 1..P : <<cut[n], cut[n + 1]>> \in F[n]

\* m[i][j]: the pieces from i on can be laid out from j on.
IsSearch(P, T, F, m) ==
  /\ m \in [1..(P + 1) -> [1..(T + 1) -> BOOLEAN]]
  /\ \A j \in 1..(T + 1) : m[P + 1][j] <=> j = T + 1
  /\ \A i \in 1..P : \A j \in 1..(T + 1) :
       m[i][j] <=> \E k \in 1..(T + 1) : <<j, k>> \in F[i] /\ m[i + 1][k]

\* The first i - 1 pieces are laid out, the others can be.
Partial(P, T, F, m, i, c) ==
  /\ c \in [1..(P + 1) -> 1..(T + 1)]
  /\ c[1] = 1
  /\ \A r \in 1..P : r < i => <<c[r], c[r + 1]>> \in F[r]
  /\ m[i][c[i]]

\* A layout of the first pieces that the table vouches for goes one piece further.
LEMMA PartialGrows ==
  ASSUME NEW P \in Nat, NEW T \in Nat, NEW F, NEW m, IsSearch(P, T, F, m),
         NEW i \in 1..P, NEW c, Partial(P, T, F, m, i, c)
  PROVE  \E d : Partial(P, T, F, m, i + 1, d)
  <1>1. c \in [1..(P + 1) -> 1..(T + 1)] /\ c[i] \in 1..(T + 1)
    BY DEF Partial
  <1>2. PICK k \in 1..(T + 1) : <<c[i], k>> \in F[i] /\ m[i + 1][k]
    <2>1. m[i][c[i]]
      BY DEF Partial
    <2>2. \A j \in 1..(T + 1) :
            m[i][j] => \E k \in 1..(T + 1) : <<j, k>> \in F[i] /\ m[i + 1][k]
      BY DEF IsSearch
    <2> QED
      BY <1>1, <2>1, <2>2
  <1> DEFINE d == [c EXCEPT ![i + 1] = k]
  <1>3. /\ d \in [1..(P + 1) -> 1..(T + 1)]
        /\ d[i + 1] = k
        /\ \A r \in 1..(P + 1) : r < i + 1 => d[r] = c[r]
    BY <1>1
  <1> HIDE DEF d
  <1>4. d[1] = 1
    BY <1>3 DEF Partial
  <1>5. ASSUME NEW r \in 1..P, r < i + 1 PROVE <<d[r], d[r + 1]>> \in F[r]
    <2>1. CASE r = i
      <3>1. d[i] = c[i]
        BY <1>3
      <3> QED
        BY <1>2, <1>3, <2>1, <3>1
    <2>2. CASE r < i
      <3>1. r + 1 \in 1..(P + 1) /\ r + 1 < i + 1
        BY <2>2
      <3>2. d[r] = c[r] /\ d[r + 1] = c[r + 1]
        BY <1>3, <1>5, <3>1
      <3> QED
        BY <2>2, <3>2 DEF Partial
    <2> QED
      BY <1>5, <2>1, <2>2
  <1> QED
    BY <1>2, <1>3, <1>4, <1>5 DEF Partial

\* Backtracking finds a cut exactly when there is one.
LEMMA SearchFindsCut ==
  ASSUME NEW P \in Nat, NEW T \in Nat, NEW F, NEW m, IsSearch(P, T, F, m)
  PROVE  m[1][1] <=> \E cut : IsCut(P, T, F, cut)
  <1>1. ASSUME m[1][1] PROVE \E cut : IsCut(P, T, F, cut)
    <2> DEFINE U == {n \in Nat : n <= P => \E c : Partial(P, T, F, m, n + 1, c)}
    <2>1. 0 \in U
      <3>1. Partial(P, T, F, m, 1, [r \in 1..(P + 1) |-> 1])
        BY <1>1 DEF Partial
      <3> QED
        BY <3>1
    <2>2. ASSUME NEW n \in Nat, n \in U PROVE n + 1 \in U
      <3>1. SUFFICES ASSUME n + 1 <= P
                     PROVE  \E c : Partial(P, T, F, m, (n + 1) + 1, c)
        OBVIOUS
      <3>2. PICK c : Partial(P, T, F, m, n + 1, c)
        BY <2>2, <3>1
      <3>3. n + 1 \in 1..P
        BY <3>1
      <3> QED
        BY <3>2, <3>3, PartialGrows
    <2>3. Nat \subseteq U
      <3> HIDE DEF U
      <3> QED
        BY <2>1, <2>2, Induction
    <2>4. PICK c : Partial(P, T, F, m, P + 1, c)
      BY <2>3
    <2>5. c[P + 1] = T + 1
      BY <2>4 DEF IsSearch, Partial
    <2>6. IsCut(P, T, F, c)
      BY <2>4, <2>5 DEF IsCut, Partial
    <2> QED
      BY <2>6
  <1>2. ASSUME NEW cut, IsCut(P, T, F, cut) PROVE m[1][1]
    <2> DEFINE U == {d \in Nat : \A i \in 1..(P + 1) : i + d = P + 1 => m[i][cut[i]]}
    <2>1. 0 \in U
      BY <1>2 DEF IsCut, IsSearch
    <2>2. ASSUME NEW d \in Nat, d \in U PROVE d + 1 \in U
      <3>1. SUFFICES ASSUME NEW i \in 1..(P + 1), i + (d + 1) = P + 1
                     PROVE  m[i][cut[i]]
        OBVIOUS
      <3>2. i \in 1..P /\ i + 1 \in 1..(P + 1) /\ (i + 1) + d = P + 1
        BY <3>1
      <3>3. m[i + 1][cut[i + 1]]
        BY <2>2, <3>2
      <3>4. cut[i] \in 1..(T + 1) /\ cut[i + 1] \in 1..(T + 1) /\ <<cut[i], cut[i + 1]>> \in F[i]
        BY <1>2, <3>2 DEF IsCut
      <3> QED
        BY <3>2, <3>3, <3>4 DEF IsSearch
    <2>3. P \in U
      <3> HIDE DEF U
      <3> QED
        BY <2>1, <2>2, Induction
    <2>4. 1 + P = P + 1 /\ 1 \in 1..(P + 1)
      OBVIOUS
    <2>5. m[1][cut[1]]
      BY <2>3, <2>4
    <2> QED
      BY <1>2, <2>5 DEF IsCut
  <1> QED
    BY <1>1, <1>2

-----------------------------------------------------------------------------
(* From cuts to the lengths of the pieces.                                 *)

\* end[n] is where the first n pieces end, given their lengths.
IsEnds(P, len, end) ==
  /\ end \in [0..P -> Nat]
  /\ end[0] = 0
  /\ \A n \in 1..P : end[n] = end[n - 1] + len[n]

\* The recursive definition of the ends defines them.
LEMMA EndsExist ==
  ASSUME NEW P \in Nat, NEW len \in [1..P -> Nat]
  PROVE  LET end[n \in 0..P] == IF n = 0 THEN 0 ELSE end[n - 1] + len[n]
         IN  IsEnds(P, len, end)
  <1> DEFINE D == 0..P
             rank == [n \in D |-> n]
             body(f, n) == IF n = 0 THEN 0 ELSE f[n - 1] + len[n]
             Phi == [f \in [D -> Nat] |-> [n \in D |-> body(f, n)]]
             end[n \in 0..P] == body(end, n)
  <1>1. SUFFICES IsEnds(P, len, end)
    OBVIOUS
  <1> HIDE DEF end
  <1>2. \A f \in [D -> Nat] : [n \in D |-> body(f, n)] \in [D -> Nat]
    OBVIOUS
  <1>3. \A f, g \in [D -> Nat] : \A x \in D :
          (\A y \in D : rank[y] < rank[x] => f[y] = g[y]) => body(f, x) = body(g, x)
    <2> SUFFICES ASSUME NEW f \in [D -> Nat], NEW g \in [D -> Nat], NEW x \in D,
                        \A y \in D : rank[y] < rank[x] => f[y] = g[y]
                 PROVE  body(f, x) = body(g, x)
      OBVIOUS
    <2>1. x # 0 => x - 1 \in D /\ rank[x - 1] < rank[x]
      OBVIOUS
    <2> QED
      BY <2>1
  <1>4. rank \in [D -> Nat]
    OBVIOUS
  <1>5. [n \in D |-> 0] \in [D -> Nat]
    OBVIOUS
  <1> HIDE DEF D, rank, body
  <1>7. \A f \in [D -> Nat] : Phi[f] = [n \in D |-> body(f, n)]
    OBVIOUS
  <1>6. IsRecursion(D, Nat, rank, Phi)
    <2>1. Phi \in [[D -> Nat] -> [D -> Nat]]
      BY <1>2
    <2>2. \A f \in [D -> Nat] : \A x \in D : Phi[f][x] = body(f, x)
      BY <1>7
    <2> HIDE DEF Phi
    <2>3. \A f, g \in [D -> Nat] : \A x \in D :
            (\A y \in D : rank[y] < rank[x] => f[y] = g[y]) => Phi[f][x] = Phi[g][x]
      <3> SUFFICES ASSUME NEW f \in [D -> Nat], NEW g \in [D -> Nat], NEW x \in D,
                          \A y \in D : rank[y] < rank[x] => f[y] = g[y]
                   PROVE  Phi[f][x] = Phi[g][x]
        OBVIOUS
      <3>1. body(f, x) = body(g, x)
        BY <1>3
      <3> QED
        BY <2>2, <3>1
    <2>4. [D -> Nat] # {}
      BY <1>5
    <2> QED
      BY <1>4, <2>1, <2>3, <2>4 DEF IsRecursion
  <1> HIDE DEF Phi
  <1>8. \E f \in [D -> Nat] : f = Phi[f]
    BY <1>6, RecursiveFunctionExists
  <1>9. \E f : f = [n \in D |-> body(f, n)]
    BY <1>7, <1>8, ZenonT(40)
  <1>10. end = [n \in D |-> body(end, n)]
    BY <1>9 DEF end, D
  <1>11. \E f \in [D -> Nat] : f = [n \in D |-> body(f, n)]
    BY <1>7, <1>8
  <1>12. \A n \in 0..P : end[n] = IF n = 0 THEN 0 ELSE end[n - 1] + len[n]
    BY <1>10 DEF D, body
  <1>13. end[0] = 0 /\ \A n \in 1..P : end[n] = end[n - 1] + len[n]
    BY <1>12
  <1>14. \A n \in Nat : n <= P => end[n] \in Nat
    <2> DEFINE U == {n \in Nat : n <= P => end[n] \in Nat}
    <2>1. 0 \in U
      BY <1>13
    <2>2. ASSUME NEW n \in Nat, n \in U PROVE n + 1 \in U
      <3>1. n + 1 <= P => end[n + 1] = end[n] + len[n + 1] /\ len[n + 1] \in Nat
        BY <1>13
      <3> QED
        BY <2>2, <3>1
    <2> HIDE DEF U
    <2>3. Nat \subseteq U
      BY <2>1, <2>2, Induction
    <2> QED
      BY <2>3 DEF U
  <1>15. end \in [0..P -> Nat]
    BY <1>10, <1>14 DEF D
  <1> QED
    BY <1>13, <1>15 DEF IsEnds

\* What F holds are pieces of at least least elements.
Proper(P, T, F, least) ==
  \A n \in 1..P : \A a, b \in 1..(T + 1) : <<a, b>> \in F[n] => a + least <= b

IsLayout(P, T, F, len, end) ==
  /\ IsEnds(P, len, end)
  /\ end[P] = T
  /\ \A n \in 1..P : <<end[n - 1] + 1, end[n] + 1>> \in F[n]

\* No piece ends behind the last.
LEMMA EndsGrow ==
  ASSUME NEW P \in Nat, NEW len \in [1..P -> Nat], NEW end, IsEnds(P, len, end),
         NEW n \in 0..P
  PROVE  end[n] <= end[P]
  <1> DEFINE U == {d \in Nat : n + d <= P => end[n] <= end[n + d]}
  <1>1. 0 \in U
    BY DEF IsEnds
  <1>2. ASSUME NEW d \in Nat, d \in U PROVE d + 1 \in U
    <2>1. n + (d + 1) <= P => end[n + (d + 1)] = end[n + d] + len[n + (d + 1)]
      BY DEF IsEnds
    <2> QED
      BY <1>2, <2>1, SMTT(40) DEF IsEnds
  <1>3. P - n \in U
    <2>1. P - n \in Nat
      OBVIOUS
    <2> HIDE DEF U
    <2>2. Nat \subseteq U
      BY <1>1, <1>2, Induction
    <2> QED
      BY <2>1, <2>2
  <1>4. n + (P - n) = P
    OBVIOUS
  <1> QED
    BY <1>3, <1>4

\* The ends of the pieces are a cut.
LEMMA LayoutIsCut ==
  ASSUME NEW P \in Nat, NEW T \in Nat, NEW F, NEW len \in [1..P -> Nat],
         NEW end, IsLayout(P, T, F, len, end)
  PROVE  \E cut : IsCut(P, T, F, cut)
  <1> DEFINE cut == [n \in 1..(P + 1) |-> end[n - 1] + 1]
  <1>1. \A n \in 0..P : end[n] \in Nat /\ end[n] <= T
    BY EndsGrow DEF IsLayout, IsEnds
  <1>2. cut \in [1..(P + 1) -> 1..(T + 1)]
    BY <1>1
  <1>3. cut[1] = 1 /\ cut[P + 1] = T + 1
    BY DEF IsLayout, IsEnds
  <1>4. ASSUME NEW n \in 1..P PROVE <<cut[n], cut[n + 1]>> \in F[n]
    <2>1. cut[n] = end[n - 1] + 1 /\ cut[n + 1] = end[n] + 1
      OBVIOUS
    <2> QED
      BY <2>1 DEF IsLayout
  <1> HIDE DEF cut
  <1>5. IsCut(P, T, F, cut)
    BY <1>2, <1>3, <1>4 DEF IsCut
  <1> QED
    BY <1>5

\* The lengths of the pieces of a cut lie within the bounds of Splits, and their
\* ends are the cut.
LEMMA CutIsLayout ==
  ASSUME NEW P \in Nat, NEW T \in Nat, NEW F, NEW least \in {0, 1},
         Proper(P, T, F, least), NEW cut, IsCut(P, T, F, cut)
  PROVE  \E len \in [1..P -> least..(T - least * (P - 1))] :
           \A end : IsEnds(P, len, end) => IsLayout(P, T, F, len, end)
  <1> DEFINE len == [n \in 1..P |-> cut[n + 1] - cut[n]]
  <1>1. \A n \in 1..P : /\ cut[n] \in 1..(T + 1) /\ cut[n + 1] \in 1..(T + 1)
                        /\ cut[n] + least <= cut[n + 1]
    <2>1. \A n \in 1..P : /\ cut[n] \in 1..(T + 1) /\ cut[n + 1] \in 1..(T + 1)
                          /\ <<cut[n], cut[n + 1]>> \in F[n]
      BY DEF IsCut
    <2> QED
      BY <2>1 DEF Proper
  <1>2. \A n \in Nat : n <= P => cut[n + 1] - 1 >= least * n
    <2> DEFINE U == {n \in Nat : n <= P => cut[n + 1] - 1 >= least * n}
    <2>1. 0 \in U
      BY DEF IsCut
    <2>2. ASSUME NEW n \in Nat, n \in U PROVE n + 1 \in U
      <3>1. SUFFICES ASSUME n + 1 <= P PROVE cut[(n + 1) + 1] - 1 >= least * (n + 1)
        OBVIOUS
      <3>2. cut[n + 1] - 1 >= least * n
        BY <2>2, <3>1
      <3>3. n + 1 \in 1..P
        BY <3>1
      <3>4. cut[n + 1] + least <= cut[(n + 1) + 1] /\ cut[(n + 1) + 1] \in Nat /\ cut[n + 1] \in Nat
        BY <1>1, <3>3
      <3>5. CASE least = 0
        BY <3>2, <3>4, <3>5
      <3>6. CASE least = 1
        BY <3>2, <3>4, <3>6
      <3> QED
        BY <3>5, <3>6
    <2> HIDE DEF U
    <2>3. Nat \subseteq U
      BY <2>1, <2>2, Induction
    <2> QED
      BY <2>3 DEF U
  <1>3. \A d \in Nat : \A n \in 1..(P + 1) : n + d = P + 1 => T + 1 - cut[n] >= least * d
    <2> DEFINE U == {d \in Nat : \A n \in 1..(P + 1) : n + d = P + 1 => T + 1 - cut[n] >= least * d}
    <2>1. 0 \in U
      BY DEF IsCut
    <2>2. ASSUME NEW d \in Nat, d \in U PROVE d + 1 \in U
      <3>1. SUFFICES ASSUME NEW n \in 1..(P + 1), n + (d + 1) = P + 1
                     PROVE  T + 1 - cut[n] >= least * (d + 1)
        OBVIOUS
      <3>2. n \in 1..P /\ n + 1 \in 1..(P + 1) /\ (n + 1) + d = P + 1
        BY <3>1
      <3>3. T + 1 - cut[n + 1] >= least * d
        BY <2>2, <3>2
      <3>4. cut[n] + least <= cut[n + 1] /\ cut[n] \in Nat /\ cut[n + 1] \in Nat
        BY <1>1, <3>2
      <3>5. CASE least = 0
        BY <3>3, <3>4, <3>5
      <3>6. CASE least = 1
        BY <3>3, <3>4, <3>6
      <3> QED
        BY <3>5, <3>6
    <2> HIDE DEF U
    <2>3. Nat \subseteq U
      BY <2>1, <2>2, Induction
    <2> QED
      BY <2>3 DEF U
  <1>4. ASSUME NEW n \in 1..P PROVE len[n] \in least..(T - least * (P - 1))
    <2>1. cut[n] - 1 >= least * (n - 1)
      <3>1. n - 1 \in Nat /\ n - 1 <= P /\ (n - 1) + 1 = n
        OBVIOUS
      <3> QED
        BY <1>2, <3>1
    <2>2. T + 1 - cut[n + 1] >= least * (P - n)
      <3>1. P - n \in Nat /\ n + 1 \in 1..(P + 1) /\ (n + 1) + (P - n) = P + 1
        OBVIOUS
      <3> QED
        BY <1>3, <3>1
    <2>3. CASE least = 0
      BY <1>1, <2>1, <2>2, <2>3
    <2>4. CASE least = 1
      BY <1>1, <2>1, <2>2, <2>4
    <2> QED
      BY <2>3, <2>4
  <1>5. len \in [1..P -> least..(T - least * (P - 1))]
    BY <1>4
  <1>6. ASSUME NEW end, IsEnds(P, len, end) PROVE IsLayout(P, T, F, len, end)
    <2> DEFINE U == {n \in Nat : n <= P => end[n] = cut[n + 1] - 1}
    <2>1. 0 \in U
      BY <1>6 DEF IsCut, IsEnds
    <2>2. ASSUME NEW n \in Nat, n \in U PROVE n + 1 \in U
      <3>1. SUFFICES ASSUME n + 1 <= P PROVE end[n + 1] = cut[(n + 1) + 1] - 1
        OBVIOUS
      <3>2. n + 1 \in 1..P /\ (n + 1) - 1 = n
        BY <3>1
      <3>3. end[n + 1] = end[n] + len[n + 1]
        BY <1>6, <3>2 DEF IsEnds
      <3>4. end[n] = cut[n + 1] - 1
        BY <2>2, <3>1
      <3>5. len[n + 1] = cut[(n + 1) + 1] - cut[n + 1]
        BY <3>2
      <3> QED
        BY <1>1, <3>2, <3>3, <3>4, <3>5
    <2>3. Nat \subseteq U
      <3> HIDE DEF U
      <3> QED
        BY <2>1, <2>2, Induction
    <2>4. \A n \in 0..P : end[n] = cut[n + 1] - 1
      BY <2>3
    <2>5. end[P] = T
      BY <2>4 DEF IsCut
    <2>6. ASSUME NEW n \in 1..P PROVE <<end[n - 1] + 1, end[n] + 1>> \in F[n]
      <3>1. n - 1 \in 0..P /\ n \in 0..P /\ (n - 1) + 1 = n
        OBVIOUS
      <3>2. end[n - 1] = cut[n] - 1 /\ end[n] = cut[n + 1] - 1
        BY <2>4, <3>1
      <3>3. end[n - 1] + 1 = cut[n] /\ end[n] + 1 = cut[n + 1]
        BY <1>1, <3>2
      <3> QED
        BY <3>3 DEF IsCut
    <2> QED
      BY <1>6, <2>5, <2>6 DEF IsLayout
  <1> HIDE DEF len
  <1> QED
    BY <1>5, <1>6

-----------------------------------------------------------------------------
(* A token of a pattern on a token of a target.                            *)

Token == Seq(STRING)

\* The table that MatchToken computes.
CharStep(at, p, t, i, j) ==
  \/ p[i] = "*" /\ \E k \in j..(Len(t) + 1) : at[i + 1][k]
  \/ /\ p[i] \in Special
     /\ \E w \in Words[p[i]] :
          IsPrefix(w, Drop(t, j - 1)) /\ at[i + 1][j + Len(w)]
  \/ /\ p[i] \notin {"*"} \cup Special
     /\ j <= Len(t) /\ t[j] = p[i] /\ at[i + 1][j + 1]

CharTable(at, p, t) ==
  /\ at \in [1..(Len(p) + 1) -> [1..(Len(t) + 1) -> BOOLEAN]]
  /\ \A i \in 1..(Len(p) + 1) : \A j \in 1..(Len(t) + 1) :
       at[i][j] <=> IF i > Len(p) THEN j > Len(t) ELSE CharStep(at, p, t, i, j)

\* A word that comes next in t ends within t.
LEMMA PrefixFits ==
  ASSUME NEW t \in Token, NEW w \in Token, NEW j \in 1..(Len(t) + 1)
  PROVE  IsPrefix(w, Drop(t, j - 1))
           <=> /\ j + Len(w) \in j..(Len(t) + 1)
               /\ \A n \in 1..Len(w) : t[j + n - 1] = w[n]
  <1> QED BY DEF IsPrefix, Drop, Token

\* MatchToken reads the first cell of the table of its recursive definition.
LEMMA MatchTokenTable ==
  ASSUME NEW p \in Token, NEW t \in Token
  PROVE  \E at : CharTable(at, p, t) /\ MatchToken(p, t) = at[1][1]
  <1> DEFINE N == Len(p)
             V == [1..(Len(t) + 1) -> BOOLEAN]
             row(a, i) ==
               [j \in 1..(Len(t) + 1) |->
                  IF i > Len(p) THEN j > Len(t) ELSE CharStep(a, p, t, i, j)]
             at[i \in 1..(Len(p) + 1)] == row(at, i)
  <1>1. MatchToken(p, t) = at[1][1]
    BY DEF MatchToken, CharStep
  <1>2. N \in Nat /\ Len(t) \in Nat
    BY DEF Token
  <1> HIDE DEF at
  <1>9. \A a : \A i : row(a, i) \in V
    <2>1. \A a : \A i : \A j : CharStep(a, p, t, i, j) \in BOOLEAN
      BY DEF CharStep
    <2>2. \A a : \A i : \A j \in 1..(Len(t) + 1) :
            (IF i > Len(p) THEN j > Len(t) ELSE CharStep(a, p, t, i, j)) \in BOOLEAN
      <3> SUFFICES ASSUME NEW a, NEW i, NEW j \in 1..(Len(t) + 1)
                   PROVE  (IF i > Len(p) THEN j > Len(t) ELSE CharStep(a, p, t, i, j)) \in BOOLEAN
        OBVIOUS
      <3>1. CASE i > Len(p)
        BY <3>1
      <3>2. CASE ~(i > Len(p))
        BY <2>1, <3>2
      <3> QED
        BY <3>1, <3>2
    <2> QED
      BY <2>2
  <1>3. \E f \in [1..(N + 1) -> V] : f = [i \in 1..(N + 1) |-> row(f, i)]
    <2> DEFINE Phi == [g \in [1..(N + 1) -> V] |-> [i \in 1..(N + 1) |-> row(g, i)]]
    <2>1. \A g : \A i : row(g, i) \in V
      BY <1>9
    <2>2. \A g, h \in [1..(N + 1) -> V] : \A i \in 1..(N + 1) :
            (\A m \in (i + 1)..(N + 1) : g[m] = h[m]) => row(g, i) = row(h, i)
      <3> SUFFICES ASSUME NEW g \in [1..(N + 1) -> V], NEW h \in [1..(N + 1) -> V],
                          NEW i \in 1..(N + 1),
                          \A m \in (i + 1)..(N + 1) : g[m] = h[m]
                   PROVE  row(g, i) = row(h, i)
        OBVIOUS
      <3>1. CASE i > Len(p)
        BY <3>1
      <3>2. CASE ~(i > Len(p))
        <4>1. g[i + 1] = h[i + 1]
          BY <1>2, <3>2
        <4> QED
          BY <4>1 DEF CharStep
      <3> QED
        BY <3>1, <3>2
    <2>3. V # {}
      <3>1. [j \in 1..(Len(t) + 1) |-> TRUE] \in V
        OBVIOUS
      <3> QED
        BY <3>1
    <2> HIDE DEF V, row
    <2>4. LooksUp(N, V, Phi)
      BY <2>1, <2>2, <2>3 DEF LooksUp
    <2>5. \A g \in [1..(N + 1) -> V] : Phi[g] = [i \in 1..(N + 1) |-> row(g, i)]
      OBVIOUS
    <2> HIDE DEF Phi, N
    <2>6. \E f \in [1..(N + 1) -> V] : f = Phi[f]
      BY <1>2, <2>4, UpwardRecursion
    <2> QED
      BY <2>5, <2>6
  <1>4. at = [i \in 1..(N + 1) |-> row(at, i)]
    BY <1>3 DEF at
  <1>5. CharTable(at, p, t)
    <2>1. at \in [1..(N + 1) -> V]
      <3>1. \A i : row(at, i) \in V
        BY <1>9
      <3> HIDE DEF row, V
      <3> QED
        BY <1>4, <3>1
    <2>2. ASSUME NEW i \in 1..(N + 1), NEW j \in 1..(Len(t) + 1)
          PROVE  at[i][j] <=> IF i > Len(p) THEN j > Len(t)
                              ELSE CharStep(at, p, t, i, j)
      <3>1. at[i] = row(at, i)
        BY <1>4
      <3> QED
        BY <3>1 DEF CharStep
    <2> QED
      BY <2>1, <2>2 DEF CharTable
  <1> QED
    BY <1>1, <1>5

\* A word is a piece of t exactly when it comes next there.
LEMMA WordPiece ==
  ASSUME NEW t \in Token, NEW w \in Token,
         NEW j \in 1..(Len(t) + 1), NEW k \in 1..(Len(t) + 1), j <= k
  PROVE  SubSeq(t, j, k - 1) = w <=> k = j + Len(w) /\ IsPrefix(w, Drop(t, j - 1))
  <1> DEFINE s == SubSeq(t, j, k - 1)
  <1>1. s \in Token /\ Len(s) = k - j /\ \A n \in 1..(k - j) : s[n] = t[j + n - 1]
    BY DEF Token
  <1>2. IsPrefix(w, Drop(t, j - 1))
           <=> /\ j + Len(w) \in j..(Len(t) + 1)
               /\ \A n \in 1..Len(w) : t[j + n - 1] = w[n]
    BY PrefixFits
  <1>3. Len(w) \in Nat /\ Len(t) \in Nat
    BY DEF Token
  <1> HIDE DEF s
  <1>4. ASSUME s = w PROVE k = j + Len(w) /\ IsPrefix(w, Drop(t, j - 1))
    <2>1. k = j + Len(w)
      BY <1>1, <1>3, <1>4
    <2>2. \A n \in 1..Len(w) : t[j + n - 1] = w[n]
      BY <1>1, <1>3, <1>4
    <2> QED
      BY <1>2, <1>3, <2>1, <2>2
  <1>5. ASSUME k = j + Len(w), IsPrefix(w, Drop(t, j - 1)) PROVE s = w
    <2>1. Len(s) = Len(w)
      BY <1>1, <1>3, <1>5
    <2>2. \A n \in 1..Len(w) : s[n] = w[n]
      BY <1>1, <1>2, <1>3, <1>5
    <2> QED
      BY <1>1, <2>1, <2>2, SeqEqual DEF Token
  <1> QED
    BY <1>4, <1>5 DEF s

\* The pieces of t that fit the characters of p.
CharPieces(p, t) ==
  [n \in 1..Len(p) |->
     {ab \in (1..(Len(t) + 1)) \X (1..(Len(t) + 1)) :
        ab[1] <= ab[2] /\ CharFits(p[n], SubSeq(t, ab[1], ab[2] - 1))}]

\* The table of matchTokenAt is a search for the pieces that fit the characters.
LEMMA CharTableSearches ==
  ASSUME NEW p \in Token, NEW t \in Token, NEW at, CharTable(at, p, t)
  PROVE  IsSearch(Len(p), Len(t), CharPieces(p, t), at)
  <1> DEFINE P == Len(p)
             T == Len(t)
             F == CharPieces(p, t)
  <1>1. P \in Nat /\ T \in Nat
    BY DEF Token
  <1>2. \A j \in 1..(T + 1) : at[P + 1][j] <=> j = T + 1
    BY <1>1 DEF CharTable
  <1>3. ASSUME NEW i \in 1..P, NEW j \in 1..(T + 1)
        PROVE  at[i][j] <=> \E k \in 1..(T + 1) : <<j, k>> \in F[i] /\ at[i + 1][k]
    <2>1. at[i][j] <=> CharStep(at, p, t, i, j)
      BY <1>1 DEF CharTable
    <2>2. \A k \in 1..(T + 1) :
            <<j, k>> \in F[i] <=> j <= k /\ CharFits(p[i], SubSeq(t, j, k - 1))
      BY DEF CharPieces
    <2>3. p[i] \in STRING
      BY DEF Token
    <2>4. \A w \in Token : \A k \in 1..(T + 1) : j <= k =>
            (SubSeq(t, j, k - 1) = w <=> k = j + Len(w) /\ IsPrefix(w, Drop(t, j - 1)))
      BY WordPiece
    <2>5. \A w \in Token : IsPrefix(w, Drop(t, j - 1)) => j + Len(w) \in j..(T + 1)
      BY PrefixFits
    <2> HIDE DEF F, P, T
    <2>6. CASE p[i] = "*"
      <3>1. \A k \in 1..(T + 1) : <<j, k>> \in F[i] <=> j <= k
        BY <2>2, <2>6 DEF CharFits
      <3>2. CharStep(at, p, t, i, j) <=> \E k \in j..(T + 1) : at[i + 1][k]
        <4>1. \A w \in Token : IsPrefix(w, Drop(t, j - 1)) => j + Len(w) \in j..(T + 1)
          BY <2>5
        <4>2. p[i] \in Special => \A w \in Words[p[i]] : w \in Token
          BY WordsAssumption DEF Token
        <4> QED
          BY <2>6, <4>1, <4>2 DEF CharStep, T
      <3>3. (\E k \in j..(T + 1) : at[i + 1][k]) <=> \E k \in 1..(T + 1) : j <= k /\ at[i + 1][k]
        BY <1>1
      <3> QED
        BY <2>1, <3>1, <3>2, <3>3
    <2>7. CASE p[i] # "*" /\ p[i] \in Special
      <3>1. \A w \in Words[p[i]] : w \in Token
        BY <2>7, WordsAssumption DEF Token
      <3>2. \A k \in 1..(T + 1) :
              <<j, k>> \in F[i] <=> j <= k /\ SubSeq(t, j, k - 1) \in Words[p[i]]
        BY <2>2, <2>7 DEF CharFits, Special
      <3>3. CharStep(at, p, t, i, j) <=>
              \E w \in Words[p[i]] : IsPrefix(w, Drop(t, j - 1)) /\ at[i + 1][j + Len(w)]
        BY <2>7 DEF CharStep
      <3>4. ASSUME NEW w \in Words[p[i]], IsPrefix(w, Drop(t, j - 1)), at[i + 1][j + Len(w)]
            PROVE  \E k \in 1..(T + 1) : <<j, k>> \in F[i] /\ at[i + 1][k]
        <4>1. w \in Token
          BY <3>1
        <4> DEFINE k == j + Len(w)
        <4>2. k \in 1..(T + 1) /\ j <= k
          BY <1>1, <2>5, <3>4, <4>1
        <4>3. at[i + 1][k]
          BY <3>4
        <4> HIDE DEF k
        <4>4. SubSeq(t, j, k - 1) = w
          BY <2>4, <3>4, <4>1, <4>2 DEF k
        <4> QED
          BY <3>2, <4>2, <4>3, <4>4
      <3>5. ASSUME NEW k \in 1..(T + 1), <<j, k>> \in F[i], at[i + 1][k]
            PROVE  \E w \in Words[p[i]] : IsPrefix(w, Drop(t, j - 1)) /\ at[i + 1][j + Len(w)]
        <4> DEFINE w == SubSeq(t, j, k - 1)
        <4>1. w \in Words[p[i]] /\ j <= k
          BY <3>2, <3>5
        <4> HIDE DEF w
        <4>2. k = j + Len(w) /\ IsPrefix(w, Drop(t, j - 1))
          BY <2>4, <3>1, <4>1 DEF w
        <4> QED
          BY <3>5, <4>1, <4>2
      <3> QED
        BY <2>1, <3>3, <3>4, <3>5
    <2>8. CASE p[i] # "*" /\ p[i] \notin Special
      <3> DEFINE w == <<p[i]>>
      <3>1. w \in Token /\ Len(w) = 1 /\ w[1] = p[i]
        BY <2>3 DEF Token
      <3>2. \A k \in 1..(T + 1) :
              <<j, k>> \in F[i] <=> j <= k /\ SubSeq(t, j, k - 1) = w
        BY <2>2, <2>8 DEF CharFits, Special
      <3>3. IsPrefix(w, Drop(t, j - 1)) <=> j + 1 \in j..(T + 1) /\ t[j] = p[i]
        <4>1. IsPrefix(w, Drop(t, j - 1))
                <=> /\ j + Len(w) \in j..(Len(t) + 1)
                    /\ \A n \in 1..Len(w) : t[j + n - 1] = w[n]
          BY <3>1, PrefixFits DEF T
        <4>2. (\A n \in 1..Len(w) : t[j + n - 1] = w[n]) <=> t[j] = p[i]
          BY <3>1
        <4> HIDE DEF w
        <4> QED
          BY <3>1, <4>1, <4>2 DEF T
      <3>4. CharStep(at, p, t, i, j) <=> j <= T /\ t[j] = p[i] /\ at[i + 1][j + 1]
        BY <2>8 DEF CharStep, T
      <3> HIDE DEF w
      <3>5. j <= T <=> j + 1 \in 1..(T + 1)
        BY <1>1
      <3>6. ASSUME NEW k \in 1..(T + 1)
            PROVE  <<j, k>> \in F[i] <=> k = j + 1 /\ t[j] = p[i]
        <4>1. j <= k => (SubSeq(t, j, k - 1) = w <=> k = j + 1 /\ IsPrefix(w, Drop(t, j - 1)))
          BY <2>4, <3>1
        <4>2. k = j + 1 => j <= k /\ j + 1 \in j..(T + 1)
          BY <1>1
        <4> QED
          BY <3>2, <3>3, <4>1, <4>2
      <3> QED
        BY <2>1, <3>4, <3>5, <3>6
    <2> QED
      BY <2>6, <2>7, <2>8
  <1>4. at \in [1..(P + 1) -> [1..(T + 1) -> BOOLEAN]]
    BY DEF CharTable
  <1> QED
    BY <1>2, <1>3, <1>4 DEF IsSearch

\* There is a cut exactly when there are lengths whose ends are one.
LEMMA CutIffLayout ==
  ASSUME NEW P \in Nat, NEW T \in Nat, NEW F, NEW least \in {0, 1},
         Proper(P, T, F, least)
  PROVE  (\E cut : IsCut(P, T, F, cut))
           <=> \E len \in [1..P -> least..(T - least * (P - 1))] :
                 LET end[n \in 0..P] == IF n = 0 THEN 0 ELSE end[n - 1] + len[n]
                 IN  IsLayout(P, T, F, len, end)
  <1>1. ASSUME NEW len \in [1..P -> least..(T - least * (P - 1))]
        PROVE  len \in [1..P -> Nat]
    <2>1. least \in Nat
      OBVIOUS
    <2>2. \A l \in least..(T - least * (P - 1)) : l \in Nat
      <3>1. CASE least = 0
        BY <3>1
      <3>2. CASE least = 1
        BY <3>2
      <3> QED
        BY <3>1, <3>2
    <2> QED
      BY <2>2
  <1>2. ASSUME NEW cut, IsCut(P, T, F, cut)
        PROVE  \E len \in [1..P -> least..(T - least * (P - 1))] :
                 LET end[n \in 0..P] == IF n = 0 THEN 0 ELSE end[n - 1] + len[n]
                 IN  IsLayout(P, T, F, len, end)
    <2>1. PICK len \in [1..P -> least..(T - least * (P - 1))] :
            \A end : IsEnds(P, len, end) => IsLayout(P, T, F, len, end)
      BY <1>2, CutIsLayout
    <2> DEFINE end[n \in 0..P] == IF n = 0 THEN 0 ELSE end[n - 1] + len[n]
    <2>2. IsEnds(P, len, end)
      BY <1>1, EndsExist
    <2>3. SUFFICES IsLayout(P, T, F, len, end)
      OBVIOUS
    <2> HIDE DEF end
    <2> QED
      BY <2>1, <2>2
  <1>3. ASSUME NEW len \in [1..P -> least..(T - least * (P - 1))],
               LET end[n \in 0..P] == IF n = 0 THEN 0 ELSE end[n - 1] + len[n]
               IN  IsLayout(P, T, F, len, end)
        PROVE  \E cut : IsCut(P, T, F, cut)
    <2> DEFINE end[n \in 0..P] == IF n = 0 THEN 0 ELSE end[n - 1] + len[n]
    <2>1. IsLayout(P, T, F, len, end)
      BY <1>3
    <2>2. len \in [1..P -> Nat]
      BY <1>1
    <2> HIDE DEF end
    <2> QED
      BY <2>1, <2>2, LayoutIsCut
  <1> QED
    BY <1>2, <1>3

\* Where the pieces of a layout lie.
LEMMA EndsInside ==
  ASSUME NEW P \in Nat, NEW T \in Nat, NEW len \in [1..P -> Nat], NEW end,
         IsEnds(P, len, end), end[P] = T, NEW n \in 1..P, NEW least \in {0, 1},
         len[n] >= least
  PROVE  end[n - 1] \in 0..T /\ end[n] \in 0..T /\ end[n - 1] + least <= end[n]
  <1>1. \A k \in 0..P : end[k] \in Nat /\ end[k] <= end[P]
    BY EndsGrow DEF IsEnds
  <1>2. n - 1 \in 0..P /\ n \in 0..P
    OBVIOUS
  <1>3. end[n] = end[n - 1] + len[n] /\ len[n] \in Nat
    BY DEF IsEnds
  <1> QED
    BY <1>1, <1>2, <1>3

\* Splits says of characters that there is a cut.
LEMMA CharCutSplits ==
  ASSUME NEW p \in Token, NEW t \in Token
  PROVE  Splits(p, t, 0, CharFits)
           <=> \E cut : IsCut(Len(p), Len(t), CharPieces(p, t), cut)
  <1> DEFINE P == Len(p)
             T == Len(t)
             F == CharPieces(p, t)
  <1>1. P \in Nat /\ T \in Nat /\ DOMAIN p = 1..P
    BY DEF Token
  <1>2. Proper(P, T, F, 0)
    BY <1>1 DEF Proper, CharPieces
  <1>3. ASSUME NEW n \in 1..P, NEW a \in 0..T, NEW b \in 0..T, a + 0 <= b
        PROVE  <<a + 1, b + 1>> \in F[n] <=> CharFits(p[n], SubSeq(t, a + 1, b))
    <2>1. a + 1 \in 1..(T + 1) /\ b + 1 \in 1..(T + 1) /\ (b + 1) - 1 = b
          /\ a + 1 + 0 <= b + 1
      BY <1>1, <1>3
    <2> QED
      BY <2>1 DEF CharPieces
  <1>4. ASSUME NEW len \in [1..P -> 0..(T - 0 * (P - 1))]
        PROVE  LET end[n \in 0..P] == IF n = 0 THEN 0 ELSE end[n - 1] + len[n]
               IN  IsLayout(P, T, F, len, end)
                     <=> /\ end[P] = T
                         /\ \A n \in 1..P : CharFits(p[n], SubSeq(t, end[n - 1] + 1, end[n]))
    <2> DEFINE end[n \in 0..P] == IF n = 0 THEN 0 ELSE end[n - 1] + len[n]
    <2>1. len \in [1..P -> Nat] /\ \A n \in 1..P : len[n] >= 0
      BY <1>1
    <2>2. IsEnds(P, len, end)
      BY <1>1, <2>1, EndsExist
    <2>3. SUFFICES IsLayout(P, T, F, len, end)
                     <=> /\ end[P] = T
                         /\ \A n \in 1..P : CharFits(p[n], SubSeq(t, end[n - 1] + 1, end[n]))
      OBVIOUS
    <2> HIDE DEF end, P, T, F
    <2>4. ASSUME end[P] = T, NEW n \in 1..P
          PROVE  end[n - 1] \in 0..T /\ end[n] \in 0..T /\ end[n - 1] + 0 <= end[n]
      BY <1>1, <2>1, <2>2, <2>4, EndsInside
    <2>5. ASSUME end[P] = T, NEW n \in 1..P
          PROVE  <<end[n - 1] + 1, end[n] + 1>> \in F[n]
                   <=> CharFits(p[n], SubSeq(t, end[n - 1] + 1, end[n]))
      BY <1>3, <2>4, <2>5
    <2> QED
      BY <2>2, <2>5 DEF IsLayout
  <1>5. Splits(p, t, 0, CharFits)
          <=> \E len \in [1..P -> 0..(T - 0 * (P - 1))] :
                LET end[n \in 0..P] == IF n = 0 THEN 0 ELSE end[n - 1] + len[n]
                IN  IsLayout(P, T, F, len, end)
    BY <1>1, <1>4 DEF Splits
  <1> HIDE DEF P, T, F
  <1>6. (\E cut : IsCut(P, T, F, cut))
          <=> \E len \in [1..P -> 0..(T - 0 * (P - 1))] :
                LET end[n \in 0..P] == IF n = 0 THEN 0 ELSE end[n - 1] + len[n]
                IN  IsLayout(P, T, F, len, end)
    BY <1>1, <1>2, CutIffLayout
  <1>7. Splits(p, t, 0, CharFits) <=> \E cut : IsCut(P, T, F, cut)
    BY <1>5, <1>6
  <1> QED
    BY <1>7 DEF P, T, F

\* MatchToken is true or false.
LEMMA MatchTokenIsBoolean ==
  ASSUME NEW p \in Token, NEW t \in Token
  PROVE  MatchToken(p, t) \in BOOLEAN
  <1>1. PICK at : CharTable(at, p, t) /\ MatchToken(p, t) = at[1][1]
    BY MatchTokenTable
  <1>2. 1 \in 1..(Len(p) + 1) /\ 1 \in 1..(Len(t) + 1)
    BY DEF Token
  <1> QED
    BY <1>1, <1>2 DEF CharTable

\* matchTokenAt finds a match exactly when the target can be cut into pieces
\* that fit the characters of the pattern.
LEMMA MatchTokenIsPartition ==
  ASSUME NEW p \in Token, NEW t \in Token
  PROVE  MatchToken(p, t) <=> Splits(p, t, 0, CharFits)
  <1>1. PICK at : CharTable(at, p, t) /\ MatchToken(p, t) = at[1][1]
    BY MatchTokenTable
  <1>2. Len(p) \in Nat /\ Len(t) \in Nat
    BY DEF Token
  <1>3. at[1][1] <=> \E cut : IsCut(Len(p), Len(t), CharPieces(p, t), cut)
    BY <1>1, <1>2, CharTableSearches, SearchFindsCut
  <1>4. at[1][1] \in BOOLEAN
    BY <1>1, <1>2 DEF CharTable
  <1> QED
    BY <1>1, <1>3, CharCutSplits

-----------------------------------------------------------------------------
(* The tokens of a pattern on those of a target.                           *)

Pattern == Seq(Token)

\* The table that MatchTokens computes.
TokenStep(from, p, t, i, j) ==
  \/ p[i] = Deep /\ \E k \in (j + 1)..(Len(t) + 1) : from[i + 1][k]
  \/ /\ p[i] # Deep /\ j <= Len(t)
     /\ IF p[i] = One THEN t[j] \notin {Slash, Colon} ELSE MatchToken(p[i], t[j])
     /\ from[i + 1][j + 1]

TokenTable(from, p, t) ==
  /\ from \in [1..(Len(p) + 1) -> [1..(Len(t) + 1) -> BOOLEAN]]
  /\ \A i \in 1..(Len(p) + 1) : \A j \in 1..(Len(t) + 1) :
       from[i][j] <=> IF i > Len(p) THEN j > Len(t) ELSE TokenStep(from, p, t, i, j)

\* MatchTokens reads the first cell of the table of its recursive definition.
LEMMA MatchTokensTable ==
  ASSUME NEW p \in Pattern, NEW t \in Pattern
  PROVE  \E from : TokenTable(from, p, t) /\ MatchTokens(p, t) = from[1][1]
  <1> DEFINE N == Len(p)
             V == [1..(Len(t) + 1) -> BOOLEAN]
             row(a, i) ==
               [j \in 1..(Len(t) + 1) |->
                  IF i > Len(p) THEN j > Len(t) ELSE TokenStep(a, p, t, i, j)]
             from[i \in 1..(Len(p) + 1)] == row(from, i)
  <1>1. MatchTokens(p, t) = from[1][1]
    BY DEF MatchTokens, TokenStep
  <1>2. N \in Nat /\ Len(t) \in Nat
    BY DEF Pattern
  <1> HIDE DEF from
  <1>9. \A a : \A i : row(a, i) \in V
    <2>1. \A a : \A i : \A j : TokenStep(a, p, t, i, j) \in BOOLEAN
      BY DEF TokenStep
    <2>2. \A a : \A i : \A j \in 1..(Len(t) + 1) :
            (IF i > Len(p) THEN j > Len(t) ELSE TokenStep(a, p, t, i, j)) \in BOOLEAN
      <3> SUFFICES ASSUME NEW a, NEW i, NEW j \in 1..(Len(t) + 1)
                   PROVE  (IF i > Len(p) THEN j > Len(t) ELSE TokenStep(a, p, t, i, j)) \in BOOLEAN
        OBVIOUS
      <3>1. CASE i > Len(p)
        BY <3>1
      <3>2. CASE ~(i > Len(p))
        BY <2>1, <3>2
      <3> QED
        BY <3>1, <3>2
    <2> QED
      BY <2>2
  <1>3. \E f \in [1..(N + 1) -> V] : f = [i \in 1..(N + 1) |-> row(f, i)]
    <2> DEFINE Phi == [g \in [1..(N + 1) -> V] |-> [i \in 1..(N + 1) |-> row(g, i)]]
    <2>1. \A g : \A i : row(g, i) \in V
      BY <1>9
    <2>2. \A g, h \in [1..(N + 1) -> V] : \A i \in 1..(N + 1) :
            (\A m \in (i + 1)..(N + 1) : g[m] = h[m]) => row(g, i) = row(h, i)
      <3> SUFFICES ASSUME NEW g \in [1..(N + 1) -> V], NEW h \in [1..(N + 1) -> V],
                          NEW i \in 1..(N + 1),
                          \A m \in (i + 1)..(N + 1) : g[m] = h[m]
                   PROVE  row(g, i) = row(h, i)
        OBVIOUS
      <3>1. CASE i > Len(p)
        BY <3>1
      <3>2. CASE ~(i > Len(p))
        <4>1. g[i + 1] = h[i + 1]
          BY <1>2, <3>2
        <4> QED
          BY <4>1 DEF TokenStep
      <3> QED
        BY <3>1, <3>2
    <2>3. V # {}
      <3>1. [j \in 1..(Len(t) + 1) |-> TRUE] \in V
        OBVIOUS
      <3> QED
        BY <3>1
    <2> HIDE DEF V, row
    <2>4. LooksUp(N, V, Phi)
      BY <2>1, <2>2, <2>3 DEF LooksUp
    <2>5. \A g \in [1..(N + 1) -> V] : Phi[g] = [i \in 1..(N + 1) |-> row(g, i)]
      OBVIOUS
    <2> HIDE DEF Phi, N
    <2>6. \E f \in [1..(N + 1) -> V] : f = Phi[f]
      BY <1>2, <2>4, UpwardRecursion
    <2> QED
      BY <2>5, <2>6
  <1>4. from = [i \in 1..(N + 1) |-> row(from, i)]
    BY <1>3 DEF from
  <1>5. TokenTable(from, p, t)
    <2>1. from \in [1..(N + 1) -> V]
      <3>1. \A i : row(from, i) \in V
        BY <1>9
      <3> HIDE DEF row, V
      <3> QED
        BY <1>4, <3>1
    <2>2. ASSUME NEW i \in 1..(N + 1), NEW j \in 1..(Len(t) + 1)
          PROVE  from[i][j] <=> IF i > Len(p) THEN j > Len(t)
                              ELSE TokenStep(from, p, t, i, j)
      <3>1. from[i] = row(from, i)
        BY <1>4
      <3> QED
        BY <3>1 DEF TokenStep
    <2> QED
      BY <2>1, <2>2 DEF TokenTable
  <1> QED
    BY <1>1, <1>5

\* The pieces of t that fit the tokens of p.
TokenPieces(p, t) ==
  [n \in 1..Len(p) |->
     {ab \in (1..(Len(t) + 1)) \X (1..(Len(t) + 1)) :
        ab[1] + 1 <= ab[2] /\ TokenFits(p[n], SubSeq(t, ab[1], ab[2] - 1))}]

\* A piece of one token.
LEMMA TokenPiece ==
  ASSUME NEW t \in Pattern,
         NEW j \in 1..(Len(t) + 1), NEW k \in 1..(Len(t) + 1), j + 1 <= k
  PROVE  /\ Len(SubSeq(t, j, k - 1)) = 1 <=> k = j + 1
         /\ j <= Len(t)
         /\ SubSeq(t, j, k - 1)[1] = t[j] /\ t[j] \in Token
         /\ k = j + 1 => SubSeq(t, j, k - 1) = <<t[j]>>
  <1> DEFINE s == SubSeq(t, j, k - 1)
  <1>1. Len(t) \in Nat /\ j <= Len(t)
    BY DEF Pattern
  <1>2. s \in Pattern /\ Len(s) = k - j /\ \A n \in 1..(k - j) : s[n] = t[j + n - 1]
    BY DEF Pattern
  <1>3. s[1] = t[j] /\ t[j] \in Token
    <2>1. 1 \in 1..(k - j) /\ j + 1 - 1 = j
      BY <1>1
    <2> QED
      BY <1>1, <1>2, <2>1 DEF Pattern
  <1> HIDE DEF s
  <1>4. ASSUME k = j + 1 PROVE s = <<t[j]>>
    <2>1. Len(s) = 1
      BY <1>1, <1>2, <1>4
    <2> QED
      BY <1>2, <1>3, <2>1 DEF Pattern
  <1>5. Len(s) = 1 <=> k = j + 1
    BY <1>1, <1>2
  <1> QED
    BY <1>1, <1>3, <1>4, <1>5 DEF s

\* The table of matchTokens is a search for the pieces that fit the tokens.
LEMMA TokenTableSearches ==
  ASSUME NEW p \in Pattern, NEW t \in Pattern, NEW from, TokenTable(from, p, t)
  PROVE  IsSearch(Len(p), Len(t), TokenPieces(p, t), from)
  <1> DEFINE P == Len(p)
             T == Len(t)
             F == TokenPieces(p, t)
  <1>1. P \in Nat /\ T \in Nat
    BY DEF Pattern
  <1>2. \A j \in 1..(T + 1) : from[P + 1][j] <=> j = T + 1
    BY <1>1 DEF TokenTable
  <1>3. ASSUME NEW i \in 1..P, NEW j \in 1..(T + 1)
        PROVE  from[i][j] <=> \E k \in 1..(T + 1) : <<j, k>> \in F[i] /\ from[i + 1][k]
    <2>1. from[i][j] <=> TokenStep(from, p, t, i, j)
      BY <1>1 DEF TokenTable
    <2>2. \A k \in 1..(T + 1) :
            <<j, k>> \in F[i] <=> j + 1 <= k /\ TokenFits(p[i], SubSeq(t, j, k - 1))
      BY DEF TokenPieces
    <2>3. p[i] \in Token
      BY DEF Pattern
    <2>4. \A k \in 1..(T + 1) : j + 1 <= k =>
            /\ Len(SubSeq(t, j, k - 1)) = 1 <=> k = j + 1
            /\ j <= T
            /\ SubSeq(t, j, k - 1)[1] = t[j] /\ t[j] \in Token
            /\ k = j + 1 => SubSeq(t, j, k - 1) = <<t[j]>>
      BY TokenPiece
    <2> HIDE DEF F, P, T
    <2>5. CASE p[i] = Deep
      <3>1. \A k \in 1..(T + 1) : <<j, k>> \in F[i] <=> j + 1 <= k
        BY <2>2, <2>5 DEF TokenFits
      <3>2. TokenStep(from, p, t, i, j) <=> \E k \in (j + 1)..(T + 1) : from[i + 1][k]
        BY <2>5 DEF TokenStep, T
      <3>3. (\E k \in (j + 1)..(T + 1) : from[i + 1][k])
              <=> \E k \in 1..(T + 1) : j + 1 <= k /\ from[i + 1][k]
        BY <1>1
      <3> QED
        BY <2>1, <3>1, <3>2, <3>3
    <2>6. CASE p[i] # Deep
      <3> DEFINE Takes1 == IF p[i] = One THEN t[j] \notin {Slash, Colon} ELSE MatchToken(p[i], t[j])
      <3>1. TokenStep(from, p, t, i, j) <=> j <= T /\ Takes1 /\ from[i + 1][j + 1]
        BY <2>6 DEF TokenStep, T
      <3>2. j <= T <=> j + 1 \in 1..(T + 1)
        BY <1>1
      <3>3. ASSUME NEW k \in 1..(T + 1), j + 1 <= k
            PROVE  TokenFits(p[i], SubSeq(t, j, k - 1)) <=> k = j + 1 /\ Takes1
        <4> DEFINE piece == SubSeq(t, j, k - 1)
        <4>1. /\ Len(piece) = 1 <=> k = j + 1
              /\ piece[1] = t[j] /\ t[j] \in Token
              /\ k = j + 1 => piece = <<t[j]>>
          BY <2>4, <3>3
        <4> HIDE DEF piece
        <4>2. CASE p[i] = One
          <5>1. TokenFits(p[i], piece) <=> piece \notin {<<Slash>>, <<Colon>>} /\ Len(piece) = 1
            BY <2>6, <4>2 DEF TokenFits
          <5>2. k = j + 1 => (piece \notin {<<Slash>>, <<Colon>>} <=> t[j] \notin {Slash, Colon})
            BY <4>1
          <5> QED
            BY <4>1, <4>2, <5>1, <5>2 DEF piece
        <4>3. CASE p[i] # One
          <5>1. TokenFits(p[i], piece) <=> Len(piece) = 1 /\ Splits(p[i], piece[1], 0, CharFits)
            BY <2>6, <4>3 DEF TokenFits
          <5>2. MatchToken(p[i], t[j]) <=> Splits(p[i], t[j], 0, CharFits)
            BY <2>3, <4>1, MatchTokenIsPartition
          <5> QED
            BY <4>1, <4>3, <5>1, <5>2 DEF piece
        <4> QED
          BY <4>2, <4>3
      <3> HIDE DEF Takes1
      <3>4. \A k \in 1..(T + 1) : <<j, k>> \in F[i] <=> k = j + 1 /\ Takes1
        BY <1>1, <2>2, <3>3
      <3> QED
        BY <2>1, <3>1, <3>2, <3>4
    <2> QED
      BY <2>5, <2>6
  <1>4. from \in [1..(P + 1) -> [1..(T + 1) -> BOOLEAN]]
    BY DEF TokenTable
  <1> QED
    BY <1>2, <1>3, <1>4 DEF IsSearch

\* Splits says of tokens that there is a cut.
LEMMA TokenCutSplits ==
  ASSUME NEW p \in Pattern, NEW t \in Pattern
  PROVE  Splits(p, t, 1, TokenFits)
           <=> \E cut : IsCut(Len(p), Len(t), TokenPieces(p, t), cut)
  <1> DEFINE P == Len(p)
             T == Len(t)
             F == TokenPieces(p, t)
  <1>1. P \in Nat /\ T \in Nat /\ DOMAIN p = 1..P
    BY DEF Pattern
  <1>2. Proper(P, T, F, 1)
    BY <1>1 DEF Proper, TokenPieces
  <1>3. ASSUME NEW n \in 1..P, NEW a \in 0..T, NEW b \in 0..T, a + 1 <= b
        PROVE  <<a + 1, b + 1>> \in F[n] <=> TokenFits(p[n], SubSeq(t, a + 1, b))
    <2>1. a + 1 \in 1..(T + 1) /\ b + 1 \in 1..(T + 1) /\ (b + 1) - 1 = b
          /\ a + 1 + 1 <= b + 1
      BY <1>1, <1>3
    <2> QED
      BY <2>1 DEF TokenPieces
  <1>4. ASSUME NEW len \in [1..P -> 1..(T - 1 * (P - 1))]
        PROVE  LET end[n \in 0..P] == IF n = 0 THEN 0 ELSE end[n - 1] + len[n]
               IN  IsLayout(P, T, F, len, end)
                     <=> /\ end[P] = T
                         /\ \A n \in 1..P : TokenFits(p[n], SubSeq(t, end[n - 1] + 1, end[n]))
    <2> DEFINE end[n \in 0..P] == IF n = 0 THEN 0 ELSE end[n - 1] + len[n]
    <2>1. len \in [1..P -> Nat] /\ \A n \in 1..P : len[n] >= 1
      BY <1>1
    <2>2. IsEnds(P, len, end)
      BY <1>1, <2>1, EndsExist
    <2>3. SUFFICES IsLayout(P, T, F, len, end)
                     <=> /\ end[P] = T
                         /\ \A n \in 1..P : TokenFits(p[n], SubSeq(t, end[n - 1] + 1, end[n]))
      OBVIOUS
    <2> HIDE DEF end, P, T, F
    <2>4. ASSUME end[P] = T, NEW n \in 1..P
          PROVE  end[n - 1] \in 0..T /\ end[n] \in 0..T /\ end[n - 1] + 1 <= end[n]
      BY <1>1, <2>1, <2>2, <2>4, EndsInside
    <2>5. ASSUME end[P] = T, NEW n \in 1..P
          PROVE  <<end[n - 1] + 1, end[n] + 1>> \in F[n]
                   <=> TokenFits(p[n], SubSeq(t, end[n - 1] + 1, end[n]))
      BY <1>3, <2>4, <2>5
    <2> QED
      BY <2>2, <2>5 DEF IsLayout
  <1>5. Splits(p, t, 1, TokenFits)
          <=> \E len \in [1..P -> 1..(T - 1 * (P - 1))] :
                LET end[n \in 0..P] == IF n = 0 THEN 0 ELSE end[n - 1] + len[n]
                IN  IsLayout(P, T, F, len, end)
    BY <1>1, <1>4 DEF Splits
  <1> HIDE DEF P, T, F
  <1>6. (\E cut : IsCut(P, T, F, cut))
          <=> \E len \in [1..P -> 1..(T - 1 * (P - 1))] :
                LET end[n \in 0..P] == IF n = 0 THEN 0 ELSE end[n - 1] + len[n]
                IN  IsLayout(P, T, F, len, end)
    BY <1>1, <1>2, CutIffLayout
  <1>7. Splits(p, t, 1, TokenFits) <=> \E cut : IsCut(P, T, F, cut)
    BY <1>5, <1>6
  <1> QED
    BY <1>7 DEF P, T, F

\* matchTokens finds a match exactly when the target can be cut into pieces, one
\* for each token, that fit it.
LEMMA MatchTokensIsPartition ==
  ASSUME NEW p \in Pattern, NEW t \in Pattern
  PROVE  MatchTokens(p, t) <=> Len(p) <= Len(t) /\ Splits(p, t, 1, TokenFits)
  <1>1. PICK from : TokenTable(from, p, t) /\ MatchTokens(p, t) = from[1][1]
    BY MatchTokensTable
  <1>2. Len(p) \in Nat /\ Len(t) \in Nat
    BY DEF Pattern
  <1>3. from[1][1] <=> \E cut : IsCut(Len(p), Len(t), TokenPieces(p, t), cut)
    BY <1>1, <1>2, TokenTableSearches, SearchFindsCut
  <1>4. from[1][1] \in BOOLEAN
    BY <1>1, <1>2 DEF TokenTable
  <1>5. ASSUME NEW cut, IsCut(Len(p), Len(t), TokenPieces(p, t), cut) PROVE Len(p) <= Len(t)
    <2>1. Proper(Len(p), Len(t), TokenPieces(p, t), 1)
      BY <1>2 DEF Proper, TokenPieces
    <2>2. PICK len : len \in [1..Len(p) -> 1..(Len(t) - 1 * (Len(p) - 1))]
      BY <1>2, <1>5, <2>1, CutIsLayout
    <2>3. Len(p) # 0 => len[1] \in 1..(Len(t) - 1 * (Len(p) - 1))
      BY <1>2, <2>2
    <2> QED
      BY <1>2, <2>3
  <1> QED
    BY <1>1, <1>3, <1>4, <1>5, TokenCutSplits

\* Every score is positive, so a pattern that matches scores.
LEMMA MatchPatternScore ==
  ASSUME NEW p, NEW t, ~SchemeLevel(p)
  PROVE  MatchPattern(p, t) > 0 <=> MatchTokens(p, t)
  <1>1. PatternScore(p) \in 2..6
    BY DEF PatternScore
  <1> QED
    BY <1>1 DEF MatchPattern

\* So does matchPattern on a pattern that is not scheme-level.
LEMMA MatchPatternIsPartition ==
  ASSUME NEW p \in Pattern, NEW t \in Pattern, ~SchemeLevel(p)
  PROVE  MatchPattern(p, t) > 0 <=> Len(p) <= Len(t) /\ Splits(p, t, 1, TokenFits)
  BY MatchPatternScore, MatchTokensIsPartition

-----------------------------------------------------------------------------
(* A token that matches a token: what the second matches, the first does.  *)

\* One step of a table at a character that is no wildcard.
LEMMA LiteralStep ==
  ASSUME NEW p \in Token, NEW t \in Token, NEW at, CharTable(at, p, t),
         NEW i \in 1..Len(p), p[i] \notin {"*"} \cup Special,
         NEW j \in 1..(Len(t) + 1)
  PROVE  at[i][j] <=> j <= Len(t) /\ t[j] = p[i] /\ at[i + 1][j + 1]
  <1>1. Len(p) \in Nat /\ i \in 1..(Len(p) + 1) /\ ~(i > Len(p))
    BY DEF Token
  <1>2. at[i][j] <=> CharStep(at, p, t, i, j)
    BY <1>1 DEF CharTable
  <1> QED
    BY <1>2 DEF CharStep

\* Every step takes characters from the front.
LEMMA StepsForward ==
  ASSUME NEW p \in Token, NEW t \in Token, NEW at, CharTable(at, p, t),
         NEW i \in 1..Len(p), NEW j \in 1..(Len(t) + 1), at[i][j]
  PROVE  \E k \in j..(Len(t) + 1) : at[i + 1][k]
  <1>1. Len(p) \in Nat /\ Len(t) \in Nat /\ i \in 1..(Len(p) + 1) /\ ~(i > Len(p))
    BY DEF Token
  <1>2. CharStep(at, p, t, i, j)
    BY <1>1 DEF CharTable
  <1>3. CASE p[i] = "*" /\ \E k \in j..(Len(t) + 1) : at[i + 1][k]
    BY <1>3
  <1>4. CASE p[i] \in Special /\ \E w \in Words[p[i]] :
               IsPrefix(w, Drop(t, j - 1)) /\ at[i + 1][j + Len(w)]
    <2>1. PICK w \in Words[p[i]] : IsPrefix(w, Drop(t, j - 1)) /\ at[i + 1][j + Len(w)]
      BY <1>4
    <2>2. w \in Token
      BY <1>4, WordsAssumption DEF Token
    <2>3. j + Len(w) \in j..(Len(t) + 1)
      BY <2>1, <2>2, PrefixFits
    <2> QED
      BY <2>1, <2>3
  <1>5. CASE j <= Len(t) /\ at[i + 1][j + 1]
    <2>1. j + 1 \in j..(Len(t) + 1)
      BY <1>1, <1>5
    <2> QED
      BY <1>5, <2>1
  <1> QED
    BY <1>2, <1>3, <1>4, <1>5 DEF CharStep

\* Any number of steps take characters from the front.
LEMMA RunsForward ==
  ASSUME NEW p \in Token, NEW t \in Token, NEW at, CharTable(at, p, t),
         NEW i \in 1..(Len(p) + 1), NEW h \in i..(Len(p) + 1),
         NEW j \in 1..(Len(t) + 1), at[i][j]
  PROVE  \E k \in j..(Len(t) + 1) : at[h][k]
  <1> DEFINE U == {d \in Nat : i + d <= Len(p) + 1 =>
                                \E k \in j..(Len(t) + 1) : at[i + d][k]}
  <1>1. Len(p) \in Nat /\ Len(t) \in Nat
    BY DEF Token
  <1>2. 0 \in U
    BY <1>1
  <1>3. ASSUME NEW d \in Nat, d \in U PROVE d + 1 \in U
    <2>1. SUFFICES ASSUME i + (d + 1) <= Len(p) + 1
                   PROVE  \E k \in j..(Len(t) + 1) : at[i + (d + 1)][k]
      OBVIOUS
    <2>2. i + d \in 1..Len(p) /\ (i + d) + 1 = i + (d + 1)
      BY <1>1, <2>1
    <2>3. PICK k \in j..(Len(t) + 1) : at[i + d][k]
      BY <1>3, <1>1, <2>2
    <2>4. k \in 1..(Len(t) + 1)
      BY <1>1
    <2>5. \E l \in k..(Len(t) + 1) : at[(i + d) + 1][l]
      BY <2>2, <2>3, <2>4, StepsForward
    <2> QED
      BY <1>1, <2>2, <2>4, <2>5
  <1>4. h - i \in Nat /\ i + (h - i) = h
    BY <1>1
  <1>5. h - i \in U
    <2>1. Nat \subseteq U
      <3> HIDE DEF U
      <3> QED
        BY <1>2, <1>3, Induction
    <2> QED
      BY <1>4, <2>1
  <1> QED
    BY <1>1, <1>4, <1>5

\* A word of plain characters in a pattern is a word of its targets.
LEMMA PlainRun ==
  ASSUME NEW p \in Token, NEW t \in Token, NEW at, CharTable(at, p, t),
         NEW w \in Token, Plain(w),
         NEW i \in 1..(Len(p) + 1), IsPrefix(w, Drop(p, i - 1)),
         NEW j \in 1..(Len(t) + 1), at[i][j]
  PROVE  IsPrefix(w, Drop(t, j - 1)) /\ at[i + Len(w)][j + Len(w)]
  <1>1. Len(p) \in Nat /\ Len(t) \in Nat /\ Len(w) \in Nat
    BY DEF Token
  <1>2. /\ i + Len(w) <= Len(p) + 1
        /\ \A n \in 1..Len(w) : p[i + n - 1] = w[n]
    BY <1>1, PrefixFits
  <1> DEFINE U == {n \in Nat : n <= Len(w) =>
                     /\ j + n <= Len(t) + 1
                     /\ at[i + n][j + n]
                     /\ \A m \in 1..n : t[j + m - 1] = w[m]}
  <1>3. 0 \in U
    BY <1>1
  <1>4. ASSUME NEW n \in Nat, n \in U PROVE n + 1 \in U
    <2>1. SUFFICES ASSUME n + 1 <= Len(w)
                   PROVE  /\ j + (n + 1) <= Len(t) + 1
                          /\ at[i + (n + 1)][j + (n + 1)]
                          /\ \A m \in 1..(n + 1) : t[j + m - 1] = w[m]
      OBVIOUS
    <2>2. /\ j + n <= Len(t) + 1 /\ at[i + n][j + n]
          /\ \A m \in 1..n : t[j + m - 1] = w[m]
      BY <1>1, <1>4, <2>1
    <2>3. /\ i + n \in 1..Len(p) /\ j + n \in 1..(Len(t) + 1) /\ n + 1 \in 1..Len(w)
          /\ i + (n + 1) = (i + n) + 1 /\ j + (n + 1) = (j + n) + 1
          /\ i + (n + 1) - 1 = i + n /\ j + (n + 1) - 1 = j + n
      BY <1>1, <1>2, <2>1, <2>2
    <2>4. p[i + n] = w[n + 1] /\ w[n + 1] \notin {"*"} \cup Special
      <3>1. p[i + (n + 1) - 1] = w[n + 1]
        BY <1>2, <2>3
      <3>2. n + 1 \in DOMAIN w
        BY <2>3 DEF Token
      <3> QED
        BY <2>3, <3>1, <3>2 DEF Plain
    <2>5. j + n <= Len(t) /\ t[j + n] = p[i + n] /\ at[(i + n) + 1][(j + n) + 1]
      BY <2>2, <2>3, <2>4, LiteralStep
    <2>6. \A m \in 1..(n + 1) : m \in 1..n \/ m = n + 1
      OBVIOUS
    <2>7. t[j + (n + 1) - 1] = w[n + 1]
      BY <2>3, <2>4, <2>5
    <2>8. \A m \in 1..(n + 1) : t[j + m - 1] = w[m]
      BY <2>2, <2>6, <2>7
    <2> QED
      BY <1>1, <2>3, <2>5, <2>8
  <1>5. Len(w) \in U
    <2> HIDE DEF U
    <2> QED
      BY <1>1, <1>3, <1>4, Induction
  <1>6. /\ j + Len(w) \in j..(Len(t) + 1) /\ at[i + Len(w)][j + Len(w)]
        /\ \A m \in 1..Len(w) : t[j + m - 1] = w[m]
    BY <1>1, <1>5
  <1> QED
    BY <1>6, PrefixFits

\* If the first matches the second and the second a target, the first matches the
\* target, unless a word of the first is itself a pattern.  By induction on what
\* is left of the first.
LEMMA TokensCompose ==
  ASSUME NEW g \in Token, NEW a \in Token, NEW t \in Token,
         \A n \in DOMAIN g : g[n] \in Special => \A w \in Words[g[n]] : Plain(w),
         MatchToken(g, a), MatchToken(a, t)
  PROVE  MatchToken(g, t)
  <1>1. PICK ga : CharTable(ga, g, a) /\ MatchToken(g, a) = ga[1][1]
    BY MatchTokenTable
  <1>2. PICK at : CharTable(at, a, t) /\ MatchToken(a, t) = at[1][1]
    BY MatchTokenTable
  <1>3. PICK gt : CharTable(gt, g, t) /\ MatchToken(g, t) = gt[1][1]
    BY MatchTokenTable
  <1>4. Len(g) \in Nat /\ Len(a) \in Nat /\ Len(t) \in Nat
    BY DEF Token
  <1> DEFINE Composes(i) == \A j \in 1..(Len(a) + 1) : \A k \in 1..(Len(t) + 1) :
                              ga[i][j] /\ at[j][k] => gt[i][k]
             U == {d \in Nat : \A i \in 1..(Len(g) + 1) : i + d = Len(g) + 1 => Composes(i)}
  <1>5. 0 \in U
    <2>1. ASSUME NEW i \in 1..(Len(g) + 1), i + 0 = Len(g) + 1,
                 NEW j \in 1..(Len(a) + 1), NEW k \in 1..(Len(t) + 1), ga[i][j], at[j][k]
          PROVE  gt[i][k]
      <3>1. i > Len(g)
        BY <1>4, <2>1
      <3>2. j = Len(a) + 1
        BY <1>1, <1>4, <2>1, <3>1 DEF CharTable
      <3>3. j > Len(a)
        BY <1>4, <3>2
      <3>4. k > Len(t)
        BY <1>2, <1>4, <2>1, <3>3 DEF CharTable
      <3> QED
        BY <1>3, <3>1, <3>4 DEF CharTable
    <2> QED
      BY <2>1
  <1>6. ASSUME NEW d \in Nat, d \in U PROVE d + 1 \in U
    <2>1. ASSUME NEW i \in 1..(Len(g) + 1), i + (d + 1) = Len(g) + 1,
                 NEW j \in 1..(Len(a) + 1), NEW k \in 1..(Len(t) + 1), ga[i][j], at[j][k]
          PROVE  gt[i][k]
      <3>1. i \in 1..Len(g) /\ ~(i > Len(g)) /\ i + 1 \in 1..(Len(g) + 1)
            /\ (i + 1) + d = Len(g) + 1
        BY <1>4, <2>1
      <3>2. Composes(i + 1)
        BY <1>6, <3>1
      <3>3. CharStep(ga, g, a, i, j)
        BY <1>1, <2>1, <3>1 DEF CharTable
      <3>4. CharStep(gt, g, t, i, k) => gt[i][k]
        BY <1>3, <3>1 DEF CharTable
      <3>5. CASE g[i] = "*"
        <4>1. PICK h \in j..(Len(a) + 1) : ga[i + 1][h]
          <5>1. g[i] \notin Special
            BY <3>5, WordsAssumption
          <5> QED
            BY <3>3, <3>5, <5>1 DEF CharStep
        <4>2. PICK l \in k..(Len(t) + 1) : at[h][l]
          BY <1>2, <2>1, RunsForward
        <4>3. h \in 1..(Len(a) + 1) /\ l \in 1..(Len(t) + 1)
          BY <1>4
        <4>4. gt[i + 1][l]
          BY <3>2, <4>1, <4>2, <4>3
        <4> QED
          BY <3>4, <3>5, <4>4 DEF CharStep
      <3>6. CASE g[i] \in Special
        <4>1. g[i] # "*"
          BY <3>6, WordsAssumption
        <4>2. PICK w \in Words[g[i]] : IsPrefix(w, Drop(a, j - 1)) /\ ga[i + 1][j + Len(w)]
          BY <3>3, <3>6, <4>1 DEF CharStep
        <4>3. w \in Token /\ Plain(w)
          <5>1. i \in DOMAIN g
            BY <3>1 DEF Token
          <5> QED
            BY <3>6, <5>1, WordsAssumption DEF Token
        <4>4. IsPrefix(w, Drop(t, k - 1)) /\ at[j + Len(w)][k + Len(w)]
          BY <1>2, <2>1, <4>2, <4>3, PlainRun
        <4>5. j + Len(w) \in 1..(Len(a) + 1) /\ k + Len(w) \in 1..(Len(t) + 1)
          <5>1. j + Len(w) \in j..(Len(a) + 1)
            BY <4>2, <4>3, PrefixFits
          <5>2. k + Len(w) \in k..(Len(t) + 1)
            BY <4>3, <4>4, PrefixFits
          <5> QED
            BY <1>4, <5>1, <5>2
        <4>6. gt[i + 1][k + Len(w)]
          BY <3>2, <4>2, <4>4, <4>5
        <4> QED
          BY <3>4, <3>6, <4>4, <4>6 DEF CharStep
      <3>7. CASE g[i] \notin {"*"} \cup Special
        <4>1. j <= Len(a) /\ a[j] = g[i] /\ ga[i + 1][j + 1]
          BY <3>3, <3>7 DEF CharStep
        <4>2. j \in 1..Len(a)
          BY <1>4, <4>1
        <4>3. k <= Len(t) /\ t[k] = a[j] /\ at[j + 1][k + 1]
          BY <1>2, <2>1, <3>7, <4>1, <4>2, LiteralStep
        <4>4. j + 1 \in 1..(Len(a) + 1) /\ k + 1 \in 1..(Len(t) + 1)
          BY <1>4, <4>2, <4>3, SMTT(40)
        <4>5. gt[i + 1][k + 1]
          BY <3>2, <4>1, <4>3, <4>4
        <4> QED
          BY <3>4, <3>7, <4>1, <4>3, <4>5 DEF CharStep
      <3> QED
        BY <3>5, <3>6, <3>7
    <2> QED
      BY <2>1
  <1>7. Len(g) \in U
    <2> HIDE DEF U
    <2> QED
      BY <1>4, <1>5, <1>6, Induction
  <1>8. Composes(1)
    <2>1. 1 \in 1..(Len(g) + 1) /\ 1 + Len(g) = Len(g) + 1
      BY <1>4
    <2> HIDE DEF Composes
    <2> QED
      BY <1>7, <2>1
  <1>9. 1 \in 1..(Len(a) + 1) /\ 1 \in 1..(Len(t) + 1) /\ ga[1][1] /\ at[1][1]
    <2>1. 1 \in 1..(Len(a) + 1) /\ 1 \in 1..(Len(t) + 1)
      BY <1>4
    <2>2. ga[1][1]
      BY <1>1
    <2>3. at[1][1]
      BY <1>2
    <2> QED
      BY <2>1, <2>2, <2>3
  <1>10. gt[1][1]
    BY <1>8, <1>9
  <1> QED
    BY <1>3, <1>10

\* The token * is one character.
LEMMA OneIsToken == One \in Token /\ Len(One) = 1 /\ One[1] = "*"
  <1>1. <<"*">> \in Seq(STRING)
    <2>1. "*" \in STRING
      BY WordsAssumption
    <2>2. \A S, x : x \in S => <<x>> \in Seq(S)
      OBVIOUS
    <2> QED
      BY <2>1, <2>2
  <1>2. Len(<<"*">>) = 1 /\ <<"*">>[1] = "*"
    OBVIOUS
  <1> QED
    BY <1>1, <1>2 DEF One, Token

\* The token * matches every token.
LEMMA StarMatchesAll ==
  ASSUME NEW t \in Token
  PROVE  MatchToken(One, t)
  <1>1. PICK at : CharTable(at, One, t) /\ MatchToken(One, t) = at[1][1]
    BY OneIsToken, MatchTokenTable
  <1>2. Len(t) \in Nat /\ Len(t) + 1 > Len(t) /\ 2 > Len(One) /\ ~(1 > Len(One))
        /\ 2 \in 1..(Len(One) + 1) /\ 1 \in 1..(Len(One) + 1)
    BY OneIsToken DEF Token
  <1>3. at[2][Len(t) + 1]
    BY <1>1, <1>2 DEF CharTable
  <1>4. CharStep(at, One, t, 1, 1)
    <2>1. Len(t) + 1 \in 1..(Len(t) + 1) /\ 1 + 1 = 2
      BY <1>2
    <2>2. One[1] = "*" /\ \E k \in 1..(Len(t) + 1) : at[1 + 1][k]
      BY <1>3, <2>1, OneIsToken
    <2> QED
      BY <2>2 DEF CharStep
  <1>5. 1 \in 1..(Len(t) + 1)
    BY <1>2
  <1> QED
    BY <1>1, <1>2, <1>4, <1>5 DEF CharTable

-----------------------------------------------------------------------------
(* A grant that matches an agent's pattern covers what the agent may ask.  *)

\* What a token of a pattern takes, other than **.
Takes1(q, x) == IF q = One THEN x \notin {Slash, Colon} ELSE MatchToken(q, x)

\* One step of the table of tokens.
LEMMA TokenTableStep ==
  ASSUME NEW p \in Pattern, NEW t \in Pattern, NEW at, TokenTable(at, p, t),
         NEW i \in 1..Len(p), NEW j \in 1..(Len(t) + 1)
  PROVE  /\ p[i] = Deep =>
              (at[i][j] <=> \E k \in (j + 1)..(Len(t) + 1) : at[i + 1][k])
         /\ p[i] # Deep =>
              (at[i][j] <=> j <= Len(t) /\ Takes1(p[i], t[j]) /\ at[i + 1][j + 1])
  <1>1. Len(p) \in Nat /\ i \in 1..(Len(p) + 1) /\ ~(i > Len(p))
    BY DEF Pattern
  <1>2. at[i][j] <=> TokenStep(at, p, t, i, j)
    BY <1>1 DEF TokenTable
  <1> QED
    BY <1>2 DEF TokenStep, Takes1

\* A pattern at its end matches a target at its end.
LEMMA TokenTableEnd ==
  ASSUME NEW p \in Pattern, NEW t \in Pattern, NEW at, TokenTable(at, p, t),
         NEW j \in 1..(Len(t) + 1)
  PROVE  at[Len(p) + 1][j] <=> j = Len(t) + 1
  <1>1. Len(p) \in Nat /\ Len(t) \in Nat /\ Len(p) + 1 > Len(p) /\ Len(p) + 1 \in 1..(Len(p) + 1)
    BY DEF Pattern
  <1>2. at[Len(p) + 1][j] <=> j > Len(t)
    BY <1>1 DEF TokenTable
  <1> QED
    BY <1>1, <1>2

\* Without ** a pattern takes its target token by token.
LEMMA FlatTable ==
  ASSUME NEW p \in Pattern, NEW t \in Pattern, NEW at, TokenTable(at, p, t),
         \A n \in 1..Len(p) : p[n] # Deep, at[1][1]
  PROVE  /\ Len(t) = Len(p)
         /\ \A n \in 1..(Len(p) + 1) : at[n][n]
  <1> DEFINE U == {n \in Nat : n <= Len(p) => n <= Len(t) /\ at[n + 1][n + 1]}
  <1>1. Len(p) \in Nat /\ Len(t) \in Nat
    BY DEF Pattern
  <1>2. 0 \in U
    BY <1>1
  <1>3. ASSUME NEW n \in Nat, n \in U PROVE n + 1 \in U
    <2>1. SUFFICES ASSUME n + 1 <= Len(p)
                   PROVE  n + 1 <= Len(t) /\ at[(n + 1) + 1][(n + 1) + 1]
      OBVIOUS
    <2>2. n <= Len(t) /\ at[n + 1][n + 1]
      BY <1>1, <1>3, <2>1
    <2>3. n + 1 \in 1..Len(p) /\ n + 1 \in 1..(Len(t) + 1)
      BY <1>1, <2>1, <2>2
    <2> QED
      BY <2>2, <2>3, TokenTableStep
  <1>4. Nat \subseteq U
    <2> HIDE DEF U
    <2> QED
      BY <1>2, <1>3, Induction
  <1>5. Len(p) <= Len(t) /\ at[Len(p) + 1][Len(p) + 1]
    BY <1>1, <1>4
  <1>6. Len(p) + 1 \in 1..(Len(t) + 1)
    BY <1>1, <1>5
  <1>7. Len(t) = Len(p)
    BY <1>1, <1>5, <1>6, TokenTableEnd
  <1>8. ASSUME NEW n \in 1..(Len(p) + 1) PROVE at[n][n]
    <2>1. n - 1 \in Nat /\ n - 1 <= Len(p) /\ (n - 1) + 1 = n
      BY <1>1
    <2> QED
      BY <1>4, <2>1
  <1> QED
    BY <1>7, <1>8

RegularWords(p) ==
  \A n \in DOMAIN p : \A m \in DOMAIN p[n] :
    p[n][m] \in Special => \A w \in Words[p[n][m]] : Plain(w)

\* The same for patterns: what an agent without ** matches, a grant that matches
\* the agent matches too.  By induction on what is left of the grant.
LEMMA FlatCovers ==
  ASSUME NEW g \in Pattern, NEW a \in Pattern, NEW t \in Pattern,
         RegularWords(g), \A n \in 1..Len(a) : a[n] # Deep,
         \A n \in 1..Len(a) : n \in 1..Len(t) =>
           (a[n] \in {Slash, Colon} <=> t[n] \in {Slash, Colon}),
         MatchTokens(g, a), MatchTokens(a, t)
  PROVE  MatchTokens(g, t)
  <1>1. PICK ga : TokenTable(ga, g, a) /\ MatchTokens(g, a) = ga[1][1]
    BY MatchTokensTable
  <1>2. PICK at : TokenTable(at, a, t) /\ MatchTokens(a, t) = at[1][1]
    BY MatchTokensTable
  <1>3. PICK gt : TokenTable(gt, g, t) /\ MatchTokens(g, t) = gt[1][1]
    BY MatchTokensTable
  <1>4. Len(g) \in Nat /\ Len(a) \in Nat /\ Len(t) \in Nat
    BY DEF Pattern
  <1>5. Len(t) = Len(a) /\ \A n \in 1..(Len(a) + 1) : at[n][n]
    BY <1>2, FlatTable
  <1>6. ASSUME NEW i \in 1..Len(g), NEW j \in 1..Len(a), Takes1(g[i], a[j])
        PROVE  Takes1(g[i], t[j])
    <2>1. j \in 1..Len(t) /\ g[i] \in Token /\ a[j] \in Token /\ t[j] \in Token
      BY <1>5 DEF Pattern
    <2>2. Takes1(a[j], t[j])
      <3>1. at[j][j] /\ j \in 1..(Len(t) + 1)
        BY <1>4, <1>5
      <3> QED
        BY <1>2, <3>1, TokenTableStep
    <2>3. CASE g[i] = One
      BY <1>6, <2>1, <2>3 DEF Takes1
    <2>4. CASE g[i] # One
      <3>1. MatchToken(g[i], a[j])
        BY <1>6, <2>4 DEF Takes1
      <3>2. MatchToken(a[j], t[j])
        BY <2>1, <2>2, StarMatchesAll DEF Takes1
      <3>3. \A m \in DOMAIN g[i] : g[i][m] \in Special => \A w \in Words[g[i][m]] : Plain(w)
        BY DEF RegularWords, Pattern
      <3>4. MatchToken(g[i], t[j])
        BY <2>1, <3>1, <3>2, <3>3, TokensCompose
      <3> QED
        BY <2>4, <3>4 DEF Takes1
    <2> QED
      BY <2>3, <2>4
  <1> DEFINE Carries(i) == \A j \in 1..(Len(a) + 1) : ga[i][j] => gt[i][j]
             U == {d \in Nat : \A i \in 1..(Len(g) + 1) : i + d = Len(g) + 1 => Carries(i)}
  <1>7. 0 \in U
    <2>1. ASSUME NEW j \in 1..(Len(a) + 1), ga[Len(g) + 1][j] PROVE gt[Len(g) + 1][j]
      BY <1>1, <1>3, <1>5, <2>1, TokenTableEnd
    <2>2. \A i \in 1..(Len(g) + 1) : i + 0 = Len(g) + 1 => i = Len(g) + 1
      BY <1>4
    <2> QED
      BY <2>1, <2>2
  <1>8. ASSUME NEW d \in Nat, d \in U PROVE d + 1 \in U
    <2>1. ASSUME NEW i \in 1..(Len(g) + 1), i + (d + 1) = Len(g) + 1,
                 NEW j \in 1..(Len(a) + 1), ga[i][j]
          PROVE  gt[i][j]
      <3>1. i \in 1..Len(g) /\ i + 1 \in 1..(Len(g) + 1) /\ (i + 1) + d = Len(g) + 1
        BY <1>4, <2>1
      <3>2. Carries(i + 1)
        BY <1>8, <3>1
      <3>3. j \in 1..(Len(t) + 1)
        BY <1>5
      <3>4. CASE g[i] = Deep
        <4>0. ga[i][j] <=> \E k \in (j + 1)..(Len(a) + 1) : ga[i + 1][k]
          BY <1>1, <2>1, <3>1, <3>4, TokenTableStep, Zenon
        <4>1. PICK k \in (j + 1)..(Len(a) + 1) : ga[i + 1][k]
          BY <2>1, <4>0, Zenon
        <4>2. k \in 1..(Len(a) + 1) /\ k \in (j + 1)..(Len(t) + 1)
          BY <1>4, <1>5
        <4>3. gt[i + 1][k]
          BY <3>2, <4>1, <4>2
        <4> QED
          BY <1>3, <3>1, <3>3, <3>4, <4>2, <4>3, TokenTableStep
      <3>5. CASE g[i] # Deep
        <4>1. j <= Len(a) /\ Takes1(g[i], a[j]) /\ ga[i + 1][j + 1]
          BY <1>1, <2>1, <3>1, <3>5, TokenTableStep
        <4>2. j \in 1..Len(a) /\ j + 1 \in 1..(Len(a) + 1) /\ j <= Len(t)
          BY <1>4, <1>5, <4>1
        <4>3. Takes1(g[i], t[j]) /\ gt[i + 1][j + 1]
          BY <1>6, <3>1, <3>2, <4>1, <4>2
        <4> QED
          BY <1>3, <3>1, <3>3, <3>5, <4>2, <4>3, TokenTableStep
      <3> QED
        BY <3>4, <3>5
    <2> QED
      BY <2>1
  <1>9. Len(g) \in U
    <2> HIDE DEF U
    <2> QED
      BY <1>4, <1>7, <1>8, Induction
  <1>10. Carries(1)
    <2>1. 1 \in 1..(Len(g) + 1) /\ 1 + Len(g) = Len(g) + 1
      BY <1>4
    <2> HIDE DEF Carries
    <2> QED
      BY <1>9, <2>1
  <1>11. 1 \in 1..(Len(a) + 1)
    BY <1>4
  <1> QED
    BY <1>1, <1>3, <1>10, <1>11

\* The tokens with a meaning of their own are different tokens.
LEMMA TokensDiffer ==
  /\ Colon # One /\ Colon # Deep /\ One # Deep
  /\ Len(Deep) = 2 /\ Deep[1] = "*" /\ 1 \in DOMAIN One /\ 1 \in DOMAIN Deep /\ One[1] = "*"
  BY DEF Colon, One, Deep

\* What is known of a tokenized pattern.
LEMMA TokenizedIsPattern ==
  ASSUME NEW p, Tokenized(p)
  PROVE  p \in Pattern /\ Len(p) \in Nat /\ DOMAIN p = 1..Len(p) /\ Len(p) >= 3
         /\ 1 \in DOMAIN p /\ 2 \in DOMAIN p /\ 3 \in DOMAIN p
         /\ p[1] \in Token /\ p[2] = Colon /\ p[3] \in Token
  <1>1. p \in Pattern /\ Len(p) >= 3 /\ p[2] = Colon
    BY DEF Tokenized, Pattern, Token
  <1>2. Len(p) \in Nat /\ DOMAIN p = 1..Len(p)
    BY <1>1 DEF Pattern
  <1>3. p[1] \in Token /\ p[3] \in Token
    BY <1>1, <1>2 DEF Pattern
  <1> QED
    BY <1>1, <1>2, <1>3

\* A word is no wildcard.
LEMMA PlainIsWord ==
  ASSUME NEW w, Plain(w) PROVE w # One /\ w # Deep
  BY TokensDiffer DEF Plain

\* A token without wildcards matches itself alone.
LEMMA PlainMatches ==
  ASSUME NEW w \in Token, NEW x \in Token, Plain(w), MatchToken(w, x)
  PROVE  x = w
  <1>1. PICK at : CharTable(at, w, x) /\ MatchToken(w, x) = at[1][1]
    BY MatchTokenTable
  <1>2. Len(w) \in Nat /\ Len(x) \in Nat /\ 1 \in 1..(Len(w) + 1) /\ 1 \in 1..(Len(x) + 1)
    BY DEF Token
  <1>3. IsPrefix(w, Drop(w, 1 - 1))
    <2>1. 1 + Len(w) \in 1..(Len(w) + 1) /\ \A n \in 1..Len(w) : w[1 + n - 1] = w[n]
      BY <1>2
    <2> QED
      BY <1>2, <2>1, PrefixFits
  <1>4. IsPrefix(w, Drop(x, 1 - 1)) /\ at[1 + Len(w)][1 + Len(w)]
    BY <1>1, <1>2, <1>3, PlainRun
  <1>5. 1 + Len(w) \in 1..(Len(x) + 1) /\ \A n \in 1..Len(w) : x[1 + n - 1] = w[n]
    BY <1>2, <1>4, PrefixFits
  <1>6. 1 + Len(w) > Len(x)
    BY <1>1, <1>2, <1>4, <1>5 DEF CharTable
  <1>7. Len(x) = Len(w)
    BY <1>2, <1>5, <1>6
  <1>8. \A n \in 1..Len(w) : x[n] = w[n]
    BY <1>2, <1>5
  <1> QED
    BY <1>7, <1>8, SeqEqual DEF Token

\* A scheme-level grant.
LEMMA SchemeGrantCovers ==
  ASSUME NEW g, NEW a, NEW t, Tokenized(g), Tokenized(a), Tokenized(t), SchemeLevel(g),
         Plain(a[1]), \A n \in 1..Len(a) : a[n] # Deep,
         MatchPattern(g, a) > 0, MatchPattern(a, t) > 0
  PROVE  MatchPattern(g, t) > 0
  <1>1. a[1] = g[1]
    BY DEF MatchPattern
  <1>2. SUFFICES t[1] = a[1]
    BY <1>1, TokenizedIsPattern DEF MatchPattern
  <1>3. CASE SchemeLevel(a)
    BY <1>3 DEF MatchPattern
  <1>4. CASE ~SchemeLevel(a)
    <2>1. MatchTokens(a, t)
      BY <1>4, MatchPatternScore
    <2>2. a \in Pattern /\ t \in Pattern /\ 1 \in 1..Len(a) /\ 1 \in 1..(Len(t) + 1)
          /\ a[1] \in Token /\ t[1] \in Token /\ a[1] # One /\ a[1] # Deep
      BY TokenizedIsPattern, PlainIsWord
    <2>3. PICK at : TokenTable(at, a, t) /\ MatchTokens(a, t) = at[1][1]
      BY <2>2, MatchTokensTable
    <2>4. Takes1(a[1], t[1])
      BY <2>1, <2>2, <2>3, TokenTableStep
    <2>5. MatchToken(a[1], t[1])
      BY <2>2, <2>4 DEF Takes1
    <2> QED
      BY <2>2, <2>5, PlainMatches
  <1> QED
    BY <1>3, <1>4

\* A scheme-level agent: the grant is s:** then.
LEMMA SchemeAgentCovered ==
  ASSUME NEW g, NEW a, NEW t, Tokenized(g), Tokenized(a), Tokenized(t),
         Regular(g), SchemeLevel(a), ~SchemeLevel(g),
         MatchPattern(g, a) > 0, MatchPattern(a, t) > 0
  PROVE  MatchPattern(g, t) > 0
  <1>1. /\ g \in Pattern /\ a \in Pattern /\ t \in Pattern
        /\ Len(g) \in Nat /\ Len(g) >= 3 /\ Len(t) \in Nat /\ Len(t) >= 3
        /\ DOMAIN g = 1..Len(g) /\ 3 \in DOMAIN g
        /\ g[1] # One /\ g[1] # Deep /\ g[2] = Colon /\ a[2] = Colon /\ t[2] = Colon
        /\ Len(a) = 3 /\ a[3] = One
    BY TokenizedIsPattern, PlainIsWord DEF Regular, SchemeLevel
  <1>2. t[1] = a[1]
    BY DEF MatchPattern
  <1>3. MatchTokens(g, a)
    BY MatchPatternScore
  <1>4. Len(g) = 3
    <2>1. Len(g) <= Len(a)
      BY <1>1, <1>3, MatchTokensIsPartition
    <2> QED
      BY <1>1, <2>1
  <1>5. PICK ga : TokenTable(ga, g, a) /\ MatchTokens(g, a) = ga[1][1]
    BY <1>1, MatchTokensTable
  <1>6. PICK gt : TokenTable(gt, g, t) /\ MatchTokens(g, t) = gt[1][1]
    BY <1>1, MatchTokensTable
  <1>7. /\ 1 \in 1..Len(g) /\ 2 \in 1..Len(g) /\ 3 \in 1..Len(g)
        /\ 1 \in 1..(Len(a) + 1) /\ 2 \in 1..(Len(a) + 1) /\ 3 \in 1..(Len(a) + 1)
        /\ 1 \in 1..(Len(t) + 1) /\ 2 \in 1..(Len(t) + 1) /\ 3 \in 1..(Len(t) + 1)
        /\ 1 + 1 = 2 /\ 2 + 1 = 3
    BY <1>1, <1>4
  <1>14. \A i \in 1..Len(g) : \A j \in 1..(Len(a) + 1) : g[i] # Deep =>
            (ga[i][j] => Takes1(g[i], a[j]) /\ ga[i + 1][j + 1])
    BY <1>1, <1>5, TokenTableStep
  <1>8. Takes1(g[1], a[1]) /\ ga[2][2]
    <2>1. ga[1][1]
      BY <1>3, <1>5
    <2>2. Takes1(g[1], a[1]) /\ ga[1 + 1][1 + 1]
      BY <1>1, <1>7, <1>14, <2>1
    <2> QED
      BY <1>7, <2>2
  <1>9. Takes1(g[2], a[2]) /\ ga[3][3]
    <2>1. Takes1(g[2], a[2]) /\ ga[2 + 1][2 + 1]
      BY <1>1, <1>7, <1>8, <1>14, TokensDiffer
    <2> QED
      BY <1>7, <2>1
  <1>10. g[3] = Deep
    <2>1. SUFFICES ASSUME g[3] # Deep PROVE FALSE
      OBVIOUS
    <2>2. g[3] # One
      BY <1>1, <1>4 DEF SchemeLevel
    <2>3. Takes1(g[3], a[3])
      BY <1>7, <1>9, <1>14, <2>1
    <2>4. MatchToken(g[3], One)
      BY <1>1, <2>2, <2>3 DEF Takes1
    <2> QED
      BY <1>1, <2>1, <2>2, <2>4 DEF Regular
  <1>11. gt[3][3]
    <2>1. Len(t) + 1 \in (3 + 1)..(Len(t) + 1) /\ Len(t) + 1 \in 1..(Len(t) + 1)
      BY <1>1
    <2>2. gt[Len(g) + 1][Len(t) + 1]
      BY <1>1, <1>6, <2>1, TokenTableEnd
    <2>3. \E k \in (3 + 1)..(Len(t) + 1) : gt[3 + 1][k]
      BY <1>4, <2>1, <2>2
    <2> QED
      BY <1>1, <1>6, <1>7, <1>10, <2>3, TokenTableStep
  <1>12. gt[2][2]
    <2>1. 2 <= Len(t) /\ Takes1(g[2], t[2]) /\ gt[2 + 1][2 + 1]
      BY <1>1, <1>7, <1>9, <1>11
    <2> QED
      BY <1>1, <1>6, <1>7, <2>1, TokensDiffer, TokenTableStep
  <1>13. gt[1][1]
    <2>1. 1 <= Len(t) /\ Takes1(g[1], t[1]) /\ gt[1 + 1][1 + 1]
      BY <1>1, <1>2, <1>7, <1>8, <1>12
    <2> QED
      BY <1>1, <1>6, <1>7, <2>1, TokenTableStep
  <1> QED
    BY <1>6, <1>13, MatchPatternScore

\* A grant that matches the pattern of an agent without ** matches every request
\* that the agent's pattern matches.
LEMMA PatternCovers ==
  ASSUME NEW g, NEW a, NEW t, Tokenized(g), Tokenized(a), Tokenized(t),
         Regular(g), Plain(a[1]), \A n \in 1..Len(a) : a[n] # Deep,
         MatchPattern(g, a) > 0, MatchPattern(a, t) > 0
  PROVE  MatchPattern(g, t) > 0
  <1>1. CASE ~SchemeLevel(g) /\ ~SchemeLevel(a)
    <2>1. g \in Pattern /\ a \in Pattern /\ t \in Pattern
      BY TokenizedIsPattern
    <2>2. MatchTokens(g, a) /\ MatchTokens(a, t)
      BY <1>1, MatchPatternScore
    <2>3. RegularWords(g)
      BY DEF Regular, RegularWords
    <2>4. ASSUME NEW n \in 1..Len(a), n \in 1..Len(t)
          PROVE  a[n] \in {Slash, Colon} <=> t[n] \in {Slash, Colon}
      <3>1. n \in DOMAIN a /\ n \in DOMAIN t
        BY <2>4, TokenizedIsPattern
      <3> QED
        BY <3>1 DEF Tokenized
    <2>5. MatchTokens(g, t)
      BY <2>1, <2>2, <2>3, <2>4, FlatCovers
    <2> QED
      BY <1>1, <2>5, MatchPatternScore
  <1> QED
    BY <1>1, SchemeGrantCovers, SchemeAgentCovered

-----------------------------------------------------------------------------
(* The loop over the grants.                                               *)

\* A score is a natural number.
LEMMA ScoreIsNatural ==
  ASSUME NEW p, NEW t
  PROVE  MatchPattern(p, t) \in Nat
  <1>1. PatternScore(p) \in Nat
    BY DEF PatternScore
  <1> QED
    BY <1>1 DEF MatchPattern

\* The loop over the grants ends with a score when some grant fits, whatever the
\* order of the scores: best[n] > 0 exactly when one of the first n grants fits.
LEMMA CapabilitySubsetIsSome ==
  ASSUME NEW agent, NEW grants, Len(grants) \in Nat
  PROVE  CapabilitySubset(agent, grants)
           <=> \E n \in 1..Len(grants) :
                 /\ MatchPattern(grants[n].pattern, agent.pattern) > 0
                 /\ ParamsWithinGrant(grants[n].params, agent.params)
  <1> DEFINE N == Len(grants)
             D == 0..N
             score(n) == MatchPattern(grants[n].pattern, agent.pattern)
             fits(n) == ParamsWithinGrant(grants[n].params, agent.params)
             body(b, n) == IF n = 0 THEN 0
                           ELSE IF score(n) > b[n - 1] /\ fits(n)
                                THEN score(n) ELSE b[n - 1]
             best[n \in 0..Len(grants)] == body(best, n)
  <1>1. CapabilitySubset(agent, grants) = (best[Len(grants)] > 0)
    BY DEF CapabilitySubset
  <1>2. \A n : score(n) \in Nat
    BY ScoreIsNatural
  <1>3. CapabilitySubset(agent, grants) \in BOOLEAN
    BY DEF CapabilitySubset
  <1> HIDE DEF score, fits, best
  <1>4. \E f \in [D -> Nat] : f = [n \in D |-> body(f, n)]
    <2> DEFINE Phi == [g \in [D -> Nat] |-> [n \in D |-> body(g, n)]]
               rank == [n \in D |-> n]
    <2>1. \A g \in [D -> Nat] : \A n \in D : body(g, n) \in Nat
      BY <1>2
    <2>2. \A g \in [D -> Nat] : [n \in D |-> body(g, n)] \in [D -> Nat]
      BY <2>1
    <2>3. \A f, g \in [D -> Nat] : \A x \in D :
            (\A y \in D : rank[y] < rank[x] => f[y] = g[y]) => body(f, x) = body(g, x)
      <3> SUFFICES ASSUME NEW f \in [D -> Nat], NEW g \in [D -> Nat], NEW x \in D,
                          \A y \in D : rank[y] < rank[x] => f[y] = g[y]
                   PROVE  body(f, x) = body(g, x)
        OBVIOUS
      <3>1. x # 0 => x - 1 \in D /\ rank[x - 1] < rank[x]
        OBVIOUS
      <3> QED
        BY <3>1
    <2>4. rank \in [D -> Nat] /\ [n \in D |-> 0] \in [D -> Nat]
      OBVIOUS
    <2> HIDE DEF D, rank, body
    <2>5. \A g \in [D -> Nat] : Phi[g] = [n \in D |-> body(g, n)]
      OBVIOUS
    <2>6. Phi \in [[D -> Nat] -> [D -> Nat]]
      BY <2>2
    <2>7. \A g \in [D -> Nat] : \A x \in D : Phi[g][x] = body(g, x)
      BY <2>5
    <2> HIDE DEF Phi
    <2>8. \A f, g \in [D -> Nat] : \A x \in D :
            (\A y \in D : rank[y] < rank[x] => f[y] = g[y]) => Phi[f][x] = Phi[g][x]
      <3> SUFFICES ASSUME NEW f \in [D -> Nat], NEW g \in [D -> Nat], NEW x \in D,
                          \A y \in D : rank[y] < rank[x] => f[y] = g[y]
                   PROVE  Phi[f][x] = Phi[g][x]
        OBVIOUS
      <3>1. body(f, x) = body(g, x)
        BY <2>3
      <3> QED
        BY <2>7, <3>1
    <2>9. IsRecursion(D, Nat, rank, Phi)
      BY <2>4, <2>6, <2>8 DEF IsRecursion
    <2>10. \E f \in [D -> Nat] : f = Phi[f]
      BY <2>9, RecursiveFunctionExists
    <2> QED
      BY <2>5, <2>10
  <1>5. best = [n \in D |-> body(best, n)]
    BY <1>4 DEF best
  <1>6. /\ best[0] = 0
        /\ \A n \in 1..N : best[n] = IF score(n) > best[n - 1] /\ fits(n)
                                     THEN score(n) ELSE best[n - 1]
    BY <1>5
  <1> HIDE DEF body
  <1> DEFINE Some(n) == \E k \in 1..n : score(k) > 0 /\ fits(k)
             U == {n \in Nat : n <= N => best[n] \in Nat /\ (best[n] > 0 <=> Some(n))}
  <1>7. 0 \in U
    BY <1>6
  <1>8. ASSUME NEW n \in Nat, n \in U PROVE n + 1 \in U
    <2>1. SUFFICES ASSUME n + 1 <= N
                   PROVE  best[n + 1] \in Nat /\ (best[n + 1] > 0 <=> Some(n + 1))
      OBVIOUS
    <2>2. best[n] \in Nat /\ (best[n] > 0 <=> Some(n))
      BY <1>8, <2>1
    <2>3. best[n + 1] = IF score(n + 1) > best[n] /\ fits(n + 1)
                        THEN score(n + 1) ELSE best[n]
      BY <1>6, <2>1
    <2>4. Some(n + 1) <=> Some(n) \/ (score(n + 1) > 0 /\ fits(n + 1))
      <3>1. \A k : k \in 1..(n + 1) <=> k \in 1..n \/ k = n + 1
        OBVIOUS
      <3> QED
        BY <3>1
    <2> HIDE DEF Some
    <2> QED
      BY <1>2, <2>2, <2>3, <2>4
  <1>9. Nat \subseteq U
    <2> HIDE DEF U
    <2> QED
      BY <1>7, <1>8, Induction
  <1>10. best[N] > 0 <=> Some(N)
    BY <1>9
  <1>11. CapabilitySubset(agent, grants) <=> Some(N)
    BY <1>1, <1>3, <1>10
  <1> QED
    BY <1>11 DEF score, fits

-----------------------------------------------------------------------------
(* Parameters.                                                             *)

\* What paramsWithin does at one level of a value.
LevelWithin(within, v, u) ==
  CASE v[1] = "obj" -> /\ u[1] = "obj"
                       /\ DOMAIN u[2] = DOMAIN v[2]
                       /\ \A k \in DOMAIN v[2] : within[v[2][k]][u[2][k]]
    [] v[1] = "num" -> u[1] = "num" /\ u[2] <= v[2]
    [] v[1] = "arr" -> u[1] = "arr" /\ u[2] \subseteq v[2]
    [] OTHER        -> u = v

\* The table that ParamsWithin computes.
WithinTable(within) ==
  /\ within \in [Values -> [Values -> BOOLEAN]]
  /\ \A v, u \in Values : within[v][u] <=> LevelWithin(within, v, u)

\* One level of a comparison is true or false.
LEMMA LevelIsBoolean ==
  ASSUME NEW f, NEW v, NEW u PROVE LevelWithin(f, v, u) \in BOOLEAN
  <1>1. CASE v[1] = "obj"
    BY <1>1 DEF LevelWithin
  <1>2. CASE v[1] = "num"
    BY <1>2 DEF LevelWithin
  <1>3. CASE v[1] = "arr"
    BY <1>3 DEF LevelWithin
  <1>4. CASE v[1] \notin {"obj", "num", "arr"}
    BY <1>4 DEF LevelWithin
  <1> QED
    BY <1>1, <1>2, <1>3, <1>4

\* ParamsWithin reads a table: its definition looks at members only, which nest
\* less deep.
LEMMA ParamsWithinTable ==
  \E within : /\ WithinTable(within)
              /\ \A g, a : ParamsWithin(g, a) = within[g][a]
  <1> DEFINE V == [Values -> BOOLEAN]
             row(f, v) == [u \in Values |-> LevelWithin(f, v, u)]
             within[v \in Values] == row(within, v)
             Phi == [f \in [Values -> V] |-> [v \in Values |-> row(f, v)]]
  <1>1. \A g, a : ParamsWithin(g, a) = within[g][a]
    BY DEF ParamsWithin, LevelWithin
  <1> HIDE DEF within
  <1>2. \A f : \A v : row(f, v) \in V
    BY LevelIsBoolean
  <1>3. ASSUME NEW f \in [Values -> V], NEW h \in [Values -> V], NEW v \in Values,
               \A y \in Values : Depth[y] < Depth[v] => f[y] = h[y]
        PROVE  row(f, v) = row(h, v)
    <2>1. \A u \in Values : LevelWithin(f, v, u) = LevelWithin(h, v, u)
      <3>1. CASE v[1] = "obj"
        <4>1. \A k \in DOMAIN v[2] : f[v[2][k]] = h[v[2][k]]
          BY <1>3, <3>1, ValuesAssumption
        <4> QED
          BY <3>1, <4>1 DEF LevelWithin
      <3>2. CASE v[1] # "obj"
        BY <3>2 DEF LevelWithin
      <3> QED
        BY <3>1, <3>2
    <2> QED
      BY <2>1
  <1>4. [v \in Values |-> [u \in Values |-> TRUE]] \in [Values -> V]
    OBVIOUS
  <1> HIDE DEF row, V
  <1>5. \A f \in [Values -> V] : Phi[f] = [v \in Values |-> row(f, v)]
    OBVIOUS
  <1>6. \A f \in [Values -> V] : \A v \in Values : Phi[f][v] = row(f, v)
    BY <1>5
  <1>7. Phi \in [[Values -> V] -> [Values -> V]]
    BY <1>2
  <1> HIDE DEF Phi
  <1>8. ASSUME NEW f \in [Values -> V], NEW h \in [Values -> V], NEW v \in Values,
               \A y \in Values : Depth[y] < Depth[v] => f[y] = h[y]
        PROVE  Phi[f][v] = Phi[h][v]
    <2>1. row(f, v) = row(h, v)
      BY <1>3, <1>8
    <2> QED
      BY <1>6, <2>1
  <1>9. Depth \in [Values -> Nat]
    BY ValuesAssumption
  <1>10. IsRecursion(Values, V, Depth, Phi)
    BY <1>4, <1>7, <1>8, <1>9 DEF IsRecursion
  <1>11. \E f \in [Values -> V] : f = Phi[f]
    BY <1>10, RecursiveFunctionExists
  <1>12. within = [v \in Values |-> row(within, v)]
    BY <1>5, <1>11 DEF within
  <1>13. within \in [Values -> V] /\ \A v \in Values : within[v] = row(within, v)
    <2>1. \A v \in Values : row(within, v) \in V
      BY <1>2
    <2> QED
      BY <1>12, <2>1
  <1>14. \A v, u \in Values : within[v][u] = LevelWithin(within, v, u)
    BY <1>13 DEF row
  <1>15. WithinTable(within)
    BY <1>13, <1>14, LevelIsBoolean DEF V, WithinTable
  <1> QED
    BY <1>1, <1>15

\* Being within parameters is transitive, by induction on the depth of the grant.
LEMMA WithinIsTransitive ==
  ASSUME NEW within, WithinTable(within),
         NEW g \in Values, NEW a \in Values, NEW b \in Values,
         within[g][a], within[a][b]
  PROVE  within[g][b]
  <1> DEFINE Chains(v) == \A u, w \in Values : within[v][u] /\ within[u][w] => within[v][w]
             U == {n \in Nat : \A v \in Values : Depth[v] < n => Chains(v)}
  <1>1. \A v \in Values : Depth[v] \in Nat
    BY ValuesAssumption
  <1>2. 0 \in U
    BY <1>1
  <1>3. ASSUME NEW n \in Nat, n \in U PROVE n + 1 \in U
    <2>1. SUFFICES ASSUME NEW v \in Values, Depth[v] < n + 1,
                          NEW u \in Values, NEW w \in Values,
                          within[v][u], within[u][w]
                   PROVE  within[v][w]
      BY DEF WithinTable
    <2>2. LevelWithin(within, v, u) /\ LevelWithin(within, u, w)
      BY <2>1 DEF WithinTable
    <2>3. SUFFICES LevelWithin(within, v, w)
      BY DEF WithinTable
    <2>4. CASE v[1] = "obj"
      <3>1. /\ u[1] = "obj" /\ DOMAIN u[2] = DOMAIN v[2]
            /\ \A k \in DOMAIN v[2] : within[v[2][k]][u[2][k]]
        BY <2>2, <2>4 DEF LevelWithin
      <3>2. /\ w[1] = "obj" /\ DOMAIN w[2] = DOMAIN u[2]
            /\ \A k \in DOMAIN u[2] : within[u[2][k]][w[2][k]]
        BY <2>2, <3>1 DEF LevelWithin
      <3>3. ASSUME NEW k \in DOMAIN v[2] PROVE within[v[2][k]][w[2][k]]
        <4>1. v[2][k] \in Values /\ u[2][k] \in Values /\ w[2][k] \in Values
              /\ Depth[v[2][k]] < Depth[v]
          BY <2>4, <3>1, <3>2, ValuesAssumption
        <4>2. Chains(v[2][k])
          BY <1>1, <1>3, <2>1, <4>1
        <4> QED
          BY <3>1, <3>2, <4>1, <4>2
      <3> QED
        BY <2>4, <3>1, <3>2, <3>3 DEF LevelWithin
    <2>5. CASE v[1] = "num"
      <3>1. u[1] = "num" /\ u[2] <= v[2]
        BY <2>2, <2>5 DEF LevelWithin
      <3>2. w[1] = "num" /\ w[2] <= u[2]
        BY <2>2, <3>1 DEF LevelWithin
      <3>3. v[2] \in Int /\ u[2] \in Int /\ w[2] \in Int
        BY <2>5, <3>1, <3>2, ValuesAssumption
      <3>4. w[2] <= v[2]
        BY <3>1, <3>2, <3>3
      <3> QED
        BY <2>5, <3>2, <3>4 DEF LevelWithin
    <2>6. CASE v[1] = "arr"
      <3>1. u[1] = "arr" /\ u[2] \subseteq v[2]
        BY <2>2, <2>6 DEF LevelWithin
      <3>2. w[1] = "arr" /\ w[2] \subseteq u[2]
        BY <2>2, <3>1 DEF LevelWithin
      <3> QED
        BY <2>6, <3>1, <3>2 DEF LevelWithin
    <2>7. CASE v[1] \notin {"obj", "num", "arr"}
      <3>1. u = v
        BY <2>2, <2>7 DEF LevelWithin
      <3> QED
        BY <2>2, <3>1
    <2> QED
      BY <2>4, <2>5, <2>6, <2>7
  <1>4. Nat \subseteq U
    <2> HIDE DEF U
    <2> QED
      BY <1>2, <1>3, Induction
  <1>5. Depth[g] + 1 \in Nat /\ Depth[g] < Depth[g] + 1
    BY <1>1
  <1>6. Chains(g)
    BY <1>4, <1>5
  <1> QED
    BY <1>6

\* So is being within the parameters of a grant, absent ones included.
LEMMA ParamsNarrow ==
  ASSUME NEW g \in Values, NEW a \in Values, NEW b \in Values,
         ParamsWithinGrant(g, a), ParamsWithinGrant(a, b)
  PROVE  ParamsWithinGrant(g, b)
  <1>1. PICK within : /\ WithinTable(within)
                      /\ \A v, u : ParamsWithin(v, u) = within[v][u]
    BY ParamsWithinTable
  <1>2. CASE g \in Absent
    BY <1>2 DEF ParamsWithinGrant
  <1>3. CASE g \notin Absent
    <2>1. a \notin Absent /\ within[g][a]
      BY <1>1, <1>3 DEF ParamsWithinGrant
    <2>2. b \notin Absent /\ within[a][b]
      BY <1>1, <2>1 DEF ParamsWithinGrant
    <2>3. within[g][b]
      BY <1>1, <2>1, <2>2, WithinIsTransitive
    <2> QED
      BY <1>1, <2>2, <2>3 DEF ParamsWithinGrant
  <1> QED
    BY <1>2, <1>3
=============================================================================
