------------------------- MODULE CoreFunctionsProofs ------------------------
(***************************************************************************)
(* Proofs about the constraint evaluators and about the agreement of the   *)
(* harness with the core, and the laws of CoreFunctions as theorems of its *)
(* specification: whatever function is called, with whatever arguments,    *)
(* its result obeys its law.                                               *)
(*                                                                         *)
(* The harness matches an id by characters, the core a pattern by tokens.  *)
(* Both are tables filled from their ends; the proof of agreement says     *)
(* where each token stands in the id and carries the cells of one table    *)
(* over to the other, word by word and separator by separator.             *)
(***************************************************************************)
EXTENDS CarrierProofs, FiniteSetTheorems

-----------------------------------------------------------------------------
(* Quotients and remainders.                                               *)

\* Less than a turn forwards.
LEMMA TurnForward ==
  ASSUME NEW m \in Nat \ {0}, NEW x \in 0..(m - 1)
  PROVE  x % m = x
  OBVIOUS

\* Less than a turn back.
LEMMA TurnBack ==
  ASSUME NEW m \in Nat \ {0}, NEW x \in 1..(m - 1)
  PROVE  (-x) % m = m - x
  OBVIOUS

\* Quotient and remainder are the only ones.
LEMMA DivUnique ==
  ASSUME NEW m \in Nat \ {0}, NEW x \in Int, NEW q \in Int, NEW r \in 0..(m-1),
         x = q * m + r
  PROVE  x \div m = q /\ x % m = r
  OBVIOUS

\* Quotient and remainder.
LEMMA DivMod ==
  ASSUME NEW m \in Nat \ {0}, NEW x \in Int
  PROVE  /\ x = (x \div m) * m + (x % m) 
         /\ x % m \in 0..(m-1)
         /\ x \div m \in Int
  OBVIOUS

\* To divide by m and then by 2 is to divide by 2 * m.
LEMMA DivDiv ==
  ASSUME NEW m \in Nat \ {0}, NEW x \in Nat
  PROVE  (x \div m) \div 2 = x \div (2 * m)
  <1> DEFINE q == x \div m
             r == x % m
             h == q \div 2
             b == q % 2
  <1>1. x = q * m + r /\ r \in 0..(m - 1) /\ q \in Int
    BY DivMod
  <1> HIDE DEF q, r
  <1>2. q = h * 2 + b /\ b \in {0,1} /\ h \in Int
    BY <1>1
  <1> HIDE DEF h, b
  <1>3. x = h * (2 * m) + (b * m + r)
    <2>1. q * m = (h * 2 + b) * m
      BY <1>2
    <2>2. (h * 2 + b) * m = h * (2 * m) + b * m
      BY <1>2
    <2> QED
      BY <1>1, <1>2, <2>1, <2>2
  <1>4. b * m + r \in 0..(2 * m - 1)
    <2>1. CASE b = 0
      BY <1>1, <2>1
    <2>2. CASE b = 1
      BY <1>1, <2>2
    <2> QED
      BY <1>2, <2>1, <2>2
  <1>5. x \div (2 * m) = h
    <2> DEFINE m2 == 2 * m
               r2 == b * m + r
    <2>1. m2 \in Nat \ {0} /\ r2 \in 0..(m2 - 1) /\ x = h * m2 + r2
      BY <1>3, <1>4
    <2> HIDE DEF m2, r2
    <2>2. x \div m2 = h
      BY <1>2, <2>1, DivUnique
    <2> QED
      BY <2>2 DEF m2
  <1> QED
    BY <1>5 DEF h, q

\* The window is the arc from start to end: now - start and end - start, taken
\* modulo the day.
LEMMA WindowArc ==
  ASSUME NEW w, w.start \in 0..(Day - 1), w.end \in 0..(Day - 1),
         NEW now \in 0..(Day - 1)
  PROVE  EvalTimeWindow(w, now)
           <=> (now - w.start) % Day <= (w.end - w.start) % Day
  <1> DEFINE turn(x) == IF x >= 0 THEN x ELSE Day + x
  <1>1. Day \in Nat \ {0}
    BY WidthAssumption
  <1>2. ASSUME NEW a \in 0..(Day - 1), NEW b \in 0..(Day - 1)
        PROVE  (a - b) % Day = turn(a - b)
    <2>1. CASE a >= b
      <3>1. a - b \in 0..(Day - 1)
        BY <1>1, <2>1
      <3> QED
        BY <1>1, <3>1, TurnForward
    <2>2. CASE a < b
      <3>1. b - a \in 1..(Day - 1) /\ a - b = -(b - a)
        BY <1>1, <2>2
      <3>2. (-(b - a)) % Day = Day - (b - a)
        BY <1>1, <3>1, TurnBack
      <3> QED
        BY <1>1, <2>2, <3>1, <3>2
    <2> QED
      BY <1>1, <2>1, <2>2
  <1>3. (now - w.start) % Day = turn(now - w.start) /\ (w.end - w.start) % Day = turn(w.end - w.start)
    BY <1>2
  <1> QED
    BY <1>1, <1>3 DEF EvalTimeWindow

-----------------------------------------------------------------------------
(* Bits of addresses.                                                      *)

\* Pow2 holds the powers of two.
LEMMA PowersOfTwo ==
  /\ Pow2[0] = 1
  /\ \A n \in Nat : Pow2[n + 1] = 2 * Pow2[n]
  /\ \A n \in Nat : Pow2[n] \in Nat \ {0}
  <1> DEFINE body(f, n) == IF n = 0 THEN 1 ELSE 2 * f[n - 1]
             rank == [n \in Nat |-> n]
             Phi == [f \in [Nat -> Nat] |-> [n \in Nat |-> body(f, n)]]
  <1>1. \A f \in [Nat -> Nat] : [n \in Nat |-> body(f, n)] \in [Nat -> Nat]
    OBVIOUS
  <1>2. \A f, g \in [Nat -> Nat] : \A x \in Nat :
          (\A y \in Nat : rank[y] < rank[x] => f[y] = g[y]) => body(f, x) = body(g, x)
    <2> SUFFICES ASSUME NEW f \in [Nat -> Nat], NEW g \in [Nat -> Nat], NEW x \in Nat,
                        \A y \in Nat : rank[y] < rank[x] => f[y] = g[y]
                 PROVE  body(f, x) = body(g, x)
      OBVIOUS
    <2>1. x # 0 => x - 1 \in Nat /\ rank[x - 1] < rank[x]
      OBVIOUS
    <2> QED
      BY <2>1
  <1>3. rank \in [Nat -> Nat] /\ [n \in Nat |-> 0] \in [Nat -> Nat]
    OBVIOUS
  <1> HIDE DEF rank, body
  <1>4. \A f \in [Nat -> Nat] : Phi[f] = [n \in Nat |-> body(f, n)]
    OBVIOUS
  <1>5. Phi \in [[Nat -> Nat] -> [Nat -> Nat]]
    BY <1>1
  <1>6. \A f \in [Nat -> Nat] : \A x \in Nat : Phi[f][x] = body(f, x)
    BY <1>4
  <1> HIDE DEF Phi
  <1>7. \A f, g \in [Nat -> Nat] : \A x \in Nat :
          (\A y \in Nat : rank[y] < rank[x] => f[y] = g[y]) => Phi[f][x] = Phi[g][x]
    <2> SUFFICES ASSUME NEW f \in [Nat -> Nat], NEW g \in [Nat -> Nat], NEW x \in Nat,
                        \A y \in Nat : rank[y] < rank[x] => f[y] = g[y]
                 PROVE  Phi[f][x] = Phi[g][x]
      OBVIOUS
    <2>1. body(f, x) = body(g, x)
      BY <1>2
    <2> QED
      BY <1>6, <2>1
  <1>8. IsRecursion(Nat, Nat, rank, Phi)
    BY <1>3, <1>5, <1>7 DEF IsRecursion
  <1>9. \E f \in [Nat -> Nat] : f = [n \in Nat |-> body(f, n)]
    <2>1. \E f \in [Nat -> Nat] : f = Phi[f]
      BY <1>8, RecursiveFunctionExists, SMTT(40)
    <2> QED
      BY <1>4, <2>1
  <1>10. Pow2 = [n \in Nat |-> body(Pow2, n)]
    BY <1>9 DEF Pow2, body
  <1>11. Pow2[0] = 1 /\ \A n \in Nat : Pow2[n + 1] = 2 * Pow2[n]
    <2>1. \A n \in Nat : Pow2[n] = body(Pow2, n)
      BY <1>10
    <2> QED
      BY <2>1 DEF body
  <1> DEFINE U == {n \in Nat : Pow2[n] \in Nat \ {0}}
  <1>12. 0 \in U /\ \A n \in Nat : n \in U => n + 1 \in U
    BY <1>11
  <1>13. Nat \subseteq U
    <2> HIDE DEF U
    <2> QED
      BY <1>12, Induction
  <1> QED
    BY <1>11, <1>13

\* Two addresses agree above bit Bits - n exactly when their first n bits are
\* the same.
LEMMA PrefixIsBits ==
  ASSUME NEW a \in 0..(Pow2[Bits] - 1), NEW c \in 0..(Pow2[Bits] - 1), NEW len \in 0..Bits
  PROVE  a \div Pow2[Bits - len] = c \div Pow2[Bits - len]
           <=> \A i \in 1..len : Bit(a, i) = Bit(c, i)
  <1> DEFINE Same(n) == a \div Pow2[Bits - n] = c \div Pow2[Bits - n]
             Agree(n) == \A i \in 1..n : Bit(a, i) = Bit(c, i)
             U == {n \in Nat : n <= Bits => (Same(n) <=> Agree(n))}
  <1>1. Bits \in Nat /\ a \in Nat /\ c \in Nat
    BY PowersOfTwo, WidthAssumption
  <1>2. 0 \in U
    <2>1. \A x \in 0..(Pow2[Bits] - 1) : x \div Pow2[Bits] = 0
      <3> DEFINE m == Pow2[Bits]
      <3>1. m \in Nat \ {0}
        BY <1>1, PowersOfTwo
      <3> HIDE DEF m
      <3>2. \A x \in 0..(m - 1) : x \div m = 0
        BY <3>1
      <3> QED
        BY <3>2 DEF m
    <2>2. Bits - 0 = Bits
      BY <1>1
    <2> QED
      BY <2>1, <2>2
  <1>3. ASSUME NEW n \in Nat, n \in U PROVE n + 1 \in U
    <2>1. SUFFICES ASSUME n + 1 <= Bits PROVE Same(n + 1) <=> Agree(n + 1)
      OBVIOUS
    <2> DEFINE d == Bits - (n + 1)
               m == Pow2[d]
    <2>2. d \in Nat /\ Bits - n = d + 1
      BY <1>1, <2>1
    <2>3. m \in Nat \ {0} /\ Pow2[Bits - n] = 2 * m
      BY <2>2, PowersOfTwo
    <2>4. ASSUME NEW x \in Nat
          PROVE  /\ x \div m \in Int
                 /\ x \div Pow2[Bits - n] = (x \div m) \div 2
                 /\ Bit(x, n + 1) = (x \div m) % 2
      <3> HIDE DEF m
      <3>1. (x \div m) \div 2 = x \div (2 * m) /\ x \div m \in Int
        <4>1. (x \div m) \div 2 = x \div (2 * m)
          BY <2>3, DivDiv
        <4>2. x \div m \in Int
          BY <2>3
        <4> QED
          BY <4>1, <4>2
      <3>2. Bit(x, n + 1) = (x \div m) % 2
        BY DEF Bit, m
      <3> QED
        BY <2>3, <3>1, <3>2
    <2>5. \A q, r \in Int : q = r <=> q \div 2 = r \div 2 /\ q % 2 = r % 2
      OBVIOUS
    <2>6. Same(n + 1) <=> a \div m = c \div m
      OBVIOUS
    <2>7. Agree(n + 1) <=> Agree(n) /\ Bit(a, n + 1) = Bit(c, n + 1)
      <3>1. \A i : i \in 1..(n + 1) <=> i \in 1..n \/ i = n + 1
        OBVIOUS
      <3> QED
        BY <3>1
    <2>8. Same(n) <=> Agree(n)
      BY <1>3, <2>1, <1>1
    <2> HIDE DEF m, d
    <2>9. Same(n + 1) <=> Same(n) /\ Bit(a, n + 1) = Bit(c, n + 1)
      BY <1>1, <2>4, <2>5, <2>6
    <2> QED
      BY <2>7, <2>8, <2>9
  <1>4. Nat \subseteq U
    <2> HIDE DEF U
    <2> QED
      BY <1>2, <1>3, Induction
  <1> QED
    BY <1>1, <1>4

\* When the shift of an IPv6 range throws.
LEMMA CidrThrowsWhen ==
  ASSUME NEW ip, NEW cidr, cidr.length \in Lengths
  PROVE  CidrThrows(ip, cidr)
           <=> /\ ip.family = 6 /\ cidr.family = 6
               /\ \/ cidr.length[1] = "word"
                  \/ cidr.length[1] = "half" /\ cidr.length[2] \in 0..(Bits - 1)
  <1> DEFINE k == cidr.length[1]
             n == cidr.length[2]
  <1>1. /\ k \in {"none", "digits", "half", "empty", "word"}
        /\ k \in {"half", "digits"} => n \in Int
    BY DEF Lengths
  <1>2. Bits \in Nat
    BY WidthAssumption
  <1> HIDE DEF k, n
  <1>3. CASE k = "half"
    <2>1. (2 * n + 1) \in 0..(2 * Bits) <=> n \in 0..(Bits - 1)
      BY <1>1, <1>2, <1>3
    <2>2. (2 * n + 1) % 2 = 1
      BY <1>1, <1>3
    <2> QED
      BY <1>3, <2>1, <2>2 DEF CidrThrows, LengthPasses, Halves, NaN, k, n
  <1>4. CASE k = "digits"
    <2>1. (2 * n) % 2 = 0
      BY <1>1, <1>4
    <2> QED
      BY <1>4, <2>1 DEF CidrThrows, LengthPasses, Halves, NaN, k, n
  <1>5. CASE k \in {"none", "empty", "word"}
    BY <1>5 DEF CidrThrows, LengthPasses, Halves, NaN, k, n
  <1> QED
    BY <1>1, <1>3, <1>4, <1>5

\* What the mask drops is what follows the bits that the length stands for.
LEMMA DroppedBits ==
  ASSUME NEW length \in Lengths, length[1] # "none"
  PROVE  /\ LengthPasses(length)
              <=> /\ length[1] = "digits" => length[2] \in 0..Bits
                  /\ length[1] = "half" => length[2] \in 0..(Bits - 1)
         /\ LengthPasses(length) => /\ BitsOf(length) \in 0..Bits
                                    /\ Dropped(length) = Bits - BitsOf(length)
  <1> DEFINE k == length[1]
             n == length[2]
  <1>1. /\ k \in {"digits", "half", "empty", "word"}
        /\ k \in {"half", "digits"} => n \in Int
    BY DEF Lengths
  <1>2. Bits \in Nat
    BY WidthAssumption
  <1> HIDE DEF k, n
  <1>3. CASE k = "digits"
    <2>1. (2 * n) \in 0..(2 * Bits) <=> n \in 0..Bits
      BY <1>1, <1>2, <1>3
    <2>2. (2 * Bits - 2 * n) \div 2 = Bits - n
      BY <1>1, <1>2, <1>3
    <2> QED
      BY <1>3, <2>1, <2>2 DEF LengthPasses, Halves, NaN, Dropped, BitsOf, k, n
  <1>4. CASE k = "half"
    <2>1. (2 * n + 1) \in 0..(2 * Bits) <=> n \in 0..(Bits - 1)
      BY <1>1, <1>2, <1>4
    <2>2. (2 * Bits - (2 * n + 1)) \div 2 = Bits - (n + 1)
      BY <1>1, <1>2, <1>4
    <2>3. n \in 0..(Bits - 1) => n + 1 \in 0..Bits
      BY <1>1, <1>2, <1>4
    <2> QED
      BY <1>4, <2>1, <2>2, <2>3 DEF LengthPasses, Halves, NaN, Dropped, BitsOf, k, n
  <1>5. CASE k = "empty"
    <2>1. 0 \in 0..(2 * Bits) /\ 0 \in 0..Bits /\ (2 * Bits - 0) \div 2 = Bits - 0
      BY <1>2
    <2> QED
      BY <1>5, <2>1 DEF LengthPasses, Halves, NaN, Dropped, BitsOf, k, n
  <1>6. CASE k = "word"
    <2>1. Bits \in 0..Bits /\ 0 = Bits - Bits
      BY <1>2
    <2> QED
      BY <1>6, <2>1 DEF LengthPasses, NaN, Dropped, BitsOf, k
  <1> QED
    BY <1>1, <1>3, <1>4, <1>5, <1>6

\* A range holds the addresses that agree with it on the bits of its prefix.
LEMMA CidrBlock ==
  ASSUME NEW ip, NEW cidr, ip.addr \in 0..(Pow2[Bits] - 1),
         cidr.addr \in 0..(Pow2[Bits] - 1), cidr.length \in Lengths
  PROVE  CidrContains(ip, cidr)
           <=> /\ ip.family = cidr.family /\ ~CidrThrows(ip, cidr)
               /\ cidr.length[1] = "digits" => cidr.length[2] \in 0..Bits
               /\ cidr.length[1] = "half" => cidr.length[2] \in 0..(Bits - 1)
               /\ \A i \in 1..BitsOf(cidr.length) :
                    Bit(ip.addr, i) = Bit(cidr.addr, i)
  <1>1. Bits \in Nat
    BY WidthAssumption
  <1> DEFINE length == cidr.length
             Agree(len) == ip.addr \div Pow2[Bits - len] = cidr.addr \div Pow2[Bits - len]
  <1>4. \A len \in 0..Bits :
          Agree(len) <=> \A i \in 1..len : Bit(ip.addr, i) = Bit(cidr.addr, i)
    BY PrefixIsBits
  <1>2. CASE length[1] = "none"
    <2>1. ip.addr = cidr.addr <=> Agree(Bits)
      <3>1. Bits - Bits = 0 /\ Pow2[0] = 1
        BY <1>1, PowersOfTwo
      <3>2. ip.addr \in Int /\ cidr.addr \in Int
        OBVIOUS
      <3> QED
        BY <3>1, <3>2
    <2>2. Bits \in 0..Bits /\ BitsOf(length) = Bits
      BY <1>1, <1>2 DEF BitsOf
    <2> HIDE DEF Agree
    <2> QED
      BY <1>2, <1>4, <2>1, <2>2 DEF CidrContains
  <1>3. CASE length[1] # "none"
    <2>1. CASE LengthPasses(length)
      <3>1. BitsOf(length) \in 0..Bits /\ Dropped(length) = Bits - BitsOf(length)
        BY <1>3, <2>1, DroppedBits
      <3>2. CidrContains(ip, cidr) <=> /\ ip.family = cidr.family /\ ~CidrThrows(ip, cidr)
                                       /\ Agree(BitsOf(length))
        BY <1>3, <2>1, <3>1 DEF CidrContains
      <3>3. /\ length[1] = "digits" => length[2] \in 0..Bits
            /\ length[1] = "half" => length[2] \in 0..(Bits - 1)
        BY <1>3, <2>1, DroppedBits
      <3> HIDE DEF Agree
      <3> QED
        BY <1>4, <3>1, <3>2, <3>3
    <2>2. CASE ~LengthPasses(length)
      <3>1. ~(/\ length[1] = "digits" => length[2] \in 0..Bits
              /\ length[1] = "half" => length[2] \in 0..(Bits - 1))
        BY <1>3, <2>2, DroppedBits
      <3> QED
        BY <1>3, <2>2, <3>1 DEF CidrContains
    <2> QED
      BY <2>1, <2>2
  <1> QED
    BY <1>2, <1>3

-----------------------------------------------------------------------------
(* The loop over the constraints.                                          *)

Verdicts == [ok : BOOLEAN, notes : Nat]

\* What the loop makes of constraint n, given what it makes of the rest.
Judged(f, cs, ctx, strict, n) ==
  IF n = Len(cs) + 1 THEN [ok |-> TRUE, notes |-> 0]
  ELSE CASE ~cs[n].known -> [ok |-> FALSE, notes |-> 0]
         [] cs[n].known /\ cs[n].id \notin Found ->
              IF strict THEN [ok |-> FALSE, notes |-> 0]
              ELSE [f[n + 1] EXCEPT !.notes = IF f[n + 1].ok THEN @ + 1 ELSE 0]
         [] OTHER -> IF Evaluate(cs[n], ctx) THEN f[n + 1]
                     ELSE [ok |-> FALSE, notes |-> 0]

Fulfilled(c, ctx, strict) ==
  /\ c.known
  /\ c.id \in Found => Evaluate(c, ctx)
  /\ strict => c.id \in Found

\* The loop makes a verdict of a constraint and a verdict on the rest.
LEMMA JudgedIsVerdict ==
  ASSUME NEW cs, Len(cs) \in Nat, NEW ctx, NEW strict \in BOOLEAN,
         NEW f, NEW n \in 1..(Len(cs) + 1), n # Len(cs) + 1 => f[n + 1] \in Verdicts
  PROVE  Judged(f, cs, ctx, strict, n) \in Verdicts
  <1>2. \A v \in Verdicts :
          [v EXCEPT !.notes = IF v.ok THEN v.notes + 1 ELSE 0] \in Verdicts
    BY DEF Verdicts
  <1>3. [ok |-> FALSE, notes |-> 0] \in Verdicts /\ [ok |-> TRUE, notes |-> 0] \in Verdicts
    BY DEF Verdicts
  <1> QED
    BY <1>2, <1>3 DEF Judged

\* What one constraint adds to the verdict on the rest.
LEMMA JudgedAlone ==
  ASSUME NEW cs, Len(cs) \in Nat, NEW ctx, NEW strict \in BOOLEAN,
         NEW f \in [1..(Len(cs) + 1) -> Verdicts], NEW n \in 1..Len(cs),
         NEW rest, rest = f[n + 1]
  PROVE  /\ Judged(f, cs, ctx, strict, n).ok <=> Fulfilled(cs[n], ctx, strict) /\ rest.ok
         /\ Judged(f, cs, ctx, strict, n).ok =>
              Judged(f, cs, ctx, strict, n).notes
                = IF cs[n].id \in Found THEN rest.notes ELSE rest.notes + 1
  <1>1. rest \in Verdicts /\ n # Len(cs) + 1
    OBVIOUS
  <1>2. CASE ~cs[n].known
    <2>1. Judged(f, cs, ctx, strict, n) = [ok |-> FALSE, notes |-> 0]
      BY <1>1, <1>2 DEF Judged
    <2> QED
      BY <1>2, <2>1 DEF Fulfilled
  <1>3. CASE cs[n].known /\ cs[n].id \notin Found
    <2>1. Judged(f, cs, ctx, strict, n) =
            IF strict THEN [ok |-> FALSE, notes |-> 0]
            ELSE [rest EXCEPT !.notes = IF rest.ok THEN rest.notes + 1 ELSE 0]
      BY <1>1, <1>3 DEF Judged
    <2> QED
      BY <1>1, <1>3, <2>1 DEF Fulfilled, Verdicts
  <1>4. CASE cs[n].known /\ cs[n].id \in Found
    <2>1. Judged(f, cs, ctx, strict, n) =
            IF Evaluate(cs[n], ctx) THEN rest ELSE [ok |-> FALSE, notes |-> 0]
      BY <1>1, <1>4 DEF Judged
    <2> QED
      BY <1>1, <1>4, <2>1 DEF Fulfilled, Verdicts
  <1> QED
    BY <1>2, <1>3, <1>4

\* The loop over the constraints is a conjunction, and its notes count the ones of
\* no builtin type.  By induction on what is left of the list.
LEMMA ConstraintsAreConjoined ==
  ASSUME NEW cs, Len(cs) \in Nat, NEW ctx, NEW strict \in BOOLEAN,
         NEW result, result = EvaluateConstraints(cs, ctx, strict)
  PROVE  /\ result.ok \in BOOLEAN
         /\ result.ok <=> \A n \in 1..Len(cs) : Fulfilled(cs[n], ctx, strict)
         /\ result.ok =>
              result.notes = Cardinality({n \in 1..Len(cs) : cs[n].id \notin Found})
  <1> DEFINE N == Len(cs)
             row(f, n) == Judged(f, cs, ctx, strict, n)
             f[n \in 1..(Len(cs) + 1)] == row(f, n)
  <1>1. result = f[1]
    BY DEF EvaluateConstraints, Judged
  <1> HIDE DEF f
  <1>2. \E g \in [1..(N + 1) -> Verdicts] : g = [n \in 1..(N + 1) |-> row(g, n)]
    <2> DEFINE Phi == [g \in [1..(N + 1) -> Verdicts] |-> [n \in 1..(N + 1) |-> row(g, n)]]
    <2>1. \A g \in [1..(N + 1) -> Verdicts] : \A n \in 1..(N + 1) : row(g, n) \in Verdicts
      <3> SUFFICES ASSUME NEW g \in [1..(N + 1) -> Verdicts], NEW n \in 1..(N + 1)
                   PROVE  row(g, n) \in Verdicts
        OBVIOUS
      <3>1. n # Len(cs) + 1 => g[n + 1] \in Verdicts
        OBVIOUS
      <3> QED
        BY <3>1, JudgedIsVerdict
    <2>2. \A g, h \in [1..(N + 1) -> Verdicts] : \A n \in 1..(N + 1) :
            (\A m \in (n + 1)..(N + 1) : g[m] = h[m]) => row(g, n) = row(h, n)
      <3> SUFFICES ASSUME NEW g \in [1..(N + 1) -> Verdicts], NEW h \in [1..(N + 1) -> Verdicts],
                          NEW n \in 1..(N + 1), \A m \in (n + 1)..(N + 1) : g[m] = h[m]
                   PROVE  row(g, n) = row(h, n)
        OBVIOUS
      <3>1. CASE n = N + 1
        BY <3>1 DEF Judged
      <3>2. CASE n # N + 1
        <4>1. g[n + 1] = h[n + 1]
          BY <3>2
        <4> QED
          BY <4>1 DEF Judged
      <3> QED
        BY <3>1, <3>2
    <2>3. Verdicts # {}
      <3>1. [ok |-> TRUE, notes |-> 0] \in Verdicts
        BY DEF Verdicts
      <3> QED
        BY <3>1
    <2> HIDE DEF row
    <2>4. LooksUp(N, Verdicts, Phi)
      BY <2>1, <2>2, <2>3 DEF LooksUp
    <2>5. \A g \in [1..(N + 1) -> Verdicts] : Phi[g] = [n \in 1..(N + 1) |-> row(g, n)]
      OBVIOUS
    <2> HIDE DEF Phi, N
    <2>6. \E g \in [1..(N + 1) -> Verdicts] : g = Phi[g]
      BY <2>4, UpwardRecursion DEF N
    <2> QED
      BY <2>5, <2>6
  <1>3. f = [n \in 1..(N + 1) |-> row(f, n)]
    BY <1>2 DEF f
  <1>4. \A n \in 1..(N + 1) : f[n] = row(f, n)
    BY <1>3
  <1>5. f \in [1..(N + 1) -> Verdicts]
    <2> DEFINE U == {d \in Nat : \A n \in 1..(N + 1) : n + d = N + 1 => f[n] \in Verdicts}
    <2> HIDE DEF row
    <2>1. 0 \in U
      <3>1. ASSUME NEW n \in 1..(N + 1), n + 0 = N + 1 PROVE f[n] \in Verdicts
        <4>1. row(f, n) \in Verdicts
          BY <3>1, JudgedIsVerdict DEF row
        <4> QED
          BY <1>4, <4>1
      <3> QED
        BY <3>1
    <2>2. ASSUME NEW d \in Nat, d \in U PROVE d + 1 \in U
      <3>1. ASSUME NEW n \in 1..(N + 1), n + (d + 1) = N + 1 PROVE f[n] \in Verdicts
        <4>1. n + 1 \in 1..(N + 1) /\ (n + 1) + d = N + 1
          BY <3>1
        <4>2. f[n + 1] \in Verdicts
          BY <2>2, <4>1
        <4>3. row(f, n) \in Verdicts
          BY <4>2, JudgedIsVerdict DEF row
        <4> QED
          BY <1>4, <4>3
      <3> QED
        BY <3>1
    <2>3. Nat \subseteq U
      <3> HIDE DEF U
      <3> QED
        BY <2>1, <2>2, Induction
    <2>4. ASSUME NEW n \in 1..(N + 1) PROVE f[n] \in Verdicts
      <3>1. N + 1 - n \in Nat /\ n + (N + 1 - n) = N + 1
        OBVIOUS
      <3> QED
        BY <2>3, <3>1
    <2> QED
      BY <1>3, <2>4
  <1> DEFINE Odd(n) == {m \in n..N : cs[m].id \notin Found}
             Right(n) == /\ f[n].ok <=> \A m \in n..N : Fulfilled(cs[m], ctx, strict)
                         /\ f[n].ok => f[n].notes = Cardinality(Odd(n))
             U == {d \in Nat : \A n \in 1..(N + 1) : n + d = N + 1 => Right(n)}
  <1>6. 0 \in U
    <2>1. ASSUME NEW n \in 1..(N + 1), n + 0 = N + 1 PROVE Right(n)
      <3>1. f[n] = [ok |-> TRUE, notes |-> 0]
        <4>1. row(f, n) = [ok |-> TRUE, notes |-> 0]
          BY <2>1 DEF Judged
        <4> QED
          BY <1>4, <4>1
      <3>2. \A m : m \notin n..N
        BY <2>1
      <3>3. Cardinality(Odd(n)) = 0
        <4>1. Odd(n) = {}
          BY <3>2
        <4> QED
          BY <4>1, FS_EmptySet
      <3> HIDE DEF Odd
      <3> QED
        BY <3>1, <3>2, <3>3
    <2> QED
      BY <2>1
  <1>7. ASSUME NEW d \in Nat, d \in U PROVE d + 1 \in U
    <2>1. ASSUME NEW n \in 1..(N + 1), n + (d + 1) = N + 1 PROVE Right(n)
      <3>1. n \in 1..N /\ n + 1 \in 1..(N + 1) /\ (n + 1) + d = N + 1
        BY <2>1
      <3>2. Right(n + 1)
        BY <1>7, <3>1
      <3>3. \A m : m \in n..N <=> m = n \/ m \in (n + 1)..N
        BY <3>1
      <3>4. /\ f[n].ok <=> Fulfilled(cs[n], ctx, strict) /\ f[n + 1].ok
            /\ f[n].ok => f[n].notes = IF cs[n].id \in Found THEN f[n + 1].notes
                                       ELSE f[n + 1].notes + 1
        BY <1>4, <1>5, <3>1, JudgedAlone
      <3>5. f[n].ok <=> \A m \in n..N : Fulfilled(cs[m], ctx, strict)
        BY <3>2, <3>3, <3>4
      <3>6. ASSUME f[n].ok PROVE f[n].notes = Cardinality(Odd(n))
        <4>1. f[n + 1].notes = Cardinality(Odd(n + 1))
          BY <3>2, <3>4, <3>6
        <4>2. IsFiniteSet(Odd(n + 1))
          <5>1. IsFiniteSet((n + 1)..N)
            BY <3>1, FS_Interval
          <5> QED
            BY <5>1, FS_Subset
        <4>3. CASE cs[n].id \in Found
          <5>1. Odd(n) = Odd(n + 1)
            BY <3>3, <4>3
          <5> QED
            BY <3>4, <3>6, <4>1, <4>3, <5>1
        <4>4. CASE cs[n].id \notin Found
          <5>1. Odd(n) = Odd(n + 1) \cup {n} /\ n \notin Odd(n + 1)
            BY <3>1, <3>3, <4>4
          <5>2. Cardinality(Odd(n)) = Cardinality(Odd(n + 1)) + 1
            BY <4>2, <5>1, FS_AddElement
          <5> QED
            BY <3>4, <3>6, <4>1, <4>4, <5>2
        <4> QED
          BY <4>3, <4>4
      <3> QED
        BY <3>5, <3>6
    <2> HIDE DEF Right
    <2> QED
      BY <2>1
  <1>8. N \in U
    <2> HIDE DEF U
    <2> QED
      BY <1>6, <1>7, Induction
  <1>9. 1 \in 1..(N + 1) /\ 1 + N = N + 1
    OBVIOUS
  <1>10. Right(1)
    <2> HIDE DEF Right
    <2> QED
      BY <1>8, <1>9
  <1> QED
    BY <1>1, <1>5, <1>9, <1>10 DEF Verdicts

-----------------------------------------------------------------------------
(* The pattern of an id in the harness.                                    *)

\* Two stars in a row.
GlobDeep(p, i) == p[i] = "*" /\ i < Len(p) /\ p[i + 1] = "*"

\* The table that Glob computes.
GlobStep(at, p, t, stop, i, j) ==
  \/ GlobDeep(p, i) /\ \E k \in j..(Len(t) + 1) :
                         Takes(t, j, k, stop) /\ at[i + 2][k]
  \/ /\ p[i] = "*" /\ ~GlobDeep(p, i)
     /\ \E k \in j..(Len(t) + 1) : Takes(t, j, k, {"/"}) /\ at[i + 1][k]
  \/ /\ p[i] \in Special
     /\ \E w \in Words[p[i]] :
          WordStands(p[i], w, t, j, stop) /\ at[i + 1][j + Len(w)]
  \/ /\ p[i] \notin {"*"} \cup Special
     /\ j <= Len(t) /\ t[j] = p[i] /\ at[i + 1][j + 1]

\* The whole table, as Glob defines it.
GlobTable(at, p, t, stop) ==
  /\ at \in [1..(Len(p) + 1) -> [1..(Len(t) + 1) -> BOOLEAN]]
  /\ \A i \in 1..(Len(p) + 1) : \A j \in 1..(Len(t) + 1) :
       at[i][j] <=> IF i > Len(p) THEN j > Len(t) ELSE GlobStep(at, p, t, stop, i, j)

\* Glob reads the first cell of the table of its recursive definition.
LEMMA GlobTableExists ==
  ASSUME NEW p \in Token, NEW t \in Token, NEW stop
  PROVE  \E at : GlobTable(at, p, t, stop) /\ Glob(p, t, stop) = at[1][1]
  <1> DEFINE N == Len(p)
             V == [1..(Len(t) + 1) -> BOOLEAN]
             row(a, i) ==
               [j \in 1..(Len(t) + 1) |->
                  IF i > Len(p) THEN j > Len(t) ELSE GlobStep(a, p, t, stop, i, j)]
             at[i \in 1..(Len(p) + 1)] == row(at, i)
  <1>1. Glob(p, t, stop) = at[1][1]
    BY DEF Glob, GlobStep, GlobDeep
  <1>2. N \in Nat /\ Len(t) \in Nat
    BY DEF Token
  <1> HIDE DEF at
  <1>9. \A a : \A i : row(a, i) \in V
    <2>1. \A a : \A i : \A j : GlobStep(a, p, t, stop, i, j) \in BOOLEAN
      BY DEF GlobStep
    <2>2. \A a : \A i : \A j \in 1..(Len(t) + 1) :
            (IF i > Len(p) THEN j > Len(t) ELSE GlobStep(a, p, t, stop, i, j)) \in BOOLEAN
      <3> SUFFICES ASSUME NEW a, NEW i, NEW j \in 1..(Len(t) + 1)
                   PROVE  (IF i > Len(p) THEN j > Len(t) ELSE GlobStep(a, p, t, stop, i, j)) \in BOOLEAN
        OBVIOUS
      <3>1. CASE i > Len(p)
        BY <3>1
      <3>2. CASE ~(i > Len(p))
        BY <2>1, <3>2
      <3> QED
        BY <3>1, <3>2
    <2> QED
      BY <2>2
  <1>3. \E f \in [1..(N + 1) -> V] : f = [i \in 1..(N + 1) |-> row(f, i)]
    <2> DEFINE Phi == [g \in [1..(N + 1) -> V] |-> [i \in 1..(N + 1) |-> row(g, i)]]
    <2>1. \A g : \A i : row(g, i) \in V
      BY <1>9
    <2>2. \A g, h \in [1..(N + 1) -> V] : \A i \in 1..(N + 1) :
            (\A m \in (i + 1)..(N + 1) : g[m] = h[m]) => row(g, i) = row(h, i)
      <3> SUFFICES ASSUME NEW g \in [1..(N + 1) -> V], NEW h \in [1..(N + 1) -> V],
                          NEW i \in 1..(N + 1),
                          \A m \in (i + 1)..(N + 1) : g[m] = h[m]
                   PROVE  row(g, i) = row(h, i)
        OBVIOUS
      <3>1. CASE i > Len(p)
        BY <3>1
      <3>2. CASE ~(i > Len(p))
        <4>1. g[i + 1] = h[i + 1]
          BY <1>2, <3>2
        <4>2. GlobDeep(p, i) => g[i + 2] = h[i + 2]
          BY <1>2, <3>2 DEF GlobDeep
        <4>3. \A j : GlobStep(g, p, t, stop, i, j) = GlobStep(h, p, t, stop, i, j)
          BY <4>1, <4>2 DEF GlobStep
        <4> QED
          BY <4>3
      <3> QED
        BY <3>1, <3>2
    <2>3. V # {}
      <3>1. [j \in 1..(Len(t) + 1) |-> TRUE] \in V
        OBVIOUS
      <3> QED
        BY <3>1
    <2> HIDE DEF V, row
    <2>4. LooksUp(N, V, Phi)
      BY <2>1, <2>2, <2>3 DEF LooksUp
    <2>5. \A g \in [1..(N + 1) -> V] : Phi[g] = [i \in 1..(N + 1) |-> row(g, i)]
      OBVIOUS
    <2> HIDE DEF Phi, N
    <2>6. \E f \in [1..(N + 1) -> V] : f = Phi[f]
      BY <1>2, <2>4, UpwardRecursion
    <2> QED
      BY <2>5, <2>6
  <1>4. at = [i \in 1..(N + 1) |-> row(at, i)]
    BY <1>3 DEF at
  <1>5. GlobTable(at, p, t, stop)
    <2>1. at \in [1..(N + 1) -> V]
      <3>1. \A i : row(at, i) \in V
        BY <1>9
      <3> HIDE DEF row, V
      <3> QED
        BY <1>4, <3>1
    <2>2. ASSUME NEW i \in 1..(N + 1), NEW j \in 1..(Len(t) + 1)
          PROVE  at[i][j] <=> IF i > Len(p) THEN j > Len(t)
                              ELSE GlobStep(at, p, t, stop, i, j)
      <3>1. at[i] = row(at, i)
        BY <1>4
      <3> QED
        BY <3>1 DEF GlobStep
    <2> QED
      BY <2>1, <2>2 DEF GlobTable
  <1> QED
    BY <1>1, <1>5

\* One step of the table, and its end.
LEMMA GlobCell ==
  ASSUME NEW p \in Token, NEW t \in Token, NEW stop, NEW at, GlobTable(at, p, t, stop),
         NEW i \in 1..Len(p), NEW j \in 1..(Len(t) + 1)
  PROVE  at[i][j] <=> GlobStep(at, p, t, stop, i, j)
  <1>1. i \in 1..(Len(p) + 1) /\ ~(i > Len(p))
    BY DEF Token
  <1> QED
    BY <1>1 DEF GlobTable

\* A pattern at its end matches an id at its end.
LEMMA GlobEnd ==
  ASSUME NEW p \in Token, NEW t \in Token, NEW stop, NEW at, GlobTable(at, p, t, stop),
         NEW j \in 1..(Len(t) + 1)
  PROVE  at[Len(p) + 1][j] <=> j = Len(t) + 1
  <1>1. Len(p) + 1 \in 1..(Len(p) + 1) /\ Len(p) + 1 > Len(p) /\ Len(t) \in Nat
    BY DEF Token
  <1>2. at[Len(p) + 1][j] <=> j > Len(t)
    BY <1>1 DEF GlobTable
  <1> QED
    BY <1>1, <1>2

\* A character that is no wildcard takes itself.
LEMMA GlobLiteral ==
  ASSUME NEW p \in Token, NEW t \in Token, NEW stop, NEW at, GlobTable(at, p, t, stop),
         NEW i \in 1..Len(p), p[i] \notin {"*"} \cup Special, NEW j \in 1..(Len(t) + 1)
  PROVE  at[i][j] <=> j <= Len(t) /\ t[j] = p[i] /\ at[i + 1][j + 1]
  <1>1. at[i][j] <=> GlobStep(at, p, t, stop, i, j)
    BY GlobCell
  <1> QED
    BY <1>1 DEF GlobStep, GlobDeep

\* A word that comes next in the id stands there.
LEMMA PrefixStands ==
  ASSUME NEW t \in Token, NEW w \in Token, NEW j \in 1..(Len(t) + 1), NEW c, NEW stop,
         IsPrefix(w, Drop(t, j - 1))
  PROVE  WordStands(c, w, t, j, stop)
  <1>1. j + Len(w) \in j..(Len(t) + 1) /\ \A n \in 1..Len(w) : t[j + n - 1] = w[n]
    BY PrefixFits
  <1>2. Len(w) \in Nat /\ Len(t) \in Nat
    BY DEF Token
  <1> QED
    BY <1>1, <1>2 DEF WordStands

\* A word that stands in the id comes next in it, unless it has a dot and is
\* one of an alternation's.
LEMMA StandsPrefix ==
  ASSUME NEW t \in Token, NEW w \in Token, NEW j \in 1..(Len(t) + 1), NEW c, NEW stop,
         WordStands(c, w, t, j, stop), c \in Alternations => "." \notin Range(w)
  PROVE  IsPrefix(w, Drop(t, j - 1))
  <1>1. Len(w) \in Nat /\ Len(t) \in Nat /\ DOMAIN w = 1..Len(w)
    BY DEF Token
  <1>2. j + Len(w) \in j..(Len(t) + 1)
    BY <1>1 DEF WordStands
  <1>3. ASSUME NEW n \in 1..Len(w) PROVE t[j + n - 1] = w[n]
    <2>1. c \in Alternations => w[n] # "."
      BY <1>1 DEF Range
    <2> QED
      BY <2>1 DEF WordStands
  <1> QED
    BY <1>2, <1>3, PrefixFits

\* The word w stands in q from a on.
Sits(w, q, a) ==
  /\ a \in Nat /\ a >= 1 /\ a + Len(w) <= Len(q) + 1
  /\ \A m \in 1..Len(w) : q[a + m - 1] = w[m]

\* What comes next in a word comes next in the text it stands in.
LEMMA PrefixSits ==
  ASSUME NEW v \in Token, NEW x \in Token, NEW u \in Token, NEW b, Sits(x, u, b),
         NEW n \in 1..(Len(x) + 1), n + Len(v) <= Len(x) + 1
  PROVE  IsPrefix(v, Drop(x, n - 1)) <=> IsPrefix(v, Drop(u, (b + n - 1) - 1))
  <1>1. Len(v) \in Nat /\ Len(x) \in Nat /\ Len(u) \in Nat /\ b \in Nat /\ b >= 1
        /\ b + Len(x) <= Len(u) + 1
    BY DEF Token, Sits
  <1>2. b + n - 1 \in 1..(Len(u) + 1) /\ n + Len(v) \in n..(Len(x) + 1)
        /\ (b + n - 1) + Len(v) \in (b + n - 1)..(Len(u) + 1)
    BY <1>1
  <1>3. IsPrefix(v, Drop(x, n - 1)) <=> \A k \in 1..Len(v) : x[n + k - 1] = v[k]
    BY <1>2, PrefixFits
  <1>4. IsPrefix(v, Drop(u, (b + n - 1) - 1))
          <=> \A k \in 1..Len(v) : u[(b + n - 1) + k - 1] = v[k]
    BY <1>2, PrefixFits
  <1>5. ASSUME NEW k \in 1..Len(v) PROVE u[(b + n - 1) + k - 1] = x[n + k - 1]
    <2>1. n + k - 1 \in 1..Len(x) /\ b + (n + k - 1) - 1 = (b + n - 1) + k - 1
      BY <1>1, <1>2
    <2>2. u[b + (n + k - 1) - 1] = x[n + k - 1]
      BY <2>1 DEF Sits
    <2> QED
      BY <2>1, <2>2
  <1> QED
    BY <1>3, <1>4, <1>5

\* The word w of a pattern and the word x of an id, where they stand; what
\* follows w is no star.
Facing(at, q, u, stop, w, x, a, b) ==
  /\ GlobTable(at, q, u, stop)
  /\ Sits(w, q, a) /\ Sits(x, u, b)
  /\ a + Len(w) <= Len(q) => q[a + Len(w)] # "*"

\* A star of the word is a star of the pattern, and so are two.
LEMMA StarsFacing ==
  ASSUME NEW q \in Token, NEW w \in Token, NEW a, Sits(w, q, a),
         a + Len(w) <= Len(q) => q[a + Len(w)] # "*",
         NEW m \in 1..Len(w)
  PROVE  /\ a + m - 1 \in 1..Len(q) /\ q[a + m - 1] = w[m]
         /\ GlobDeep(q, a + m - 1) <=> GlobDeep(w, m)
  <1>1. Len(w) \in Nat /\ Len(q) \in Nat /\ a \in Nat /\ a >= 1 /\ a + Len(w) <= Len(q) + 1
    BY DEF Token, Sits
  <1>2. a + m - 1 \in 1..Len(q) /\ q[a + m - 1] = w[m]
    BY <1>1 DEF Sits
  <1>3. CASE m < Len(w)
    <2>1. m + 1 \in 1..Len(w) /\ a + (m + 1) - 1 = (a + m - 1) + 1 /\ a + m - 1 < Len(q)
      BY <1>1, <1>3
    <2>2. q[(a + m - 1) + 1] = w[m + 1]
      BY <2>1 DEF Sits
    <2> QED
      BY <1>2, <1>3, <2>1, <2>2 DEF GlobDeep
  <1>4. CASE ~(m < Len(w))
    <2>1. (a + m - 1) + 1 = a + Len(w) /\ (a + m - 1 < Len(q) <=> a + Len(w) <= Len(q))
      BY <1>1, <1>4
    <2> QED
      BY <1>2, <1>4, <2>1 DEF GlobDeep
  <1> QED
    BY <1>2, <1>3, <1>4

\* Of a word without the characters of S a star takes all.
LEMMA TakesSits ==
  ASSUME NEW x \in Token, NEW u \in Token, NEW b, Sits(x, u, b),
         NEW S, \A n \in 1..Len(x) : x[n] \notin S,
         NEW n \in 1..(Len(x) + 1), NEW k \in n..(Len(x) + 1)
  PROVE  /\ Takes(u, b + n - 1, b + k - 1, S)
         /\ b + k - 1 \in (b + n - 1)..(Len(u) + 1)
  <1>1. Len(x) \in Nat /\ Len(u) \in Nat /\ b \in Nat /\ b >= 1 /\ b + Len(x) <= Len(u) + 1
    BY DEF Token, Sits
  <1>2. ASSUME NEW c \in (b + n - 1)..((b + k - 1) - 1) PROVE u[c] \notin S
    <2>1. c - b + 1 \in 1..Len(x) /\ b + (c - b + 1) - 1 = c
      BY <1>1
    <2>2. u[c] = x[c - b + 1]
      BY <2>1 DEF Sits
    <2> QED
      BY <2>1, <2>2
  <1> QED
    BY <1>1, <1>2 DEF Takes

\* Row m of the table of a word is in the table of the id.
RowFollows(at, tk, X, a, b, m) ==
  \A n \in 1..(X + 1) : tk[m][n] => at[a + m - 1][b + n - 1]

\* It is if the next rows are.
LEMMA WordForwardStep ==
  ASSUME NEW q \in Token, NEW u \in Token, NEW w \in Token, NEW x \in Token,
         NEW stop, NEW at, NEW a, NEW b, Facing(at, q, u, stop, w, x, a, b),
         \A n \in 1..Len(x) : x[n] \notin stop /\ x[n] # "/",
         NEW tk, CharTable(tk, w, x), NEW m \in 1..Len(w),
         RowFollows(at, tk, Len(x), a, b, m + 1),
         m + 1 <= Len(w) => RowFollows(at, tk, Len(x), a, b, m + 2)
  PROVE  RowFollows(at, tk, Len(x), a, b, m)
  <1>1. /\ Len(w) \in Nat /\ Len(x) \in Nat /\ Len(q) \in Nat /\ Len(u) \in Nat
        /\ a \in Nat /\ a >= 1 /\ b \in Nat /\ b >= 1 /\ b + Len(x) <= Len(u) + 1
    BY DEF Token, Facing, Sits
  <1>2. /\ a + m - 1 \in 1..Len(q) /\ q[a + m - 1] = w[m]
        /\ GlobDeep(q, a + m - 1) <=> GlobDeep(w, m)
    BY StarsFacing DEF Facing
  <1> SUFFICES ASSUME NEW n \in 1..(Len(x) + 1), tk[m][n]
               PROVE  at[a + m - 1][b + n - 1]
    BY DEF RowFollows
  <1> DEFINE I == a + m - 1
             J == b + n - 1
  <1>3. J \in 1..(Len(u) + 1) /\ I + 1 = a + (m + 1) - 1 /\ I + 2 = a + (m + 2) - 1
    BY <1>1, SMTT(40)
  <1>4. SUFFICES GlobStep(at, q, u, stop, I, J)
    BY <1>2, <1>3, GlobCell DEF Facing
  <1>5. \A k \in 1..(Len(x) + 1) : tk[m + 1][k] => at[I + 1][b + k - 1]
    BY <1>3 DEF RowFollows
  <1>6. q[I] = w[m] /\ (GlobDeep(q, I) <=> GlobDeep(w, m))
    BY <1>2
  <1>7. CharStep(tk, w, x, m, n)
    <2>1. m \in 1..(Len(w) + 1) /\ ~(m > Len(w))
      BY <1>1
    <2> QED
      BY <2>1 DEF CharTable
  <1>8. CASE w[m] = "*"
    <2>1. w[m] \notin Special
      BY <1>8, WordsAssumption
    <2>2. PICK k \in n..(Len(x) + 1) : tk[m + 1][k]
      BY <1>7, <1>8, <2>1 DEF CharStep
    <2>3. k \in 1..(Len(x) + 1)
      BY <1>1
    <2>4. CASE ~GlobDeep(w, m)
      <3>1. at[I + 1][b + k - 1]
        BY <1>5, <2>2, <2>3
      <3>2. Takes(u, J, b + k - 1, {"/"}) /\ b + k - 1 \in J..(Len(u) + 1)
        BY TakesSits DEF Facing
      <3> HIDE DEF I, J
      <3> QED
        BY <1>6, <1>8, <2>4, <3>1, <3>2 DEF GlobStep
    <2>5. CASE GlobDeep(w, m)
      <3>1. m + 1 <= Len(w) /\ w[m + 1] = "*" /\ m + 1 \in 1..Len(w)
        BY <1>1, <2>5, SMTT(40) DEF GlobDeep
      <3>2. w[m + 1] \notin Special
        BY <3>1, WordsAssumption
      <3>3. CharStep(tk, w, x, m + 1, k)
        <4>1. m + 1 \in 1..(Len(w) + 1) /\ ~(m + 1 > Len(w))
          BY <1>1, <3>1
        <4> QED
          BY <2>2, <2>3, <4>1 DEF CharTable
      <3>4. PICK l \in k..(Len(x) + 1) : tk[(m + 1) + 1][l]
        BY <3>1, <3>2, <3>3 DEF CharStep
      <3>5. l \in n..(Len(x) + 1) /\ l \in 1..(Len(x) + 1) /\ (m + 1) + 1 = m + 2
        BY <1>1, SMTT(40)
      <3>6. at[I + 2][b + l - 1]
        BY <1>3, <3>1, <3>4, <3>5 DEF RowFollows
      <3>7. Takes(u, J, b + l - 1, stop) /\ b + l - 1 \in J..(Len(u) + 1)
        BY <3>5, TakesSits DEF Facing
      <3> HIDE DEF I, J
      <3> QED
        BY <1>6, <2>5, <3>6, <3>7 DEF GlobStep
    <2> QED
      BY <2>4, <2>5
  <1>9. CASE w[m] # "*" /\ w[m] \in Special
    <2>1. PICK v \in Words[w[m]] : IsPrefix(v, Drop(x, n - 1)) /\ tk[m + 1][n + Len(v)]
      BY <1>7, <1>9 DEF CharStep
    <2>2. v \in Token
      BY <1>9, WordsAssumption DEF Token
    <2>3. n + Len(v) \in n..(Len(x) + 1)
      BY <2>1, <2>2, PrefixFits
    <2>4. IsPrefix(v, Drop(u, J - 1))
      BY <2>1, <2>2, <2>3, PrefixSits DEF Facing
    <2>5. n + Len(v) \in 1..(Len(x) + 1) /\ b + (n + Len(v)) - 1 = J + Len(v)
      <3>1. Len(v) \in Nat
        BY <2>2 DEF Token
      <3> QED
        BY <1>1, <2>3, <3>1
    <2>6. at[I + 1][J + Len(v)]
      BY <1>5, <2>1, <2>5
    <2>7. WordStands(q[I], v, u, J, stop)
      <3> HIDE DEF I, J
      <3> QED
        BY <1>3, <2>2, <2>4, PrefixStands
    <2> HIDE DEF I, J
    <2> QED
      BY <1>6, <1>9, <2>1, <2>6, <2>7 DEF GlobStep
  <1>10. CASE w[m] \notin {"*"} \cup Special
    <2>1. n <= Len(x) /\ x[n] = w[m] /\ tk[m + 1][n + 1]
      BY <1>7, <1>10 DEF CharStep
    <2>2. J <= Len(u) /\ u[J] = x[n]
      BY <1>1, <2>1, SMTT(40) DEF Facing, Sits
    <2>3. n + 1 \in 1..(Len(x) + 1) /\ b + (n + 1) - 1 = J + 1
      <3>1. n <= Len(x)
        BY <2>1
      <3> QED
        BY <1>1, <3>1, SMTT(40)
    <2>4. at[I + 1][J + 1]
      BY <1>5, <2>1, <2>3
    <2> HIDE DEF I, J
    <2> QED
      BY <1>6, <1>10, <2>1, <2>2, <2>4 DEF GlobStep
  <1> QED
    BY <1>8, <1>9, <1>10

\* Where the rest of the id matches the rest of the pattern, and a token the
\* word before it, the id matches from that word on.
LEMMA WordForward ==
  ASSUME NEW q \in Token, NEW u \in Token, NEW w \in Token, NEW x \in Token,
         NEW stop, NEW at, NEW a, NEW b, Facing(at, q, u, stop, w, x, a, b),
         \A n \in 1..Len(x) : x[n] \notin stop /\ x[n] # "/",
         at[a + Len(w)][b + Len(x)], MatchToken(w, x)
  PROVE  at[a][b]
  <1> DEFINE L == Len(w)
             X == Len(x)
  <1>1. L \in Nat /\ X \in Nat /\ a \in Nat /\ b \in Nat
    BY DEF Token, Facing, Sits
  <1>2. PICK tk : CharTable(tk, w, x) /\ MatchToken(w, x) = tk[1][1]
    BY MatchTokenTable
  <1> DEFINE Right(m) == RowFollows(at, tk, X, a, b, m)
             U == {d \in Nat : \A e \in 0..d : e <= L => Right(L + 1 - e)}
  <1>3. Right(L + 1)
    <2>1. SUFFICES ASSUME NEW n \in 1..(X + 1), tk[L + 1][n]
                   PROVE  at[a + (L + 1) - 1][b + n - 1]
      BY DEF RowFollows
    <2>2. L + 1 \in 1..(L + 1) /\ L + 1 > L
      BY <1>1
    <2>3. n > X
      BY <1>2, <2>1, <2>2 DEF CharTable
    <2>4. b + n - 1 = b + X /\ a + (L + 1) - 1 = a + L
      BY <1>1, <2>3
    <2> QED
      BY <2>4
  <1>4. 0 \in U
    BY <1>1, <1>3
  <1>5. ASSUME NEW m \in 1..L, Right(m + 1), m + 1 <= L => Right(m + 2)
        PROVE  Right(m)
    BY <1>2, <1>5, WordForwardStep
  <1> HIDE DEF Right, L, X
  <1>6. ASSUME NEW d \in Nat, d \in U PROVE d + 1 \in U
    <2>1. \A e \in 0..(d + 1) : e \in 0..d \/ e = d + 1
      OBVIOUS
    <2>2. SUFFICES ASSUME d + 1 <= L PROVE Right(L + 1 - (d + 1))
      BY <1>6, <2>1
    <2>3. L - d \in 1..L /\ (L - d) + 1 = L + 1 - d /\ L + 1 - (d + 1) = L - d
      BY <1>1, <2>2
    <2>4. Right((L - d) + 1)
      <3>1. d \in 0..d /\ d <= L
        BY <1>1, <2>2
      <3> QED
        BY <1>6, <2>3, <3>1
    <2>5. (L - d) + 1 <= L => Right((L - d) + 2)
      <3>1. (L - d) + 1 <= L => d - 1 \in 0..d /\ d - 1 <= L /\ L + 1 - (d - 1) = (L - d) + 2
        BY <1>1, <2>2
      <3> QED
        BY <1>6, <3>1
    <2> QED
      BY <1>5, <2>3, <2>4, <2>5
  <1>7. L \in U
    <2> HIDE DEF U
    <2> QED
      BY <1>1, <1>4, <1>6, Induction
  <1>8. Right(1)
    <2>1. L \in 0..L /\ L + 1 - L = 1
      BY <1>1
    <2> QED
      BY <1>7, <2>1
  <1>9. 1 \in 1..(X + 1) /\ a + 1 - 1 = a /\ b + 1 - 1 = b
    BY <1>1
  <1> QED
    BY <1>2, <1>8, <1>9 DEF Right, RowFollows

\* No part of the word w reaches over a slash, its alternations have no dots,
\* and a slash follows x in u if anything does.
Confined(u, w, x, b) ==
  /\ \A m \in 1..Len(w) :
       /\ ~GlobDeep(w, m) /\ w[m] # "/"
       /\ w[m] \in Special => \A v \in Words[w[m]] : "/" \notin Range(v)
       /\ w[m] \in Alternations => \A v \in Words[w[m]] : "." \notin Range(v)
  /\ b + Len(x) <= Len(u) => u[b + Len(x)] = "/"

\* Row m of the table of the id is in the table of a word, and goes on after it.
RowConfined(at, tk, L, X, a, b, m) ==
  \A n \in 1..(X + 1) : at[a + m - 1][b + n - 1] => tk[m][n] /\ at[a + L][b + X]

\* It is if the next row is.
LEMMA WordBackwardStep ==
  ASSUME NEW q \in Token, NEW u \in Token, NEW w \in Token, NEW x \in Token,
         NEW stop, NEW at, NEW a, NEW b, Facing(at, q, u, stop, w, x, a, b),
         Confined(u, w, x, b),
         NEW tk, CharTable(tk, w, x), NEW m \in 1..Len(w),
         RowConfined(at, tk, Len(w), Len(x), a, b, m + 1)
  PROVE  RowConfined(at, tk, Len(w), Len(x), a, b, m)
  <1>1. /\ Len(w) \in Nat /\ Len(x) \in Nat /\ Len(q) \in Nat /\ Len(u) \in Nat
        /\ a \in Nat /\ a >= 1 /\ b \in Nat /\ b >= 1 /\ b + Len(x) <= Len(u) + 1
    BY DEF Token, Facing, Sits
  <1>2. /\ a + m - 1 \in 1..Len(q) /\ q[a + m - 1] = w[m]
        /\ GlobDeep(q, a + m - 1) <=> GlobDeep(w, m)
    BY StarsFacing DEF Facing
  <1> SUFFICES ASSUME NEW n \in 1..(Len(x) + 1), at[a + m - 1][b + n - 1]
               PROVE  tk[m][n] /\ at[a + Len(w)][b + Len(x)]
    BY DEF RowConfined
  <1> DEFINE I == a + m - 1
             J == b + n - 1
  <1>3. J \in 1..(Len(u) + 1) /\ I + 1 = a + (m + 1) - 1 /\ J <= b + Len(x)
    BY <1>1
  <1>4. GlobStep(at, q, u, stop, I, J)
    BY <1>2, <1>3, GlobCell DEF Facing
  <1>5. \A k \in 1..(Len(x) + 1) :
          at[I + 1][b + k - 1] => tk[m + 1][k] /\ at[a + Len(w)][b + Len(x)]
    BY <1>3 DEF RowConfined
  <1>6. q[I] = w[m] /\ ~GlobDeep(q, I) /\ ~GlobDeep(w, m) /\ w[m] # "/"
    BY <1>2 DEF Confined
  <1>7. tk[m][n] <=> CharStep(tk, w, x, m, n)
    <2>1. m \in 1..(Len(w) + 1) /\ ~(m > Len(w))
      BY <1>1
    <2> QED
      BY <2>1 DEF CharTable
  <1>8. CASE w[m] = "*"
    <2>1. w[m] \notin Special
      BY <1>8, WordsAssumption
    <2>2. PICK k \in J..(Len(u) + 1) : Takes(u, J, k, {"/"}) /\ at[I + 1][k]
      <3> HIDE DEF I, J
      <3> QED
        BY <1>4, <1>6, <1>8, <2>1 DEF GlobStep
    <2>3. k <= b + Len(x)
      <3>1. SUFFICES ASSUME b + Len(x) <= k - 1 PROVE FALSE
        BY <1>1, <1>3
      <3>2. b + Len(x) \in J..(k - 1) /\ b + Len(x) <= Len(u)
        BY <1>1, <1>3, <3>1
      <3>3. u[b + Len(x)] # "/"
        BY <2>2, <3>2 DEF Takes
      <3> QED
        BY <3>2, <3>3 DEF Confined
    <2> DEFINE l == k - b + 1
    <2>4. l \in n..(Len(x) + 1) /\ l \in 1..(Len(x) + 1) /\ b + l - 1 = k
      BY <1>1, <1>3, <2>3
    <2>5. tk[m + 1][l] /\ at[a + Len(w)][b + Len(x)]
      BY <1>5, <2>2, <2>4
    <2>6. CharStep(tk, w, x, m, n)
      <3> HIDE DEF l
      <3> QED
        BY <1>8, <2>4, <2>5 DEF CharStep
    <2> QED
      BY <1>7, <2>5, <2>6
  <1>9. CASE w[m] # "*" /\ w[m] \in Special
    <2>0. PICK v \in Words[w[m]] : WordStands(w[m], v, u, J, stop) /\ at[I + 1][J + Len(v)]
      <3> HIDE DEF I, J
      <3> QED
        BY <1>4, <1>6, <1>9 DEF GlobStep
    <2>2. v \in Token /\ "/" \notin Range(v)
      BY <1>9, WordsAssumption DEF Token, Confined
    <2>1. IsPrefix(v, Drop(u, J - 1)) /\ at[I + 1][J + Len(v)]
      <3>1. w[m] \in Alternations => "." \notin Range(v)
        BY DEF Confined
      <3> HIDE DEF I, J
      <3> QED
        BY <1>3, <2>0, <2>2, <3>1, StandsPrefix
    <2>3. Len(v) \in Nat /\ \A c \in 1..Len(v) : v[c] # "/"
      <3>1. Len(v) \in Nat /\ DOMAIN v = 1..Len(v)
        BY <2>2 DEF Token
      <3> QED
        BY <2>2, <3>1 DEF Range
    <2>4. J + Len(v) \in J..(Len(u) + 1) /\ \A c \in 1..Len(v) : u[J + c - 1] = v[c]
      BY <1>3, <2>1, <2>2, PrefixFits, ZenonT(40)
    <2>5. n + Len(v) <= Len(x) + 1
      <3>1. SUFFICES ASSUME n + Len(v) > Len(x) + 1 PROVE FALSE
        BY <1>1, <2>3
      <3> DEFINE c == b + Len(x) - J + 1
      <3>2. c \in 1..Len(v) /\ J + c - 1 = b + Len(x) /\ b + Len(x) <= Len(u)
        <4>1. Len(v) \in Nat /\ J + Len(v) <= Len(u) + 1
          BY <2>3, <2>4
        <4>2. c = Len(x) - n + 2
          BY <1>1
        <4>3. c \in 1..Len(v) /\ J + c - 1 = b + Len(x)
          BY <1>1, <3>1, <4>1, <4>2, SMTT(40)
        <4>4. b + Len(x) = b + n - 1 + c - 1 /\ c <= Len(v) /\ c \in Int
          BY <1>1, <4>1, <4>3
        <4>5. b + Len(x) <= Len(u)
          BY <1>1, <4>1, <4>4
        <4> QED
          BY <4>3, <4>5
      <3>3. u[b + Len(x)] = v[c] /\ v[c] # "/"
        BY <2>3, <2>4, <3>2
      <3> QED
        BY <3>2, <3>3 DEF Confined
    <2>6. IsPrefix(v, Drop(x, n - 1))
      BY <2>1, <2>2, <2>5, PrefixSits DEF Facing
    <2>7. n + Len(v) \in 1..(Len(x) + 1) /\ b + (n + Len(v)) - 1 = J + Len(v)
      BY <1>1, <2>3, <2>5
    <2>8. tk[m + 1][n + Len(v)] /\ at[a + Len(w)][b + Len(x)]
      BY <1>5, <2>1, <2>7
    <2>9. CharStep(tk, w, x, m, n)
      BY <1>9, <2>1, <2>6, <2>8 DEF CharStep
    <2> QED
      BY <1>7, <2>8, <2>9
  <1>10. CASE w[m] \notin {"*"} \cup Special
    <2>1. J <= Len(u) /\ u[J] = w[m] /\ at[I + 1][J + 1]
      <3> HIDE DEF I, J
      <3> QED
        BY <1>4, <1>6, <1>10 DEF GlobStep
    <2>2. n # Len(x) + 1
      <3>1. SUFFICES ASSUME n = Len(x) + 1 PROVE FALSE
        OBVIOUS
      <3>2. J = b + Len(x)
        BY <1>1, <3>1
      <3> QED
        BY <1>6, <2>1, <3>2 DEF Confined
    <2>3. n \in 1..Len(x) /\ n + 1 \in 1..(Len(x) + 1) /\ b + (n + 1) - 1 = J + 1
      BY <1>1, <2>2
    <2>4. x[n] = w[m]
      BY <2>1, <2>3 DEF Facing, Sits
    <2>5. tk[m + 1][n + 1] /\ at[a + Len(w)][b + Len(x)]
      BY <1>5, <2>1, <2>3
    <2>6. CharStep(tk, w, x, m, n)
      BY <1>10, <2>3, <2>4, <2>5 DEF CharStep
    <2> QED
      BY <1>7, <2>5, <2>6
  <1> QED
    BY <1>8, <1>9, <1>10

\* Where an id matches from a confined word on, and the rest of the pattern
\* matches in no other place of x than its end, the word matches the token and
\* the rest of the pattern the rest of the id.
LEMMA WordBackward ==
  ASSUME NEW q \in Token, NEW u \in Token, NEW w \in Token, NEW x \in Token,
         NEW stop, NEW at, NEW a, NEW b, Facing(at, q, u, stop, w, x, a, b),
         Confined(u, w, x, b),
         \A n \in 1..(Len(x) + 1) : at[a + Len(w)][b + n - 1] => n = Len(x) + 1,
         at[a][b]
  PROVE  MatchToken(w, x) /\ at[a + Len(w)][b + Len(x)]
  <1> DEFINE L == Len(w)
             X == Len(x)
  <1>1. L \in Nat /\ X \in Nat /\ a \in Nat /\ b \in Nat
    BY DEF Token, Facing, Sits
  <1>2. PICK tk : CharTable(tk, w, x) /\ MatchToken(w, x) = tk[1][1]
    BY MatchTokenTable
  <1> DEFINE Right(m) == RowConfined(at, tk, L, X, a, b, m)
             U == {d \in Nat : d <= L => Right(L + 1 - d)}
  <1>3. Right(L + 1)
    <2>1. SUFFICES ASSUME NEW n \in 1..(X + 1), at[a + (L + 1) - 1][b + n - 1]
                   PROVE  tk[L + 1][n] /\ at[a + L][b + X]
      BY DEF RowConfined
    <2>2. L + 1 \in 1..(L + 1) /\ L + 1 > L /\ a + (L + 1) - 1 = a + L
      BY <1>1
    <2>3. n = X + 1
      BY <2>1, <2>2
    <2>4. b + n - 1 = b + X /\ n > X
      BY <1>1, <2>3
    <2>5. tk[L + 1][n]
      BY <1>2, <2>2, <2>4 DEF CharTable
    <2> QED
      BY <2>1, <2>2, <2>4, <2>5
  <1>4. 0 \in U
    BY <1>1, <1>3
  <1>5. ASSUME NEW m \in 1..L, Right(m + 1) PROVE Right(m)
    BY <1>2, <1>5, WordBackwardStep
  <1> HIDE DEF Right, L, X
  <1>6. ASSUME NEW d \in Nat, d \in U PROVE d + 1 \in U
    <2>1. SUFFICES ASSUME d + 1 <= L PROVE Right(L + 1 - (d + 1))
      OBVIOUS
    <2>2. L - d \in 1..L /\ (L - d) + 1 = L + 1 - d /\ L + 1 - (d + 1) = L - d /\ d <= L
      BY <1>1, <2>1
    <2> QED
      BY <1>5, <1>6, <2>2
  <1>7. L \in U
    <2> HIDE DEF U
    <2> QED
      BY <1>1, <1>4, <1>6, Induction
  <1>8. Right(1)
    <2>1. L + 1 - L = 1
      BY <1>1
    <2> QED
      BY <1>1, <1>7, <2>1
  <1>9. 1 \in 1..(X + 1) /\ a + 1 - 1 = a /\ b + 1 - 1 = b
    BY <1>1
  <1> QED
    BY <1>2, <1>8, <1>9 DEF Right, RowConfined, L, X

-----------------------------------------------------------------------------
(* The id of a tokenized pattern: where each token stands.                 *)

\* P gives the place of each token behind the scheme.
HasOffsets(P, p) ==
  /\ P \in [3..(Len(p) + 1) -> Nat] /\ P[3] = 1
  /\ \A i \in 3..Len(p) : P[i + 1] = P[i] + Len(p[i]) /\ Sits(p[i], IdOf(p), P[i])
  /\ P[Len(p) + 1] = Len(IdOf(p)) + 1

\* fl[k] joins the first k of seqs.
Joins(fl, seqs) ==
  /\ fl \in [1..Len(seqs) -> Token]
  /\ fl[1] = seqs[1]
  /\ \A i \in 2..Len(seqs) : fl[i] = fl[i - 1] \o seqs[i]

\* z begins with y.
Begins(z, y) == Len(y) <= Len(z) /\ \A n \in 1..Len(y) : z[n] = y[n]

\* What was joined first stays in front.
LEMMA FrontStays ==
  ASSUME NEW seqs \in Pattern, NEW fl, Joins(fl, seqs),
         NEW k \in 1..Len(seqs), NEW d \in Nat, k + d <= Len(seqs)
  PROVE  Begins(fl[k + d], fl[k])
  <1>1. Len(seqs) \in Nat /\ \A i \in 1..Len(seqs) : fl[i] \in Token /\ seqs[i] \in Token
    BY DEF Pattern, Joins
  <1> DEFINE Stays(e) == Begins(fl[k + e], fl[k])
             U == {e \in Nat : k + e <= Len(seqs) => Stays(e)}
  <1>2. 0 \in U
    BY <1>1 DEF Token, Begins
  <1>3. ASSUME NEW e \in Nat, e \in U PROVE e + 1 \in U
    <2>1. SUFFICES ASSUME k + (e + 1) <= Len(seqs) PROVE Stays(e + 1)
      OBVIOUS
    <2>2. k + e \in 1..Len(seqs) /\ k + (e + 1) \in 2..Len(seqs) /\ (k + (e + 1)) - 1 = k + e
          /\ k + e <= Len(seqs) /\ k + (e + 1) \in 1..Len(seqs)
      BY <1>1, <2>1
    <2>3. Stays(e)
      BY <1>3, <2>2
    <2> DEFINE x == fl[k + e]
               y == seqs[k + (e + 1)]
               z == fl[k + (e + 1)]
               f == fl[k]
    <2>4. z = x \o y
      BY <2>2 DEF Joins
    <2>5. x \in Token /\ y \in Token /\ f \in Token
      BY <1>1, <2>2
    <2>6. Len(f) <= Len(x) /\ \A n \in 1..Len(f) : x[n] = f[n]
      BY <2>3 DEF Begins
    <2> HIDE DEF x, y, z, f
    <2>7. Len(f) <= Len(z) /\ \A n \in 1..Len(f) : z[n] = f[n]
      BY <2>4, <2>5, <2>6 DEF Token
    <2> QED
      BY <2>7 DEF z, f, Begins
  <1>4. d \in U
    <2> HIDE DEF U
    <2> QED
      BY <1>2, <1>3, Induction
  <1> QED
    BY <1>4

\* The tokens of a pattern stand one after the other in its id.
LEMMA IdOffsets ==
  ASSUME NEW p, Tokenized(p)
  PROVE  IdOf(p) \in Token /\ \E P : HasOffsets(P, p)
  <1> DEFINE seqs == SubSeq(p, 3, Len(p))
             K == Len(seqs)
             id == IdOf(p)
  <1>1. p \in Pattern /\ Len(p) \in Nat /\ Len(p) >= 3
    BY TokenizedIsPattern
  <1>2. /\ seqs \in Pattern /\ K = Len(p) - 2 /\ K \in Nat /\ K >= 1
        /\ \A k \in 1..K : seqs[k] = p[k + 2] /\ seqs[k] \in Token
    BY <1>1 DEF Pattern
  <1> HIDE DEF seqs
  <1>3. PICK fl : Joins(fl, seqs) /\ FlattenSeq(seqs) = fl[Len(seqs)]
    BY <1>2, FlattenLoop DEF Pattern, Token, Joins
  <1>4. id = fl[K] /\ id \in Token
    BY <1>2, <1>3 DEF IdOf, seqs, Joins
  <1> DEFINE P == [i \in 3..(Len(p) + 1) |-> IF i = 3 THEN 1 ELSE Len(fl[i - 3]) + 1]
  <1>5. \A k \in 1..K : fl[k] \in Token /\ Len(fl[k]) \in Nat
    BY <1>3 DEF Token, Joins
  <1>6. P \in [3..(Len(p) + 1) -> Nat] /\ P[3] = 1
    BY <1>1, <1>2, <1>5
  <1>7. P[Len(p) + 1] = Len(id) + 1
    BY <1>1, <1>2, <1>4
  <1>8. ASSUME NEW k \in 1..K
        PROVE  /\ Len(fl[k]) <= Len(id)
               /\ \A n \in 1..Len(fl[k]) : id[n] = fl[k][n]
    <2>1. K - k \in Nat /\ k + (K - k) = K
      BY <1>2
    <2>2. Begins(fl[k + (K - k)], fl[k])
      <3>1. k + (K - k) <= Len(seqs) /\ k \in 1..Len(seqs)
        BY <1>2, <2>1
      <3> HIDE DEF id, P
      <3> QED
        BY <1>2, <1>3, <2>1, <3>1, FrontStays
    <2> QED
      BY <1>4, <2>1, <2>2, Zenon DEF Begins
  <1>9. ASSUME NEW i \in 3..Len(p)
        PROVE  P[i + 1] = P[i] + Len(p[i]) /\ Sits(p[i], id, P[i])
    <2> DEFINE w == p[i]
               z == fl[i - 2]
    <2>1. i - 2 \in 1..K /\ (i - 2) + 2 = i /\ (i + 1) - 3 = i - 2 /\ i + 1 # 3
          /\ i \in 3..(Len(p) + 1) /\ i + 1 \in 3..(Len(p) + 1)
      BY <1>1, <1>2
    <2>2. seqs[i - 2] = w /\ w \in Token /\ Len(w) \in Nat
      <3>1. seqs[i - 2] = p[(i - 2) + 2] /\ seqs[i - 2] \in Token
        BY <1>2, <2>1, Zenon
      <3>2. seqs[i - 2] = w /\ w \in Token
        BY <2>1, <3>1, Zenon
      <3> HIDE DEF w
      <3> QED
        BY <3>2 DEF Token
    <2>3. P[i + 1] = Len(z) + 1
      BY <2>1
    <2>4. Len(z) <= Len(id) /\ (\A n \in 1..Len(z) : id[n] = z[n]) /\ Len(id) \in Nat
          /\ Len(z) \in Nat
      BY <1>4, <1>5, <1>8, <2>1, SMTT(40) DEF Token
    <2>5. CASE i = 3
      <3>1. z = w /\ P[i] = 1
        BY <1>3, <2>1, <2>2, <2>5 DEF Joins
      <3> HIDE DEF w, z, P, id
      <3>2. Sits(w, id, 1)
        BY <2>2, <2>4, <3>1 DEF Sits
      <3> QED
        BY <2>2, <2>3, <3>1, <3>2 DEF w
    <2>6. CASE i # 3
      <3> DEFINE y == fl[i - 3]
      <3>1. i - 3 \in 1..K /\ i - 2 \in 2..Len(seqs) /\ (i - 2) - 1 = i - 3
        BY <1>1, <1>2, <2>1, <2>6
      <3>2. z = y \o w
        BY <1>3, <2>2, <3>1 DEF Joins
      <3>3. P[i] = Len(y) + 1 /\ y \in Token
        BY <1>5, <2>1, <2>6, <3>1
      <3> HIDE DEF w, y, z, P, id
      <3>4. /\ Len(y) \in Nat /\ Len(z) = Len(y) + Len(w)
            /\ \A m \in 1..Len(w) : z[Len(y) + m] = w[m]
        BY <2>2, <3>2, <3>3 DEF Token
      <3>5. ASSUME NEW m \in 1..Len(w) PROVE id[(Len(y) + 1) + m - 1] = w[m]
        <4>1. Len(y) + m \in 1..Len(z) /\ (Len(y) + 1) + m - 1 = Len(y) + m
          BY <2>2, <3>4
        <4> QED
          BY <2>4, <3>4, <4>1
      <3>6. Len(y) + 1 \in Nat /\ Len(y) + 1 >= 1 /\ (Len(y) + 1) + Len(w) <= Len(id) + 1
        BY <2>2, <2>4, <3>4
      <3>7. Sits(w, id, Len(y) + 1)
        BY <3>5, <3>6 DEF Sits
      <3>8. P[i + 1] = P[i] + Len(w)
        BY <2>2, <2>3, <3>3, <3>4
      <3> QED
        BY <3>3, <3>7, <3>8 DEF w
    <2> QED
      BY <2>5, <2>6
  <1> HIDE DEF P, id
  <1>10. HasOffsets(P, p)
    BY <1>6, <1>7, <1>9 DEF HasOffsets, id
  <1> QED
    BY <1>4, <1>10 DEF id

\* Places grow.
LEMMA OffsetsGrow ==
  ASSUME NEW p \in Pattern, NEW P, HasOffsets(P, p),
         NEW i \in 3..(Len(p) + 1), NEW k \in i..(Len(p) + 1)
  PROVE  P[i] <= P[k]
  <1>1. Len(p) \in Nat /\ \A n \in 3..Len(p) : Len(p[n]) \in Nat
    BY DEF Pattern, Token
  <1>2. \A n \in 3..(Len(p) + 1) : P[n] \in Nat
    BY DEF HasOffsets
  <1> DEFINE U == {d \in Nat : i + d <= Len(p) + 1 => P[i] <= P[i + d]}
  <1>3. 0 \in U
    BY <1>2
  <1>4. ASSUME NEW d \in Nat, d \in U PROVE d + 1 \in U
    <2>1. SUFFICES ASSUME i + (d + 1) <= Len(p) + 1 PROVE P[i] <= P[i + (d + 1)]
      OBVIOUS
    <2>2. i + d \in 3..Len(p) /\ i + (d + 1) = (i + d) + 1 /\ P[i] <= P[i + d]
          /\ i + d \in 3..(Len(p) + 1)
      BY <1>1, <1>4, <2>1
    <2>3. P[(i + d) + 1] = P[i + d] + Len(p[i + d])
      BY <2>2 DEF HasOffsets
    <2> QED
      BY <1>1, <1>2, <2>2, <2>3
  <1>5. k - i \in Nat /\ i + (k - i) = k
    OBVIOUS
  <1>6. k - i \in U
    <2> HIDE DEF U
    <2> QED
      BY <1>3, <1>4, <1>5, Induction
  <1> QED
    BY <1>5, <1>6

\* Every character of an id stands in one of the tokens.
LEMMA IdCovered ==
  ASSUME NEW p \in Pattern, Len(p) >= 3, NEW P, HasOffsets(P, p),
         NEW n \in 1..Len(IdOf(p))
  PROVE  \E i \in 3..Len(p) : \E m \in 1..Len(p[i]) :
           n = P[i] + m - 1 /\ IdOf(p)[n] = p[i][m]
  <1>1. Len(p) \in Nat /\ \A i \in 3..Len(p) : Len(p[i]) \in Nat
    BY DEF Pattern, Token
  <1>2. /\ \A i \in 3..(Len(p) + 1) : P[i] \in Nat
        /\ P[3] = 1 /\ P[Len(p) + 1] = Len(IdOf(p)) + 1
    BY DEF HasOffsets
  <1> DEFINE T == {i \in 3..Len(p) : n < P[i + 1]}
  <1>3. Len(p) \in T
    BY <1>1, <1>2
  <1>4. PICK i \in T : \A k \in T : i <= k
    <2>1. T \in SUBSET Nat /\ T # {}
      BY <1>3
    <2> HIDE DEF T
    <2> QED
      BY <2>1, LeastNumber
  <1>5. i \in 3..Len(p) /\ i \in 3..(Len(p) + 1) /\ n < P[i + 1]
    BY <1>4
  <1>6. P[i] <= n
    <2>1. CASE i = 3
      BY <1>2, <2>1
    <2>2. CASE i # 3
      <3>1. i - 1 \in 3..Len(p) /\ (i - 1) + 1 = i /\ ~(i <= i - 1)
        BY <1>5, <2>2
      <3>2. i - 1 \notin T
        BY <1>4, <3>1
      <3> QED
        BY <1>2, <1>5, <3>1, <3>2
    <2> QED
      BY <2>1, <2>2
  <1>7. P[i + 1] = P[i] + Len(p[i]) /\ Sits(p[i], IdOf(p), P[i])
    BY <1>5 DEF HasOffsets
  <1> DEFINE m == n - P[i] + 1
  <1>8. m \in 1..Len(p[i]) /\ n = P[i] + m - 1
    <2>1. /\ P[i] \in Nat /\ P[i + 1] \in Nat /\ Len(p[i]) \in Nat /\ n \in Nat
          /\ P[i + 1] = P[i] + Len(p[i]) /\ P[i] <= n /\ n < P[i + 1]
      BY <1>1, <1>2, <1>5, <1>6, <1>7
    <2> QED
      BY <2>1, SMTT(40)
  <1>9. IdOf(p)[n] = p[i][m]
    <2> HIDE DEF m
    <2> QED
      BY <1>7, <1>8 DEF Sits
  <1> QED
    BY <1>5, <1>8, <1>9

\* Even and odd.
LEMMA Parity ==
  ASSUME NEW i \in Nat
  PROVE  /\ i % 2 \in {0, 1}
         /\ i % 2 = 0 <=> (i + 1) % 2 = 1
         /\ i % 2 = 1 <=> (i + 1) % 2 = 0
  OBVIOUS

\* Separators stand at even places, and their characters nowhere else.
LEMMA SeparatorsEven ==
  ASSUME NEW p, Tokenized(p), NEW i \in 1..Len(p)
  PROVE  /\ i % 2 = 0 => /\ p[i] \in {Slash, Colon} /\ Len(p[i]) = 1
                         /\ p[i][1] \in {"/", ":"} /\ Plain(p[i])
                         /\ p[i] # Deep /\ p[i] # One
         /\ i % 2 = 1 => /\ p[i] \notin {Slash, Colon}
                         /\ \A m \in 1..Len(p[i]) : p[i][m] # "/" /\ p[i][m] # ":"
  <1>1. p \in Pattern /\ DOMAIN p = 1..Len(p) /\ p[i] \in Token
    BY TokenizedIsPattern DEF Pattern
  <1>2. p[i] \in {Slash, Colon} <=> i % 2 = 0
    BY <1>1 DEF Tokenized
  <1>3. ASSUME p[i] \in {Slash, Colon}
        PROVE  /\ Len(p[i]) = 1 /\ p[i][1] \in {"/", ":"} /\ Plain(p[i])
               /\ p[i] # Deep /\ p[i] # One
    <2>1. Len(p[i]) = 1 /\ p[i][1] \in {"/", ":"} /\ DOMAIN p[i] = {1}
      BY <1>3 DEF Slash, Colon
    <2>2. {"/", ":"} \cap ({"*"} \cup Special) = {}
      BY WordsAssumption
    <2>3. Plain(p[i])
      BY <2>1, <2>2 DEF Plain
    <2>4. p[i] # Deep /\ p[i] # One
      BY <2>3, PlainIsWord
    <2> QED
      BY <2>1, <2>3, <2>4
  <1>4. ASSUME i % 2 = 1, NEW m \in 1..Len(p[i]) PROVE p[i][m] # "/" /\ p[i][m] # ":"
    <2>1. Range(p[i]) \cap {"/", ":"} = {}
      BY <1>1, <1>4 DEF Tokenized
    <2>2. p[i][m] \in Range(p[i])
      BY <1>1 DEF Range, Token
    <2> QED
      BY <2>1, <2>2
  <1>5. i % 2 = 1 => p[i] \notin {Slash, Colon}
    BY <1>2
  <1> QED
    BY <1>2, <1>3, <1>4, <1>5

-----------------------------------------------------------------------------
(* What the core matches, the harness matches.                             *)

\* The tables of both matchers for the pattern p and the target t.
Side(p, t, from, at, P, R, stop) ==
  /\ Tokenized(p) /\ Tokenized(t)
  /\ TokenTable(from, p, t) /\ GlobTable(at, IdOf(p), IdOf(t), stop)
  /\ HasOffsets(P, p) /\ HasOffsets(R, t)

\* What is known of the two sides.
LEMMA SideFacts ==
  ASSUME NEW p, NEW t, NEW from, NEW at, NEW P, NEW R, NEW stop,
         Side(p, t, from, at, P, R, stop)
  PROVE  /\ p \in Pattern /\ t \in Pattern /\ IdOf(p) \in Token /\ IdOf(t) \in Token
         /\ Len(p) \in Nat /\ Len(p) >= 3 /\ Len(t) \in Nat /\ Len(t) >= 3
         /\ Len(IdOf(p)) \in Nat /\ Len(IdOf(t)) \in Nat
         /\ \A i \in 1..Len(p) : p[i] \in Token /\ Len(p[i]) \in Nat
         /\ \A j \in 1..Len(t) : t[j] \in Token /\ Len(t[j]) \in Nat
         /\ \A i \in 3..(Len(p) + 1) : P[i] \in 1..(Len(IdOf(p)) + 1)
         /\ \A j \in 3..(Len(t) + 1) : R[j] \in 1..(Len(IdOf(t)) + 1)
         /\ \A i \in 3..Len(p) : P[i] + Len(p[i]) = P[i + 1] /\ Sits(p[i], IdOf(p), P[i])
         /\ \A j \in 3..Len(t) : R[j] + Len(t[j]) = R[j + 1] /\ Sits(t[j], IdOf(t), R[j])
         /\ P[Len(p) + 1] = Len(IdOf(p)) + 1 /\ R[Len(t) + 1] = Len(IdOf(t)) + 1
  <1>1. /\ p \in Pattern /\ t \in Pattern /\ IdOf(p) \in Token /\ IdOf(t) \in Token
        /\ Len(p) \in Nat /\ Len(p) >= 3 /\ Len(t) \in Nat /\ Len(t) >= 3
    BY TokenizedIsPattern, IdOffsets DEF Side
  <1>2. ASSUME NEW z \in Pattern, Len(z) \in Nat, Len(z) >= 3, NEW Q, HasOffsets(Q, z),
               IdOf(z) \in Token
        PROVE  /\ \A i \in 1..Len(z) : z[i] \in Token /\ Len(z[i]) \in Nat
               /\ \A i \in 3..(Len(z) + 1) : Q[i] \in 1..(Len(IdOf(z)) + 1)
               /\ \A i \in 3..Len(z) : Q[i] + Len(z[i]) = Q[i + 1] /\ Sits(z[i], IdOf(z), Q[i])
               /\ Q[Len(z) + 1] = Len(IdOf(z)) + 1 /\ Len(IdOf(z)) \in Nat
    <2>1. \A i \in 1..Len(z) : z[i] \in Token /\ Len(z[i]) \in Nat
      BY DEF Pattern, Token
    <2>2. ASSUME NEW i \in 3..(Len(z) + 1) PROVE Q[i] \in 1..(Len(IdOf(z)) + 1)
      <3>1. 3 \in 3..(Len(z) + 1) /\ i \in 3..(Len(z) + 1) /\ Len(z) + 1 \in i..(Len(z) + 1)
        BY <1>2
      <3>2. Q[3] <= Q[i] /\ Q[i] <= Q[Len(z) + 1]
        BY <1>2, <3>1, OffsetsGrow
      <3>3. Q[3] = 1 /\ Q[Len(z) + 1] = Len(IdOf(z)) + 1 /\ Q[i] \in Nat
        BY <1>2 DEF HasOffsets
      <3>4. Len(IdOf(z)) \in Nat
        BY <1>2 DEF Token
      <3> DEFINE c == Q[i]
                 d == Len(IdOf(z))
      <3>5. c \in Nat /\ 1 <= c /\ c <= d + 1 /\ d \in Nat
        BY <3>2, <3>3, <3>4
      <3> HIDE DEF c, d
      <3>6. c \in 1..(d + 1)
        BY <3>5
      <3> QED
        BY <3>6 DEF c, d
    <2>3. Len(IdOf(z)) \in Nat
      BY <1>2 DEF Token
    <2> QED
      BY <1>2, <2>1, <2>2, <2>3 DEF HasOffsets
  <1> QED
    BY <1>1, <1>2 DEF Side

\* Row i of the tokens is in the table of the id.
TokensFollow(from, at, P, R, t, i) ==
  \A j \in 3..(Len(t) + 1) :
    from[i][j] /\ (i % 2 = 1 => j % 2 = 1) => at[P[i]][R[j]]

\* What ** takes in an id.
LEMMA DeepForward ==
  ASSUME NEW p, NEW t, NEW from, NEW at, NEW P, NEW R, NEW stop,
         Side(p, t, from, at, P, R, stop), NEW i \in 3..Len(p), p[i] = Deep,
         \A n \in 1..Len(IdOf(t)) : IdOf(t)[n] \notin stop,
         TokensFollow(from, at, P, R, t, i + 1)
  PROVE  TokensFollow(from, at, P, R, t, i)
  <1> DEFINE q == IdOf(p)
             u == IdOf(t)
  <1>1. /\ p \in Pattern /\ t \in Pattern /\ q \in Token /\ u \in Token
        /\ Len(p) \in Nat /\ Len(t) \in Nat /\ Len(q) \in Nat /\ Len(u) \in Nat
        /\ P[i + 1] = P[i] + Len(Deep) /\ Sits(Deep, q, P[i])
    BY SideFacts
  <1>2. SUFFICES ASSUME NEW j \in 3..(Len(t) + 1), from[i][j]
                 PROVE  at[P[i]][R[j]]
    BY DEF TokensFollow
  <1>3. TokenTable(from, p, t) /\ i \in 1..Len(p) /\ j \in 1..(Len(t) + 1)
    BY <1>1 DEF Side
  <1>4. PICK k \in (j + 1)..(Len(t) + 1) : from[i + 1][k]
    BY <1>1, <1>2, <1>3, TokenTableStep
  <1>5. (i + 1) % 2 = 0
    <2>1. i % 2 # 0
      BY <1>3, SeparatorsEven DEF Side
    <2> QED
      BY <2>1, Parity
  <1>6. k \in 3..(Len(t) + 1) /\ j \in 3..(Len(t) + 1) /\ k \in j..(Len(t) + 1)
    BY <1>1
  <1>7. at[P[i + 1]][R[k]]
    BY <1>4, <1>5, <1>6 DEF TokensFollow
  <1>8. R[j] \in 1..(Len(u) + 1) /\ R[k] \in 1..(Len(u) + 1) /\ R[j] <= R[k]
    BY <1>1, <1>6, SideFacts, OffsetsGrow DEF Side
  <1>9. Takes(u, R[j], R[k], stop)
    <2>1. ASSUME NEW c \in R[j]..(R[k] - 1) PROVE c \in 1..Len(u)
      BY <1>1, <1>8, SMTT(40)
    <2> QED
      BY <2>1 DEF Takes
  <1>10. P[i] \in 1..Len(q) /\ q[P[i]] = "*" /\ GlobDeep(q, P[i]) /\ P[i] + 2 = P[i + 1]
    <2>1. Len(Deep) = 2 /\ Deep[1] = "*" /\ Deep[2] = "*"
      BY DEF Deep
    <2>2. P[i] \in Nat /\ P[i] >= 1 /\ P[i] + 2 <= Len(q) + 1
          /\ q[P[i] + 1 - 1] = Deep[1] /\ q[P[i] + 2 - 1] = Deep[2]
      BY <1>1, <2>1 DEF Sits
    <2>3. P[i] + 1 - 1 = P[i] /\ P[i] + 2 - 1 = P[i] + 1 /\ P[i] < Len(q)
      <3>1. P[i] \in Nat /\ P[i] + 2 <= Len(q) + 1
        BY <2>2
      <3> QED
        BY <1>1, <3>1, SMTT(40)
    <2> QED
      BY <1>1, <2>1, <2>2, <2>3, SMTT(40) DEF GlobDeep
  <1>11. GlobStep(at, q, u, stop, P[i], R[j])
    <2>1. R[k] \in R[j]..(Len(u) + 1) /\ at[P[i] + 2][R[k]]
      BY <1>1, <1>7, <1>8, <1>10, SMTT(40)
    <2> HIDE DEF q, u
    <2> QED
      BY <1>9, <1>10, <2>1 DEF GlobStep
  <1> QED
    BY <1>1, <1>8, <1>10, <1>11, GlobCell DEF Side

\* What a word takes in an id.
LEMMA WordTokenForward ==
  ASSUME NEW p, NEW t, NEW from, NEW at, NEW P, NEW R, NEW stop,
         Side(p, t, from, at, P, R, stop), stop \subseteq {"/"},
         NEW i \in 3..Len(p), p[i] # Deep, i % 2 = 1,
         TokensFollow(from, at, P, R, t, i + 1)
  PROVE  TokensFollow(from, at, P, R, t, i)
  <1> DEFINE q == IdOf(p)
             u == IdOf(t)
  <1>1. /\ p \in Pattern /\ t \in Pattern /\ q \in Token /\ u \in Token
        /\ Len(p) \in Nat /\ Len(t) \in Nat /\ Len(q) \in Nat /\ Len(u) \in Nat
        /\ P[i] + Len(p[i]) = P[i + 1] /\ Sits(p[i], q, P[i]) /\ p[i] \in Token
    BY SideFacts
  <1>2. SUFFICES ASSUME NEW j \in 3..(Len(t) + 1), from[i][j], j % 2 = 1
                 PROVE  at[P[i]][R[j]]
    BY DEF TokensFollow
  <1>3. TokenTable(from, p, t) /\ i \in 1..Len(p) /\ j \in 1..(Len(t) + 1) /\ (i + 1) % 2 = 0
    BY <1>1, Parity DEF Side
  <1>4. j <= Len(t) /\ Takes1(p[i], t[j]) /\ from[i + 1][j + 1]
    BY <1>1, <1>2, <1>3, TokenTableStep
  <1>5. j \in 1..Len(t) /\ j \in 3..Len(t) /\ j + 1 \in 3..(Len(t) + 1)
    <2>1. j <= Len(t)
      BY <1>4
    <2> QED
      BY <1>1, <2>1
  <1>6. at[P[i + 1]][R[j + 1]]
    BY <1>3, <1>4, <1>5 DEF TokensFollow
  <1>7. t[j] \in Token /\ R[j] + Len(t[j]) = R[j + 1] /\ Sits(t[j], u, R[j])
    BY <1>5, SideFacts, SMTT(40)
  <1>8. MatchToken(p[i], t[j])
    <2>1. CASE p[i] = One
      BY <1>7, <2>1, StarMatchesAll
    <2>2. CASE p[i] # One
      BY <1>4, <2>2 DEF Takes1
    <2> QED
      BY <2>1, <2>2
  <1>9. \A n \in 1..Len(t[j]) : t[j][n] \notin stop /\ t[j][n] # "/"
    BY <1>2, <1>5, SeparatorsEven DEF Side
  <1>10. P[i] + Len(p[i]) <= Len(q) => q[P[i] + Len(p[i])] # "*"
    <2>1. SUFFICES ASSUME P[i + 1] <= Len(q) PROVE q[P[i + 1]] # "*"
      BY <1>1
    <2>2. i + 1 # Len(p) + 1
      BY <1>1, <2>1, SideFacts
    <2>3. i + 1 \in 3..Len(p) /\ i + 1 \in 1..Len(p)
      BY <1>1, <2>2
    <2>4. Len(p[i + 1]) = 1 /\ p[i + 1][1] \in {"/", ":"}
      BY <1>3, <2>3, SeparatorsEven DEF Side
    <2>5. Sits(p[i + 1], q, P[i + 1])
      BY <2>3, SideFacts
    <2>6. P[i + 1] + 1 - 1 = P[i + 1] /\ q[P[i + 1] + 1 - 1] = p[i + 1][1]
      BY <2>4, <2>5 DEF Sits
    <2> QED
      BY <2>4, <2>6
  <1>11. Facing(at, q, u, stop, p[i], t[j], P[i], R[j])
    BY <1>1, <1>7, <1>10 DEF Facing, Side
  <1>12. at[P[i] + Len(p[i])][R[j] + Len(t[j])]
    BY <1>1, <1>6, <1>7
  <1> HIDE DEF q, u
  <1> QED
    BY <1>1, <1>7, <1>8, <1>9, <1>11, <1>12, WordForward

\* A separator takes itself.
LEMMA SeparatorForward ==
  ASSUME NEW p, NEW t, NEW from, NEW at, NEW P, NEW R, NEW stop,
         Side(p, t, from, at, P, R, stop), NEW i \in 3..Len(p), i % 2 = 0,
         TokensFollow(from, at, P, R, t, i + 1)
  PROVE  TokensFollow(from, at, P, R, t, i)
  <1> DEFINE q == IdOf(p)
             u == IdOf(t)
  <1>1. /\ p \in Pattern /\ t \in Pattern /\ q \in Token /\ u \in Token
        /\ Len(p) \in Nat /\ Len(t) \in Nat /\ Len(q) \in Nat /\ Len(u) \in Nat
        /\ P[i] + Len(p[i]) = P[i + 1] /\ Sits(p[i], q, P[i]) /\ p[i] \in Token
    BY SideFacts, SMTT(40)
  <1>2. SUFFICES ASSUME NEW j \in 3..(Len(t) + 1), from[i][j]
                 PROVE  at[P[i]][R[j]]
    BY DEF TokensFollow
  <1>3. TokenTable(from, p, t) /\ i \in 1..Len(p) /\ j \in 1..(Len(t) + 1)
    BY <1>1 DEF Side
  <1>4. /\ p[i] \in {Slash, Colon} /\ Len(p[i]) = 1 /\ p[i][1] \in {"/", ":"} /\ Plain(p[i])
        /\ p[i] # Deep /\ p[i] # One
    BY <1>3, SeparatorsEven DEF Side
  <1>5. j <= Len(t) /\ Takes1(p[i], t[j]) /\ from[i + 1][j + 1]
    BY <1>1, <1>2, <1>3, <1>4, TokenTableStep
  <1>6. j \in 1..Len(t) /\ j \in 3..Len(t) /\ j + 1 \in 3..(Len(t) + 1)
    <2>1. j <= Len(t)
      BY <1>5
    <2> QED
      BY <1>1, <2>1
  <1>7. t[j] \in Token /\ R[j] + Len(t[j]) = R[j + 1] /\ Sits(t[j], u, R[j])
    BY <1>6, SideFacts
  <1>8. t[j] = p[i]
    <2>1. MatchToken(p[i], t[j])
      BY <1>4, <1>5 DEF Takes1
    <2> QED
      BY <1>1, <1>4, <1>7, <2>1, PlainMatches
  <1>9. (j + 1) % 2 = 1
    <2>1. j % 2 # 1
      BY <1>4, <1>6, <1>8, SeparatorsEven DEF Side
    <2> QED
      BY <2>1, Parity
  <1>10. at[P[i + 1]][R[j + 1]]
    BY <1>5, <1>6, <1>9 DEF TokensFollow
  <1>11. /\ P[i] \in 1..Len(q) /\ q[P[i]] = p[i][1] /\ P[i + 1] = P[i] + 1
         /\ R[j] \in 1..Len(u) /\ u[R[j]] = p[i][1] /\ R[j + 1] = R[j] + 1
    <2>1. ASSUME NEW z, NEW Q, NEW a, Len(z) = 1, Sits(z, Q, a), Len(Q) \in Nat
          PROVE  a \in 1..Len(Q) /\ Q[a] = z[1]
      <3>1. a \in Nat /\ a >= 1 /\ a + 1 <= Len(Q) + 1 /\ Q[a + 1 - 1] = z[1]
        BY <2>1 DEF Sits
      <3> QED
        BY <2>1, <3>1
    <2>2. P[i] \in 1..Len(q) /\ q[P[i]] = p[i][1]
      BY <1>1, <1>4, <2>1
    <2>3. R[j] \in 1..Len(u) /\ u[R[j]] = p[i][1]
      BY <1>1, <1>4, <1>7, <1>8, <2>1, SMTT(40)
    <2> QED
      BY <1>1, <1>4, <1>7, <1>8, <2>2, <2>3
  <1>12. q[P[i]] \notin {"*"} \cup Special
    BY <1>4, <1>11, WordsAssumption
  <1>13. GlobTable(at, q, u, stop) /\ at[P[i] + 1][R[j] + 1] /\ R[j] \in 1..(Len(u) + 1)
         /\ R[j] <= Len(u) /\ u[R[j]] = q[P[i]]
    BY <1>1, <1>10, <1>11 DEF Side
  <1> DEFINE a == P[i]
             b == R[j]
  <1>14. /\ q \in Token /\ u \in Token /\ GlobTable(at, q, u, stop)
         /\ a \in 1..Len(q) /\ q[a] \notin {"*"} \cup Special /\ b \in 1..(Len(u) + 1)
    BY <1>1, <1>11, <1>12, <1>13
  <1> HIDE DEF q, u, a, b
  <1>15. at[a][b] <=> b <= Len(u) /\ u[b] = q[a] /\ at[a + 1][b + 1]
    BY <1>14, GlobLiteral
  <1> QED
    BY <1>13, <1>15 DEF a, b

\* If the tokens of the target match those of the pattern, its id matches the
\* id of the pattern.
LEMMA IdForward ==
  ASSUME NEW p, NEW t, NEW from, NEW at, NEW P, NEW R, NEW stop,
         Side(p, t, from, at, P, R, stop), stop \subseteq {"/"},
         \A i \in 3..Len(p) : p[i] = Deep =>
           \A n \in 1..Len(IdOf(t)) : IdOf(t)[n] \notin stop,
         from[3][3]
  PROVE  at[1][1]
  <1> DEFINE L == Len(p)
             Right(i) == TokensFollow(from, at, P, R, t, i)
             U == {d \in Nat : d + 2 <= L => Right(L + 1 - d)}
  <1>1. /\ p \in Pattern /\ t \in Pattern /\ IdOf(p) \in Token /\ IdOf(t) \in Token
        /\ L \in Nat /\ L >= 3 /\ Len(t) \in Nat /\ Len(t) >= 3
        /\ P[L + 1] = Len(IdOf(p)) + 1 /\ R[Len(t) + 1] = Len(IdOf(t)) + 1
        /\ Len(IdOf(t)) \in Nat
    BY SideFacts
  <1>2. Right(L + 1)
    <2>1. SUFFICES ASSUME NEW j \in 3..(Len(t) + 1), from[L + 1][j]
                   PROVE  at[P[L + 1]][R[j]]
      BY DEF TokensFollow
    <2>2. j \in 1..(Len(t) + 1)
      BY <1>1
    <2>3. j = Len(t) + 1
      BY <1>1, <2>1, <2>2, TokenTableEnd DEF Side
    <2>4. Len(IdOf(t)) + 1 \in 1..(Len(IdOf(t)) + 1)
      BY <1>1
    <2>5. at[Len(IdOf(p)) + 1][Len(IdOf(t)) + 1]
      BY <1>1, <2>4, GlobEnd DEF Side
    <2> QED
      BY <1>1, <2>3, <2>5
  <1>3. ASSUME NEW i \in 3..L, Right(i + 1) PROVE Right(i)
    <2>1. i \in Nat
      OBVIOUS
    <2>2. CASE p[i] = Deep
      BY <1>3, <2>2, DeepForward
    <2>3. CASE p[i] # Deep /\ i % 2 = 1
      BY <1>3, <2>3, WordTokenForward
    <2>4. CASE i % 2 = 0
      BY <1>3, <2>4, SeparatorForward
    <2> QED
      BY <2>1, <2>2, <2>3, <2>4, Parity
  <1> HIDE DEF Right, L
  <1>4. 0 \in U
    BY <1>1, <1>2
  <1>5. ASSUME NEW d \in Nat, d \in U PROVE d + 1 \in U
    <2>1. SUFFICES ASSUME (d + 1) + 2 <= L PROVE Right(L + 1 - (d + 1))
      OBVIOUS
    <2>2. L - d \in 3..L /\ (L - d) + 1 = L + 1 - d /\ L + 1 - (d + 1) = L - d /\ d + 2 <= L
      BY <1>1, <2>1
    <2> QED
      BY <1>3, <1>5, <2>2
  <1>6. L - 2 \in U
    <2>1. L - 2 \in Nat
      BY <1>1
    <2> HIDE DEF U
    <2> QED
      BY <1>4, <1>5, <2>1, Induction
  <1>7. Right(3)
    <2>1. (L - 2) + 2 <= L /\ L + 1 - (L - 2) = 3
      BY <1>1
    <2> QED
      BY <1>6, <2>1
  <1>8. 3 \in 3..(Len(t) + 1) /\ 3 % 2 = 1
    BY <1>1
  <1>9. at[P[3]][R[3]]
    BY <1>7, <1>8 DEF Right, TokensFollow
  <1> QED
    BY <1>9 DEF Side, HasOffsets

\* The slashes of an id are its separators of that kind.
LEMMA SlashesAre ==
  ASSUME NEW p, Tokenized(p)
  PROVE  /\ IsFiniteSet({i \in 3..Len(p) : p[i] = Slash})
         /\ Slashes(IdOf(p)) = Cardinality({i \in 3..Len(p) : p[i] = Slash})
         /\ Slashes(IdOf(p)) = 0 => \A n \in 1..Len(IdOf(p)) : IdOf(p)[n] # "/"
  <1> DEFINE q == IdOf(p)
             S == {i \in 3..Len(p) : p[i] = Slash}
             N == {n \in DOMAIN q : q[n] = "/"}
  <1>1. p \in Pattern /\ Len(p) \in Nat /\ Len(p) >= 3 /\ q \in Token
    BY TokenizedIsPattern, IdOffsets
  <1>2. PICK P : HasOffsets(P, p)
    BY IdOffsets
  <1>3. DOMAIN q = 1..Len(q) /\ Len(q) \in Nat
    BY <1>1 DEF Token
  <1>4. ASSUME NEW i \in S
        PROVE  P[i] \in N /\ P[i + 1] = P[i] + 1 /\ i \in 3..(Len(p) + 1) /\ P[i] \in Nat
    <2>1. i \in 3..Len(p) /\ Len(p[i]) = 1 /\ p[i][1] = "/"
      <3>1. i \in 3..Len(p) /\ p[i] = Slash
        OBVIOUS
      <3>2. Len(Slash) = 1 /\ Slash[1] = "/"
        BY DEF Slash
      <3> QED
        BY <3>1, <3>2
    <2>2. P[i + 1] = P[i] + 1 /\ Sits(p[i], q, P[i])
      BY <1>2, <2>1 DEF HasOffsets
    <2>3. P[i] \in Nat /\ P[i] >= 1 /\ P[i] + 1 <= Len(q) + 1 /\ q[P[i] + 1 - 1] = "/"
      BY <2>1, <2>2 DEF Sits
    <2>4. P[i] \in 1..Len(q) /\ P[i] + 1 - 1 = P[i]
      <3>1. P[i] \in Nat /\ P[i] >= 1 /\ P[i] + 1 <= Len(q) + 1
        BY <2>3
      <3> QED
        BY <1>3, <3>1
    <2>5. i \in 3..(Len(p) + 1)
      BY <1>1, <2>1
    <2> QED
      BY <1>3, <2>2, <2>3, <2>4, <2>5
  <1> DEFINE f == [i \in S |-> P[i]]
  <1>5. f \in [S -> N]
    BY <1>4
  <1>6. ASSUME NEW i \in S, NEW k \in S, i < k PROVE P[i] # P[k]
    <2>1. i + 1 \in 3..(Len(p) + 1) /\ k \in (i + 1)..(Len(p) + 1)
      BY <1>1, <1>6
    <2>2. P[i + 1] <= P[k]
      BY <1>1, <1>2, <2>1, OffsetsGrow
    <2>3. P[i + 1] = P[i] + 1 /\ P[i] \in Nat /\ P[k] \in Nat
      BY <1>4
    <2> QED
      BY <2>2, <2>3
  <1>7. IsInjective(f)
    <2>1. ASSUME NEW i \in S, NEW k \in S, i # k PROVE P[i] # P[k]
      <3>1. i < k \/ k < i
        BY <2>1
      <3> QED
        BY <1>6, <3>1
    <2> QED
      BY <2>1 DEF IsInjective
  <1>8. ASSUME NEW n \in N PROVE \E i \in S : f[i] = n
    <2>1. n \in 1..Len(q) /\ q[n] = "/"
      BY <1>3
    <2>2. PICK i \in 3..Len(p) : \E m \in 1..Len(p[i]) : n = P[i] + m - 1 /\ q[n] = p[i][m]
      <3>1. n \in 1..Len(IdOf(p)) /\ p \in Pattern /\ Len(p) >= 3 /\ HasOffsets(P, p)
        BY <1>1, <1>2, <2>1
      <3>2. \E i \in 3..Len(p) : \E m \in 1..Len(p[i]) :
              n = P[i] + m - 1 /\ IdOf(p)[n] = p[i][m]
        BY <3>1, IdCovered, SMTT(40)
      <3> QED
        BY <3>2
    <2>3. PICK m \in 1..Len(p[i]) : n = P[i] + m - 1 /\ q[n] = p[i][m]
      BY <2>2
    <2>4. i \in 1..Len(p) /\ i \in Nat
      BY <1>1
    <2>5. i % 2 = 0
      BY <2>1, <2>3, <2>4, SeparatorsEven, Parity
    <2>6. p[i] \in {Slash, Colon} /\ Len(p[i]) = 1
      BY <2>4, <2>5, SeparatorsEven
    <2>7. m = 1 /\ p[i] # Colon
      BY <2>1, <2>3, <2>6 DEF Colon
    <2>8. P[i] \in Nat
      <3>1. i \in 3..(Len(p) + 1)
        BY <1>1
      <3> QED
        BY <1>2, <3>1 DEF HasOffsets
    <2>9. n = P[i]
      BY <2>3, <2>7, <2>8
    <2> QED
      BY <2>6, <2>7, <2>9
  <1> HIDE DEF f
  <1>9. ExistsBijection(S, N)
    BY <1>5, <1>7, <1>8 DEF ExistsBijection, Bijection, Injection, Surjection
  <1>10. IsFiniteSet(S)
    <2>1. IsFiniteSet(3..Len(p))
      BY <1>1, FS_Interval
    <2> QED
      BY <2>1, FS_Subset
  <1> HIDE DEF S, N, q
  <1>11. IsFiniteSet(N) /\ Cardinality(N) = Cardinality(S)
    BY <1>9, <1>10, FS_Bijection
  <1>12. Slashes(q) = Cardinality(N)
    BY DEF Slashes, N
  <1>13. Slashes(q) = 0 => N = {}
    BY <1>11, <1>12, FS_EmptySet
  <1>14. N = {} => \A n \in 1..Len(q) : q[n] # "/"
    BY <1>3 DEF N
  <1> QED
    BY <1>10, <1>11, <1>12, <1>13, <1>14 DEF S, q

\* The tables of a tokenized pattern and target.
LEMMA SidesExist ==
  ASSUME NEW p, NEW t, Tokenized(p), Tokenized(t)
  PROVE  \E from : /\ TokenTable(from, p, t) /\ MatchTokens(p, t) = from[1][1]
                   /\ \A stop : \E at, P, R : /\ Side(p, t, from, at, P, R, stop)
                                              /\ Glob(IdOf(p), IdOf(t), stop) = at[1][1]
  <1>1. p \in Pattern /\ t \in Pattern /\ IdOf(p) \in Token /\ IdOf(t) \in Token
    BY TokenizedIsPattern, IdOffsets
  <1>2. PICK from : TokenTable(from, p, t) /\ MatchTokens(p, t) = from[1][1]
    BY <1>1, MatchTokensTable
  <1>3. PICK P : HasOffsets(P, p)
    BY IdOffsets
  <1>4. PICK R : HasOffsets(R, t)
    BY IdOffsets
  <1>5. ASSUME NEW stop
        PROVE  \E at : /\ Side(p, t, from, at, P, R, stop)
                       /\ Glob(IdOf(p), IdOf(t), stop) = at[1][1]
    <2>1. PICK at : /\ GlobTable(at, IdOf(p), IdOf(t), stop)
                    /\ Glob(IdOf(p), IdOf(t), stop) = at[1][1]
      BY <1>1, GlobTableExists
    <2> QED
      BY <1>2, <1>3, <1>4, <2>1 DEF Side
  <1> QED
    BY <1>2, <1>5

\* A separator of the pattern is met by the same separator.
LEMMA SameSeparators ==
  ASSUME NEW p, NEW t, Tokenized(p), Tokenized(t),
         NEW from, TokenTable(from, p, t), from[1][1],
         \A i \in 1..Len(p) : p[i] # Deep
  PROVE  {i \in 3..Len(p) : p[i] = Slash} = {i \in 3..Len(t) : t[i] = Slash}
  <1>1. p \in Pattern /\ t \in Pattern /\ Len(p) \in Nat /\ Len(p) >= 3
    BY TokenizedIsPattern
  <1>2. Len(t) = Len(p) /\ \A n \in 1..(Len(p) + 1) : from[n][n]
    BY <1>1, FlatTable
  <1>3. ASSUME NEW i \in 3..Len(p) PROVE p[i] = Slash <=> t[i] = Slash
    <2>1. i \in 1..Len(p) /\ i \in 1..Len(t) /\ i \in 1..(Len(p) + 1) /\ i \in 1..(Len(t) + 1)
          /\ i \in Nat
      BY <1>1, <1>2
    <2>2. Takes1(p[i], t[i])
      BY <1>1, <1>2, <2>1, TokenTableStep
    <2>3. p[i] \in Token /\ t[i] \in Token
      BY <1>1, <2>1 DEF Pattern
    <2>4. CASE i % 2 = 0
      <3>1. Plain(p[i]) /\ p[i] # One
        BY <2>1, <2>4, SeparatorsEven
      <3>2. MatchToken(p[i], t[i])
        BY <2>2, <3>1 DEF Takes1
      <3> QED
        BY <2>3, <3>1, <3>2, PlainMatches
    <2>5. CASE i % 2 = 1
      BY <2>1, <2>5, SeparatorsEven
    <2> QED
      BY <2>1, <2>4, <2>5, Parity
  <1> QED
    BY <1>2, <1>3

\* The characters of an id are those of its tokens.
LEMMA NoneRefused ==
  ASSUME NEW p, Tokenized(p),
         \A i \in 3..Len(p) : Range(p[i]) \cap Refused = {}
  PROVE  \A n \in 1..Len(IdOf(p)) : IdOf(p)[n] \notin Refused
  <1>1. p \in Pattern /\ Len(p) \in Nat /\ Len(p) >= 3
    BY TokenizedIsPattern
  <1>2. PICK P : HasOffsets(P, p)
    BY IdOffsets
  <1> DEFINE free == \A i \in 3..Len(p) : Range(p[i]) \cap Refused = {}
  <1>3. free
    OBVIOUS
  <1>4. ASSUME NEW n \in 1..Len(IdOf(p)) PROVE IdOf(p)[n] \notin Refused
    <2> HIDE DEF free
    <2>1. \E i \in 3..Len(p) : \E m \in 1..Len(p[i]) :
            n = P[i] + m - 1 /\ IdOf(p)[n] = p[i][m]
      <3>1. n \in 1..Len(IdOf(p)) /\ p \in Pattern /\ Len(p) >= 3 /\ HasOffsets(P, p)
        BY <1>1, <1>2
      <3> QED
        BY <3>1, IdCovered, SMTT(40)
    <2>2. PICK i \in 3..Len(p) : \E m \in 1..Len(p[i]) : IdOf(p)[n] = p[i][m]
      BY <2>1
    <2>3. PICK m \in 1..Len(p[i]) : IdOf(p)[n] = p[i][m]
      BY <2>2
    <2>4. i \in 1..Len(p) /\ p[i] \in Token
      BY <1>1 DEF Pattern
    <2>5. p[i][m] \in Range(p[i])
      BY <2>4 DEF Token, Range
    <2> QED
      BY <1>3, <2>3, <2>5 DEF free
  <1> QED
    BY <1>4

\* Outside of what is known to be stricter, a pattern that matches in the core
\* matches in the harness, and has the same scheme.
LEMMA CoreThenHarness ==
  ASSUME NEW p, NEW t, Tokenized(p), Tokenized(t), ~Stricter(p), MatchPattern(p, t) > 0
  PROVE  MatchID(IdOf(p), IdOf(t)) /\ t[1] = p[1]
  <1> DEFINE q == IdOf(p)
             u == IdOf(t)
             Sp == {i \in 3..Len(p) : p[i] = Slash}
             St == {i \in 3..Len(t) : t[i] = Slash}
  <1>1. ~SchemeLevel(p) /\ Plain(p[1]) /\ ~(Slash \in Range(p) /\ Deep \in Range(p))
    BY DEF Stricter
  <1>2. /\ p \in Pattern /\ t \in Pattern /\ Len(p) \in Nat /\ Len(p) >= 3
        /\ DOMAIN p = 1..Len(p) /\ Len(t) \in Nat /\ Len(t) >= 3
        /\ p[1] \in Token /\ t[1] \in Token /\ p[2] = Colon
    BY TokenizedIsPattern
  <1>3. PICK from : /\ TokenTable(from, p, t) /\ MatchTokens(p, t) = from[1][1]
                    /\ \A stop : \E at, P, R : /\ Side(p, t, from, at, P, R, stop)
                                               /\ Glob(q, u, stop) = at[1][1]
    BY SidesExist
  <1>4. from[1][1]
    BY <1>1, <1>3, MatchPatternScore
  <1>5. 1 \in 1..Len(p) /\ 2 \in 1..Len(p) /\ 1 \in 1..(Len(t) + 1) /\ 2 \in 1..(Len(t) + 1)
    BY <1>2
  <1>6. Takes1(p[1], t[1]) /\ from[2][2] /\ p[1] # One
    <2>1. p[1] # One /\ p[1] # Deep
      BY <1>1, PlainIsWord
    <2>2. Takes1(p[1], t[1]) /\ from[1 + 1][1 + 1]
      BY <1>2, <1>3, <1>4, <1>5, <2>1, TokenTableStep
    <2> QED
      BY <2>1, <2>2
  <1>7. t[1] = p[1]
    BY <1>1, <1>2, <1>6, PlainMatches DEF Takes1
  <1>8. from[3][3]
    <2>1. from[2 + 1][2 + 1]
      BY <1>2, <1>3, <1>5, <1>6, TokensDiffer, TokenTableStep
    <2> QED
      BY <2>1
  <1>9. ASSUME NEW stop \in SUBSET {"/"},
               \A i \in 3..Len(p) : p[i] = Deep => \A n \in 1..Len(u) : u[n] \notin stop
        PROVE  Glob(q, u, stop)
    <2>1. PICK at, P, R : /\ Side(p, t, from, at, P, R, stop)
                          /\ Glob(q, u, stop) = at[1][1]
      BY <1>3
    <2>2. at[1][1]
      BY <1>8, <1>9, <2>1, IdForward
    <2> QED
      BY <2>1, <2>2
  <1>10. /\ Slashes(q) = Cardinality(Sp) /\ Slashes(u) = Cardinality(St)
         /\ Slashes(u) = 0 => \A n \in 1..Len(u) : u[n] # "/"
    BY SlashesAre
  <1>13. \A n \in 1..Len(q) : q[n] \notin Refused
    BY <1>2, NoneRefused DEF Stricter
  <1>11. CASE Slash \notin Range(p)
    <2>1. Slashes(q) = 0
      <3>1. Sp = {}
        BY <1>2, <1>11 DEF Range
      <3> QED
        BY <1>10, <3>1, FS_EmptySet
    <2>2. CASE Slashes(u) = 0
      <3>1. Glob(q, u, {"/"})
        BY <1>9, <1>10, <2>2
      <3> HIDE DEF q, u
      <3>2. MatchID(q, u)
        BY <1>13, <2>1, <2>2, <3>1, Zenon DEF MatchID, q
      <3> QED
        BY <1>7, <3>2 DEF q, u
    <2>3. CASE Slashes(u) # 0
      <3>1. Glob(q, u, {})
        BY <1>9
      <3> HIDE DEF q, u
      <3>2. MatchID(q, u)
        BY <1>13, <2>1, <2>3, <3>1, Zenon DEF MatchID, q
      <3> QED
        BY <1>7, <3>2 DEF q, u
    <2> QED
      BY <2>2, <2>3
  <1>12. CASE Slash \in Range(p)
    <2>1. \A i \in 1..Len(p) : p[i] # Deep
      BY <1>1, <1>2, <1>12 DEF Range
    <2>2. Sp = St
      BY <1>3, <1>4, <2>1, SameSeparators
    <2>3. Slashes(q) = Slashes(u)
      BY <1>10, <2>2
    <2>4. \A i \in 3..Len(p) : p[i] # Deep
      BY <1>2, <2>1
    <2>5. Glob(q, u, {"/"})
      BY <1>9, <2>4
    <2> QED
      BY <1>7, <1>13, <2>3, <2>5 DEF MatchID
  <1> QED
    BY <1>11, <1>12

-----------------------------------------------------------------------------
(* What the harness matches, the core matches.                             *)

\* A word without wildcards matches itself.
LEMMA PlainTakesItself ==
  ASSUME NEW w \in Token, Plain(w)
  PROVE  MatchToken(w, w)
  <1>1. PICK at : CharTable(at, w, w) /\ MatchToken(w, w) = at[1][1]
    BY MatchTokenTable
  <1>2. Len(w) \in Nat /\ DOMAIN w = 1..Len(w)
    BY DEF Token
  <1> DEFINE L == Len(w)
             U == {d \in Nat : d <= L => at[L + 1 - d][L + 1 - d]}
  <1>3. 0 \in U
    <2>1. L + 1 \in 1..(L + 1) /\ L + 1 > L /\ L + 1 - 0 = L + 1
      BY <1>2
    <2> QED
      BY <1>1, <2>1 DEF CharTable
  <1>4. ASSUME NEW d \in Nat, d \in U PROVE d + 1 \in U
    <2>1. SUFFICES ASSUME d + 1 <= L PROVE at[L + 1 - (d + 1)][L + 1 - (d + 1)]
      OBVIOUS
    <2> DEFINE i == L - d
    <2>2. i \in 1..L /\ i + 1 = L + 1 - d /\ L + 1 - (d + 1) = i /\ d <= L
      <3>1. L \in Nat /\ d \in Nat /\ d + 1 <= L
        BY <1>2, <2>1
      <3> HIDE DEF U, L
      <3> QED
        BY <3>1
    <2>4. i \in 1..(L + 1) /\ i <= L
      BY <1>2, <2>2
    <2>3. at[i + 1][i + 1] /\ w[i] \notin {"*"} \cup Special
      BY <1>2, <1>4, <2>2 DEF Plain
    <2> HIDE DEF i
    <2> QED
      BY <1>1, <2>2, <2>3, <2>4, LiteralStep
  <1>5. L \in U
    <2> HIDE DEF U
    <2> QED
      BY <1>2, <1>3, <1>4, Induction
  <1>6. L + 1 - L = 1
    BY <1>2
  <1> QED
    BY <1>1, <1>2, <1>5, <1>6

\* What is not laxer: no wildcard of a word reaches over a slash, no word of an
\* alternation has a dot, and there is no separator but slashes behind the
\* scheme.
LEMMA NotLaxer ==
  ASSUME NEW p, NEW t, Tokenized(p), Tokenized(t), ~Laxer(p, t)
  PROVE  /\ \A j \in 3..Len(t) : t[j] # Colon
         /\ \A i \in 3..Len(p) : \A m \in 1..Len(p[i]) :
              /\ ~GlobDeep(p[i], m)
              /\ p[i][m] \in Special => \A v \in Words[p[i][m]] : "/" \notin Range(v)
              /\ p[i][m] \in Alternations => \A v \in Words[p[i][m]] : "." \notin Range(v)
         /\ \A i \in 3..Len(p) : p[i] # Deep
  <1>1. /\ p \in Pattern /\ t \in Pattern /\ Len(p) \in Nat /\ Len(t) \in Nat /\ Len(t) >= 3
    BY TokenizedIsPattern
  <1>2. ASSUME NEW j \in 3..Len(t) PROVE t[j] # Colon
    <2> DEFINE s == Drop(t, 2)
    <2>1. s \in Pattern /\ Len(s) = Len(t) - 2 /\ \A k \in 1..Len(s) : s[k] = t[k + 2]
      BY <1>1 DEF Drop, Pattern
    <2>2. DOMAIN s = 1..Len(s) /\ Colon \notin Range(s)
      BY <2>1 DEF Pattern, Laxer
    <2> HIDE DEF s
    <2>3. j - 2 \in 1..Len(s) /\ (j - 2) + 2 = j
      BY <1>1, <2>1
    <2>4. s[j - 2] = t[j]
      BY <2>1, <2>3
    <2> QED
      BY <2>2, <2>3, <2>4 DEF Range
  <1>3. ASSUME NEW i \in 3..Len(p), NEW m \in 1..Len(p[i])
        PROVE  /\ ~GlobDeep(p[i], m)
               /\ p[i][m] \in Special => \A v \in Words[p[i][m]] : "/" \notin Range(v)
               /\ p[i][m] \in Alternations => \A v \in Words[p[i][m]] : "." \notin Range(v)
    <2>1. i \in 1..Len(p)
      BY <1>1
    <2>2. m \in DOMAIN p[i]
      BY <1>1, <2>1 DEF Pattern, Token
    <2> QED
      BY <2>2 DEF Laxer, GlobDeep
  <1>4. ASSUME NEW i \in 3..Len(p) PROVE p[i] # Deep
    <2>1. GlobDeep(Deep, 1) /\ 1 \in 1..Len(Deep)
      BY DEF GlobDeep, Deep
    <2> QED
      BY <1>3, <2>1
  <1> QED
    BY <1>2, <1>3, <1>4

\* A separator stands in the id as it is.
LEMMA SeparatorStands ==
  ASSUME NEW p, Tokenized(p), NEW P, HasOffsets(P, p), NEW i \in 3..Len(p), i % 2 = 0
  PROVE  /\ P[i] \in 1..Len(IdOf(p)) /\ IdOf(p)[P[i]] = p[i][1] /\ P[i + 1] = P[i] + 1
         /\ p[i][1] \in {"/", ":"} /\ p[i][1] \notin {"*"} \cup Special
         /\ p[i] \in {Slash, Colon} /\ Plain(p[i]) /\ p[i] # Deep /\ p[i] # One
  <1>1. p \in Pattern /\ Len(p) \in Nat /\ IdOf(p) \in Token
    BY TokenizedIsPattern, IdOffsets
  <1>2. i \in 1..Len(p) /\ Len(IdOf(p)) \in Nat
    BY <1>1 DEF Token
  <1>3. /\ p[i] \in {Slash, Colon} /\ Len(p[i]) = 1 /\ p[i][1] \in {"/", ":"} /\ Plain(p[i])
        /\ p[i] # Deep /\ p[i] # One
    BY <1>2, SeparatorsEven
  <1>4. P[i + 1] = P[i] + Len(p[i]) /\ Sits(p[i], IdOf(p), P[i])
    BY DEF HasOffsets
  <1>5. P[i] \in Nat /\ P[i] >= 1 /\ P[i] + 1 <= Len(IdOf(p)) + 1
        /\ IdOf(p)[P[i] + 1 - 1] = p[i][1]
    BY <1>3, <1>4 DEF Sits
  <1>6. P[i] \in 1..Len(IdOf(p)) /\ P[i] + 1 - 1 = P[i]
    <2>1. P[i] \in Nat /\ P[i] >= 1 /\ P[i] + 1 <= Len(IdOf(p)) + 1
      BY <1>5
    <2> QED
      BY <1>2, <2>1
  <1>7. p[i][1] \notin {"*"} \cup Special
    BY <1>3, WordsAssumption
  <1> QED
    BY <1>3, <1>4, <1>5, <1>6, <1>7

\* A separator is met by the same separator.
LEMMA SeparatorBackward ==
  ASSUME NEW p, NEW t, NEW from, NEW at, NEW P, NEW R, NEW stop,
         Side(p, t, from, at, P, R, stop),
         NEW i \in 3..Len(p), i % 2 = 0, NEW j \in 3..(Len(t) + 1), j % 2 = 0,
         at[P[i]][R[j]]
  PROVE  j <= Len(t) /\ t[j] = p[i] /\ at[P[i + 1]][R[j + 1]]
  <1> DEFINE q == IdOf(p)
             u == IdOf(t)
             a == P[i]
             b == R[j]
  <1>1. /\ p \in Pattern /\ t \in Pattern /\ q \in Token /\ u \in Token
        /\ Len(p) \in Nat /\ Len(t) \in Nat /\ Len(q) \in Nat /\ Len(u) \in Nat
        /\ R[Len(t) + 1] = Len(u) + 1 /\ b \in 1..(Len(u) + 1)
    BY SideFacts
  <1>2. /\ a \in 1..Len(q) /\ q[a] = p[i][1] /\ P[i + 1] = a + 1
        /\ p[i] \in {Slash, Colon} /\ q[a] \notin {"*"} \cup Special
    BY SeparatorStands, SMTT(40) DEF Side
  <1>3. GlobTable(at, q, u, stop)
    BY DEF Side
  <1>4. b <= Len(u) /\ u[b] = q[a] /\ at[a + 1][b + 1]
    <2>1. at[a][b]
      OBVIOUS
    <2> HIDE DEF q, u, a, b
    <2> QED
      BY <1>1, <1>2, <1>3, <2>1, GlobLiteral, SMTT(40)
  <1>5. j \in 3..Len(t)
    <2>1. b <= Len(u)
      BY <1>4
    <2>2. j # Len(t) + 1
      BY <1>1, <2>1
    <2> QED
      BY <1>1, <2>2
  <1>6. u[b] = t[j][1] /\ R[j + 1] = b + 1 /\ t[j] \in {Slash, Colon}
    BY <1>5, SeparatorStands, SMTT(40) DEF Side
  <1>7. t[j] = p[i]
    <2>1. t[j][1] = p[i][1]
      BY <1>2, <1>4, <1>6
    <2> QED
      BY <1>2, <1>6, <2>1 DEF Slash, Colon
  <1> QED
    BY <1>2, <1>4, <1>5, <1>6, <1>7

\* A word is met by a word that it matches, and what follows by what follows.
LEMMA TokenBackward ==
  ASSUME NEW p, NEW t, NEW from, NEW at, NEW P, NEW R, NEW stop,
         Side(p, t, from, at, P, R, stop), ~Laxer(p, t),
         NEW i \in 3..Len(p), i % 2 = 1, NEW j \in 3..Len(t), j % 2 = 1,
         at[P[i]][R[j]]
  PROVE  MatchToken(p[i], t[j]) /\ at[P[i + 1]][R[j + 1]]
  <1> DEFINE q == IdOf(p)
             u == IdOf(t)
             w == p[i]
             x == t[j]
             a == P[i]
             b == R[j]
  <1>14. /\ p \in Pattern /\ t \in Pattern /\ q \in Token /\ u \in Token
         /\ Len(p) \in Nat /\ Len(t) \in Nat /\ Len(q) \in Nat /\ Len(u) \in Nat
         /\ P[Len(p) + 1] = Len(q) + 1 /\ R[Len(t) + 1] = Len(u) + 1
    BY SideFacts
  <1>15. a + Len(w) = P[i + 1] /\ Sits(w, q, a)
    BY SideFacts
  <1>16. b + Len(x) = R[j + 1] /\ Sits(x, u, b)
    BY SideFacts
  <1>1. /\ p \in Pattern /\ t \in Pattern /\ q \in Token /\ u \in Token
        /\ Len(p) \in Nat /\ Len(t) \in Nat /\ Len(q) \in Nat /\ Len(u) \in Nat
        /\ a + Len(w) = P[i + 1] /\ Sits(w, q, a)
        /\ b + Len(x) = R[j + 1] /\ Sits(x, u, b)
        /\ P[Len(p) + 1] = Len(q) + 1 /\ R[Len(t) + 1] = Len(u) + 1
    BY <1>14, <1>15, <1>16
  <1>2. i \in 1..Len(p) /\ j \in 1..Len(t) /\ (i + 1) % 2 = 0 /\ (j + 1) % 2 = 0
    <2>1. Len(p) \in Nat /\ Len(t) \in Nat
      BY <1>14
    <2> QED
      BY <2>1, Parity
  <1>3. w \in Token /\ x \in Token /\ Len(w) \in Nat /\ Len(x) \in Nat
    BY <1>2, SideFacts
  <1>4. /\ \A m \in 1..Len(w) : w[m] # "/" /\ w[m] # ":"
        /\ \A n \in 1..Len(x) : x[n] # "/" /\ x[n] # ":"
    BY <1>2, SeparatorsEven DEF Side
  <1>5. GlobTable(at, q, u, stop)
    BY DEF Side
  <1>6. ASSUME i # Len(p)
        PROVE  /\ a + Len(w) \in 1..Len(q) /\ q[a + Len(w)] \in {"/", ":"}
               /\ q[a + Len(w)] \notin {"*"} \cup Special
    <2>1. i + 1 \in 3..Len(p) /\ (i + 1) % 2 = 0
      BY <1>1, <1>2, <1>6
    <2> DEFINE k == i + 1
    <2>2. k \in 3..Len(p) /\ k % 2 = 0 /\ Tokenized(p) /\ HasOffsets(P, p)
      BY <2>1 DEF Side
    <2>3. a + Len(w) = P[k]
      BY <1>15
    <2> HIDE DEF k, a, w
    <2>4. P[k] \in 1..Len(q) /\ q[P[k]] = p[k][1] /\ p[k][1] \in {"/", ":"}
          /\ p[k][1] \notin {"*"} \cup Special
      BY <2>2, SeparatorStands
    <2> QED
      BY <2>3, <2>4
  <1>7. a + Len(w) <= Len(q) => q[a + Len(w)] # "*"
    <2>1. CASE i = Len(p)
      <3>1. a + Len(w) = Len(q) + 1 /\ Len(q) \in Nat
        BY <1>14, <1>15, <2>1
      <3> HIDE DEF a, w, q
      <3>2. ~(a + Len(w) <= Len(q))
        BY <3>1
      <3> QED
        BY <3>2
    <2>2. CASE i # Len(p)
      <3>1. q[a + Len(w)] \notin {"*"} \cup Special
        BY <1>6, <2>2
      <3> QED
        BY <3>1
    <2> QED
      BY <2>1, <2>2
  <1>8. b + Len(x) <= Len(u) => u[b + Len(x)] = "/"
    <2>1. SUFFICES ASSUME b + Len(x) <= Len(u) PROVE u[b + Len(x)] = "/"
      OBVIOUS
    <2>2. j # Len(t)
      BY <1>1, <2>1
    <2>3. j + 1 \in 3..Len(t)
      BY <1>1, <2>2
    <2>4. u[R[j + 1]] = t[j + 1][1] /\ t[j + 1] \in {Slash, Colon}
      BY <1>2, <2>3, SeparatorStands DEF Side
    <2>5. t[j + 1] = Slash
      BY <2>3, <2>4, NotLaxer DEF Side
    <2> QED
      BY <1>1, <2>4, <2>5, SMTT(40) DEF Slash
  <1>9. Confined(u, w, x, b)
    <2>1. \A m \in 1..Len(w) :
            /\ ~GlobDeep(w, m)
            /\ w[m] \in Special => \A v \in Words[w[m]] : "/" \notin Range(v)
            /\ w[m] \in Alternations => \A v \in Words[w[m]] : "." \notin Range(v)
      BY NotLaxer DEF Side
    <2> QED
      BY <1>4, <1>8, <2>1 DEF Confined
  <1>10. ASSUME NEW n \in 1..(Len(x) + 1), at[a + Len(w)][b + n - 1]
         PROVE  n = Len(x) + 1
    <2>1. b \in Nat /\ b >= 1 /\ b + Len(x) <= Len(u) + 1
      BY <1>1 DEF Sits
    <2>2. b + n - 1 \in 1..(Len(u) + 1)
      <3>1. Len(x) \in Nat /\ Len(u) \in Nat
        BY <1>3, <1>14
      <3> HIDE DEF b, x, u
      <3> QED
        BY <2>1, <3>1
    <2>3. CASE i = Len(p)
      <3>1. at[Len(q) + 1][b + n - 1]
        BY <1>14, <1>15, <1>10, <2>3
      <3>2. b + n - 1 = Len(u) + 1
        <4> DEFINE e == b + n - 1
        <4>1. q \in Token /\ u \in Token /\ GlobTable(at, q, u, stop)
              /\ e \in 1..(Len(u) + 1) /\ at[Len(q) + 1][e]
          BY <1>14, <1>5, <2>2, <3>1
        <4> HIDE DEF q, u, e
        <4>2. e = Len(u) + 1
          BY <4>1, GlobEnd
        <4> QED
          BY <4>2 DEF e
      <3>3. Len(x) \in Nat /\ Len(u) \in Nat
        BY <1>3, <1>14
      <3> HIDE DEF b, x, u
      <3> QED
        BY <2>1, <3>2, <3>3
    <2>4. CASE i # Len(p)
      <3> DEFINE c == a + Len(w)
                 e == b + n - 1
      <3>1. c \in 1..Len(q) /\ q[c] \in {"/", ":"} /\ q[c] \notin {"*"} \cup Special
        BY <1>6, <2>4
      <3>2. at[c][e] /\ e \in 1..(Len(u) + 1)
        BY <1>10, <2>2
      <3>3. e <= Len(u) /\ u[e] = q[c]
        <4>1. q \in Token /\ u \in Token /\ GlobTable(at, q, u, stop)
              /\ c \in 1..Len(q) /\ q[c] \notin {"*"} \cup Special
              /\ e \in 1..(Len(u) + 1) /\ at[c][e]
          BY <1>14, <1>5, <3>1, <3>2
        <4> HIDE DEF q, u, c, e
        <4>2. at[c][e] <=> e <= Len(u) /\ u[e] = q[c] /\ at[c + 1][e + 1]
          BY <4>1, GlobLiteral, SMTT(40)
        <4> QED
          BY <4>1, <4>2
      <3>4. n \in 1..Len(x) => u[e] = x[n]
        BY <1>1 DEF Sits
      <3>5. n \notin 1..Len(x)
        BY <1>4, <3>1, <3>3, <3>4
      <3> QED
        BY <1>3, <3>5
    <2> QED
      BY <2>3, <2>4
  <1>11. Facing(at, q, u, stop, w, x, a, b)
    BY <1>1, <1>5, <1>7 DEF Facing
  <1>12. at[a][b]
    OBVIOUS
  <1>13. MatchToken(w, x) /\ at[a + Len(w)][b + Len(x)]
    <2> HIDE DEF q, u, w, x, a, b
    <2> QED
      BY <1>1, <1>3, <1>9, <1>10, <1>11, <1>12, WordBackward
  <1> QED
    BY <1>1, <1>13

\* Row i of the table of the id is in that of the tokens.
TokensLead(from, at, P, R, t, i) ==
  \A j \in 3..Len(t) : j % 2 = 1 /\ at[P[i]][R[j]] => from[i][j]

\* The last word.
LEMMA LastLeads ==
  ASSUME NEW p, NEW t, NEW from, NEW at, NEW P, NEW R, NEW stop,
         Side(p, t, from, at, P, R, stop), ~Laxer(p, t),
         NEW i, i = Len(p)
  PROVE  TokensLead(from, at, P, R, t, i)
  <1>1. /\ p \in Pattern /\ t \in Pattern /\ IdOf(p) \in Token /\ IdOf(t) \in Token
        /\ Len(p) \in Nat /\ Len(p) >= 3 /\ Len(t) \in Nat /\ Len(IdOf(t)) \in Nat
        /\ P[Len(p) + 1] = Len(IdOf(p)) + 1
    BY SideFacts
  <1>2. i \in 3..Len(p) /\ i \in 1..Len(p) /\ i % 2 = 1 /\ i \in Nat
    BY <1>1 DEF Side, Tokenized
  <1>3. SUFFICES ASSUME NEW j \in 3..Len(t), j % 2 = 1, at[P[i]][R[j]]
                 PROVE  from[i][j]
    BY DEF TokensLead
  <1>4. MatchToken(p[i], t[j]) /\ at[P[i + 1]][R[j + 1]]
    BY <1>2, <1>3, TokenBackward
  <1>5. j \in 1..Len(t) /\ j \in 1..(Len(t) + 1) /\ j + 1 \in 3..(Len(t) + 1) /\ j <= Len(t)
    BY <1>1
  <1>6. R[j + 1] = Len(IdOf(t)) + 1
    <2>1. R[j + 1] \in 1..(Len(IdOf(t)) + 1)
      BY <1>5, SideFacts
    <2>2. at[Len(IdOf(p)) + 1][R[j + 1]]
      BY <1>1, <1>4
    <2> QED
      BY <1>1, <2>1, <2>2, GlobEnd DEF Side
  <1>7. j = Len(t)
    <2>1. SUFFICES ASSUME j # Len(t) PROVE FALSE
      OBVIOUS
    <2>2. j + 1 \in 3..Len(t) /\ (j + 1) % 2 = 0
      BY <1>1, <1>3, <2>1, Parity
    <2>3. R[j + 1] \in 1..Len(IdOf(t))
      BY <2>2, SeparatorStands DEF Side
    <2> QED
      BY <1>1, <1>6, <2>3
  <1>8. from[i + 1][j + 1]
    <2>1. Len(t) + 1 \in 1..(Len(t) + 1)
      BY <1>1
    <2>2. from[Len(p) + 1][Len(t) + 1]
      BY <1>1, <2>1, TokenTableEnd DEF Side
    <2> QED
      BY <1>7, <2>2
  <1>9. Takes1(p[i], t[j])
    BY <1>3, <1>4, <1>5, SeparatorsEven DEF Takes1, Side
  <1>10. p[i] # Deep
    BY <1>2, NotLaxer DEF Side
  <1> QED
    BY <1>1, <1>2, <1>5, <1>8, <1>9, <1>10, TokenTableStep DEF Side

\* A word with more behind it.
LEMMA NextLeads ==
  ASSUME NEW p, NEW t, NEW from, NEW at, NEW P, NEW R, NEW stop,
         Side(p, t, from, at, P, R, stop), ~Laxer(p, t),
         NEW i \in 3..Len(p), i % 2 = 1, i # Len(p),
         TokensLead(from, at, P, R, t, i + 2)
  PROVE  TokensLead(from, at, P, R, t, i)
  <1>1. /\ p \in Pattern /\ t \in Pattern /\ IdOf(p) \in Token /\ IdOf(t) \in Token
        /\ Len(p) \in Nat /\ Len(p) >= 3 /\ Len(t) \in Nat /\ Len(IdOf(t)) \in Nat
        /\ Len(t) % 2 = 1
    BY SideFacts DEF Side, Tokenized
  <1>2. i \in 1..Len(p) /\ i + 1 \in 3..Len(p) /\ i + 1 \in 1..Len(p) /\ (i + 1) % 2 = 0
        /\ (i + 1) + 1 = i + 2
    BY <1>1, Parity
  <1>3. SUFFICES ASSUME NEW j \in 3..Len(t), j % 2 = 1, at[P[i]][R[j]]
                 PROVE  from[i][j]
    BY DEF TokensLead
  <1>4. MatchToken(p[i], t[j]) /\ at[P[i + 1]][R[j + 1]]
    BY <1>3, TokenBackward
  <1>5. j \in 1..Len(t) /\ j \in 1..(Len(t) + 1) /\ j + 1 \in 3..(Len(t) + 1) /\ j <= Len(t)
        /\ j + 1 \in 1..(Len(t) + 1) /\ (j + 1) % 2 = 0 /\ (j + 1) + 1 = j + 2
    BY <1>1, <1>3, Parity
  <1>6. j + 1 <= Len(t) /\ t[j + 1] = p[i + 1] /\ at[P[i + 2]][R[j + 2]]
    <2> DEFINE k == i + 1
               l == j + 1
    <2>1. k \in 3..Len(p) /\ k % 2 = 0 /\ l \in 3..(Len(t) + 1) /\ l % 2 = 0 /\ at[P[k]][R[l]]
      BY <1>2, <1>4, <1>5
    <2>2. k + 1 = i + 2 /\ l + 1 = j + 2
      BY <1>2, <1>5
    <2> HIDE DEF k, l
    <2>3. l <= Len(t) /\ t[l] = p[k] /\ at[P[k + 1]][R[l + 1]]
      BY <2>1, SeparatorBackward, SMTT(40)
    <2> QED
      BY <2>2, <2>3 DEF k, l
  <1>7. j + 2 \in 3..Len(t) /\ (j + 2) % 2 = 1
    <2>1. j + 1 <= Len(t) /\ Len(t) \in Nat /\ Len(t) % 2 = 1
      BY <1>1, <1>6
    <2> QED
      BY <1>3, <2>1, SMTT(40)
  <1>8. from[i + 2][j + 2]
    BY <1>6, <1>7 DEF TokensLead
  <1>9. from[i + 1][j + 1]
    <2>1. p[i + 1] # Deep /\ p[i + 1] # One /\ Plain(p[i + 1]) /\ p[i + 1] \in Token
      BY <1>2, SideFacts, SeparatorsEven DEF Side
    <2>2. Takes1(p[i + 1], t[j + 1])
      BY <1>6, <2>1, PlainTakesItself DEF Takes1
    <2> DEFINE k == i + 1
               l == j + 1
    <2>3. k \in 1..Len(p) /\ l \in 1..(Len(t) + 1) /\ p[k] # Deep /\ l <= Len(t)
          /\ Takes1(p[k], t[l]) /\ from[k + 1][l + 1]
      BY <1>2, <1>5, <1>6, <1>8, <2>1, <2>2
    <2> HIDE DEF k, l
    <2>4. from[k][l]
      BY <1>1, <2>3, TokenTableStep DEF Side
    <2> QED
      BY <2>4 DEF k, l
  <1>10. Takes1(p[i], t[j])
    BY <1>3, <1>4, <1>5, SeparatorsEven DEF Takes1, Side
  <1>11. p[i] # Deep
    BY NotLaxer DEF Side
  <1> QED
    BY <1>1, <1>2, <1>5, <1>9, <1>10, <1>11, TokenTableStep DEF Side

\* If the id of the target matches that of the pattern, the tokens behind the
\* scheme do.
LEMMA IdBackward ==
  ASSUME NEW p, NEW t, NEW from, NEW at, NEW P, NEW R, NEW stop,
         Side(p, t, from, at, P, R, stop), ~Laxer(p, t), at[1][1]
  PROVE  from[3][3]
  <1> DEFINE L == Len(p)
             Lead(i) == TokensLead(from, at, P, R, t, i)
             U == {d \in Nat : \A i \in 3..L : i % 2 = 1 /\ i + d >= L => Lead(i)}
  <1>1. L \in Nat /\ L >= 3 /\ L % 2 = 1 /\ Len(t) \in Nat /\ Len(t) >= 3
    BY SideFacts DEF Side, Tokenized
  <1>2. Lead(L)
    BY LastLeads
  <1>3. ASSUME NEW i \in 3..L, i % 2 = 1, i # L, Lead(i + 2) PROVE Lead(i)
    BY <1>3, NextLeads
  <1> HIDE DEF Lead, L
  <1>4. 0 \in U
    BY <1>1, <1>2
  <1>5. ASSUME NEW d \in Nat, d \in U PROVE d + 1 \in U
    <2>1. SUFFICES ASSUME NEW i \in 3..L, i % 2 = 1, i + (d + 1) >= L PROVE Lead(i)
      OBVIOUS
    <2>2. CASE i = L
      BY <1>2, <2>2
    <2>3. CASE i # L
      <3>1. i + 2 \in 3..L /\ (i + 2) % 2 = 1 /\ (i + 2) + d >= L
        BY <1>1, <2>1, <2>3
      <3> QED
        BY <1>3, <1>5, <2>1, <2>3, <3>1
    <2> QED
      BY <2>2, <2>3
  <1>6. L \in U
    <2> HIDE DEF U
    <2> QED
      BY <1>1, <1>4, <1>5, Induction
  <1>7. Lead(3)
    <2>1. 3 \in 3..L /\ 3 % 2 = 1 /\ 3 + L >= L
      BY <1>1
    <2> QED
      BY <1>6, <2>1
  <1>8. 3 \in 3..Len(t) /\ 3 % 2 = 1
    BY <1>1
  <1>9. P[3] = 1 /\ R[3] = 1
    BY DEF Side, HasOffsets
  <1> QED
    BY <1>7, <1>8, <1>9 DEF Lead, TokensLead

\* Outside of what is known to be laxer, a pattern of the same scheme that
\* matches in the harness matches in the core.
LEMMA HarnessThenCore ==
  ASSUME NEW p, NEW t, Tokenized(p), Tokenized(t), ~Laxer(p, t), p[1] = t[1],
         MatchID(IdOf(p), IdOf(t))
  PROVE  MatchPattern(p, t) > 0
  <1>1. /\ p \in Pattern /\ t \in Pattern /\ Len(p) \in Nat /\ Len(p) >= 3
        /\ Len(t) \in Nat /\ Len(t) >= 3
        /\ p[1] \in Token /\ p[2] = Colon /\ t[2] = Colon
    BY TokenizedIsPattern
  <1>2. CASE SchemeLevel(p)
    BY <1>1, <1>2 DEF MatchPattern
  <1>3. CASE ~SchemeLevel(p)
    <2>1. PICK stop : Glob(IdOf(p), IdOf(t), stop)
      BY DEF MatchID
    <2>2. PICK from : /\ TokenTable(from, p, t) /\ MatchTokens(p, t) = from[1][1]
                      /\ \A s : \E at, P, R : /\ Side(p, t, from, at, P, R, s)
                                              /\ Glob(IdOf(p), IdOf(t), s) = at[1][1]
      BY SidesExist
    <2>3. PICK at, P, R : /\ Side(p, t, from, at, P, R, stop)
                          /\ Glob(IdOf(p), IdOf(t), stop) = at[1][1]
      BY <2>2
    <2>4. from[2 + 1][2 + 1]
      <3>1. at[1][1]
        BY <2>1, <2>3
      <3>2. from[3][3]
        BY <2>3, <3>1, IdBackward
      <3> QED
        BY <3>2
    <2>5. /\ 1 \in 1..Len(p) /\ 2 \in 1..Len(p) /\ 1 \in 1..(Len(t) + 1) /\ 2 \in 1..(Len(t) + 1)
          /\ 1 <= Len(t) /\ 2 <= Len(t)
      BY <1>1
    <2>6. Plain(p[1]) /\ p[1] # One /\ p[1] # Deep
      BY PlainIsWord DEF Laxer
    <2>7. Plain(Colon) /\ Colon # One /\ Colon # Deep /\ Colon \in Token
      <3>1. 2 % 2 = 0
        OBVIOUS
      <3> QED
        BY <1>1, <2>5, <3>1, SeparatorsEven, TokensDiffer DEF Pattern
    <2>8. Takes1(p[2], t[2]) /\ Takes1(p[1], t[1])
      BY <1>1, <2>6, <2>7, PlainTakesItself DEF Takes1
    <2>9. from[1 + 1][1 + 1]
      <3>1. from[2][2]
        BY <1>1, <2>2, <2>4, <2>5, <2>7, <2>8, TokenTableStep
      <3> QED
        BY <3>1
    <2>10. from[1][1]
      BY <1>1, <2>2, <2>5, <2>6, <2>8, <2>9, TokenTableStep
    <2> QED
      BY <1>3, <2>2, <2>10, MatchPatternScore
  <1> QED
    BY <1>2, <1>3

-----------------------------------------------------------------------------
(* Parameters in the harness.                                              *)

\* What paramsSubset does at one level of a value.
LevelSubset(within, v, u) ==
  CASE v \in Absent -> TRUE
    [] v[1] = "num" -> u[1] = "num" /\ u[2] <= v[2]
    [] v[1] = "arr" -> /\ v[2] # {}
                       /\ IF u[1] = "arr" THEN u[2] \subseteq v[2]
                          ELSE u \in v[2]
    [] v[1] = "obj" ->
         /\ u[1] = "obj"
         /\ \A k \in DOMAIN v[2] :
              k \in DOMAIN u[2] /\ within[v[2][k]][u[2][k]]
    [] OTHER        -> u = v

\* What the branches say, one by one.
LEMMA LevelSubsetIs ==
  ASSUME NEW f, NEW v, NEW u
  PROVE  /\ v \in Absent => LevelSubset(f, v, u)
         /\ v[1] = "num" => (LevelSubset(f, v, u) <=> u[1] = "num" /\ u[2] <= v[2])
         /\ v[1] = "arr" =>
              (LevelSubset(f, v, u) <=>
                 v[2] # {} /\ IF u[1] = "arr" THEN u[2] \subseteq v[2] ELSE u \in v[2])
         /\ v[1] = "obj" =>
              (LevelSubset(f, v, u) <=>
                 /\ u[1] = "obj"
                 /\ \A k \in DOMAIN v[2] : k \in DOMAIN u[2] /\ f[v[2][k]][u[2][k]])
         /\ v \notin Absent /\ v[1] \notin {"num", "arr", "obj"} =>
              (LevelSubset(f, v, u) <=> u = v)
  <1>1. v \in Absent => v[1] \in {"none", "null"}
    BY DEF Absent
  <1>2. v \in Absent => LevelSubset(f, v, u)
    BY <1>1 DEF LevelSubset
  <1>3. v[1] = "num" => (LevelSubset(f, v, u) <=> u[1] = "num" /\ u[2] <= v[2])
    BY <1>1 DEF LevelSubset
  <1>4. v[1] = "arr" =>
          (LevelSubset(f, v, u) <=>
             v[2] # {} /\ IF u[1] = "arr" THEN u[2] \subseteq v[2] ELSE u \in v[2])
    BY <1>1 DEF LevelSubset
  <1>5. v[1] = "obj" =>
          (LevelSubset(f, v, u) <=>
             /\ u[1] = "obj"
             /\ \A k \in DOMAIN v[2] : k \in DOMAIN u[2] /\ f[v[2][k]][u[2][k]])
    BY <1>1 DEF LevelSubset
  <1>6. v \notin Absent /\ v[1] \notin {"num", "arr", "obj"} =>
          (LevelSubset(f, v, u) <=> u = v)
    BY <1>1 DEF LevelSubset
  <1> QED
    BY <1>2, <1>3, <1>4, <1>5, <1>6

\* The table that ParamsSubset computes.
SubsetTable(within) ==
  /\ within \in [Values -> [Values -> BOOLEAN]]
  /\ \A v, u \in Values : within[v][u] <=> LevelSubset(within, v, u)

\* One level of it is true or false.
LEMMA LevelSubsetIsBoolean ==
  ASSUME NEW f, NEW v, NEW u PROVE LevelSubset(f, v, u) \in BOOLEAN
  <1>1. CASE v \in Absent
    BY <1>1 DEF LevelSubset
  <1>2. CASE v \notin Absent
    <2>1. CASE v[1] = "obj"
      BY <1>2, <2>1 DEF LevelSubset
    <2>2. CASE v[1] = "num"
      BY <1>2, <2>2 DEF LevelSubset
    <2>3. CASE v[1] = "arr"
      BY <1>2, <2>3 DEF LevelSubset
    <2>4. CASE v[1] \notin {"obj", "num", "arr"}
      BY <1>2, <2>4 DEF LevelSubset
    <2> QED
      BY <2>1, <2>2, <2>3, <2>4
  <1> QED
    BY <1>1, <1>2

\* ParamsSubset reads a table, as ParamsWithin does.
LEMMA ParamsSubsetTable ==
  \E within : /\ SubsetTable(within)
              /\ \A g, a : ParamsSubset(a, g) = within[g][a]
  <1> DEFINE V == [Values -> BOOLEAN]
             row(f, v) == [u \in Values |-> LevelSubset(f, v, u)]
             within[v \in Values] ==
               [u \in Values |->
                  CASE v \in Absent -> TRUE
                    [] v[1] = "num" -> u[1] = "num" /\ u[2] <= v[2]
                    [] v[1] = "arr" -> /\ v[2] # {}
                                       /\ IF u[1] = "arr" THEN u[2] \subseteq v[2]
                                          ELSE u \in v[2]
                    [] v[1] = "obj" ->
                         /\ u[1] = "obj"
                         /\ \A k \in DOMAIN v[2] :
                              k \in DOMAIN u[2] /\ within[v[2][k]][u[2][k]]
                    [] OTHER        -> u = v]
             Phi == [f \in [Values -> V] |-> [v \in Values |-> row(f, v)]]
  <1>1. ASSUME NEW g, NEW a PROVE ParamsSubset(a, g) = within[g][a]
    BY DEF ParamsSubset
  <1>16. (\E f : f = [v \in Values |-> row(f, v)])
           => within = [v \in Values |-> row(within, v)]
    BY DEF LevelSubset
  <1> HIDE DEF within
  <1>2. \A f : \A v : row(f, v) \in V
    BY LevelSubsetIsBoolean
  <1>3. ASSUME NEW f \in [Values -> V], NEW h \in [Values -> V], NEW v \in Values,
               \A y \in Values : Depth[y] < Depth[v] => f[y] = h[y]
        PROVE  row(f, v) = row(h, v)
    <2>1. \A u \in Values : LevelSubset(f, v, u) = LevelSubset(h, v, u)
      <3>1. CASE v[1] = "obj"
        <4>1. \A k \in DOMAIN v[2] : f[v[2][k]] = h[v[2][k]]
          BY <1>3, <3>1, ValuesAssumption
        <4> QED
          BY <3>1, <4>1 DEF LevelSubset
      <3>2. CASE v[1] # "obj"
        BY <3>2 DEF LevelSubset
      <3> QED
        BY <3>1, <3>2
    <2> QED
      BY <2>1
  <1>4. [v \in Values |-> [u \in Values |-> TRUE]] \in [Values -> V]
    OBVIOUS
  <1> HIDE DEF row, V
  <1>5. \A f \in [Values -> V] : Phi[f] = [v \in Values |-> row(f, v)]
    OBVIOUS
  <1>6. \A f \in [Values -> V] : \A v \in Values : Phi[f][v] = row(f, v)
    BY <1>5
  <1>7. Phi \in [[Values -> V] -> [Values -> V]]
    BY <1>2
  <1> HIDE DEF Phi
  <1>8. ASSUME NEW f \in [Values -> V], NEW h \in [Values -> V], NEW v \in Values,
               \A y \in Values : Depth[y] < Depth[v] => f[y] = h[y]
        PROVE  Phi[f][v] = Phi[h][v]
    <2>1. row(f, v) = row(h, v)
      BY <1>3, <1>8
    <2> QED
      BY <1>6, <2>1
  <1>9. Depth \in [Values -> Nat]
    BY ValuesAssumption
  <1>10. IsRecursion(Values, V, Depth, Phi)
    BY <1>4, <1>7, <1>8, <1>9 DEF IsRecursion
  <1>11. \E f \in [Values -> V] : f = Phi[f]
    BY <1>10, RecursiveFunctionExists
  <1>12. within = [v \in Values |-> row(within, v)]
    <2>1. \E f : f = [v \in Values |-> row(f, v)]
      BY <1>5, <1>11, ZenonT(40)
    <2> QED
      BY <1>16, <2>1, ZenonT(40)
  <1>13. within \in [Values -> V] /\ \A v \in Values : within[v] = row(within, v)
    <2>1. \A v \in Values : row(within, v) \in V
      BY <1>2
    <2> QED
      BY <1>12, <2>1
  <1>14. \A v, u \in Values : within[v][u] = LevelSubset(within, v, u)
    BY <1>13 DEF row
  <1>15. SubsetTable(within)
    BY <1>13, <1>14, LevelSubsetIsBoolean DEF V, SubsetTable
  <1> QED
    BY <1>1, <1>15

\* Two values have the same members at one level.
LevelSame(same, v, u) ==
  v[1] = "obj" =>
    /\ u[1] = "obj" /\ DOMAIN u[2] = DOMAIN v[2]
    /\ \A k \in DOMAIN v[2] : same[v[2][k]][u[2][k]]

\* The table that SameKeys computes.
SameTable(same) ==
  /\ same \in [Values -> [Values -> BOOLEAN]]
  /\ \A v, u \in Values : same[v][u] <=> LevelSame(same, v, u)

\* One level of it is true or false.
LEMMA LevelSameIsBoolean ==
  ASSUME NEW f, NEW v, NEW u PROVE LevelSame(f, v, u) \in BOOLEAN
  BY DEF LevelSame

\* SameKeys reads a table too.
LEMMA SameKeysTable ==
  \E within : /\ SameTable(within)
              /\ \A g, a : SameKeys(g, a) = within[g][a]
  <1> DEFINE V == [Values -> BOOLEAN]
             row(f, v) == [u \in Values |-> LevelSame(f, v, u)]
             within[v \in Values] == row(within, v)
             Phi == [f \in [Values -> V] |-> [v \in Values |-> row(f, v)]]
  <1>1. \A g, a : SameKeys(g, a) = within[g][a]
    BY DEF SameKeys, LevelSame
  <1> HIDE DEF within
  <1>2. \A f : \A v : row(f, v) \in V
    BY LevelSameIsBoolean
  <1>3. ASSUME NEW f \in [Values -> V], NEW h \in [Values -> V], NEW v \in Values,
               \A y \in Values : Depth[y] < Depth[v] => f[y] = h[y]
        PROVE  row(f, v) = row(h, v)
    <2>1. \A u \in Values : LevelSame(f, v, u) = LevelSame(h, v, u)
      <3>1. CASE v[1] = "obj"
        <4>1. \A k \in DOMAIN v[2] : f[v[2][k]] = h[v[2][k]]
          BY <1>3, <3>1, ValuesAssumption
        <4> QED
          BY <3>1, <4>1 DEF LevelSame
      <3>2. CASE v[1] # "obj"
        BY <3>2 DEF LevelSame
      <3> QED
        BY <3>1, <3>2
    <2> QED
      BY <2>1
  <1>4. [v \in Values |-> [u \in Values |-> TRUE]] \in [Values -> V]
    OBVIOUS
  <1> HIDE DEF row, V
  <1>5. \A f \in [Values -> V] : Phi[f] = [v \in Values |-> row(f, v)]
    OBVIOUS
  <1>6. \A f \in [Values -> V] : \A v \in Values : Phi[f][v] = row(f, v)
    BY <1>5
  <1>7. Phi \in [[Values -> V] -> [Values -> V]]
    BY <1>2
  <1> HIDE DEF Phi
  <1>8. ASSUME NEW f \in [Values -> V], NEW h \in [Values -> V], NEW v \in Values,
               \A y \in Values : Depth[y] < Depth[v] => f[y] = h[y]
        PROVE  Phi[f][v] = Phi[h][v]
    <2>1. row(f, v) = row(h, v)
      BY <1>3, <1>8
    <2> QED
      BY <1>6, <2>1
  <1>9. Depth \in [Values -> Nat]
    BY ValuesAssumption
  <1>10. IsRecursion(Values, V, Depth, Phi)
    BY <1>4, <1>7, <1>8, <1>9 DEF IsRecursion
  <1>11. \E f \in [Values -> V] : f = Phi[f]
    BY <1>10, RecursiveFunctionExists
  <1>12. within = [v \in Values |-> row(within, v)]
    BY <1>5, <1>11 DEF within
  <1>13. within \in [Values -> V] /\ \A v \in Values : within[v] = row(within, v)
    <2>1. \A v \in Values : row(within, v) \in V
      BY <1>2
    <2> QED
      BY <1>12, <2>1
  <1>14. \A v, u \in Values : within[v][u] = LevelSame(within, v, u)
    BY <1>13 DEF row
  <1>15. SameTable(within)
    BY <1>13, <1>14, LevelSameIsBoolean DEF V, SameTable
  <1> QED
    BY <1>1, <1>15

\* The leaves of a value from those of its members.
LevelLeaves(f, u) ==
  IF u[1] = "obj" THEN UNION {f[u[2][k]] : k \in DOMAIN u[2]} ELSE {u}

\* And so does Leaves, a table of sets of values.
LEMMA LeavesTable ==
  \E leaves : /\ \A v \in Values : leaves[v] = LevelLeaves(leaves, v)
              /\ \A v : Leaves(v) = leaves[v]
  <1> DEFINE V == SUBSET Values
             row(f, v) == LevelLeaves(f, v)
             leaves[v \in Values] == row(leaves, v)
             Phi == [f \in [Values -> V] |-> [v \in Values |-> row(f, v)]]
  <1>1. \A v : Leaves(v) = leaves[v]
    BY DEF Leaves, LevelLeaves
  <1> HIDE DEF leaves
  <1>2. ASSUME NEW f \in [Values -> V], NEW v \in Values PROVE row(f, v) \in V
    <2>1. CASE v[1] = "obj"
      <3>1. \A k \in DOMAIN v[2] : v[2][k] \in Values
        BY <2>1, ValuesAssumption
      <3>2. \A k \in DOMAIN v[2] : f[v[2][k]] \subseteq Values
        BY <3>1
      <3> QED
        BY <2>1, <3>2 DEF LevelLeaves
    <2>2. CASE v[1] # "obj"
      BY <2>2 DEF LevelLeaves
    <2> QED
      BY <2>1, <2>2
  <1>3. ASSUME NEW f \in [Values -> V], NEW h \in [Values -> V], NEW v \in Values,
               \A y \in Values : Depth[y] < Depth[v] => f[y] = h[y]
        PROVE  row(f, v) = row(h, v)
    <2>1. CASE v[1] = "obj"
      <3>1. \A k \in DOMAIN v[2] : f[v[2][k]] = h[v[2][k]]
        BY <1>3, <2>1, ValuesAssumption
      <3>2. {f[v[2][k]] : k \in DOMAIN v[2]} = {h[v[2][k]] : k \in DOMAIN v[2]}
        BY <3>1
      <3> QED
        BY <2>1, <3>2 DEF LevelLeaves
    <2>2. CASE v[1] # "obj"
      BY <2>2 DEF LevelLeaves
    <2> QED
      BY <2>1, <2>2
  <1>4. [v \in Values |-> {}] \in [Values -> V]
    OBVIOUS
  <1> HIDE DEF row, V
  <1>5. \A f \in [Values -> V] : Phi[f] = [v \in Values |-> row(f, v)]
    OBVIOUS
  <1>6. \A f \in [Values -> V] : \A v \in Values : Phi[f][v] = row(f, v)
    BY <1>5
  <1>7. Phi \in [[Values -> V] -> [Values -> V]]
    BY <1>2
  <1> HIDE DEF Phi
  <1>8. ASSUME NEW f \in [Values -> V], NEW h \in [Values -> V], NEW v \in Values,
               \A y \in Values : Depth[y] < Depth[v] => f[y] = h[y]
        PROVE  Phi[f][v] = Phi[h][v]
    <2>1. row(f, v) = row(h, v)
      BY <1>3, <1>8
    <2> QED
      BY <1>6, <2>1
  <1>9. Depth \in [Values -> Nat]
    BY ValuesAssumption
  <1>10. IsRecursion(Values, V, Depth, Phi)
    BY <1>4, <1>7, <1>8, <1>9 DEF IsRecursion
  <1>11. \E f \in [Values -> V] : f = Phi[f]
    BY <1>10, RecursiveFunctionExists
  <1>12. leaves = [v \in Values |-> row(leaves, v)]
    BY <1>5, <1>11 DEF leaves
  <1>13. \A v \in Values : leaves[v] = LevelLeaves(leaves, v)
    BY <1>12 DEF row
  <1> QED
    BY <1>1, <1>13

\* Members of an object are values, nest less deep, and have none but its leaves.
LEMMA MembersOf ==
  ASSUME NEW v \in Values, v[1] = "obj", NEW k \in DOMAIN v[2]
  PROVE  /\ v[2][k] \in Values /\ Depth[v[2][k]] < Depth[v]
         /\ Leaves(v[2][k]) \subseteq Leaves(v)
  <1>1. PICK leaves : /\ \A u \in Values : leaves[u] = LevelLeaves(leaves, u)
                      /\ \A u : Leaves(u) = leaves[u]
    BY LeavesTable
  <1>2. Leaves(v) = UNION {leaves[v[2][l]] : l \in DOMAIN v[2]}
    BY <1>1 DEF LevelLeaves
  <1>3. Leaves(v[2][k]) \subseteq Leaves(v)
    BY <1>1, <1>2
  <1> QED
    BY <1>3, ValuesAssumption

\* What is no object is its only leaf.
LEMMA LeafOf ==
  ASSUME NEW v \in Values, v[1] # "obj" PROVE v \in Leaves(v)
  <1>1. PICK leaves : /\ \A u \in Values : leaves[u] = LevelLeaves(leaves, u)
                      /\ \A u : Leaves(u) = leaves[u]
    BY LeavesTable
  <1> QED
    BY <1>1 DEF LevelLeaves

\* A comparison of the core holds in the harness where no array is empty, by
\* induction on the depth of the grant.
LEMMA WithinThenSubset ==
  ASSUME NEW within, WithinTable(within), NEW sub, SubsetTable(sub),
         NEW g \in Values, NEW a \in Values, within[g][a], ~StricterParams(g)
  PROVE  sub[g][a]
  <1> DEFINE Follows(v) == \A u \in Values : within[v][u] => sub[v][u]
             U == {n \in Nat : \A v \in Values :
                                 Depth[v] < n /\ ~StricterParams(v) => Follows(v)}
  <1>1. \A v \in Values : Depth[v] \in Nat
    BY ValuesAssumption
  <1>2. 0 \in U
    BY <1>1
  <1>3. ASSUME NEW n \in Nat, n \in U PROVE n + 1 \in U
    <2>1. SUFFICES ASSUME NEW v \in Values, Depth[v] < n + 1, ~StricterParams(v),
                          NEW u \in Values, within[v][u]
                   PROVE  sub[v][u]
      BY DEF WithinTable
    <2>2. LevelWithin(within, v, u)
      BY <2>1 DEF WithinTable
    <2>3. SUFFICES LevelSubset(sub, v, u)
      BY DEF SubsetTable
    <2>4. CASE v[1] = "obj"
      <3>1. /\ u[1] = "obj" /\ DOMAIN u[2] = DOMAIN v[2]
            /\ \A k \in DOMAIN v[2] : within[v[2][k]][u[2][k]]
        BY <2>2, <2>4 DEF LevelWithin
      <3>2. ASSUME NEW k \in DOMAIN v[2] PROVE sub[v[2][k]][u[2][k]]
        <4>1. v[2][k] \in Values /\ u[2][k] \in Values /\ Depth[v[2][k]] < Depth[v]
          BY <2>4, <3>1, ValuesAssumption
        <4>2. ~StricterParams(v[2][k])
          BY <2>1, <2>4, MembersOf DEF StricterParams
        <4>3. Depth[v[2][k]] < n
          BY <1>1, <2>1, <4>1
        <4>4. Follows(v[2][k])
          BY <1>3, <4>1, <4>2, <4>3
        <4> QED
          BY <3>1, <4>1, <4>4
      <3> QED
        BY <2>4, <3>1, <3>2, LevelSubsetIs
    <2>5. CASE v[1] = "num"
      BY <2>2, <2>5, LevelSubsetIs DEF LevelWithin
    <2>6. CASE v[1] = "arr"
      <3>1. u[1] = "arr" /\ u[2] \subseteq v[2]
        BY <2>2, <2>6 DEF LevelWithin
      <3>2. v[2] # {}
        BY <2>1, <2>6, LeafOf DEF StricterParams
      <3> QED
        BY <2>6, <3>1, <3>2, LevelSubsetIs
    <2>7. CASE v[1] \notin {"obj", "num", "arr"}
      <3>1. u = v
        BY <2>2, <2>7 DEF LevelWithin
      <3> QED
        BY <2>7, <3>1, LevelSubsetIs
    <2> QED
      BY <2>4, <2>5, <2>6, <2>7
  <1>4. Nat \subseteq U
    <2> HIDE DEF U
    <2> QED
      BY <1>2, <1>3, Induction
  <1>5. Depth[g] + 1 \in Nat /\ Depth[g] < Depth[g] + 1
    BY <1>1
  <1>6. Follows(g)
    BY <1>4, <1>5
  <1> QED
    BY <1>6

\* The values that the harness compares as the core does.
AlikeIn(v) == \A w \in Leaves(v) : w \notin Absent /\ w[1] # "arr"

\* A comparison of the harness holds in the core where both have the same
\* members, and no leaf of the grant is absent or an array.
LEMMA SubsetThenWithin ==
  ASSUME NEW within, WithinTable(within), NEW sub, SubsetTable(sub),
         NEW same, SameTable(same),
         NEW g \in Values, NEW a \in Values, sub[g][a], same[g][a], AlikeIn(g)
  PROVE  within[g][a]
  <1> DEFINE Follows(v) == \A u \in Values : sub[v][u] /\ same[v][u] => within[v][u]
             U == {n \in Nat : \A v \in Values :
                                 Depth[v] < n /\ AlikeIn(v) => Follows(v)}
  <1>1. \A v \in Values : Depth[v] \in Nat
    BY ValuesAssumption
  <1>2. 0 \in U
    BY <1>1
  <1>3. ASSUME NEW n \in Nat, n \in U PROVE n + 1 \in U
    <2>1. SUFFICES ASSUME NEW v \in Values, Depth[v] < n + 1, AlikeIn(v),
                          NEW u \in Values, sub[v][u], same[v][u]
                   PROVE  within[v][u]
      BY DEF SubsetTable
    <2>2. LevelSubset(sub, v, u) /\ LevelSame(same, v, u)
      BY <2>1 DEF SubsetTable, SameTable
    <2>3. SUFFICES LevelWithin(within, v, u)
      BY DEF WithinTable
    <2>4. CASE v[1] = "obj"
      <3>1. /\ u[1] = "obj" /\ DOMAIN u[2] = DOMAIN v[2]
            /\ \A k \in DOMAIN v[2] : same[v[2][k]][u[2][k]]
        BY <2>2, <2>4 DEF LevelSame
      <3>2. \A k \in DOMAIN v[2] : sub[v[2][k]][u[2][k]]
        BY <2>2, <2>4, LevelSubsetIs
      <3>3. ASSUME NEW k \in DOMAIN v[2] PROVE within[v[2][k]][u[2][k]]
        <4>1. v[2][k] \in Values /\ u[2][k] \in Values /\ Depth[v[2][k]] < Depth[v]
          BY <2>4, <3>1, ValuesAssumption
        <4>2. AlikeIn(v[2][k])
          BY <2>1, <2>4, MembersOf DEF AlikeIn
        <4>3. Depth[v[2][k]] < n
          BY <1>1, <2>1, <4>1
        <4>4. Follows(v[2][k])
          BY <1>3, <4>1, <4>2, <4>3
        <4> QED
          BY <3>1, <3>2, <4>1, <4>4
      <3> QED
        BY <2>4, <3>1, <3>3 DEF LevelWithin
    <2>5. CASE v[1] = "num"
      BY <2>2, <2>5, LevelSubsetIs DEF LevelWithin
    <2>6. CASE v[1] = "arr"
      BY <2>1, <2>6, LeafOf DEF AlikeIn
    <2>7. CASE v[1] \notin {"obj", "num", "arr"}
      <3>1. v \notin Absent
        BY <2>1, <2>7, LeafOf DEF AlikeIn
      <3>2. u = v
        BY <2>2, <2>7, <3>1, LevelSubsetIs
      <3> QED
        BY <2>7, <3>2 DEF LevelWithin
    <2> QED
      BY <2>4, <2>5, <2>6, <2>7
  <1>4. Nat \subseteq U
    <2> HIDE DEF U
    <2> QED
      BY <1>2, <1>3, Induction
  <1>5. Depth[g] + 1 \in Nat /\ Depth[g] < Depth[g] + 1
    BY <1>1
  <1>6. Follows(g)
    BY <1>4, <1>5
  <1> QED
    BY <1>6

\* What the core takes for within a grant, the harness does.
LEMMA CoreThenHarnessParams ==
  ASSUME NEW g \in Values, NEW a \in Values, ParamsWithinGrant(g, a), ~StricterParams(g)
  PROVE  ParamsSubset(a, g)
  <1>1. PICK within : WithinTable(within) /\ \A v, u : ParamsWithin(v, u) = within[v][u]
    BY ParamsWithinTable
  <1>2. PICK sub : SubsetTable(sub) /\ \A v, u : ParamsSubset(u, v) = sub[v][u]
    BY ParamsSubsetTable
  <1>3. CASE g \in Absent
    <2>1. LevelSubset(sub, g, a)
      BY <1>3, LevelSubsetIs
    <2>2. sub[g][a]
      BY <1>2, <2>1 DEF SubsetTable
    <2> QED
      BY <1>2, <2>2
  <1>4. CASE g \notin Absent
    <2>1. within[g][a]
      BY <1>1, <1>4 DEF ParamsWithinGrant
    <2>2. sub[g][a]
      BY <1>1, <1>2, <2>1, WithinThenSubset
    <2> QED
      BY <1>2, <2>2
  <1> QED
    BY <1>3, <1>4

\* What the harness takes for within a grant, the core does.
LEMMA HarnessThenCoreParams ==
  ASSUME NEW g \in Values, NEW a \in Values, ParamsSubset(a, g), ~LaxerParams(g, a)
  PROVE  ParamsWithinGrant(g, a)
  <1>1. PICK within : WithinTable(within) /\ \A v, u : ParamsWithin(v, u) = within[v][u]
    BY ParamsWithinTable
  <1>2. PICK sub : SubsetTable(sub) /\ \A v, u : ParamsSubset(u, v) = sub[v][u]
    BY ParamsSubsetTable
  <1>3. PICK same : SameTable(same) /\ \A v, u : SameKeys(v, u) = same[v][u]
    BY SameKeysTable
  <1>4. sub[g][a] /\ same[g][a] /\ AlikeIn(g)
    BY <1>2, <1>3 DEF LaxerParams, AlikeIn
  <1>5. within[g][a]
    BY <1>1, <1>2, <1>3, <1>4, SubsetThenWithin
  <1>6. a \notin Absent
    <2>1. SUFFICES ASSUME a \in Absent PROVE FALSE
      OBVIOUS
    <2>2. a[1] \notin {"obj", "num", "arr"}
      BY <2>1 DEF Absent
    <2>3. LevelWithin(within, g, a)
      BY <1>1, <1>5 DEF WithinTable
    <2>4. a = g
      <3>1. CASE g[1] = "obj"
        BY <2>2, <2>3, <3>1 DEF LevelWithin
      <3>2. CASE g[1] = "num"
        BY <2>2, <2>3, <3>2 DEF LevelWithin
      <3>3. CASE g[1] = "arr"
        BY <2>2, <2>3, <3>3 DEF LevelWithin
      <3>4. CASE g[1] \notin {"obj", "num", "arr"}
        BY <2>3, <3>4 DEF LevelWithin
      <3> QED
        BY <3>1, <3>2, <3>3, <3>4
    <2>5. g[1] # "obj"
      BY <2>2, <2>4
    <2> QED
      BY <1>4, <2>1, <2>4, <2>5, LeafOf DEF AlikeIn
  <1> QED
    BY <1>1, <1>5, <1>6 DEF ParamsWithinGrant

-----------------------------------------------------------------------------
(* Capabilities in the core and in the harness.                            *)

\* A capability of the harness is covered as that of the core.
LEMMA SpecSubsetIs ==
  ASSUME NEW c, NEW g
  PROVE  CapabilitySpecSubset(ToHarness(c), ToHarness(g))
           <=> /\ c.pattern[1] = g.pattern[1]
               /\ MatchID(IdOf(g.pattern), IdOf(c.pattern))
               /\ ParamsSubset(c.params, g.params)
  BY DEF CapabilitySpecSubset, ToHarness

\* An agent is covered when one of the grants covers it.
LEMMA HarnessCoversIs ==
  ASSUME NEW agent, NEW grants
  PROVE  HarnessCovers(<<ToHarness(agent)>>, [n \in DOMAIN grants |-> ToHarness(grants[n])])
           <=> \E n \in DOMAIN grants :
                 CapabilitySpecSubset(ToHarness(agent), ToHarness(grants[n]))
  <1> DEFINE a == ToHarness(agent)
             h == [n \in DOMAIN grants |-> ToHarness(grants[n])]
             covers(n) == CapabilitySpecSubset(a, h[n])
  <1>1. DOMAIN <<a>> = {1} /\ <<a>>[1] = a
    OBVIOUS
  <1>2. DOMAIN h = DOMAIN grants /\ \A n \in DOMAIN grants : h[n] = ToHarness(grants[n])
    OBVIOUS
  <1> HIDE DEF a, h
  <1>3. HarnessCovers(<<a>>, h) <=> \E n \in DOMAIN h : CapabilitySpecSubset(a, h[n])
    BY <1>1 DEF HarnessCovers
  <1> QED
    BY <1>2, <1>3 DEF a, h

\* What one of the grants covers in the core, outside of what is stricter in the
\* harness, the harness covers.
LEMMA CoreThenHarnessCovers ==
  ASSUME NEW agent, NEW grants, IsCapability(agent),
         NEW n \in DOMAIN grants, IsCapability(grants[n]),
         CapabilitySubset(agent, <<grants[n]>>),
         ~Stricter(grants[n].pattern), ~StricterParams(grants[n].params)
  PROVE  CapabilitySpecSubset(ToHarness(agent), ToHarness(grants[n]))
  <1> DEFINE g == grants[n]
             one == <<grants[n]>>
  <1>1. Len(one) = 1 /\ Len(one) \in Nat /\ \A k \in 1..Len(one) : one[k] = g
    OBVIOUS
  <1> HIDE DEF one
  <1>2. \E k \in 1..Len(one) : /\ MatchPattern(one[k].pattern, agent.pattern) > 0
                               /\ ParamsWithinGrant(one[k].params, agent.params)
    BY <1>1, CapabilitySubsetIsSome DEF one
  <1>3. MatchPattern(g.pattern, agent.pattern) > 0 /\ ParamsWithinGrant(g.params, agent.params)
    BY <1>1, <1>2
  <1>4. /\ Tokenized(g.pattern) /\ Tokenized(agent.pattern)
        /\ g.params \in Values /\ agent.params \in Values
    BY DEF IsCapability
  <1>5. MatchID(IdOf(g.pattern), IdOf(agent.pattern)) /\ agent.pattern[1] = g.pattern[1]
    BY <1>3, <1>4, CoreThenHarness
  <1>6. ParamsSubset(agent.params, g.params)
    BY <1>3, <1>4, CoreThenHarnessParams
  <1> QED
    BY <1>5, <1>6, SpecSubsetIs

\* What the harness covers, outside of what is laxer there, the core does.
LEMMA HarnessThenCoreCovers ==
  ASSUME NEW agent, NEW grants, IsCapability(agent),
         Len(grants) \in Nat, DOMAIN grants = 1..Len(grants),
         NEW n \in DOMAIN grants, IsCapability(grants[n]),
         CapabilitySpecSubset(ToHarness(agent), ToHarness(grants[n])),
         ~Laxer(grants[n].pattern, agent.pattern),
         ~LaxerParams(grants[n].params, agent.params)
  PROVE  CapabilitySubset(agent, grants)
  <1> DEFINE g == grants[n]
  <1>1. /\ agent.pattern[1] = g.pattern[1]
        /\ MatchID(IdOf(g.pattern), IdOf(agent.pattern))
        /\ ParamsSubset(agent.params, g.params)
    BY SpecSubsetIs
  <1>2. /\ Tokenized(g.pattern) /\ Tokenized(agent.pattern)
        /\ g.params \in Values /\ agent.params \in Values
    BY DEF IsCapability
  <1>3. MatchPattern(g.pattern, agent.pattern) > 0
    BY <1>1, <1>2, HarnessThenCore
  <1>4. ParamsWithinGrant(g.params, agent.params)
    BY <1>1, <1>2, HarnessThenCoreParams
  <1> QED
    BY <1>3, <1>4, CapabilitySubsetIsSome

-----------------------------------------------------------------------------
(* The laws.                                                               *)

\* A step calls one function, with arguments from the constants.
LEMMA StepCalls ==
  ASSUME Next
  PROVE  /\ call'.fn = "matchPattern" =>
              \E p \in Patterns, t \in Patterns \cup Literals : CallMatchPattern(p, t)
         /\ call'.fn = "matchToken" =>
              \E p \in UNION {Range(q) : q \in Patterns},
                 t \in UNION {Range(q) : q \in Literals} : CallMatchToken(p, t)
         /\ call'.fn = "capabilitySubset" =>
              \E agent \in AgentCaps, grants \in GrantLists :
                CallCapabilitySubset(agent, grants)
         /\ call'.fn = "paramsWithinGrant" =>
              \E g \in Values, a \in Values : CallParamsWithinGrant(g, a)
         /\ call'.fn = "matchID" =>
              \E p \in Patterns, t \in Patterns \cup Literals : CallMatchID(p, t)
         /\ call'.fn = "paramsSubset" =>
              \E g \in Values, a \in Values : CallParamsSubset(a, g)
         /\ call'.fn = "capabilitiesCovered" =>
              \E agent \in AgentCaps, grants \in GrantLists :
                CallHarnessCovers(agent, grants)
         /\ call'.fn = "cidrContains" =>
              \E ip \in Addresses, cidr \in Cidrs : CallCidrContains(ip, cidr)
         /\ call'.fn = "evalTimeWindow" =>
              \E w \in Windows, now \in 0..(Day - 1) : CallTimeWindow(w, now)
         /\ call'.fn = "evaluateConstraints" =>
              \E cs \in Lists, ctx \in Contexts, strict \in BOOLEAN :
                CallConstraints(cs, ctx, strict)
         /\ call'.fn = "readElement" =>
              \E tag \in {SEQUENCE, INTEGER}, size \in Sizes : CallReadElement(tag, size)
         /\ call'.fn = "derInt" => \E n \in Sizes : CallDerInt(n)
         /\ call'.fn = "derOid" => \E oid \in OIDs : CallDerOid(oid)
         /\ call'.fn = "derToRawECDSA" => \E r \in Sizes, s \in Sizes : CallDerToRaw(r, s)
         /\ call'.fn = "rawToRaw" => \E raw \in [1..4 -> Octets] : CallRawToRaw(raw)
         /\ call'.fn = "findAIC" => \E a \in AICs : CallFindAIC(a)
         /\ call'.fn = "verifyDelegation" =>
              \E a \in SignedAICs, b \in SignedAICs : CallVerifyDelegation(a, b)
  <1>1. /\ \A p, t : CallMatchPattern(p, t) => call'.fn = "matchPattern"
        /\ \A p, t : CallMatchToken(p, t) => call'.fn = "matchToken"
        /\ \A a, g : CallCapabilitySubset(a, g) => call'.fn = "capabilitySubset"
        /\ \A g, a : CallParamsWithinGrant(g, a) => call'.fn = "paramsWithinGrant"
        /\ \A i, c : CallCidrContains(i, c) => call'.fn = "cidrContains"
        /\ \A w, n : CallTimeWindow(w, n) => call'.fn = "evalTimeWindow"
        /\ \A cs, c, s : CallConstraints(cs, c, s) => call'.fn = "evaluateConstraints"
    BY DEF Called, CallMatchPattern, CallMatchToken, CallCapabilitySubset,
           CallParamsWithinGrant, CallCidrContains, CallTimeWindow, CallConstraints
  <1>2. /\ \A p, t : CallMatchID(p, t) => call'.fn = "matchID"
        /\ \A a, g : CallParamsSubset(a, g) => call'.fn = "paramsSubset"
        /\ \A a, g : CallHarnessCovers(a, g) => call'.fn = "capabilitiesCovered"
    BY DEF Called, CallMatchID, CallParamsSubset, CallHarnessCovers
  <1>3. /\ \A t, s : CallReadElement(t, s) => call'.fn = "readElement"
        /\ \A n : CallDerInt(n) => call'.fn = "derInt"
        /\ \A o : CallDerOid(o) => call'.fn = "derOid"
        /\ \A r, s : CallDerToRaw(r, s) => call'.fn = "derToRawECDSA"
        /\ \A r : CallRawToRaw(r) => call'.fn = "rawToRaw"
        /\ \A a : CallFindAIC(a) => call'.fn = "findAIC"
        /\ \A a, b : CallVerifyDelegation(a, b) => call'.fn = "verifyDelegation"
    BY DEF Called, CallReadElement, CallDerInt, CallDerOid, CallDerToRaw,
           CallRawToRaw, CallFindAIC, CallVerifyDelegation
  <1> QED
    BY <1>1, <1>2, <1>3 DEF Next

\* What ArgumentsAssumption says of tokens and of grants.
LEMMA ArgumentsAreTokens ==
  /\ \A p \in Patterns \cup Literals : p \in Pattern /\ Len(p) >= 3
  /\ \A x \in UNION {Range(q) : q \in Patterns \cup Literals} : x \in Token
  <1>1. \A p \in Patterns \cup Literals : p \in Pattern /\ Len(p) >= 3 /\ DOMAIN p = 1..Len(p)
    BY ArgumentsAssumption, TokenizedIsPattern
  <1>2. ASSUME NEW q \in Patterns \cup Literals, NEW x \in Range(q) PROVE x \in Token
    <2>1. PICK n \in DOMAIN q : x = q[n]
      BY DEF Range
    <2>2. q \in Pattern /\ n \in 1..Len(q)
      BY <1>1
    <2> QED
      BY <2>1, <2>2 DEF Pattern
  <1> QED
    BY <1>1, <1>2

\* The matcher finds a match exactly when there is one to find: the target is
\* a concatenation of pieces that fit the pattern (aicjwt.ts:439-493).
THEOREM MatchingIsPartitionHolds == Spec => []MatchingIsPartition
  <1>1. Init => MatchingIsPartition
    BY DEF Init, MatchingIsPartition, Result
  <1>2. ASSUME MatchingIsPartition, [Next]_call PROVE MatchingIsPartition'
    <2>1. CASE UNCHANGED call
      BY <1>2, <2>1 DEF MatchingIsPartition, Result, Arg
    <2>2. CASE Next
      <3>1. ASSUME Result("matchPattern")', ~SchemeLevel(Arg(1))'
            PROVE  (call'.result > 0)
                     = (Len(Arg(1)') <= Len(Arg(2)')
                        /\ Splits(Arg(1)', Arg(2)', 1, TokenFits))
        <4>1. PICK p \in Patterns, t \in Patterns \cup Literals : CallMatchPattern(p, t)
          BY <2>2, <3>1, StepCalls DEF Result
        <4>2. Arg(1)' = p /\ Arg(2)' = t /\ call'.result = MatchPattern(p, t)
          BY <4>1 DEF CallMatchPattern, Called, Arg
        <4>3. p \in Pattern /\ t \in Pattern /\ ~SchemeLevel(p)
          BY <3>1, <4>2, ArgumentsAreTokens
        <4>4. MatchPattern(p, t) > 0
                <=> Len(p) <= Len(t) /\ Splits(p, t, 1, TokenFits)
          BY <4>3, MatchPatternIsPartition
        <4> QED
          BY <4>2, <4>4
      <3>2. ASSUME Result("matchToken")'
            PROVE  call'.result = Splits(Arg(1)', Arg(2)', 0, CharFits)
        <4>1. PICK p \in UNION {Range(q) : q \in Patterns},
                   t \in UNION {Range(q) : q \in Literals} : CallMatchToken(p, t)
          BY <2>2, <3>2, StepCalls DEF Result
        <4>2. Arg(1)' = p /\ Arg(2)' = t /\ call'.result = MatchToken(p, t)
          BY <4>1 DEF CallMatchToken, Called, Arg
        <4>3. p \in Token /\ t \in Token
          BY ArgumentsAreTokens
        <4>4. MatchToken(p, t) \in BOOLEAN /\ Splits(p, t, 0, CharFits) \in BOOLEAN
          BY <4>3, MatchTokenIsBoolean DEF Splits
        <4>5. MatchToken(p, t) <=> Splits(p, t, 0, CharFits)
          BY <4>3, MatchTokenIsPartition
        <4> QED
          BY <4>2, <4>4, <4>5
      <3> QED
        BY <3>1, <3>2 DEF MatchingIsPartition
    <2> QED
      BY <1>2, <2>1, <2>2
  <1> QED
    BY <1>1, <1>2, PTL DEF Spec

\* An agent capability is within the grants exactly when one of them admits
\* it, whichever scores best (aicjwt.ts:601-611).
THEOREM SubsetIsSomeGrantHolds == Spec => []SubsetIsSomeGrant
  <1>1. Init => SubsetIsSomeGrant
    BY DEF Init, SubsetIsSomeGrant, Result
  <1>2. ASSUME SubsetIsSomeGrant, [Next]_call PROVE SubsetIsSomeGrant'
    <2>1. CASE UNCHANGED call
      BY <1>2, <2>1 DEF SubsetIsSomeGrant, Result, Arg
    <2>2. CASE Next
      <3>1. SUFFICES ASSUME Result("capabilitySubset")'
                     PROVE  call'.result
                              = \E n \in DOMAIN Arg(2)' :
                                  /\ MatchPattern(Arg(2)'[n].pattern, Arg(1)'.pattern) > 0
                                  /\ ParamsWithinGrant(Arg(2)'[n].params, Arg(1)'.params)
        BY DEF SubsetIsSomeGrant
      <3>2. PICK agent \in AgentCaps, grants \in GrantLists :
              CallCapabilitySubset(agent, grants)
        BY <2>2, <3>1, StepCalls DEF Result
      <3>3. /\ Arg(1)' = agent /\ Arg(2)' = grants
            /\ call'.result = CapabilitySubset(agent, grants)
        BY <3>2 DEF CallCapabilitySubset, Called, Arg
      <3>4. Len(grants) \in Nat /\ DOMAIN grants = 1..Len(grants)
        BY ArgumentsAssumption
      <3>5. CapabilitySubset(agent, grants)
              <=> \E n \in DOMAIN grants :
                    /\ MatchPattern(grants[n].pattern, agent.pattern) > 0
                    /\ ParamsWithinGrant(grants[n].params, agent.params)
        BY <3>4, CapabilitySubsetIsSome
      <3>6. CapabilitySubset(agent, grants) \in BOOLEAN
        BY DEF CapabilitySubset
      <3> QED
        BY <3>3, <3>5, <3>6
    <2> QED
      BY <1>2, <2>1, <2>2
  <1> QED
    BY <1>1, <1>2, PTL DEF Spec

\* An agent without ** that is within regular grants asks for nothing beyond
\* them: every request its pattern matches, a grant's pattern matches.
THEOREM GrantCoversFlatAgentHolds == Spec => []GrantCoversFlatAgent
  <1>1. Init => GrantCoversFlatAgent
    BY DEF Init, GrantCoversFlatAgent, Result
  <1>2. ASSUME GrantCoversFlatAgent, [Next]_call PROVE GrantCoversFlatAgent'
    <2>1. CASE UNCHANGED call
      BY <1>2, <2>1 DEF GrantCoversFlatAgent, Result, Arg
    <2>2. CASE Next
      <3>1. SUFFICES ASSUME Result("capabilitySubset")', call'.result,
                            Plain(Arg(1)'.pattern[1]), Deep \notin Range(Arg(1)'.pattern),
                            \A n \in DOMAIN Arg(2)' : Regular(Arg(2)'[n].pattern)
                     PROVE  Covered(Arg(1)', Arg(2)')
        BY DEF GrantCoversFlatAgent
      <3>2. PICK agent \in AgentCaps, grants \in GrantLists :
              CallCapabilitySubset(agent, grants)
        BY <2>2, <3>1, StepCalls DEF Result
      <3>3. /\ Arg(1)' = agent /\ Arg(2)' = grants
            /\ call'.result = CapabilitySubset(agent, grants)
        BY <3>2 DEF CallCapabilitySubset, Called, Arg
      <3>4. /\ Len(grants) \in Nat /\ DOMAIN grants = 1..Len(grants)
            /\ Tokenized(agent.pattern)
            /\ \A n \in DOMAIN grants : Tokenized(grants[n].pattern)
        BY ArgumentsAssumption DEF IsCapability
      <3>5. PICK n \in DOMAIN grants : MatchPattern(grants[n].pattern, agent.pattern) > 0
        BY <3>1, <3>3, <3>4, CapabilitySubsetIsSome
      <3>6. \A m \in 1..Len(agent.pattern) : agent.pattern[m] # Deep
        <4>1. \A m \in DOMAIN agent.pattern : agent.pattern[m] # Deep
          BY <3>1, <3>3 DEF Range
        <4> QED
          BY <3>4, <4>1, TokenizedIsPattern
      <3>7. ASSUME NEW t \in Literals, MatchPattern(agent.pattern, t) > 0
            PROVE  MatchPattern(grants[n].pattern, t) > 0
        <4>1. Tokenized(t) /\ Tokenized(grants[n].pattern) /\ Regular(grants[n].pattern)
          BY <3>1, <3>3, <3>4, ArgumentsAssumption
        <4> QED
          BY <3>1, <3>3, <3>4, <3>5, <3>6, <3>7, <4>1, PatternCovers
      <3> QED
        BY <3>3, <3>7 DEF Covered
    <2> QED
      BY <1>2, <2>1, <2>2
  <1> QED
    BY <1>1, <1>2, PTL DEF Spec

\* Narrowing composes: what is within the parameters of an agent that is within
\* a grant, is within the grant, however deep the parameters nest.
THEOREM ParamsComposeHolds == Spec => []ParamsCompose
  <1>1. Init => ParamsCompose
    BY DEF Init, ParamsCompose, Result
  <1>2. ASSUME ParamsCompose, [Next]_call PROVE ParamsCompose'
    <2>1. CASE UNCHANGED call
      BY <1>2, <2>1 DEF ParamsCompose, Result, Arg
    <2>2. CASE Next
      <3>1. SUFFICES ASSUME Result("paramsWithinGrant")', call'.result, NEW b \in Values,
                            ParamsWithinGrant(Arg(2)', b)
                     PROVE  ParamsWithinGrant(Arg(1)', b)
        BY DEF ParamsCompose
      <3>2. PICK g \in Values, a \in Values : CallParamsWithinGrant(g, a)
        BY <2>2, <3>1, StepCalls DEF Result
      <3>3. Arg(1)' = g /\ Arg(2)' = a /\ call'.result = ParamsWithinGrant(g, a)
        BY <3>2 DEF CallParamsWithinGrant, Called, Arg
      <3>4. ParamsWithinGrant(g, b)
        BY <3>1, <3>3, ParamsNarrow
      <3> QED
        BY <3>3, <3>4
    <2> QED
      BY <1>2, <2>1, <2>2
  <1> QED
    BY <1>1, <1>2, PTL DEF Spec

\* The core and the harness agree on what is within the grants, but for the
\* listed differences, for patterns, targets and parameters of every size
\* (ts/aicjwt.ts:601, wit-wpt-interop/ts/src/subset.ts:194).
THEOREM HarnessAgreesWithCoreHolds == Spec => []HarnessAgreesWithCore
  <1>1. Init => HarnessAgreesWithCore
    BY DEF Init, HarnessAgreesWithCore, Result
  <1>2. ASSUME HarnessAgreesWithCore, [Next]_call PROVE HarnessAgreesWithCore'
    <2>1. CASE UNCHANGED call
      BY <1>2, <2>1 DEF HarnessAgreesWithCore, Result, Arg
    <2>2. CASE Next
      <3>1. ASSUME Result("matchID")'
            PROVE  LET core == MatchPattern(Arg(1)', Arg(2)') > 0
                   IN  /\ core /\ ~Stricter(Arg(1)') => call'.result
                       /\ call'.result /\ Arg(1)'[1] = Arg(2)'[1]
                          /\ ~Laxer(Arg(1)', Arg(2)') => core
        <4>1. PICK p \in Patterns, t \in Patterns \cup Literals : CallMatchID(p, t)
          BY <2>2, <3>1, StepCalls DEF Result
        <4>2. Arg(1)' = p /\ Arg(2)' = t /\ call'.result = MatchID(IdOf(p), IdOf(t))
          BY <4>1 DEF CallMatchID, Called, Arg
        <4>3. Tokenized(p) /\ Tokenized(t)
          BY ArgumentsAssumption
        <4>4. MatchPattern(p, t) > 0 /\ ~Stricter(p) => MatchID(IdOf(p), IdOf(t))
          BY <4>3, CoreThenHarness
        <4>5. MatchID(IdOf(p), IdOf(t)) /\ p[1] = t[1] /\ ~Laxer(p, t) => MatchPattern(p, t) > 0
          BY <4>3, HarnessThenCore
        <4> QED
          BY <4>2, <4>4, <4>5
      <3>2. ASSUME Result("paramsSubset")'
            PROVE  LET core == ParamsWithinGrant(Arg(2)', Arg(1)')
                   IN  /\ core /\ ~StricterParams(Arg(2)') => call'.result
                       /\ call'.result /\ ~LaxerParams(Arg(2)', Arg(1)') => core
        <4>1. PICK g \in Values, a \in Values : CallParamsSubset(a, g)
          BY <2>2, <3>2, StepCalls DEF Result
        <4>2. Arg(1)' = a /\ Arg(2)' = g /\ call'.result = ParamsSubset(a, g)
          BY <4>1 DEF CallParamsSubset, Called, Arg
        <4>3. ParamsWithinGrant(g, a) /\ ~StricterParams(g) => ParamsSubset(a, g)
          BY CoreThenHarnessParams
        <4>4. ParamsSubset(a, g) /\ ~LaxerParams(g, a) => ParamsWithinGrant(g, a)
          BY HarnessThenCoreParams
        <4> QED
          BY <4>2, <4>3, <4>4
      <3>3. ASSUME Result("capabilitiesCovered")'
            PROVE  /\ (\E n \in DOMAIN Arg(2)' :
                          LET g == Arg(2)'[n]
                          IN  /\ CapabilitySubset(Arg(1)', <<g>>)
                              /\ ~Stricter(g.pattern) /\ ~StricterParams(g.params))
                         => call'.result
                   /\ call'.result
                      /\ (\A n \in DOMAIN Arg(2)' :
                            LET g == Arg(2)'[n]
                            IN  /\ ~Laxer(g.pattern, Arg(1)'.pattern)
                                /\ ~LaxerParams(g.params, Arg(1)'.params))
                        => CapabilitySubset(Arg(1)', Arg(2)')
        <4>1. PICK agent \in AgentCaps, grants \in GrantLists : CallHarnessCovers(agent, grants)
          BY <2>2, <3>3, StepCalls DEF Result
        <4>2. Arg(1)' = agent /\ Arg(2)' = grants
          BY <4>1 DEF CallHarnessCovers, Called, Arg
        <4>3. call'.result = HarnessCovers(<<ToHarness(agent)>>,
                                           [n \in DOMAIN grants |-> ToHarness(grants[n])])
          BY <4>1 DEF CallHarnessCovers, Called
        <4>4. /\ IsCapability(agent) /\ Len(grants) \in Nat /\ DOMAIN grants = 1..Len(grants)
              /\ \A n \in DOMAIN grants : IsCapability(grants[n])
          BY ArgumentsAssumption
        <4>5. call'.result <=> \E n \in DOMAIN grants :
                                 CapabilitySpecSubset(ToHarness(agent), ToHarness(grants[n]))
          BY <4>3, HarnessCoversIs
        <4>6. ASSUME NEW n \in DOMAIN grants, CapabilitySubset(agent, <<grants[n]>>),
                     ~Stricter(grants[n].pattern), ~StricterParams(grants[n].params)
              PROVE  call'.result
          BY <4>4, <4>5, <4>6, CoreThenHarnessCovers
        <4>7. ASSUME call'.result,
                     \A n \in DOMAIN grants : /\ ~Laxer(grants[n].pattern, agent.pattern)
                                              /\ ~LaxerParams(grants[n].params, agent.params)
              PROVE  CapabilitySubset(agent, grants)
          BY <4>4, <4>5, <4>7, HarnessThenCoreCovers
        <4> QED
          BY <4>2, <4>6, <4>7
      <3> QED
        BY <3>1, <3>2, <3>3 DEF HarnessAgreesWithCore
    <2> QED
      BY <1>2, <2>1, <2>2
  <1> QED
    BY <1>1, <1>2, PTL DEF Spec

\* The shifts of cidrContains compare the bits that the length stands for and
\* no others, for addresses of any width and whatever Number makes of the
\* length (aicjwt.ts:659-678).
THEOREM CidrIsBlockHolds == Spec => []CidrIsBlock
  <1>1. Init => CidrIsBlock
    BY DEF Init, CidrIsBlock, Result
  <1>2. ASSUME CidrIsBlock, [Next]_call PROVE CidrIsBlock'
    <2>1. CASE UNCHANGED call
      BY <1>2, <2>1 DEF CidrIsBlock, Result, Arg
    <2>2. CASE Next
      <3> DEFINE Throws(ip, cidr) ==
                   /\ ip.family = 6 /\ cidr.family = 6
                   /\ \/ cidr.length[1] = "word"
                      \/ cidr.length[1] = "half" /\ cidr.length[2] \in 0..(Bits - 1)
                 Block(ip, cidr, throws) ==
                   /\ ip.family = cidr.family /\ ~throws
                   /\ cidr.length[1] = "digits" => cidr.length[2] \in 0..Bits
                   /\ cidr.length[1] = "half" => cidr.length[2] \in 0..(Bits - 1)
                   /\ \A i \in 1..BitsOf(cidr.length) :
                        Bit(ip.addr, i) = Bit(cidr.addr, i)
      <3>1. SUFFICES ASSUME Result("cidrContains")'
                     PROVE  /\ call'.result.throws = Throws(Arg(1)', Arg(2)')
                            /\ call'.result.holds
                                 = Block(Arg(1)', Arg(2)', call'.result.throws)
        BY DEF CidrIsBlock
      <3>2. PICK ip \in Addresses, cidr \in Cidrs : CallCidrContains(ip, cidr)
        BY <2>2, <3>1, StepCalls DEF Result
      <3>3. /\ Arg(1)' = ip /\ Arg(2)' = cidr
            /\ call'.result.throws = CidrThrows(ip, cidr)
            /\ call'.result.holds = CidrContains(ip, cidr)
        BY <3>2 DEF CallCidrContains, Called, Arg
      <3>4. CidrContains(ip, cidr) <=> Block(ip, cidr, CidrThrows(ip, cidr))
        BY ArgumentsAssumption, CidrBlock
      <3>5. CidrThrows(ip, cidr) <=> Throws(ip, cidr)
        BY ArgumentsAssumption, CidrThrowsWhen
      <3>6. CidrThrows(ip, cidr) \in BOOLEAN /\ CidrContains(ip, cidr) \in BOOLEAN
        <4>1. CidrThrows(ip, cidr) \in BOOLEAN
          BY DEF CidrThrows
        <4>2. CASE cidr.length[1] = "none"
          BY <4>1, <4>2 DEF CidrContains
        <4>3. CASE cidr.length[1] # "none"
          BY <4>1, <4>3 DEF CidrContains
        <4> QED
          BY <4>1, <4>2, <4>3
      <3>7. Throws(ip, cidr) \in BOOLEAN /\ Block(ip, cidr, CidrThrows(ip, cidr)) \in BOOLEAN
        OBVIOUS
      <3> HIDE DEF Block, Throws
      <3> QED
        BY <3>3, <3>4, <3>5, <3>6, <3>7
    <2> QED
      BY <1>2, <2>1, <2>2
  <1> QED
    BY <1>1, <1>2, PTL DEF Spec

\* A time window is the arc of the clock from its start to its end, over
\* midnight or not, for a day of any length, and one minute where they are the
\* same (aicjwt.ts:697-713).
THEOREM WindowIsArcHolds == Spec => []WindowIsArc
  <1>1. Init => WindowIsArc
    BY DEF Init, WindowIsArc, Result
  <1>2. ASSUME WindowIsArc, [Next]_call PROVE WindowIsArc'
    <2>1. CASE UNCHANGED call
      BY <1>2, <2>1 DEF WindowIsArc, Result, Arg
    <2>2. CASE Next
      <3>1. SUFFICES ASSUME Result("evalTimeWindow")', Arg(1)'.start \in 0..(Day - 1),
                            Arg(1)'.end \in 0..(Day - 1)
                     PROVE  /\ call'.result = ((Arg(2)' - Arg(1)'.start) % Day
                                                 <= (Arg(1)'.end - Arg(1)'.start) % Day)
                            /\ Arg(1)'.start = Arg(1)'.end =>
                                 call'.result = (Arg(2)' = Arg(1)'.start)
        BY DEF WindowIsArc
      <3>2. PICK w \in Windows, now \in 0..(Day - 1) : CallTimeWindow(w, now)
        BY <2>2, <3>1, StepCalls DEF Result
      <3>3. Arg(1)' = w /\ Arg(2)' = now /\ call'.result = EvalTimeWindow(w, now)
        BY <3>2 DEF CallTimeWindow, Called, Arg
      <3>4. EvalTimeWindow(w, now) <=> (now - w.start) % Day <= (w.end - w.start) % Day
        BY <3>1, <3>3, WindowArc
      <3>6. w.start = w.end => (EvalTimeWindow(w, now) <=> now = w.start)
        BY <3>1, <3>3 DEF EvalTimeWindow
      <3>5. EvalTimeWindow(w, now) \in BOOLEAN
        <4>1. CASE w.start <= w.end
          BY <4>1 DEF EvalTimeWindow
        <4>2. CASE ~(w.start <= w.end)
          BY <4>2 DEF EvalTimeWindow
        <4> QED
          BY <4>1, <4>2
      <3> QED
        BY <3>3, <3>4, <3>5, <3>6
    <2> QED
      BY <1>2, <2>1, <2>2
  <1> QED
    BY <1>1, <1>2, PTL DEF Spec

\* A list of constraints holds exactly when each of them does, and a lenient
\* caller is told of each of an unknown type (aicjwt.ts:724-740).
THEOREM ConstraintsConjoinHolds == Spec => []ConstraintsConjoin
  <1> DEFINE Conjoined(cs, ctx, strict, result) ==
               /\ result.ok = \A n \in DOMAIN cs : Fulfilled(cs[n], ctx, strict)
               /\ result.ok =>
                    result.notes
                      = Cardinality({n \in DOMAIN cs : cs[n].id \notin Found})
  <1>0. ConstraintsConjoin <=>
          (Result("evaluateConstraints") => Conjoined(Arg(1), Arg(2), Arg(3), call.result))
    BY DEF ConstraintsConjoin, Fulfilled
  <1>1. Init => ConstraintsConjoin
    BY DEF Init, ConstraintsConjoin, Result
  <1>2. ASSUME ConstraintsConjoin, [Next]_call PROVE ConstraintsConjoin'
    <2>1. CASE UNCHANGED call
      BY <1>2, <2>1 DEF ConstraintsConjoin, Result, Arg
    <2>2. CASE Next
      <3>1. SUFFICES ASSUME Result("evaluateConstraints")'
                     PROVE  Conjoined(Arg(1)', Arg(2)', Arg(3)', call'.result)
        BY DEF ConstraintsConjoin, Fulfilled
      <3>2. PICK cs \in Lists, ctx \in Contexts, strict \in BOOLEAN :
              CallConstraints(cs, ctx, strict)
        BY <2>2, <3>1, StepCalls DEF Result
      <3>3. /\ Arg(1)' = cs /\ Arg(2)' = ctx /\ Arg(3)' = strict
            /\ call'.result = EvaluateConstraints(cs, ctx, strict)
        BY <3>2 DEF CallConstraints, Called, Arg
      <3>4. Len(cs) \in Nat /\ DOMAIN cs = 1..Len(cs)
        BY ArgumentsAssumption
      <3>5. ASSUME NEW result, result = EvaluateConstraints(cs, ctx, strict)
            PROVE  Conjoined(cs, ctx, strict, result)
        <4>1. /\ result.ok \in BOOLEAN
              /\ result.ok <=> \A n \in 1..Len(cs) : Fulfilled(cs[n], ctx, strict)
              /\ result.ok =>
                   result.notes = Cardinality({n \in 1..Len(cs) : cs[n].id \notin Found})
          BY <3>4, <3>5, ConstraintsAreConjoined
        <4> QED
          BY <3>4, <4>1
      <3>6. Conjoined(cs, ctx, strict, call'.result)
        BY <3>3, <3>5
      <3> QED
        BY <3>3, <3>6
    <2> QED
      BY <1>2, <2>1, <2>2
  <1> QED
    BY <1>1, <1>2, PTL DEF Spec

-----------------------------------------------------------------------------
(* The laws of the carriers.                                               *)

\* What ArgumentsAssumption says of sizes: such a number has three octets at
\* most.
LEMMA SizesAreShort ==
  ASSUME NEW n \in Sizes
  PROVE  n \in Nat /\ Len(Bytes(n)) \in Nat /\ Len(Bytes(n)) <= 3
  <1>1. n \in Nat /\ n < 256 * 256 * 256
    BY ArgumentsAssumption
  <1>2. Len(Bytes(n)) <= 3
    BY <1>1, BytesCount
  <1>3. Bytes(n) \in Seq(Nat)
    BY <1>1, BytesAre
  <1> QED
    BY <1>1, <1>2, <1>3

\* Elements, integers and object identifiers are read back as they were
\* written (ts/asn1.ts:66-165).
THEOREM DerReadsBackHolds == Spec => []DerReadsBack
  <1>1. Init => DerReadsBack
    BY DEF Init, DerReadsBack, Result
  <1>2. ASSUME DerReadsBack, [Next]_call PROVE DerReadsBack'
    <2>1. CASE UNCHANGED call
      BY <1>2, <2>1 DEF DerReadsBack, Result, Arg
    <2>2. CASE Next
      <3>1. ASSUME Result("readElement")'
            PROVE  /\ call'.result.ok
                   /\ call'.result.tag = Arg(1)' /\ call'.result.content = Arg(2)'
                   /\ call'.result.next = Len(TL(Arg(1)', Arg(2)')) + 1
        <4>1. PICK tag \in {SEQUENCE, INTEGER}, size \in Sizes : CallReadElement(tag, size)
          BY <2>2, <3>1, StepCalls DEF Result
        <4> DEFINE content == [n \in 1..size |-> n % 256]
        <4>2. /\ Arg(1)' = tag /\ Arg(2)' = content
              /\ call'.result = ReadElement(TL(tag, content) \o <<INTEGER>>, 1)
          BY <4>1 DEF CallReadElement, Called, Arg
        <4>3. size \in Nat /\ Len(Bytes(size)) <= 3
          BY SizesAreShort
        <4>4. content \in Seq(Nat) /\ Len(content) = size
          <5>1. \A n \in 1..size : n % 256 \in Nat
            BY <4>3
          <5>2. DOMAIN content = 1..size
            OBVIOUS
          <5> QED
            BY <4>3, <5>1, <5>2
        <4>5. tag \in Nat /\ <<INTEGER>> \in Seq(Nat)
          BY TagsNat
        <4> HIDE DEF content
        <4>6. ReadElement(TL(tag, content) \o <<INTEGER>>, 1)
                = [ok |-> TRUE, tag |-> tag, content |-> content,
                   next |-> Len(TL(tag, content)) + 1]
          BY <4>3, <4>4, <4>5, ElementReadsAlone
        <4> QED
          BY <4>2, <4>6
      <3>2. ASSUME Result("derInt")'
            PROVE  DerIntValue(call'.result) = Arg(1)' /\ Head(call'.result) < 128
        <4>1. PICK n \in Sizes : CallDerInt(n)
          BY <2>2, <3>2, StepCalls DEF Result
        <4>2. Arg(1)' = n /\ call'.result = DerInt(n)
          BY <4>1 DEF CallDerInt, Called, Arg
        <4> QED
          BY <4>2, SizesAreShort, DerIntReads
      <3>3. ASSUME Result("derOid")'
            PROVE  DecodeOid(call'.result) = Arg(1)'
        <4>1. PICK oid \in OIDs : CallDerOid(oid)
          BY <2>2, <3>3, StepCalls DEF Result
        <4>2. Arg(1)' = oid /\ call'.result = DerOid(oid)
          BY <4>1 DEF CallDerOid, Called, Arg
        <4>3. oid \in Seq(Nat) /\ Len(oid) >= 2 /\ oid[2] < 40
          BY ArgumentsAssumption
        <4> QED
          BY <4>2, <4>3, OidReadsBack
      <3> QED
        BY <3>1, <3>2, <3>3 DEF DerReadsBack
    <2> QED
      BY <1>2, <2>1, <2>2
  <1> QED
    BY <1>1, <1>2, PTL DEF Spec

\* A DER signature becomes r||s with halves of the curve's length, and a raw
\* one is kept, outside the forms named (ts/x509_bridge.ts:383-425).
THEOREM SignatureFormsAgreeHolds == Spec => []SignatureFormsAgree
  <1>1. Init => SignatureFormsAgree
    BY DEF Init, SignatureFormsAgree, Result
  <1>2. ASSUME SignatureFormsAgree, [Next]_call PROVE SignatureFormsAgree'
    <2>1. CASE UNCHANGED call
      BY <1>2, <2>1 DEF SignatureFormsAgree, Result, Arg
    <2>2. CASE Next
      <3>1. ASSUME Result("derToRawECDSA")',
                   \A n \in {1, 2} : Len(Bytes(Arg(n)')) <= Curve,
                   \E n \in {1, 2} : Len(Bytes(Arg(n)')) = Curve
            PROVE  call'.result
                     = PadTo(Bytes(Arg(1)'), Curve) \o PadTo(Bytes(Arg(2)'), Curve)
        <4>1. PICK r \in Sizes, s \in Sizes : CallDerToRaw(r, s)
          BY <2>2, <3>1, StepCalls DEF Result
        <4>2. /\ Arg(1)' = r /\ Arg(2)' = s
              /\ call'.result
                   = DerToRawECDSA(TL(SEQUENCE, TL(INTEGER, DerInt(r)) \o TL(INTEGER, DerInt(s))))
          BY <4>1 DEF CallDerToRaw, Called, Arg
        <4>3. /\ r \in Nat /\ s \in Nat
              /\ Len(Bytes(r)) <= 60 /\ Len(Bytes(s)) <= 60
          BY SizesAreShort
        <4>4. call'.result = Join(Bytes(r), Bytes(s))
          BY <4>2, <4>3, DerToRawReads
        <4>5. Bytes(r) \in Seq(Nat) /\ Bytes(s) \in Seq(Nat)
          BY <4>3, BytesAre
        <4>6. /\ Len(Bytes(r)) <= Curve /\ Len(Bytes(s)) <= Curve
              /\ Len(Bytes(r)) = Curve \/ Len(Bytes(s)) = Curve
          BY <3>1, <4>2
        <4>7. Curve \in Nat
          BY DEF Curve
        <4>8. Join(Bytes(r), Bytes(s)) = PadTo(Bytes(r), Curve) \o PadTo(Bytes(s), Curve)
          BY <4>5, <4>6, <4>7, JoinFills
        <4> QED
          BY <4>2, <4>4, <4>8
      <3>2. ASSUME Result("rawToRaw")',
                   SubSeq(Arg(1)', 1, 2) # <<SEQUENCE, Len(Arg(1)') - 2>>,
                   SubSeq(Arg(1)', 1, 3) # <<SEQUENCE, 129, Len(Arg(1)') - 3>>
            PROVE  call'.result = Arg(1)'
        <4>1. PICK raw \in [1..4 -> Octets] : CallRawToRaw(raw)
          BY <2>2, <3>2, StepCalls DEF Result
        <4>2. Arg(1)' = raw /\ call'.result = DerToRawECDSA(raw)
          BY <4>1 DEF CallRawToRaw, Called, Arg
        <4>3. raw \in Seq(Nat) /\ Len(raw) = 4
          <5>1. PICK n \in Nat : n = 4
            OBVIOUS
          <5>2. raw \in [1..n -> Nat]
            BY <5>1, ArgumentsAssumption
          <5>3. raw \in Seq(Nat) /\ Len(raw) = n
            <6> HIDE <5>1
            <6> QED
              BY <5>2
          <5> QED
            BY <5>1, <5>3
        <4>4. Len(raw) - 2 = 2 /\ Len(raw) - 3 = 1
          BY <4>3
        <4>5. SubSeq(raw, 1, 2) # <<SEQUENCE, 2>> /\ SubSeq(raw, 1, 3) # <<SEQUENCE, 129, 1>>
          BY <3>2, <4>2, <4>4, Zenon
        <4> QED
          BY <4>2, <4>3, <4>5, RawStays
      <3> QED
        BY <3>1, <3>2 DEF SignatureFormsAgree
    <2> QED
      BY <1>2, <2>1, <2>2
  <1> QED
    BY <1>1, <1>2, PTL DEF Spec

\* An AIC survives the certificate, whichever optional fields it has
\* (ts/x509_bridge.ts:102-331).
THEOREM AICReadsBackHolds == Spec => []AICReadsBack
  <1>1. Init => AICReadsBack
    BY DEF Init, AICReadsBack, Result
  <1>2. ASSUME AICReadsBack, [Next]_call PROVE AICReadsBack'
    <2>1. CASE UNCHANGED call
      BY <1>2, <2>1 DEF AICReadsBack, Result, Arg
    <2>2. CASE Next
      <3>1. SUFFICES ASSUME Result("findAIC")' PROVE call'.result = <<Canonical(Arg(1)')>>
        BY DEF AICReadsBack, Canonical
      <3>2. PICK a \in AICs : CallFindAIC(a)
        BY <2>2, <3>1, StepCalls DEF Result
      <3>3. Arg(1)' = a /\ call'.result = FindAIC(BuildAICCertificate(a, "spki"))
        BY <3>2 DEF CallFindAIC, Called, Arg
      <3>4. a \in X509AIC
        BY ArgumentsAssumption
      <3>5. FindAIC(BuildAICCertificate(a, "spki")) = <<Canonical(a)>>
        BY <3>4, CertificateReadsBack
      <3> QED
        BY <3>3, <3>5
    <2> QED
      BY <1>2, <2>1, <2>2
  <1> QED
    BY <1>1, <1>2, PTL DEF Spec

\* A signature that verifies over another AIC gives the claims its principal
\* signed, all but the token's extensions, which it does not cover
\* (ts/x509_bridge.ts:204-318).
THEOREM SignatureCoversDAHolds == Spec => []SignatureCoversDA
  <1>1. Init => SignatureCoversDA
    BY DEF Init, SignatureCoversDA, Result
  <1>2. ASSUME SignatureCoversDA, [Next]_call PROVE SignatureCoversDA'
    <2>1. CASE UNCHANGED call
      BY <1>2, <2>1 DEF SignatureCoversDA, Result, Arg
    <2>2. CASE Next
      <3>1. SUFFICES ASSUME Result("verifyDelegation")', call'.result,
                            Arg(1)'.auth.lifetime >= 1, Arg(2)'.auth.lifetime >= 1,
                            NEW o \in Overrides
                     PROVE  SignedClaims(MapToClaims(Arg(1)', o))
                              = SignedClaims(MapToClaims(Arg(2)', o))
        BY DEF SignatureCoversDA
      <3>2. PICK a \in SignedAICs, b \in SignedAICs : CallVerifyDelegation(a, b)
        BY <2>2, <3>1, StepCalls DEF Result
      <3>3. /\ Arg(1)' = a /\ Arg(2)' = b
            /\ call'.result
                 = VerifyDelegation([b EXCEPT !.auth.sig = Sign(a, "principal").auth.sig],
                                    "principal")
        BY <3>2 DEF CallVerifyDelegation, Called, Arg
      <3>4. a \in X509AIC /\ b \in X509AIC
        BY ArgumentsAssumption
      <3>5. SignedClaims(MapToClaims(a, o)) = SignedClaims(MapToClaims(b, o))
        BY <3>1, <3>3, <3>4, SignatureSpeaks
      <3> QED
        BY <3>3, <3>5
    <2> QED
      BY <1>2, <2>1, <2>2
  <1> QED
    BY <1>1, <1>2, PTL DEF Spec
=============================================================================
