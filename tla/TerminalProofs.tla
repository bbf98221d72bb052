--------------------------- MODULE TerminalProofs ---------------------------
(***************************************************************************)
(* The terminal and its layouts, for every box, list of columns, size,     *)
(* text and table, and any number of changes.                              *)
(*                                                                         *)
(* Layout: sumInts and the loops of RowLayout and TableLayout are          *)
(* recursive functions. Induction is stated for sets of numbers            *)
(* (SetInduction), and LoopRule says of a loop that lowers a measure that  *)
(* its function is defined on the widths and keeps what a round keeps.     *)
(*  - Shrink lowers the sum, which the minima bound from below.            *)
(*  - GrowPass hands out shares of a division, together no more than the   *)
(*    spare cells. Of the rest the first children by remainder take one    *)
(*    each: no two have one rank (AtMostRanked), so they take no more than *)
(*    are left. It stands still only when no child can grow.               *)
(*  - A table's columns lose cells down to their readable widths, which    *)
(*    the mode was chosen to fit.                                          *)
(*                                                                         *)
(* State machine:                                                          *)
(*  - DocumentInv: types, the selection is a row of its table, and what a  *)
(*    key read when it came in.                                            *)
(*  - AnimationInv: OneChain by itself is not inductive, a new epoch must  *)
(*    have no tick yet and must exist. Potential counts the epochs that    *)
(*    were and those that can come without the agent; only a change raises *)
(*    it, by two, so that epochs never run out.                            *)
(*  - LocalInv: without a signal waiting, a reconciliation changes nothing *)
(*    and a key still being handled has read the current widget. The first *)
(*    needs that reconciling twice is reconciling once (ViewportSettles,   *)
(*    TableSettles), the second that a key leaves what a reconciliation    *)
(*    would.                                                               *)
(***************************************************************************)
EXTENDS Terminal, FiniteSetTheorems, SequenceTheorems, WellFoundedInduction, TLAPS

------------------------------------------------------------------------------
(* Induction and recursion over natural numbers, for sets and functions      *)

\* Induction, for the set of the numbers that have a property.
LEMMA SetInduction ==
  ASSUME NEW S, 0 \in S, \A n \in Nat : n \in S => n + 1 \in S
  PROVE  Nat \subseteq S
<1> SUFFICES ASSUME Nat \ S # {} PROVE FALSE OBVIOUS
<1> DEFINE R == {p \in Nat \X Nat : p[1] < p[2]}
<1>1. IsWellFoundedOn(R, Nat) BY NatLessThanWellFounded DEF OpToRel
<1>2. \E x \in Nat \ S : \A y \in Nat \ S : ~(<<y, x>> \in R)
  <2> HIDE DEF R
  <2> QED BY <1>1, WFMin
<1>3. PICK x \in Nat \ S : \A y \in Nat \ S : ~(y < x) BY <1>2
<1>4. x - 1 \in Nat \ S BY <1>3
<1> QED BY <1>3, <1>4

\* A property of the numbers up to N, as the set of those that have it.
LEMMA InductionUpTo ==
  ASSUME NEW N \in Nat, NEW S, 0 \in S, \A n \in 0..(N - 1) : n \in S => n + 1 \in S
  PROVE  \A n \in 0..N : n \in S
<1> DEFINE T == {n \in Nat : n <= N => n \in S}
<1>1. 0 \in T OBVIOUS
<1>2. \A n \in Nat : n \in T => n + 1 \in T OBVIOUS
<1>3. Nat \subseteq T
  <2> HIDE DEF T
  <2> QED BY <1>1, <1>2, SetInduction
<1> QED BY <1>3

\* A function that starts with base and goes on with G exists up to any N.
Recurses(f, X, base, G, N) ==
  /\ f \in [0..N -> X]
  /\ f[0] = base
  /\ \A k \in 1..N : f[k] = G[<<k, f[k - 1]>>]

\* Such a function exists for every base, step and N.
LEMMA Recursion ==
  ASSUME NEW X, NEW base \in X, NEW G \in [Nat \X X -> X], NEW N \in Nat
  PROVE  \E f : Recurses(f, X, base, G, N)
<1> DEFINE Ok(f, n) == f[0] = base /\ \A k \in 1..n : f[k] = G[<<k, f[k - 1]>>]
<1> DEFINE S == {n \in Nat : \E f \in [0..n -> X] : Ok(f, n)}
<1>1. 0 \in S
  <2>1. [k \in 0..0 |-> base] \in [0..0 -> X] /\ Ok([k \in 0..0 |-> base], 0) OBVIOUS
  <2> QED BY <2>1
<1>2. ASSUME NEW n \in Nat, n \in S PROVE n + 1 \in S
  <2>1. PICK f \in [0..n -> X] : Ok(f, n) BY <1>2
  <2>2. PICK last \in X : last = G[<<n + 1, f[n]>>] OBVIOUS
  <2>3. PICK g : g = [k \in 0..(n + 1) |-> IF k <= n THEN f[k] ELSE last] OBVIOUS
  <2>4. g \in [0..(n + 1) -> X] BY <2>3
  <2>5. g[0] = base BY <2>1, <2>3
  <2>6. ASSUME NEW k \in 1..(n + 1) PROVE g[k] = G[<<k, g[k - 1]>>]
    <3>1. g[k - 1] = f[k - 1] BY <2>3
    <3>2. CASE k <= n
      <4>1. k \in 1..n /\ g[k] = f[k] BY <2>3, <3>2
      <4> QED BY <2>1, <3>1, <4>1
    <3>3. CASE k = n + 1
      <4>1. g[k] = last /\ k - 1 = n BY <2>3, <3>3
      <4> QED BY <2>2, <3>1, <3>3, <4>1
    <3> QED BY <3>2, <3>3
  <2>7. Ok(g, n + 1) BY <2>5, <2>6
  <2> HIDE DEF Ok
  <2> QED BY <2>4, <2>7
<1>3. Nat \subseteq S
  <2> HIDE DEF S
  <2> QED BY <1>1, <1>2, SetInduction
<1> QED BY <1>3 DEF Recurses

------------------------------------------------------------------------------
(* Sums                                                                      *)

\* A function on 1..n is a sequence of length n.
LEMMA FunctionIsSeq ==
  ASSUME NEW S, NEW n \in Nat, NEW f \in [1..n -> S]
  PROVE  f \in Seq(S) /\ Len(f) = n /\ DOMAIN f = 1..n
  BY SeqDef

\* The running totals of f.
Totals(t, f, n) ==
  /\ t \in [0..n -> Int]
  /\ t[0] = 0
  /\ \A k \in 1..n : t[k] = t[k - 1] + f[k]

\* sumInts computes its loop.
LEMMA SumLoop ==
  ASSUME NEW n \in Nat, NEW f \in [1..n -> Int]
  PROVE  \E t : Totals(t, f, n) /\ sumInts(f) = t[n]
<1> DEFINE rhs(g) == [k \in 0..n |-> IF k = 0 THEN 0 ELSE g[k - 1] + f[k]]
<1>1. PICK G : G = [p \in Nat \X Int |-> IF p[1] \in 1..n THEN p[2] + f[p[1]] ELSE 0]
  OBVIOUS
<1>2. G \in [Nat \X Int -> Int]
  <2>1. \A p \in Nat \X Int : (IF p[1] \in 1..n THEN p[2] + f[p[1]] ELSE 0) \in Int
    OBVIOUS
  <2> QED BY <1>1, <2>1
<1>3. PICK t : Recurses(t, Int, 0, G, n)
  <2>1. 0 \in Int OBVIOUS
  <2> QED BY <1>2, <2>1, Recursion
<1>4. ASSUME NEW k \in 1..n PROVE t[k] = t[k - 1] + f[k]
  <2>1. PICK x \in Int : x = t[k - 1] BY <1>3 DEF Recurses
  <2>2. G[<<k, x>>] = x + f[k] BY <1>1
  <2> QED BY <1>3, <2>1, <2>2 DEF Recurses
<1>5. Totals(t, f, n) BY <1>3, <1>4 DEF Recurses, Totals
<1>6. \E g : g = rhs(g)
  <2>1. \A k \in 0..n : t[k] = rhs(t)[k] BY <1>5 DEF Totals
  <2>2. t = rhs(t) BY <1>5, <2>1 DEF Totals
  <2> QED BY <2>2
<1>7. PICK r : r = CHOOSE g : g = rhs(g) OBVIOUS
<1>8. r = rhs(r) BY <1>6, <1>7
<1>9. sumInts(f) = r[n]
  <2>1. Len(f) = n BY FunctionIsSeq
  <2> QED BY <1>7, <2>1 DEF sumInts
<1>10. \A k \in 0..n : r[k] = t[k]
  <2> DEFINE S == {k \in 0..n : r[k] = t[k]}
  <2>1. 0 \in S
    <3>1. r[0] = rhs(r)[0] BY <1>8
    <3> QED BY <1>5, <3>1 DEF Totals
  <2>2. ASSUME NEW k \in 0..(n - 1), k \in S PROVE k + 1 \in S
    <3>1. k + 1 \in 1..n /\ (k + 1) - 1 = k OBVIOUS
    <3>2. r[k + 1] = rhs(r)[k + 1] BY <1>8, <3>1
    <3>3. r[k + 1] = r[k] + f[k + 1] BY <3>1, <3>2
    <3>4. t[k + 1] = t[k] + f[k + 1] BY <1>5, <3>1 DEF Totals
    <3> QED BY <2>2, <3>1, <3>3, <3>4
  <2> HIDE DEF S
  <2>3. \A k \in 0..n : k \in S BY <2>1, <2>2, InductionUpTo
  <2> QED BY <2>3 DEF S
<1> QED BY <1>5, <1>9, <1>10

\* A sum of integers is an integer.
LEMMA SumType ==
  ASSUME NEW n \in Nat, NEW f \in [1..n -> Int]
  PROVE  sumInts(f) \in Int
  BY SumLoop DEF Totals

\* Sums are monotone, strictly where some place is smaller.
LEMMA SumMonotone ==
  ASSUME NEW n \in Nat, NEW f \in [1..n -> Int], NEW g \in [1..n -> Int],
         \A i \in 1..n : f[i] <= g[i]
  PROVE  /\ sumInts(f) <= sumInts(g)
         /\ \A i \in 1..n : f[i] < g[i] => sumInts(f) < sumInts(g)
<1>1. PICK s : Totals(s, f, n) /\ sumInts(f) = s[n] BY SumLoop
<1>2. PICK t : Totals(t, g, n) /\ sumInts(g) = t[n] BY SumLoop
<1>3. ASSUME NEW k \in 0..(n - 1)
      PROVE  /\ k + 1 \in 1..n /\ k \in 0..n
             /\ s[k + 1] = s[k] + f[k + 1] /\ t[k + 1] = t[k] + g[k + 1]
             /\ s[k] \in Int /\ t[k] \in Int /\ f[k + 1] \in Int /\ g[k + 1] \in Int
             /\ f[k + 1] <= g[k + 1]
  <2>1. k + 1 \in 1..n /\ (k + 1) - 1 = k /\ k \in 0..n OBVIOUS
  <2> QED BY <1>1, <1>2, <2>1 DEF Totals
<1>4. \A k \in 0..n : s[k] <= t[k]
  <2> DEFINE S == {k \in 0..n : s[k] <= t[k]}
  <2>1. 0 \in S BY <1>1, <1>2 DEF Totals
  <2>2. ASSUME NEW k \in 0..(n - 1), k \in S PROVE k + 1 \in S
    BY <1>3, <2>2
  <2> HIDE DEF S
  <2>3. \A k \in 0..n : k \in S BY <2>1, <2>2, InductionUpTo
  <2> QED BY <2>3 DEF S
<1>5. ASSUME NEW i \in 1..n, f[i] < g[i] PROVE s[n] < t[n]
  <2> DEFINE S == {k \in 0..n : k >= i => s[k] < t[k]}
  <2>1. 0 \in S OBVIOUS
  <2>2. ASSUME NEW k \in 0..(n - 1), k \in S PROVE k + 1 \in S
    <3>1. CASE k + 1 < i BY <3>1, <1>3
    <3>2. CASE k + 1 = i
      <4>1. s[k] <= t[k] BY <1>3, <1>4
      <4>2. f[k + 1] < g[k + 1] BY <1>5, <3>2
      <4>3. s[k + 1] < t[k + 1] BY <1>3, <4>1, <4>2
      <4> QED BY <1>3, <4>3
    <3>3. CASE k + 1 > i
      <4>1. s[k] < t[k] BY <2>2, <3>3
      <4>2. s[k + 1] < t[k + 1] BY <1>3, <4>1
      <4> QED BY <1>3, <4>2
    <3> QED BY <3>1, <3>2, <3>3
  <2> HIDE DEF S
  <2>3. \A k \in 0..n : k \in S BY <2>1, <2>2, InductionUpTo
  <2>4. n \in 0..n /\ n >= i OBVIOUS
  <2> QED BY <2>3, <2>4 DEF S
<1>6. n \in 0..n OBVIOUS
<1> QED BY <1>1, <1>2, <1>4, <1>5, <1>6

\* h is f plus g, place by place.
IsSum(h, f, g, n) == \A i \in 1..n : h[i] = f[i] + g[i]

\* The sum of sums.
LEMMA SumAdd ==
  ASSUME NEW n \in Nat, NEW f \in [1..n -> Int], NEW g \in [1..n -> Int], NEW h \in [1..n -> Int],
         IsSum(h, f, g, n)
  PROVE  sumInts(h) = sumInts(f) + sumInts(g)
<1>1. PICK s : Totals(s, f, n) /\ sumInts(f) = s[n] BY SumLoop
<1>2. PICK t : Totals(t, g, n) /\ sumInts(g) = t[n] BY SumLoop
<1>3. PICK u : Totals(u, h, n) /\ sumInts(h) = u[n] BY SumLoop
<1> DEFINE S == {k \in 0..n : u[k] = s[k] + t[k]}
<1>4. 0 \in S BY <1>1, <1>2, <1>3 DEF Totals
<1>5. ASSUME NEW k \in 0..(n - 1), k \in S PROVE k + 1 \in S
  <2>1. k + 1 \in 1..n /\ (k + 1) - 1 = k /\ k \in 0..n OBVIOUS
  <2>2. /\ s[k + 1] = s[k] + f[k + 1] /\ t[k + 1] = t[k] + g[k + 1] /\ u[k + 1] = u[k] + h[k + 1]
        /\ s[k] \in Int /\ t[k] \in Int /\ f[k + 1] \in Int /\ g[k + 1] \in Int
        /\ h[k + 1] = f[k + 1] + g[k + 1]
    BY <1>1, <1>2, <1>3, <2>1 DEF Totals, IsSum
  <2> QED BY <1>5, <2>1, <2>2
<1> HIDE DEF S
<1>6. \A k \in 0..n : k \in S BY <1>4, <1>5, InductionUpTo
<1>7. n \in 0..n OBVIOUS
<1> QED BY <1>1, <1>2, <1>3, <1>6, <1>7 DEF S

\* a times f is at most b times g, place by place.
Scaled(a, f, b, g, n) == \A i \in 1..n : a * f[i] <= b * g[i]

\* So are the sums.
LEMMA SumScaled ==
  ASSUME NEW n \in Nat, NEW f \in [1..n -> Int], NEW g \in [1..n -> Int],
         NEW a \in Int, NEW b \in Int, Scaled(a, f, b, g, n)
  PROVE  a * sumInts(f) <= b * sumInts(g)
<1>1. PICK s : Totals(s, f, n) /\ sumInts(f) = s[n] BY SumLoop
<1>2. PICK t : Totals(t, g, n) /\ sumInts(g) = t[n] BY SumLoop
<1> DEFINE S == {k \in 0..n : a * s[k] <= b * t[k]}
<1>3. 0 \in S BY <1>1, <1>2 DEF Totals
<1>4. ASSUME NEW k \in 0..(n - 1), k \in S PROVE k + 1 \in S
  <2>1. k + 1 \in 1..n /\ (k + 1) - 1 = k /\ k \in 0..n OBVIOUS
  <2>2. /\ s[k + 1] = s[k] + f[k + 1] /\ t[k + 1] = t[k] + g[k + 1]
        /\ s[k] \in Int /\ t[k] \in Int /\ f[k + 1] \in Int /\ g[k + 1] \in Int
        /\ a * f[k + 1] <= b * g[k + 1]
    BY <1>1, <1>2, <2>1 DEF Totals, Scaled
  <2>3. a * s[k] <= b * t[k] BY <1>4
  <2>4. ASSUME NEW x \in Int, NEW y \in Int, NEW c \in Int PROVE c * (x + y) = c * x + c * y
    OBVIOUS
  <2>5. a * s[k + 1] = a * s[k] + a * f[k + 1] /\ b * t[k + 1] = b * t[k] + b * g[k + 1]
    BY <2>2, <2>4
  <2>6. ASSUME NEW p \in Int, NEW q \in Int, NEW x \in Int, NEW y \in Int, p <= q, x <= y
        PROVE  p + x <= q + y
    BY <2>6
  <2>7. a * s[k] \in Int /\ b * t[k] \in Int /\ a * f[k + 1] \in Int /\ b * g[k + 1] \in Int
    BY <2>2
  <2>8. a * s[k] + a * f[k + 1] <= b * t[k] + b * g[k + 1]
    BY <2>2, <2>3, <2>6, <2>7
  <2> QED BY <2>1, <2>5, <2>8
<1> HIDE DEF S
<1>5. \A k \in 0..n : k \in S BY <1>3, <1>4, InductionUpTo
<1>6. n \in 0..n OBVIOUS
<1> QED BY <1>1, <1>2, <1>5, <1>6 DEF S

\* One where a place is in A, elsewhere none.
Ones(A, n) == [i \in 1..n |-> IF i \in A THEN 1 ELSE 0]

\* A sum that counts.
LEMMA SumOnes ==
  ASSUME NEW n \in Nat, NEW A \in SUBSET (1..n)
  PROVE  sumInts(Ones(A, n)) = Cardinality(A)
<1>1. Ones(A, n) \in [1..n -> Int] BY DEF Ones
<1>2. PICK t : Totals(t, Ones(A, n), n) /\ sumInts(Ones(A, n)) = t[n] BY <1>1, SumLoop
<1> DEFINE Upto(k) == A \cap (1..k)
<1> DEFINE S == {k \in 0..n : IsFiniteSet(Upto(k)) /\ t[k] = Cardinality(Upto(k))}
<1>3. 0 \in S
  <2>1. Upto(0) = {} OBVIOUS
  <2>2. t[0] = 0 BY <1>2 DEF Totals
  <2> QED BY <2>1, <2>2, FS_EmptySet
<1>4. ASSUME NEW k \in 0..(n - 1), k \in S PROVE k + 1 \in S
  <2>1. k + 1 \in 1..n /\ (k + 1) - 1 = k /\ k \in 0..n OBVIOUS
  <2>2. t[k + 1] = t[k] + (IF k + 1 \in A THEN 1 ELSE 0)
    BY <1>2, <2>1 DEF Totals, Ones
  <2>3. IsFiniteSet(Upto(k)) /\ t[k] = Cardinality(Upto(k)) BY <1>4
  <2>4. Cardinality(Upto(k)) \in Nat BY <2>3, FS_CardinalityType
  <2>5. CASE k + 1 \in A
    <3>1. Upto(k + 1) = Upto(k) \cup {k + 1} /\ k + 1 \notin Upto(k) BY <2>5, <2>1
    <3> HIDE DEF Upto
    <3>2. IsFiniteSet(Upto(k) \cup {k + 1}) /\ Cardinality(Upto(k) \cup {k + 1}) = Cardinality(Upto(k)) + 1
      BY <2>3, <3>1, FS_AddElement
    <3> QED BY <2>1, <2>2, <2>3, <2>4, <2>5, <3>1, <3>2
  <2>6. CASE k + 1 \notin A
    <3>1. Upto(k + 1) = Upto(k) BY <2>6, <2>1
    <3> HIDE DEF Upto
    <3> QED BY <2>1, <2>2, <2>3, <2>4, <2>6, <3>1
  <2> QED BY <2>5, <2>6
<1> HIDE DEF S
<1>5. \A k \in 0..n : k \in S BY <1>3, <1>4, InductionUpTo
<1>6. n \in 0..n OBVIOUS
<1>7. A \cap (1..n) = A OBVIOUS
<1> QED BY <1>2, <1>5, <1>6, <1>7 DEF S

------------------------------------------------------------------------------
(* Loops                                                                     *)

\* A recursion that goes on for ever.
Iterates(f, X, base, G) ==
  f \in [Nat -> X] /\ f[0] = base /\ \A k \in Nat : f[k + 1] = G[<<k + 1, f[k]>>]

\* It exists for every base and step.
LEMMA RecursionOnNat ==
  ASSUME NEW X, NEW base \in X, NEW G \in [Nat \X X -> X]
  PROVE  \E f : Iterates(f, X, base, G)
<1> DEFINE Upto(k) == CHOOSE g : Recurses(g, X, base, G, k)
<1>1. ASSUME NEW k \in Nat
      PROVE  /\ Upto(k) \in [0..k -> X] /\ Upto(k)[0] = base
             /\ \A j \in 1..k : Upto(k)[j] = G[<<j, Upto(k)[j - 1]>>]
  <2>1. \E g : Recurses(g, X, base, G, k) BY Recursion
  <2>2. Recurses(Upto(k), X, base, G, k) BY <2>1
  <2> HIDE DEF Upto
  <2> QED BY <2>2 DEF Recurses
<1> HIDE DEF Upto
<1>2. ASSUME NEW k \in Nat PROVE \A j \in 0..k : Upto(k + 1)[j] = Upto(k)[j]
  <2> DEFINE S == {j \in 0..k : Upto(k + 1)[j] = Upto(k)[j]}
  <2>1. k + 1 \in Nat OBVIOUS
  <2>2. 0 \in S BY <1>1, <2>1
  <2>3. ASSUME NEW j \in 0..(k - 1), j \in S PROVE j + 1 \in S
    <3>1. j + 1 \in 1..k /\ j + 1 \in 1..(k + 1) /\ (j + 1) - 1 = j OBVIOUS
    <3>2. Upto(k)[j + 1] = G[<<j + 1, Upto(k)[j]>>] BY <1>1, <3>1
    <3>3. Upto(k + 1)[j + 1] = G[<<j + 1, Upto(k + 1)[j]>>] BY <1>1, <2>1, <3>1
    <3> QED BY <2>3, <3>1, <3>2, <3>3
  <2> HIDE DEF S
  <2>4. \A j \in 0..k : j \in S BY <2>2, <2>3, InductionUpTo
  <2> QED BY <2>4 DEF S
<1>3. PICK f : f = [k \in Nat |-> Upto(k)[k]] OBVIOUS
<1>4. \A k \in Nat : f[k] \in X BY <1>1, <1>3
<1>5. f \in [Nat -> X] BY <1>3, <1>4
<1>6. f[0] = base BY <1>1, <1>3
<1>7. ASSUME NEW k \in Nat PROVE f[k + 1] = G[<<k + 1, f[k]>>]
  <2>1. k + 1 \in Nat /\ k + 1 \in 1..(k + 1) /\ (k + 1) - 1 = k /\ k \in 0..k OBVIOUS
  <2>2. f[k + 1] = Upto(k + 1)[k + 1] /\ f[k] = Upto(k)[k] BY <1>3, <2>1
  <2>3. Upto(k + 1)[k + 1] = G[<<k + 1, Upto(k + 1)[k]>>] BY <1>1, <2>1
  <2> QED BY <1>2, <2>1, <2>2, <2>3
<1> QED BY <1>5, <1>6, <1>7 DEF Iterates

\* The loop "until v is in D, v := G[v]": what a state of X is taken to.
Loops(F, X, D, G) == \A v \in X : F[v] = IF v \in D THEN v ELSE F[G[v]]

\* Each round outside D lowers a natural number.
Ends(X, D, G, M) ==
  /\ G \in [X -> X] /\ M \in [X -> Nat]
  /\ \A v \in X : v \notin D => M[G[v]] < M[v]

\* A loop that ends computes a function.
LEMMA LoopSolved ==
  ASSUME NEW X, NEW D, NEW G, NEW M, Ends(X, D, G, M)
  PROVE  \E F \in [X -> X] : Loops(F, X, D, G)
<1>0. PICK Y : Y = [X -> X] OBVIOUS
<1> DEFINE Step(h) == [v \in X |-> IF v \in D THEN v ELSE h[G[v]]]
<1>1. \A h \in Y : Step(h) \in Y BY <1>0 DEF Ends
<1>2. PICK A : A = [p \in Nat \X Y |-> Step(p[2])] OBVIOUS
<1>3. A \in [Nat \X Y -> Y] BY <1>1, <1>2
<1>4. PICK same \in Y : same = [v \in X |-> v] BY <1>0
<1>5. PICK H \in [Nat -> Y] : H[0] = same /\ \A k \in Nat : H[k + 1] = A[<<k + 1, H[k]>>]
  <2>1. PICK H : Iterates(H, Y, same, A) BY <1>3, RecursionOnNat
  <2> QED BY <2>1 DEF Iterates
<1>6. ASSUME NEW k \in Nat, NEW v \in X
      PROVE  H[k + 1][v] = IF v \in D THEN v ELSE H[k][G[v]]
  <2>1. k + 1 \in Nat /\ H[k] \in Y BY <1>5
  <2>2. A[<<k + 1, H[k]>>] = Step(H[k])
    <3> HIDE DEF Step
    <3>1. <<k + 1, H[k]>> \in Nat \X Y BY <2>1
    <3>2. <<k + 1, H[k]>>[2] = H[k] OBVIOUS
    <3> QED BY <1>2, <3>1, <3>2
  <2> QED BY <1>5, <2>2
<1> HIDE DEF Step
<1>7. \A k \in Nat : \A u \in X : M[u] <= k => H[k + 1][u] = H[k][u]
  <2> DEFINE S == {k \in Nat : \A u \in X : M[u] <= k => H[k + 1][u] = H[k][u]}
  <2>1. 0 \in S
    <3>1. ASSUME NEW u \in X, M[u] <= 0 PROVE H[0 + 1][u] = H[0][u]
      <4>1. u \in D BY <3>1 DEF Ends
      <4> QED BY <1>4, <1>5, <1>6, <4>1
    <3> QED BY <3>1
  <2>2. ASSUME NEW k \in Nat, k \in S PROVE k + 1 \in S
    <3>1. ASSUME NEW u \in X, M[u] <= k + 1 PROVE H[(k + 1) + 1][u] = H[k + 1][u]
      <4>1. k + 1 \in Nat OBVIOUS
      <4>2. CASE u \in D BY <1>6, <4>1, <4>2
      <4>3. CASE u \notin D
        <5>1. G[u] \in X /\ M[G[u]] <= k BY <3>1, <4>3 DEF Ends
        <5>2. H[k + 1][G[u]] = H[k][G[u]] BY <2>2, <5>1
        <5> QED BY <1>6, <4>1, <4>3, <5>2
      <4> QED BY <4>2, <4>3
    <3>2. k + 1 \in Nat OBVIOUS
    <3> QED BY <3>1, <3>2
  <2> HIDE DEF S
  <2>3. Nat \subseteq S BY <2>1, <2>2, SetInduction
  <2> QED BY <2>3 DEF S
<1>8. \A k \in Nat : \A u \in X : M[u] <= k => H[k][u] = H[M[u]][u]
  <2> DEFINE S == {k \in Nat : \A u \in X : M[u] <= k => H[k][u] = H[M[u]][u]}
  <2>1. 0 \in S
    <3>1. ASSUME NEW u \in X, M[u] <= 0 PROVE M[u] = 0 BY <3>1 DEF Ends
    <3> QED BY <3>1
  <2>2. ASSUME NEW k \in Nat, k \in S PROVE k + 1 \in S
    <3>1. ASSUME NEW u \in X, M[u] <= k + 1 PROVE H[k + 1][u] = H[M[u]][u]
      <4>1. M[u] = k + 1 \/ M[u] <= k BY <3>1 DEF Ends
      <4>2. CASE M[u] <= k BY <1>7, <2>2, <4>2
      <4> QED BY <4>1, <4>2
    <3>2. k + 1 \in Nat OBVIOUS
    <3> QED BY <3>1, <3>2
  <2> HIDE DEF S
  <2>3. Nat \subseteq S BY <2>1, <2>2, SetInduction
  <2> QED BY <2>3 DEF S
<1>9. PICK F : F = [v \in X |-> H[M[v]][v]] OBVIOUS
<1>10. F \in [X -> X]
  <2>1. \A v \in X : H[M[v]][v] \in X BY <1>0, <1>5 DEF Ends
  <2> QED BY <1>9, <2>1
<1>11. ASSUME NEW v \in X PROVE F[v] = IF v \in D THEN v ELSE F[G[v]]
  <2>1. M[v] \in Nat /\ F[v] = H[M[v]][v] BY <1>9 DEF Ends
  <2>2. CASE v \in D
    <3>1. CASE M[v] = 0 BY <1>4, <1>5, <2>1, <2>2, <3>1
    <3>2. CASE M[v] # 0
      <4>1. M[v] - 1 \in Nat /\ (M[v] - 1) + 1 = M[v] BY <2>1, <3>2
      <4>2. H[(M[v] - 1) + 1][v] = v BY <1>6, <2>2, <4>1
      <4> QED BY <2>1, <2>2, <4>1, <4>2
    <3> QED BY <3>1, <3>2
  <2>3. CASE v \notin D
    <3>1. G[v] \in X /\ M[G[v]] \in Nat /\ M[G[v]] < M[v] BY <2>3 DEF Ends
    <3>2. M[v] - 1 \in Nat /\ (M[v] - 1) + 1 = M[v] /\ M[G[v]] <= M[v] - 1 BY <2>1, <3>1
    <3>3. H[(M[v] - 1) + 1][v] = H[M[v] - 1][G[v]] BY <1>6, <2>3, <3>2
    <3>4. H[M[v] - 1][G[v]] = H[M[G[v]]][G[v]] BY <1>8, <3>1, <3>2
    <3>5. F[G[v]] = H[M[G[v]]][G[v]] BY <1>9, <3>1
    <3> QED BY <2>1, <2>3, <3>2, <3>3, <3>4, <3>5
  <2> QED BY <2>2, <2>3
<1> QED BY <1>10, <1>11 DEF Loops

\* What every round keeps holds at the end, and the end is in D.
LEMMA LoopRule ==
  ASSUME NEW X, NEW D, NEW G, NEW M, Ends(X, D, G, M), NEW F, Loops(F, X, D, G),
         NEW P \in SUBSET X, \A v \in P : v \notin D => G[v] \in P
  PROVE  \A v \in P : F[v] \in P /\ F[v] \in D
<1> DEFINE S == {m \in Nat : \A v \in P : M[v] <= m => F[v] \in P /\ F[v] \in D}
<1>1. 0 \in S
  <2>1. ASSUME NEW v \in P, M[v] <= 0 PROVE F[v] = v /\ v \in D BY <2>1 DEF Ends, Loops
  <2> QED BY <2>1
<1>2. ASSUME NEW m \in Nat, m \in S PROVE m + 1 \in S
  <2>1. ASSUME NEW v \in P, M[v] <= m + 1 PROVE F[v] \in P /\ F[v] \in D
    <3>1. CASE v \in D BY <3>1 DEF Loops
    <3>2. CASE v \notin D
      <4>1. F[v] = F[G[v]] /\ G[v] \in P BY <3>2 DEF Loops
      <4>2. M[G[v]] <= m BY <2>1, <3>2 DEF Ends
      <4> QED BY <1>2, <4>1, <4>2
    <3> QED BY <3>1, <3>2
  <2>2. m + 1 \in Nat OBVIOUS
  <2> QED BY <2>1, <2>2
<1> HIDE DEF S
<1>3. Nat \subseteq S BY <1>1, <1>2, SetInduction
<1>4. ASSUME NEW v \in P PROVE F[v] \in P /\ F[v] \in D
  <2>1. M[v] \in S /\ M[v] <= M[v] BY <1>3 DEF Ends
  <2> QED BY <2>1 DEF S
<1> QED BY <1>4

------------------------------------------------------------------------------
(* First and last places                                                     *)

\* Of the places of A, the leftmost with the largest value.
First(i, A, f) == i \in A /\ \A j \in A : f[j] < f[i] \/ (f[j] = f[i] /\ i <= j)

\* There is one.
LEMMA LeftmostLargest ==
  ASSUME NEW n \in Nat, NEW A \in SUBSET (1..n), A # {}, NEW f, \A i \in A : f[i] \in Int
  PROVE  \E i : First(i, A, f)
<1> DEFINE Best(i, k) == \A j \in A : j <= k => f[j] < f[i] \/ (f[j] = f[i] /\ i <= j)
<1> DEFINE S == {k \in 0..n : (\A j \in A : j > k) \/ \E i \in A : Best(i, k)}
<1>1. 0 \in S OBVIOUS
<1>2. ASSUME NEW k \in 0..(n - 1), k \in S PROVE k + 1 \in S
  <2>1. k + 1 \in 0..n OBVIOUS
  <2>2. CASE k + 1 \notin A
    <3>1. \A j \in A : j <= k + 1 => j <= k BY <2>2
    <3>2. \A j \in A : j > k => j > k + 1 BY <2>2
    <3> QED BY <1>2, <2>1, <3>1, <3>2
  <2>3. CASE k + 1 \in A /\ \A j \in A : j > k
    <3>1. \A j \in A : j <= k + 1 => j = k + 1 BY <2>3
    <3>2. Best(k + 1, k + 1) BY <3>1, <2>3
    <3> QED BY <2>1, <2>3, <3>2
  <2>4. CASE k + 1 \in A /\ \E i \in A : Best(i, k)
    <3>1. PICK i \in A : Best(i, k) BY <2>4
    <3>2. \A j \in A : j <= k + 1 => j <= k \/ j = k + 1 OBVIOUS
    <3>3. f[i] \in Int /\ f[k + 1] \in Int BY <2>4
    <3>4. CASE f[k + 1] > f[i]
      <4>1. Best(k + 1, k + 1)
        <5>1. ASSUME NEW j \in A, j <= k + 1
              PROVE  f[j] < f[k + 1] \/ (f[j] = f[k + 1] /\ k + 1 <= j)
          BY <3>1, <3>2, <3>3, <3>4, <5>1
        <5> QED BY <5>1
      <4> QED BY <2>1, <2>4, <4>1
    <3>5. CASE f[k + 1] <= f[i] /\ i <= k + 1
      <4>1. Best(i, k + 1) BY <3>1, <3>2, <3>3, <3>5
      <4> QED BY <2>1, <4>1
    <3>6. CASE f[k + 1] < f[i]
      <4>1. Best(i, k + 1) BY <3>1, <3>2, <3>3, <3>6
      <4> QED BY <2>1, <4>1
    <3>7. CASE f[k + 1] = f[i] /\ i > k + 1
      <4>1. \A j \in A : j <= k => f[j] < f[i] BY <3>1, <3>7
      <4>2. Best(k + 1, k + 1) BY <3>2, <3>3, <3>7, <4>1
      <4> QED BY <2>1, <2>4, <4>2
    <3> QED BY <3>3, <3>4, <3>5, <3>6, <3>7
  <2> QED BY <1>2, <2>2, <2>3, <2>4
<1> HIDE DEF S
<1>3. \A k \in 0..n : k \in S BY <1>1, <1>2, InductionUpTo
<1>4. n \in 0..n /\ \A j \in A : j <= n OBVIOUS
<1>5. ~(\A j \in A : j > n)
  <2>1. PICK a \in A : TRUE OBVIOUS
  <2>2. ~(a > n) BY <1>4
  <2> QED BY <2>2
<1> QED BY <1>3, <1>4, <1>5 DEF S, First

\* The rightmost with the smallest.
Last(i, A, f) == i \in A /\ \A j \in A : f[j] > f[i] \/ (f[j] = f[i] /\ j <= i)

\* There is one too.
LEMMA RightmostSmallest ==
  ASSUME NEW n \in Nat, NEW A \in SUBSET (1..n), A # {}, NEW f, \A i \in A : f[i] \in Int
  PROVE  \E i : Last(i, A, f)
<1> DEFINE B == {i \in 1..n : n + 1 - i \in A}
<1> DEFINE g == [i \in B |-> -f[n + 1 - i]]
<1>1. PICK a \in A : TRUE OBVIOUS
<1>2. n + 1 - a \in B OBVIOUS
<1>3. B \in SUBSET (1..n) /\ B # {} /\ \A i \in B : g[i] \in Int
  <2>1. ASSUME NEW i \in B PROVE g[i] \in Int
    <3>1. n + 1 - i \in A OBVIOUS
    <3>2. f[n + 1 - i] \in Int BY <3>1
    <3> QED BY <3>2
  <2> QED BY <1>2, <2>1
<1>4. PICK b \in B : \A j \in B : g[j] < g[b] \/ (g[j] = g[b] /\ b <= j)
  <2> HIDE DEF B, g
  <2>1. PICK b : First(b, B, g) BY <1>3, LeftmostLargest
  <2> QED BY <2>1 DEF First
<1>5. n + 1 - b \in A OBVIOUS
<1>6. ASSUME NEW j \in A PROVE f[j] > f[n + 1 - b] \/ (f[j] = f[n + 1 - b] /\ j <= n + 1 - b)
  <2>1. n + 1 - j \in B /\ n + 1 - (n + 1 - j) = j OBVIOUS
  <2>2. g[n + 1 - j] < g[b] \/ (g[n + 1 - j] = g[b] /\ b <= n + 1 - j) BY <1>4, <2>1
  <2>3. g[n + 1 - j] = -f[j] /\ g[b] = -f[n + 1 - b] BY <2>1
  <2>4. f[j] \in Int /\ f[n + 1 - b] \in Int BY <1>5
  <2> HIDE DEF g
  <2> QED BY <2>2, <2>3, <2>4
<1> HIDE DEF B, g
<1> QED BY <1>5, <1>6 DEF Last

\* The maximum of the values at 1..n.
LEMMA MaxOfValues ==
  ASSUME NEW n \in Nat \ {0}, NEW f \in [1..n -> Int], NEW S, S = {f[i] : i \in 1..n}
  PROVE  Max(S) \in S /\ \A x \in S : x <= Max(S)
<1>1. PICK i \in 1..n : \A j \in 1..n : f[j] < f[i] \/ (f[j] = f[i] /\ i <= j)
  <2>1. 1..n # {} /\ 1..n \in SUBSET (1..n) /\ \A k \in 1..n : f[k] \in Int OBVIOUS
  <2>2. PICK i : First(i, 1..n, f) BY <2>1, LeftmostLargest
  <2> QED BY <2>2 DEF First
<1>2. f[i] \in S /\ \A x \in S : x <= f[i] BY <1>1
<1>3. \E x \in S : \A y \in S : x >= y BY <1>2
<1> HIDE <1>1
<1>4. Max(S) = CHOOSE x \in S : \A y \in S : x >= y BY DEF Max
<1>5. Max(S) \in S /\ \A y \in S : Max(S) >= y BY <1>3, <1>4
<1>6. \A x \in S : x \in Int OBVIOUS
<1> QED BY <1>5, <1>6

------------------------------------------------------------------------------
(* Rows                                                                      *)

Widths(n) == [1..n -> Int]

\* The limits of a child are in order.
FlexOK(c) == c \in FlexConstraint /\ (c.max = 0 \/ c.max >= c.min)

\* A basis is between minimum and limit.
LEMMA BasisFacts ==
  ASSUME NEW c, FlexOK(c)
  PROVE  /\ Minimum(c) \in Int /\ Minimum(c) >= 1
         /\ Basis(c) \in Int /\ Basis(c) >= Minimum(c)
         /\ c.max > 0 => Basis(c) <= c.max
<1>1. c.min \in Nat /\ c.max \in Nat /\ c.basis \in Nat BY DEF FlexOK, FlexConstraint
<1>2. c.max = 0 \/ c.max >= c.min BY DEF FlexOK
<1>3. Minimum(c) \in Int /\ Minimum(c) >= 1 /\ (c.max > 0 => Minimum(c) <= c.max)
  BY <1>1, <1>2 DEF Minimum, AtLeast
<1>4. PICK w : w = AtLeast(Minimum(c), c.basis) OBVIOUS
<1>5. w \in Int /\ w >= Minimum(c) BY <1>1, <1>3, <1>4 DEF AtLeast
<1>6. Basis(c) = AtLeast(1, IF c.max > 0 THEN AtMost(c.max, w) ELSE w) BY <1>4 DEF Basis
<1> QED BY <1>1, <1>3, <1>5, <1>6 DEF AtLeast, AtMost

\* A round of shrinking stays at or above the minima; while it has cells to take
\* and a child above its minimum, it takes one.
LEMMA ShrinkRoundFacts ==
  ASSUME NEW n \in Nat, NEW children, \A i \in 1..n : FlexOK(children[i]),
         NEW v \in Widths(n), NEW excess \in Int, NEW r, r = ShrinkRound(v, children, excess)
  PROVE  /\ r \in Widths(n)
         /\ \A i \in 1..n : r[i] <= v[i] /\ (v[i] >= Minimum(children[i]) => r[i] >= Minimum(children[i]))
         /\ r # v => sumInts(r) < sumInts(v)
         /\ r = v /\ excess > 0 => \A i \in 1..n : v[i] <= Minimum(children[i])
<1> DEFINE shrinkable == {i \in DOMAIN v : v[i] > Minimum(children[i])}
<1> DEFINE Before(i) == Cardinality({j \in shrinkable : j < i})
<1>1. DOMAIN v = 1..n BY DEF Widths
<1>2. r = [i \in DOMAIN v |-> IF i \in shrinkable /\ Before(i) < excess THEN v[i] - 1 ELSE v[i]]
  BY DEF ShrinkRound
<1>3. \A i \in 1..n : v[i] \in Int /\ Minimum(children[i]) \in Int BY BasisFacts DEF Widths
<1>4. \A i \in 1..n : i \in shrinkable <=> v[i] > Minimum(children[i]) BY <1>1
<1>5. shrinkable \in SUBSET (1..n) BY <1>1
<1> HIDE DEF Before
<1>6. \A i \in 1..n : r[i] = IF i \in shrinkable /\ Before(i) < excess THEN v[i] - 1 ELSE v[i]
  BY <1>1, <1>2
<1>7. \A i \in 1..n : r[i] \in Int /\ r[i] <= v[i]
                      /\ (v[i] >= Minimum(children[i]) => r[i] >= Minimum(children[i]))
  <2> HIDE DEF shrinkable
  <2> QED BY <1>3, <1>4, <1>6
<1>8. r \in Widths(n)
  <2>1. DOMAIN r = 1..n BY <1>1, <1>2
  <2>2. r = [i \in 1..n |-> r[i]] BY <1>1, <1>2
  <2> QED BY <1>7, <2>2 DEF Widths
<1>9. ASSUME r # v PROVE sumInts(r) < sumInts(v)
  <2>1. PICK i \in 1..n : r[i] # v[i] BY <1>8, <1>9 DEF Widths
  <2>2. r[i] < v[i] BY <1>3, <1>7, <2>1
  <2> QED BY <1>7, <1>8, <2>2, SumMonotone DEF Widths
<1>10. ASSUME r = v, excess > 0, NEW i \in 1..n PROVE v[i] <= Minimum(children[i])
  <2> SUFFICES ASSUME shrinkable # {} PROVE FALSE
    BY <1>3, <1>4
  <2>1. PICK z : z = [j \in 1..n |-> 0] OBVIOUS
  <2>2. \A j \in shrinkable : z[j] = 0 /\ z[j] \in Int BY <1>5, <2>1
  <2>3. PICK k : First(k, shrinkable, z)
    <3> HIDE DEF shrinkable
    <3> QED BY <1>5, <2>2, LeftmostLargest
  <2>4. k \in shrinkable /\ \A j \in shrinkable : k <= j
    <3> HIDE DEF shrinkable
    <3> QED BY <2>2, <2>3 DEF First
  <2>5. {j \in shrinkable : j < k} = {} BY <1>5, <2>4
  <2>6. Before(k) = 0 BY <2>5, FS_EmptySet DEF Before
  <2>7. k \in 1..n /\ r[k] = v[k] - 1
    <3> HIDE DEF shrinkable
    <3> QED BY <1>5, <1>6, <1>10, <2>4, <2>6
  <2> QED BY <1>3, <1>10, <2>7
<1> QED BY <1>7, <1>8, <1>9, <1>10

\* The shrinking loop ends within the content, if the minima do.
LEMMA ShrinkFacts ==
  ASSUME NEW n \in Nat, NEW children, \A i \in 1..n : FlexOK(children[i]),
         NEW w \in Widths(n), \A i \in 1..n : w[i] >= Minimum(children[i]),
         NEW content \in Int, sumInts([i \in 1..n |-> Minimum(children[i])]) <= content,
         NEW s, s = Shrink(w, children, content)
  PROVE  /\ s \in Widths(n)
         /\ \A i \in 1..n : s[i] >= Minimum(children[i]) /\ s[i] <= w[i]
         /\ sumInts(s) <= content
<1> DEFINE Round(v) == ShrinkRound(v, children, sumInts(v) - content)
<1> DEFINE Stop(v) == sumInts(v) <= content \/ Round(v) = v
<1> DEFINE rhs(f) == [v \in [DOMAIN w -> Int] |-> IF Stop(v) THEN v ELSE f[Round(v)]]
<1>1. PICK r : r = CHOOSE f : f = rhs(f) OBVIOUS
<1>2. s = r[w] BY <1>1 DEF Shrink
<1>3. [DOMAIN w -> Int] = Widths(n) BY DEF Widths
<1>4. ASSUME NEW v \in Widths(n)
      PROVE  /\ sumInts(v) \in Int /\ Round(v) \in Widths(n)
             /\ \A i \in 1..n : Round(v)[i] <= v[i]
                  /\ (v[i] >= Minimum(children[i]) => Round(v)[i] >= Minimum(children[i]))
             /\ Round(v) # v => sumInts(Round(v)) < sumInts(v)
             /\ Round(v) = v /\ sumInts(v) > content => \A i \in 1..n : v[i] <= Minimum(children[i])
  <2>1. sumInts(v) \in Int BY SumType DEF Widths
  <2>2. sumInts(v) - content \in Int /\ (sumInts(v) > content => sumInts(v) - content > 0) BY <2>1
  <2>3. PICK e \in Int : e = sumInts(v) - content BY <2>2
  <2>4. PICK q : q = ShrinkRound(v, children, e) OBVIOUS
  <2>5. q = Round(v) BY <2>3, <2>4
  <2> HIDE DEF Round
  <2>6. /\ q \in Widths(n)
        /\ \A i \in 1..n : q[i] <= v[i] /\ (v[i] >= Minimum(children[i]) => q[i] >= Minimum(children[i]))
        /\ q # v => sumInts(q) < sumInts(v)
        /\ q = v /\ e > 0 => \A i \in 1..n : v[i] <= Minimum(children[i])
    BY <2>4, ShrinkRoundFacts
  <2> QED BY <2>1, <2>2, <2>3, <2>5, <2>6
<1>5. PICK D : D = {v \in Widths(n) : Stop(v)} OBVIOUS
<1>6. PICK G : G = [v \in Widths(n) |-> Round(v)] OBVIOUS
<1>7. PICK M : M = [v \in Widths(n) |-> AtLeast(0, sumInts(v) - content)] OBVIOUS
<1> HIDE DEF Round
<1>8. Ends(Widths(n), D, G, M)
  <2>1. G \in [Widths(n) -> Widths(n)] BY <1>4, <1>6
  <2>2. ASSUME NEW v \in Widths(n) PROVE M[v] \in Nat
    <3>1. sumInts(v) \in Int /\ M[v] = AtLeast(0, sumInts(v) - content) BY <1>4, <1>7
    <3> QED BY <3>1 DEF AtLeast
  <2>3. M \in [Widths(n) -> Nat] BY <1>7, <2>2
  <2>4. ASSUME NEW v \in Widths(n), v \notin D PROVE M[G[v]] < M[v]
    <3>1. sumInts(v) > content /\ Round(v) # v BY <1>4, <1>5, <2>4
    <3>2. G[v] = Round(v) /\ Round(v) \in Widths(n) BY <1>4, <1>6
    <3>3. sumInts(Round(v)) < sumInts(v) /\ sumInts(Round(v)) \in Int /\ sumInts(v) \in Int
      BY <1>4, <3>1, <3>2
    <3>4. M[v] = AtLeast(0, sumInts(v) - content) /\ M[G[v]] = AtLeast(0, sumInts(Round(v)) - content)
      BY <1>7, <3>2
    <3> QED BY <3>1, <3>3, <3>4 DEF AtLeast
  <2> QED BY <2>1, <2>3, <2>4 DEF Ends
<1>9. r = rhs(r)
  <2>1. PICK F \in [Widths(n) -> Widths(n)] : Loops(F, Widths(n), D, G) BY <1>8, LoopSolved
  <2>2. ASSUME NEW v \in Widths(n) PROVE F[v] = IF Stop(v) THEN v ELSE F[Round(v)]
    BY <1>5, <1>6, <2>1 DEF Loops
  <2> HIDE DEF Stop
  <2>3. F = [v \in Widths(n) |-> IF Stop(v) THEN v ELSE F[Round(v)]] BY <2>1, <2>2
  <2>4. F = rhs(F) BY <1>3, <2>3
  <2> QED BY <1>1, <2>4
<1>10. Loops(r, Widths(n), D, G)
  <2>1. ASSUME NEW v \in Widths(n) PROVE r[v] = IF v \in D THEN v ELSE r[G[v]]
    <3>1. r[v] = IF Stop(v) THEN v ELSE r[Round(v)]
      <4> HIDE DEF Stop
      <4> QED BY <1>3, <1>9
    <3> QED BY <1>5, <1>6, <3>1
  <2> QED BY <2>1 DEF Loops
<1>11. PICK P : P = {v \in Widths(n) : \A i \in 1..n : v[i] >= Minimum(children[i]) /\ v[i] <= w[i]}
  OBVIOUS
<1>12. ASSUME NEW v \in P, v \notin D PROVE G[v] \in P
  <2>1. v \in Widths(n) BY <1>11
  <2>2. G[v] = Round(v) /\ Round(v) \in Widths(n) BY <1>4, <1>6, <2>1
  <2>3. ASSUME NEW i \in 1..n
        PROVE  Round(v)[i] >= Minimum(children[i]) /\ Round(v)[i] <= w[i]
    <3>1. v[i] \in Int /\ w[i] \in Int /\ Round(v)[i] \in Int BY <2>1, <2>2 DEF Widths
    <3>2. v[i] >= Minimum(children[i]) /\ v[i] <= w[i] BY <1>11
    <3>3. Round(v)[i] <= v[i] /\ Round(v)[i] >= Minimum(children[i]) BY <1>4, <2>1, <3>2
    <3> QED BY <3>1, <3>2, <3>3
  <2> QED BY <1>11, <2>2, <2>3
<1>13. w \in P /\ P \in SUBSET Widths(n)
  <2>1. \A i \in 1..n : w[i] <= w[i] BY DEF Widths
  <2> QED BY <1>11, <2>1
<1>14. r[w] \in P /\ r[w] \in D BY <1>8, <1>10, <1>12, <1>13, LoopRule
<1>15. s \in Widths(n) /\ \A i \in 1..n : s[i] >= Minimum(children[i]) /\ s[i] <= w[i]
  BY <1>2, <1>11, <1>14
<1>16. sumInts(s) <= content
  <2> SUFFICES ASSUME sumInts(s) > content PROVE FALSE BY <1>4, <1>15
  <2>1. Round(s) = s BY <1>2, <1>4, <1>5, <1>14, <1>15
  <2>2. \A i \in 1..n : s[i] <= Minimum(children[i]) BY <1>4, <1>15, <2>1
  <2>3. PICK m : m = [i \in 1..n |-> Minimum(children[i])] OBVIOUS
  <2>4. m \in Widths(n) BY <2>3, BasisFacts DEF Widths
  <2>5. sumInts(s) <= sumInts(m) BY <1>15, <2>2, <2>3, <2>4, SumMonotone DEF Widths
  <2>6. sumInts(m) \in Int /\ sumInts(s) \in Int BY <1>15, <2>4, SumType DEF Widths
  <2> QED BY <2>3, <2>5, <2>6
<1> QED BY <1>15, <1>16

\* Products of integers.
LEMMA Products ==
  /\ \A a \in Int, x \in Int, y \in Int : a >= 1 /\ a * x <= y * a => x <= y
  /\ \A a \in Int, x \in Int, y \in Int : a >= 0 /\ x <= y => a * x <= a * y
  /\ \A a \in Int, x \in Int : a >= 0 /\ x >= 0 => a * x >= 0
<1>1. ASSUME NEW a \in Int, NEW x \in Int, NEW y \in Int, a >= 1, a * x <= y * a PROVE x <= y
  <2> SUFFICES ASSUME x >= y + 1 PROVE FALSE OBVIOUS
  <2>1. a * (x - y) >= 1 BY <1>1
  <2>2. a * (x - y) = a * x - y * a OBVIOUS
  <2> QED BY <1>1, <2>1, <2>2
<1>2. ASSUME NEW a \in Int, NEW x \in Int, NEW y \in Int, a >= 0, x <= y PROVE a * x <= a * y
  <2>1. a * (y - x) >= 0 BY <1>2
  <2>2. a * (y - x) = a * y - a * x OBVIOUS
  <2> QED BY <2>1, <2>2
<1>3. ASSUME NEW a \in Int, NEW x \in Int, a >= 0, x >= 0 PROVE a * x >= 0 BY <1>3
<1> QED BY <1>1, <1>2, <1>3

\* A division of a natural number.
LEMMA Quotient ==
  ASSUME NEW a \in Nat, NEW b \in Nat \ {0}
  PROVE  a \div b \in Nat /\ a % b \in Nat /\ b * (a \div b) <= a
  OBVIOUS

\* The share of a growing child: what the division gives it, up to its limit.
LEMMA ShareFacts ==
  ASSUME NEW c, FlexOK(c), c.grow > 0, NEW width \in Int, ~Capped(c, width),
         NEW spare \in Nat, NEW total \in Nat \ {0},
         NEW share, share = Share(c, width, spare * c.grow, total)
  PROVE  /\ share \in Nat
         /\ total * share <= spare * c.grow
         /\ c.max > 0 => width + share <= c.max
<1>1. c.grow \in Nat /\ c.max \in Nat BY DEF FlexOK, FlexConstraint
<1>2. PICK num \in Nat : num = spare * c.grow
  <2>1. spare * c.grow \in Int /\ spare * c.grow >= 0 BY <1>1, Products
  <2> QED BY <2>1
<1>3. PICK q \in Nat : q = num \div total BY Quotient
<1>4. total * q <= num BY <1>3, Quotient
<1>5. share = IF c.max > 0 THEN AtMost(c.max - width, q) ELSE q BY <1>2, <1>3 DEF Share
<1>6. c.max > 0 => c.max - width > 0 BY <1>1 DEF Capped
<1>7. share \in Nat /\ share <= q /\ (c.max > 0 => width + share <= c.max)
  BY <1>1, <1>5, <1>6 DEF AtMost
<1>8. total * share <= total * q BY <1>7, Products
<1>9. total * share \in Int /\ total * q \in Int BY <1>7
<1> QED BY <1>2, <1>4, <1>7, <1>8, <1>9

\* The members of a set with fewer than e members before them.
Ranked(open, rem, e) ==
  {i \in open : Cardinality({j \in open : rem[j] > rem[i] \/ (rem[j] = rem[i] /\ j < i)}) < e}

\* There are at most e of them.
LEMMA AtMostRanked ==
  ASSUME NEW n \in Nat, NEW open \in SUBSET (1..n), NEW rem, \A i \in open : rem[i] \in Int,
         NEW e \in Nat, NEW E, E = Ranked(open, rem, e)
  PROVE  Cardinality(E) \in Nat /\ Cardinality(E) <= e
<1> DEFINE Ahead(i) == {j \in open : rem[j] > rem[i] \/ (rem[j] = rem[i] /\ j < i)}
<1>1. IsFiniteSet(1..n) /\ IsFiniteSet(open)
  <2>1. IsFiniteSet(1..n) BY FS_Interval
  <2> QED BY <2>1, FS_Subset
<1>2. E \in SUBSET open /\ \A i \in E : Cardinality(Ahead(i)) < e BY DEF Ranked
<1>3. IsFiniteSet(E) BY <1>1, <1>2, FS_Subset
<1>4. Cardinality(E) \in Nat BY <1>3, FS_CardinalityType
<1>5. CASE E = {}
  <2>1. Cardinality(E) = 0 BY <1>5, FS_EmptySet
  <2> QED BY <2>1
<1>6. CASE E # {}
  <2>1. PICK i : Last(i, E, rem)
    <3>1. E \in SUBSET (1..n) /\ \A k \in E : rem[k] \in Int BY <1>2
    <3> QED BY <1>6, <3>1, RightmostSmallest
  <2>2. i \in E /\ \A j \in E : rem[j] > rem[i] \/ (rem[j] = rem[i] /\ j <= i) BY <2>1 DEF Last
  <2>3. \A j \in E : j # i => j < i \/ ~(j <= i) BY <1>2, <2>2
  <2>4. E \ {i} \subseteq Ahead(i) BY <1>2, <2>2, <2>3
  <2>5. IsFiniteSet(Ahead(i)) BY <1>1, FS_Subset
  <2> HIDE DEF Ahead
  <2>6. Cardinality(E \ {i}) <= Cardinality(Ahead(i)) BY <2>4, <2>5, FS_Subset
  <2>7. Cardinality(E \ {i}) = Cardinality(E) - 1 BY <1>3, <2>2, FS_RemoveElement
  <2>8. Cardinality(Ahead(i)) < e /\ Cardinality(Ahead(i)) \in Nat
    BY <1>2, <2>2, <2>5, FS_CardinalityType
  <2> QED BY <1>4, <2>6, <2>7, <2>8
<1> QED BY <1>4, <1>5, <1>6

\* A child that takes part in a pass.
Growing(c, width) == c.grow > 0 /\ ~Capped(c, width)

\* One pass of Grow: no child shrinks or passes its limit, the sum stays within
\* the content, and it rises while a child can grow and cells are left.
LEMMA GrowPassFacts ==
  ASSUME NEW n \in Nat, NEW children, \A i \in 1..n : FlexOK(children[i]),
         NEW v \in Widths(n), NEW spare \in Nat \ {0}, NEW r, r = GrowPass(v, children, spare)
  PROVE  /\ r \in Widths(n)
         /\ \A i \in 1..n : v[i] <= r[i]
         /\ \A i \in 1..n : LET c == children[i] IN c.max > 0 /\ v[i] <= c.max => r[i] <= c.max
         /\ sumInts(r) <= sumInts(v) + spare
         /\ r # v => sumInts(r) > sumInts(v)
         /\ r = v => \A i \in 1..n : ~Growing(children[i], v[i])
<1> DEFINE growing == {i \in DOMAIN v : children[i].grow > 0 /\ ~Capped(children[i], v[i])}
<1> DEFINE grows == [i \in DOMAIN v |-> IF i \in growing THEN children[i].grow ELSE 0]
<1> DEFINE totalGrow == sumInts(grows)
<1> DEFINE share == [i \in DOMAIN v |->
                       IF i \in growing
                       THEN Share(children[i], v[i], spare * children[i].grow, totalGrow) ELSE 0]
<1> DEFINE rem(i) == (spare * children[i].grow) % totalGrow
<1> DEFINE left == spare - sumInts(share)
<1> DEFINE open == {i \in growing : ~Capped(children[i], v[i] + share[i])}
<1> DEFINE Before(i) == Cardinality({j \in open : rem(j) > rem(i) \/ (rem(j) = rem(i) /\ j < i)})
<1>1. r = [i \in DOMAIN v |-> v[i] + share[i] + (IF i \in open /\ Before(i) < left THEN 1 ELSE 0)]
  BY DEF GrowPass
<1>2. DOMAIN v = 1..n /\ \A i \in 1..n : v[i] \in Int BY DEF Widths
<1>3. \A i \in 1..n : children[i].grow \in Nat /\ children[i].max \in Nat
  BY DEF FlexOK, FlexConstraint
<1>4. \A i \in 1..n : i \in growing <=> Growing(children[i], v[i]) BY <1>2 DEF Growing
<1>5. growing \in SUBSET (1..n) BY <1>2
<1>6. grows \in Widths(n) /\ \A i \in 1..n : grows[i] = IF i \in growing THEN children[i].grow ELSE 0
  <2> HIDE DEF growing
  <2> QED BY <1>2, <1>3 DEF Widths
<1>7. PICK zero \in Widths(n) : sumInts(zero) = 0 /\ \A i \in 1..n : zero[i] = 0
  <2>1. {} \in SUBSET (1..n) OBVIOUS
  <2>2. sumInts(Ones({}, n)) = 0 BY <2>1, SumOnes, FS_EmptySet
  <2>3. Ones({}, n) \in Widths(n) /\ \A i \in 1..n : Ones({}, n)[i] = 0 BY DEF Ones, Widths
  <2> QED BY <2>2, <2>3
<1>8. totalGrow \in Nat /\ (growing # {} => totalGrow > 0)
  <2> HIDE DEF growing, grows
  <2>1. totalGrow \in Int BY <1>6, SumType DEF Widths
  <2>2. \A i \in 1..n : zero[i] <= grows[i] BY <1>3, <1>6, <1>7
  <2>3. totalGrow >= 0 BY <1>6, <1>7, <2>1, <2>2, SumMonotone DEF Widths
  <2>4. ASSUME growing # {} PROVE totalGrow > 0
    <3>1. PICK i \in growing : TRUE BY <2>4
    <3>2. i \in 1..n /\ zero[i] < grows[i] BY <1>3, <1>4, <1>5, <1>6, <1>7 DEF Growing
    <3> QED BY <1>6, <1>7, <2>1, <2>2, <3>2, SumMonotone DEF Widths
  <2> QED BY <2>1, <2>3, <2>4
<1> HIDE DEF totalGrow, grows
<1>9. ASSUME NEW i \in 1..n
      PROVE  /\ share[i] \in Nat /\ totalGrow * share[i] <= spare * grows[i]
             /\ i \notin growing => share[i] = 0
             /\ i \in growing /\ children[i].max > 0 => v[i] + share[i] <= children[i].max
  <2>1. CASE i \in growing
    <3>1. share[i] = Share(children[i], v[i], spare * children[i].grow, totalGrow) BY <1>2, <2>1
    <3>2. children[i].grow > 0 /\ ~Capped(children[i], v[i]) BY <2>1
    <3>3. totalGrow \in Nat \ {0} /\ spare \in Nat /\ v[i] \in Int BY <1>2, <1>8, <2>1
    <3>4. grows[i] = children[i].grow BY <1>6, <2>1
    <3>5. PICK x : x = share[i] OBVIOUS
    <3>6. PICK c : c = children[i] /\ FlexOK(c) OBVIOUS
    <3> HIDE DEF share, growing
    <3>7. x \in Nat /\ totalGrow * x <= spare * c.grow /\ (c.max > 0 => v[i] + x <= c.max)
      BY <3>1, <3>2, <3>3, <3>5, <3>6, ShareFacts
    <3> QED BY <2>1, <3>4, <3>5, <3>6, <3>7
  <2>2. CASE i \notin growing
    <3>1. share[i] = 0 /\ grows[i] = 0 BY <1>2, <1>6, <2>2
    <3> HIDE DEF share, growing
    <3> QED BY <1>8, <2>2, <3>1
  <2> QED BY <2>1, <2>2
<1>10. share \in Widths(n)
  <2>1. share = [i \in 1..n |-> share[i]] BY <1>2
  <2> HIDE DEF share
  <2> QED BY <1>9, <2>1 DEF Widths
<1>11. sumInts(share) \in Int /\ sumInts(share) <= spare
  <2> HIDE DEF share, growing
  <2>1. sumInts(share) \in Int BY <1>10, SumType DEF Widths
  <2>2. CASE growing = {}
    <3>1. \A i \in 1..n : share[i] <= zero[i] BY <1>7, <1>9, <2>2
    <3>2. sumInts(share) <= 0 BY <1>7, <1>10, <3>1, SumMonotone DEF Widths
    <3> QED BY <2>1, <3>2
  <2>3. CASE growing # {}
    <3>1. totalGrow * sumInts(share) <= spare * sumInts(grows)
      <4>1. Scaled(totalGrow, share, spare, grows, n) BY <1>9 DEF Scaled
      <4>2. totalGrow \in Int /\ spare \in Int BY <1>8
      <4> QED BY <1>6, <1>10, <4>1, <4>2, SumScaled DEF Widths
    <3>2. sumInts(grows) = totalGrow BY DEF totalGrow
    <3>3. totalGrow \in Int /\ totalGrow >= 1 /\ spare \in Int BY <1>8, <2>3
    <3> HIDE DEF totalGrow
    <3>4. totalGrow * sumInts(share) <= spare * totalGrow BY <3>1, <3>2
    <3> QED BY <2>1, <3>3, <3>4, Products
  <2> QED BY <2>2, <2>3
<1>12. left \in Nat BY <1>11
<1>13. open \in SUBSET growing /\ \A i \in open : ~Capped(children[i], v[i] + share[i])
  OBVIOUS
<1>14. PICK E : E = {i \in open : Before(i) < left} OBVIOUS
<1>15. Cardinality(E) \in Nat /\ Cardinality(E) <= left
  <2>1. PICK m : m = [i \in open |-> rem(i)] OBVIOUS
  <2>2. \A i \in open : m[i] = rem(i) BY <2>1
  <2>3. ASSUME NEW i \in open PROVE m[i] \in Int
    <3>1. totalGrow \in Nat \ {0} /\ i \in 1..n BY <1>5, <1>8, <1>13
    <3>2. spare * children[i].grow \in Nat
      <4>1. spare * children[i].grow \in Int /\ spare * children[i].grow >= 0 BY <1>3, <3>1, Products
      <4> QED BY <4>1
    <3>3. (spare * children[i].grow) % totalGrow \in Nat BY <3>1, <3>2, Quotient
    <3> QED BY <2>2, <3>3
  <2>4. open \in SUBSET (1..n) BY <1>5, <1>13
  <2> HIDE DEF open, rem, left
  <2>5. \A i \in open : {j \in open : rem(j) > rem(i) \/ (rem(j) = rem(i) /\ j < i)}
                        = {j \in open : m[j] > m[i] \/ (m[j] = m[i] /\ j < i)}
    BY <2>2
  <2>6. E = {i \in open : Cardinality({j \in open : m[j] > m[i] \/ (m[j] = m[i] /\ j < i)}) < left}
    BY <1>14, <2>5
  <2>7. E = Ranked(open, m, left) BY <2>6 DEF Ranked
  <2> QED BY <1>12, <2>3, <2>4, <2>7, AtMostRanked
<1>16. E \in SUBSET open /\ E \in SUBSET (1..n) BY <1>5, <1>13, <1>14
<1>17. Ones(E, n) \in Widths(n) /\ \A i \in 1..n : Ones(E, n)[i] = IF i \in E THEN 1 ELSE 0
  BY DEF Ones, Widths
<1>18. \A i \in 1..n : r[i] = v[i] + share[i] + Ones(E, n)[i]
  <2>1. ASSUME NEW i \in 1..n PROVE r[i] = v[i] + share[i] + Ones(E, n)[i]
    <3> HIDE DEF open, share, Before, left
    <3>1. r[i] = v[i] + share[i] + (IF i \in open /\ Before(i) < left THEN 1 ELSE 0) BY <1>1, <1>2
    <3>2. i \in E <=> i \in open /\ Before(i) < left BY <1>14
    <3> QED BY <1>17, <3>1, <3>2
  <2> QED BY <2>1
<1>19. r = [i \in 1..n |-> r[i]]
  <2> HIDE DEF open, share, Before, left
  <2> QED BY <1>1, <1>2
<1> HIDE DEF growing, share, open, left
<1>20. r \in Widths(n) /\ \A i \in 1..n : v[i] <= r[i]
  <2>1. \A i \in 1..n : r[i] \in Int /\ v[i] <= r[i] BY <1>2, <1>9, <1>17, <1>18
  <2> QED BY <1>19, <2>1 DEF Widths
<1>21. ASSUME NEW i \in 1..n, children[i].max > 0, v[i] <= children[i].max
       PROVE  r[i] <= children[i].max
  <2>1. r[i] = v[i] + share[i] + (IF i \in E THEN 1 ELSE 0) BY <1>17, <1>18
  <2>2. CASE i \notin growing
    <3>1. i \notin E /\ share[i] = 0 BY <1>9, <1>13, <1>16, <2>2
    <3> QED BY <1>2, <1>21, <2>1, <3>1
  <2>3. CASE i \in growing
    <3>1. v[i] + share[i] <= children[i].max /\ share[i] \in Nat BY <1>9, <1>21, <2>3
    <3>2. i \in E => ~(v[i] + share[i] >= children[i].max) BY <1>13, <1>16, <1>21 DEF Capped
    <3> QED BY <1>2, <1>3, <2>1, <3>1, <3>2
  <2> QED BY <2>2, <2>3
<1>22. sumInts(r) <= sumInts(v) + spare
  <2>1. PICK h : h = [i \in 1..n |-> v[i] + share[i]] OBVIOUS
  <2>2. \A i \in 1..n : h[i] = v[i] + share[i] /\ h[i] \in Int BY <1>2, <1>9, <2>1
  <2>3. h \in Widths(n) BY <2>1, <2>2 DEF Widths
  <2>4. sumInts(h) = sumInts(v) + sumInts(share)
    <3>1. IsSum(h, v, share, n) BY <2>2 DEF IsSum
    <3> QED BY <1>10, <2>3, <3>1, SumAdd DEF Widths
  <2>5. PICK o \in Widths(n) : o = Ones(E, n) BY <1>17
  <2>6. sumInts(r) = sumInts(h) + sumInts(o)
    <3>1. IsSum(r, h, o, n) BY <1>18, <2>2, <2>5 DEF IsSum
    <3>2. r \in [1..n -> Int] /\ h \in [1..n -> Int] /\ o \in [1..n -> Int] BY <1>20, <2>3 DEF Widths
    <3> QED BY <3>1, <3>2, SumAdd
  <2>7. sumInts(o) = Cardinality(E) BY <1>16, <2>5, SumOnes
  <2>8. sumInts(v) \in Int BY SumType DEF Widths
  <2> QED BY <1>11, <1>15, <2>4, <2>6, <2>7, <2>8 DEF left
<1>23. ASSUME r # v PROVE sumInts(r) > sumInts(v)
  <2>1. PICK i \in 1..n : r[i] # v[i] BY <1>20, <1>23 DEF Widths
  <2>2. v[i] < r[i] BY <1>2, <1>20, <2>1 DEF Widths
  <2>3. sumInts(v) < sumInts(r) BY <1>20, <2>2, SumMonotone DEF Widths
  <2>4. sumInts(v) \in Int /\ sumInts(r) \in Int BY <1>20, SumType DEF Widths
  <2> QED BY <2>3, <2>4
<1>24. ASSUME r = v, growing # {} PROVE FALSE
  <2>1. \A i \in 1..n : share[i] = 0 /\ i \notin E
    <3>1. ASSUME NEW i \in 1..n PROVE share[i] = 0 /\ i \notin E
      <4>1. v[i] = v[i] + share[i] + (IF i \in E THEN 1 ELSE 0) BY <1>17, <1>18, <1>24
      <4> QED BY <1>2, <1>9, <4>1
    <3> QED BY <3>1
  <2>2. sumInts(share) <= 0
    <3>1. \A i \in 1..n : share[i] <= zero[i] BY <1>7, <2>1
    <3> QED BY <1>7, <1>10, <3>1, SumMonotone DEF Widths
  <2>3. left > 0 BY <1>11, <2>2 DEF left
  <2>4. \A i \in growing : i \in open
    <3>1. \A i \in growing : v[i] + share[i] = v[i] BY <1>2, <1>5, <2>1
    <3> QED BY <3>1 DEF open, growing
  <2>5. open \in SUBSET (1..n) /\ open # {} BY <1>5, <1>13, <1>24, <2>4
  <2>6. PICK m : m = [i \in open |-> rem(i)] OBVIOUS
  <2>7. \A i \in open : m[i] = rem(i) BY <2>6
  <2>8. ASSUME NEW i \in open PROVE m[i] \in Int
    <3>1. totalGrow \in Nat \ {0} /\ i \in 1..n BY <1>5, <1>8, <1>13
    <3>2. spare * children[i].grow \in Nat
      <4>1. spare * children[i].grow \in Int /\ spare * children[i].grow >= 0 BY <1>3, <3>1, Products
      <4> QED BY <4>1
    <3>3. (spare * children[i].grow) % totalGrow \in Nat BY <3>1, <3>2, Quotient
    <3> QED BY <2>7, <3>3
  <2>9. PICK k : First(k, open, m) BY <2>5, <2>8, LeftmostLargest
  <2>10. k \in open /\ \A j \in open : m[j] < m[k] \/ (m[j] = m[k] /\ k <= j) BY <2>9 DEF First
  <2> HIDE DEF rem
  <2>11. {j \in open : rem(j) > rem(k) \/ (rem(j) = rem(k) /\ j < k)} = {}
    <3>1. ASSUME NEW j \in open PROVE ~(rem(j) > rem(k) \/ (rem(j) = rem(k) /\ j < k))
      <4>1. m[j] = rem(j) /\ m[k] = rem(k) /\ m[j] \in Int /\ m[k] \in Int BY <2>7, <2>8, <2>10
      <4>2. j \in Int /\ k \in Int BY <2>5, <2>10
      <4> QED BY <2>10, <4>1, <4>2
    <3> QED BY <3>1
  <2>12. Before(k) = 0 BY <2>11, FS_EmptySet
  <2>13. k \in E BY <1>14, <2>3, <2>10, <2>12
  <2> QED BY <1>16, <2>1, <2>13
<1> QED BY <1>4, <1>20, <1>21, <1>22, <1>23, <1>24

\* The growing loop ends within the content, and cells are left only when no
\* child can grow.
LEMMA GrowFacts ==
  ASSUME NEW n \in Nat, NEW children, \A i \in 1..n : FlexOK(children[i]),
         NEW w \in Widths(n), \A i \in 1..n : children[i].max > 0 => w[i] <= children[i].max,
         NEW content \in Int, sumInts(w) <= content,
         NEW g, g = Grow(w, children, content)
  PROVE  /\ g \in Widths(n)
         /\ \A i \in 1..n : g[i] >= w[i] /\ (children[i].max > 0 => g[i] <= children[i].max)
         /\ sumInts(g) <= content
         /\ sumInts(g) < content => \A i \in 1..n : ~Growing(children[i], g[i])
<1> DEFINE Pass(v) == GrowPass(v, children, content - sumInts(v))
<1> DEFINE Stop(v) == sumInts(v) >= content \/ Pass(v) = v
<1> DEFINE rhs(f) == [v \in [DOMAIN w -> Int] |-> IF Stop(v) THEN v ELSE f[Pass(v)]]
<1>1. PICK r : r = CHOOSE f : f = rhs(f) OBVIOUS
<1>2. g = r[w] BY <1>1 DEF Grow
<1>3. [DOMAIN w -> Int] = Widths(n) BY DEF Widths
<1>4. \A v \in Widths(n) : sumInts(v) \in Int BY SumType DEF Widths
<1>5. ASSUME NEW v \in Widths(n), sumInts(v) < content
      PROVE  /\ Pass(v) \in Widths(n)
             /\ \A i \in 1..n : v[i] <= Pass(v)[i]
             /\ \A i \in 1..n : children[i].max > 0 /\ v[i] <= children[i].max => Pass(v)[i] <= children[i].max
             /\ sumInts(Pass(v)) <= content
             /\ Pass(v) # v => sumInts(Pass(v)) > sumInts(v)
             /\ Pass(v) = v => \A i \in 1..n : ~Growing(children[i], v[i])
  <2>1. sumInts(v) \in Int BY <1>4
  <2>2. PICK e \in Nat \ {0} : e = content - sumInts(v) BY <1>5, <2>1
  <2>3. PICK q : q = GrowPass(v, children, e) OBVIOUS
  <2>4. q = Pass(v) BY <2>2, <2>3
  <2> HIDE DEF Pass
  <2>5. /\ q \in Widths(n)
        /\ \A i \in 1..n : v[i] <= q[i]
        /\ \A i \in 1..n : LET c == children[i] IN c.max > 0 /\ v[i] <= c.max => q[i] <= c.max
        /\ sumInts(q) <= sumInts(v) + e
        /\ q # v => sumInts(q) > sumInts(v)
        /\ q = v => \A i \in 1..n : ~Growing(children[i], v[i])
    BY <2>3, GrowPassFacts
  <2>6. sumInts(v) + e = content BY <2>1, <2>2
  <2> QED BY <2>4, <2>5, <2>6
<1> HIDE DEF Pass
<1>6. PICK D : D = {v \in Widths(n) : Stop(v)} OBVIOUS
<1>7. PICK G : G = [v \in Widths(n) |-> IF sumInts(v) < content THEN Pass(v) ELSE v] OBVIOUS
<1>8. PICK M : M = [v \in Widths(n) |-> AtLeast(0, content - sumInts(v))] OBVIOUS
<1>9. ASSUME NEW v \in Widths(n), v \notin D
      PROVE  sumInts(v) < content /\ Pass(v) # v /\ G[v] = Pass(v)
  BY <1>4, <1>6, <1>7, <1>9
<1>10. Ends(Widths(n), D, G, M)
  <2>1. ASSUME NEW v \in Widths(n) PROVE G[v] \in Widths(n) BY <1>5, <1>7
  <2>2. G \in [Widths(n) -> Widths(n)] BY <1>7, <2>1
  <2>3. ASSUME NEW v \in Widths(n) PROVE M[v] \in Nat
    <3>1. sumInts(v) \in Int /\ M[v] = AtLeast(0, content - sumInts(v)) BY <1>4, <1>8
    <3> QED BY <3>1 DEF AtLeast
  <2>4. M \in [Widths(n) -> Nat] BY <1>8, <2>3
  <2>5. ASSUME NEW v \in Widths(n), v \notin D PROVE M[G[v]] < M[v]
    <3>1. sumInts(v) < content /\ Pass(v) # v /\ G[v] = Pass(v) BY <1>9, <2>5
    <3>2. Pass(v) \in Widths(n) /\ sumInts(Pass(v)) > sumInts(v) BY <1>5, <3>1
    <3>3. sumInts(Pass(v)) \in Int /\ sumInts(v) \in Int BY <1>4, <3>2
    <3>4. M[v] = AtLeast(0, content - sumInts(v)) /\ M[G[v]] = AtLeast(0, content - sumInts(Pass(v)))
      BY <1>8, <3>1, <3>2
    <3> QED BY <3>1, <3>2, <3>3, <3>4 DEF AtLeast
  <2> QED BY <2>2, <2>4, <2>5 DEF Ends
<1>11. r = rhs(r)
  <2>1. PICK F \in [Widths(n) -> Widths(n)] : Loops(F, Widths(n), D, G) BY <1>10, LoopSolved
  <2>2. ASSUME NEW v \in Widths(n) PROVE F[v] = IF Stop(v) THEN v ELSE F[Pass(v)]
    <3>1. F[v] = IF v \in D THEN v ELSE F[G[v]] BY <2>1 DEF Loops
    <3>2. v \in D <=> Stop(v) BY <1>6
    <3> HIDE DEF Stop
    <3> QED BY <1>9, <3>1, <3>2
  <2> HIDE DEF Stop
  <2>3. F = [v \in Widths(n) |-> IF Stop(v) THEN v ELSE F[Pass(v)]] BY <2>1, <2>2
  <2>4. F = rhs(F) BY <1>3, <2>3
  <2> QED BY <1>1, <2>4
<1>12. Loops(r, Widths(n), D, G)
  <2>1. ASSUME NEW v \in Widths(n) PROVE r[v] = IF v \in D THEN v ELSE r[G[v]]
    <3>1. r[v] = IF Stop(v) THEN v ELSE r[Pass(v)]
      <4> HIDE DEF Stop
      <4> QED BY <1>3, <1>11
    <3>2. v \in D <=> Stop(v) BY <1>6
    <3> HIDE DEF Stop
    <3> QED BY <1>9, <3>1, <3>2
  <2> QED BY <2>1 DEF Loops
<1>13. PICK P : P = {v \in Widths(n) :
                      /\ \A i \in 1..n : v[i] >= w[i] /\ (children[i].max > 0 => v[i] <= children[i].max)
                      /\ sumInts(v) <= content}
  OBVIOUS
<1>14. ASSUME NEW v \in P, v \notin D PROVE G[v] \in P
  <2>1. v \in Widths(n) /\ \A i \in 1..n : v[i] >= w[i] /\ (children[i].max > 0 => v[i] <= children[i].max)
    BY <1>13
  <2>2. sumInts(v) < content /\ G[v] = Pass(v) BY <1>9, <1>14, <2>1
  <2>3. Pass(v) \in Widths(n) /\ sumInts(Pass(v)) <= content BY <1>5, <2>1, <2>2
  <2>4. ASSUME NEW i \in 1..n
        PROVE  Pass(v)[i] >= w[i] /\ (children[i].max > 0 => Pass(v)[i] <= children[i].max)
    <3>1. v[i] \in Int /\ w[i] \in Int /\ Pass(v)[i] \in Int BY <2>1, <2>3 DEF Widths
    <3>2. v[i] <= Pass(v)[i] /\ (children[i].max > 0 => Pass(v)[i] <= children[i].max)
      BY <1>5, <2>1, <2>2
    <3> QED BY <2>1, <3>1, <3>2
  <2> QED BY <1>13, <2>2, <2>3, <2>4
<1>15. w \in P /\ P \in SUBSET Widths(n)
  <2>1. \A i \in 1..n : w[i] >= w[i] BY DEF Widths
  <2> QED BY <1>13, <2>1
<1>16. r[w] \in P /\ r[w] \in D BY <1>10, <1>12, <1>14, <1>15, LoopRule
<1>17. /\ g \in Widths(n) /\ sumInts(g) <= content
       /\ \A i \in 1..n : g[i] >= w[i] /\ (children[i].max > 0 => g[i] <= children[i].max)
  BY <1>2, <1>13, <1>16
<1>18. ASSUME sumInts(g) < content, NEW i \in 1..n PROVE ~Growing(children[i], g[i])
  <2>1. Stop(g) BY <1>2, <1>6, <1>16
  <2>2. Pass(g) = g BY <1>4, <1>17, <1>18, <2>1
  <2> QED BY <1>5, <1>17, <1>18, <2>2
<1> QED BY <1>17, <1>18

\* The children of a row.
ChildrenOK(children) ==
  children \in Seq(FlexConstraint) /\ \A i \in 1..Len(children) : FlexOK(children[i])

\* A row is allocated at least a cell a child; one that fits is within its
\* content, with every child between its limits and no cell left that a child
\* could take.
LEMMA AllocateRowFacts ==
  ASSUME NEW children, ChildrenOK(children), NEW available \in Int, NEW gap \in Nat,
         NEW n, n = Len(children), NEW row, row = AllocateRow(available, gap, children),
         NEW content, content = RowContent(available, gap, n)
  PROVE  /\ row.widths \in Widths(n) /\ \A i \in 1..n : row.widths[i] >= 1
         /\ sumInts([i \in 1..n |-> Minimum(children[i])]) <= content => row.fits
         /\ row.fits =>
              /\ sumInts(row.widths) <= content
              /\ \A i \in 1..n :
                   LET c == children[i]
                   IN /\ row.widths[i] >= Minimum(c)
                      /\ c.max > 0 => row.widths[i] <= c.max
                      /\ sumInts(row.widths) < content => ~Growing(c, row.widths[i])
<1>1. n \in Nat /\ DOMAIN children = 1..n /\ \A i \in 1..n : FlexOK(children[i])
  BY DEF ChildrenOK
<1>2. content \in Int
  <2>1. GapExtent(gap, n) \in Int BY <1>1 DEF GapExtent
  <2> QED BY <2>1 DEF RowContent, AtLeast
<1>3. PICK mins : mins = [i \in 1..n |-> Minimum(children[i])] OBVIOUS
<1>4. PICK bases : bases = [i \in 1..n |-> Basis(children[i])] OBVIOUS
<1>5. \A i \in 1..n : /\ Minimum(children[i]) \in Int /\ Minimum(children[i]) >= 1
                      /\ Basis(children[i]) \in Int /\ Basis(children[i]) >= Minimum(children[i])
                      /\ children[i].max > 0 => Basis(children[i]) <= children[i].max
  BY <1>1, BasisFacts
<1>6. mins \in Widths(n) /\ bases \in Widths(n) BY <1>3, <1>4, <1>5 DEF Widths
<1>7. row = IF sumInts(mins) > content THEN [widths |-> mins, fits |-> FALSE]
            ELSE [widths |-> Grow(Shrink(bases, children, content), children, content), fits |-> TRUE]
  BY <1>1, <1>3, <1>4 DEF AllocateRow
<1>8. sumInts(mins) \in Int BY <1>1, <1>6, SumType DEF Widths
<1>9. CASE sumInts(mins) > content
  <2>1. row.widths = mins /\ row.fits = FALSE BY <1>7, <1>9
  <2>2. ~(sumInts(mins) <= content) BY <1>2, <1>8, <1>9
  <2> QED BY <1>3, <1>5, <1>6, <2>1, <2>2
<1>10. CASE sumInts(mins) <= content
  <2>1. PICK s : s = Shrink(bases, children, content) OBVIOUS
  <2>2. PICK g : g = Grow(s, children, content) OBVIOUS
  <2>3. row.widths = g /\ row.fits = TRUE BY <1>2, <1>7, <1>8, <1>10, <2>1, <2>2
  <2>4. \A i \in 1..n : bases[i] >= Minimum(children[i]) BY <1>4, <1>5
  <2>5. /\ s \in Widths(n) /\ sumInts(s) <= content
        /\ \A i \in 1..n : s[i] >= Minimum(children[i]) /\ s[i] <= bases[i]
    BY <1>1, <1>2, <1>3, <1>6, <1>10, <2>1, <2>4, ShrinkFacts
  <2>6. ASSUME NEW i \in 1..n, children[i].max > 0 PROVE s[i] <= children[i].max
    <3>1. s[i] \in Int /\ bases[i] \in Int /\ s[i] <= bases[i] BY <1>6, <2>5 DEF Widths
    <3>2. children[i].max \in Int BY <1>1 DEF FlexOK, FlexConstraint
    <3>3. bases[i] <= children[i].max BY <1>4, <1>5, <2>6
    <3> QED BY <3>1, <3>2, <3>3
  <2>7. /\ g \in Widths(n) /\ sumInts(g) <= content
        /\ \A i \in 1..n : g[i] >= s[i] /\ (children[i].max > 0 => g[i] <= children[i].max)
        /\ sumInts(g) < content => \A i \in 1..n : ~Growing(children[i], g[i])
    BY <1>1, <1>2, <2>2, <2>5, <2>6, GrowFacts
  <2>8. ASSUME NEW i \in 1..n PROVE g[i] >= Minimum(children[i]) /\ g[i] >= 1
    <3>1. g[i] \in Int /\ s[i] \in Int BY <2>5, <2>7 DEF Widths
    <3>2. g[i] >= s[i] /\ s[i] >= Minimum(children[i]) BY <2>5, <2>7
    <3> QED BY <1>5, <3>1, <3>2
  <2> QED BY <2>3, <2>7, <2>8
<1> QED BY <1>2, <1>8, <1>9, <1>10

\* A box whose children are in order.
BoxOK(b) ==
  b \in Box /\ ChildrenOK(b.children) /\ b.children # <<>>

\* What validation lets through is in order.
LEMMA BoxesOK ==
  ASSUME NEW b \in Boxes
  PROVE  BoxOK(b)
<1>1. b \in Box /\ b.children \in Seq(FlexConstraint) /\ b.children # <<>> BY LayoutAssumption DEF Box
<1>2. DOMAIN b.children = 1..Len(b.children) /\ \A i \in 1..Len(b.children) : b.children[i] \in FlexConstraint
  BY <1>1
<1>3. \A i \in DOMAIN b.children : b.children[i].max = 0 \/ b.children[i].max >= b.children[i].min
  BY LayoutAssumption
<1> QED BY <1>1, <1>2, <1>3 DEF BoxOK, ChildrenOK, FlexOK

\* The content of a box is at least a cell.
LEMMA ContentFacts ==
  ASSUME NEW b, BoxOK(b), NEW extent \in Int
  PROVE  ContentExtent(extent, b) \in Int /\ ContentExtent(extent, b) >= 1
<1>1. b.padding \in Nat BY DEF BoxOK, Box
<1> QED BY <1>1 DEF ContentExtent, AtLeast

\* Constraints that share a row equally.
EqualRow(n) == [i \in 1..n |-> EqualShare]

\* They are in order, and their minima take a cell each.
LEMMA EqualShares ==
  ASSUME NEW n \in Nat, NEW equal, equal = EqualRow(n),
         NEW mins, mins = [i \in 1..n |-> Minimum(equal[i])]
  PROVE  ChildrenOK(equal) /\ Len(equal) = n /\ sumInts(mins) = n
<1>0. equal = [i \in 1..n |-> EqualShare] BY DEF EqualRow
<1>1. EqualShare \in FlexConstraint /\ EqualShare.max = 0 /\ Minimum(EqualShare) = 1
  BY DEF EqualShare, FlexConstraint, Minimum, AtLeast
<1>2. equal \in [1..n -> FlexConstraint] BY <1>0, <1>1
<1>3. equal \in Seq(FlexConstraint) /\ Len(equal) = n BY <1>2, FunctionIsSeq
<1>4. \A i \in 1..n : FlexOK(equal[i]) BY <1>0, <1>1 DEF FlexOK
<1>5. mins = Ones(1..n, n) BY <1>0, <1>1 DEF Ones
<1>6. Cardinality(1..n) = n
  <2>1. 1 \in Int /\ n \in Int OBVIOUS
  <2>2. Cardinality(1..n) = IF 1 > n THEN 0 ELSE n - 1 + 1 BY <2>1, FS_Interval
  <2> QED BY <2>2
<1>7. sumInts(Ones(1..n, n)) = n BY <1>6, SumOnes
<1> QED BY <1>3, <1>4, <1>5, <1>7 DEF ChildrenOK

\* What the children of a row are given when its minima do not fit.
LEMMA NarrowRowFacts ==
  ASSUME NEW b, BoxOK(b), NEW width \in Int, NEW n, n = Len(b.children),
         NEW content, content = ContentExtent(width, b), NEW room, room = RowContent(content, b.gap, n),
         ~AllocateRow(content, b.gap, b.children).fits,
         NEW drawn, drawn = ChildWidths(b, width)
  PROVE  /\ b.stack => \A i \in 1..n : drawn[i] = content
         /\ ~b.stack /\ n <= room => sumInts(drawn) <= room
<1>1. ChildrenOK(b.children) /\ b.gap \in Nat /\ n \in Nat BY DEF BoxOK, Box, ChildrenOK
<1>2. content \in Int BY ContentFacts
<1>3. PICK equal : equal = EqualRow(n) OBVIOUS
<1>4. PICK other : other = AllocateRow(content, b.gap, equal) OBVIOUS
<1>5. drawn = IF b.stack THEN [i \in 1..n |-> content] ELSE other.widths
  BY <1>3, <1>4 DEF ChildWidths, EqualRow
<1>6. PICK mins : mins = [i \in 1..n |-> Minimum(equal[i])] OBVIOUS
<1>7. ChildrenOK(equal) /\ Len(equal) = n /\ sumInts(mins) = n
  <2>1. n \in Nat BY <1>1
  <2> QED BY <1>3, <1>6, <2>1, EqualShares
<1>8. /\ sumInts(mins) <= room => other.fits
      /\ other.fits => sumInts(other.widths) <= room
  <2>1. /\ sumInts([i \in 1..n |-> Minimum(equal[i])]) <= room => other.fits
        /\ other.fits => sumInts(other.widths) <= room
    BY <1>1, <1>2, <1>4, <1>7, AllocateRowFacts
  <2> QED BY <1>6, <2>1
<1> QED BY <1>5, <1>7, <1>8

\* AllocateRow (layout/flex.go:16-164) keeps a row whose minima fit inside its
\* box, each child between its bounds, and leaves cells over only when no child
\* may take them; when they do not fit renderBox (renderer.go:166-205) stacks the
\* children at the full width or shares it equally, inside the box while that has
\* a cell for every child. For every box and width, in integers that do not wrap.
THEOREM EveryRowFits ==
  ASSUME NEW b, BoxOK(b), NEW width \in Int
  PROVE  RowFits(b, width)
<1>1. PICK n : n = Len(b.children) OBVIOUS
<1>2. PICK available \in Int : available = ContentExtent(width, b) BY ContentFacts
<1>3. PICK row : row = AllocateRow(available, b.gap, b.children) OBVIOUS
<1>4. PICK content : content = RowContent(available, b.gap, n) OBVIOUS
<1>5. ChildrenOK(b.children) /\ b.gap \in Nat BY DEF BoxOK, Box
<1>6. /\ row.widths \in Widths(n) /\ \A i \in 1..n : row.widths[i] >= 1
      /\ row.fits =>
           /\ sumInts(row.widths) <= content
           /\ \A i \in 1..n :
                LET c == b.children[i]
                IN /\ row.widths[i] >= Minimum(c)
                   /\ c.max > 0 => row.widths[i] <= c.max
                   /\ sumInts(row.widths) < content => ~Growing(c, row.widths[i])
  BY <1>1, <1>3, <1>4, <1>5, AllocateRowFacts
<1>7. DOMAIN row.widths = 1..n BY <1>6 DEF Widths
<1>8. \A i \in 1..n : b.children[i].grow \in Nat BY <1>1, <1>5 DEF ChildrenOK, FlexOK, FlexConstraint
<1>9. \A i \in 1..n : ~Growing(b.children[i], row.widths[i])
                        => b.children[i].grow = 0 \/ Capped(b.children[i], row.widths[i])
  BY <1>8 DEF Growing
<1>10. row.fits =>
         /\ sumInts(row.widths) <= content
         /\ \A i \in DOMAIN row.widths :
              LET c == b.children[i]
              IN /\ row.widths[i] >= Minimum(c)
                 /\ c.max > 0 => row.widths[i] <= c.max
                 /\ sumInts(row.widths) < content => c.grow = 0 \/ Capped(c, row.widths[i])
  BY <1>6, <1>7, <1>9
<1>11. PICK drawn : drawn = ChildWidths(b, width) OBVIOUS
<1>12. ~row.fits => /\ b.stack => \A i \in 1..n : drawn[i] = available
                    /\ ~b.stack /\ n <= content => sumInts(drawn) <= content
  BY <1>1, <1>2, <1>3, <1>4, <1>11, NarrowRowFacts
<1> QED BY <1>1, <1>2, <1>3, <1>4, <1>10, <1>11, <1>12 DEF RowFits

\* Every child of a box is given at least a cell.
LEMMA ChildWidthsFacts ==
  ASSUME NEW b, BoxOK(b), NEW width \in Int
  PROVE  ChildWidths(b, width)[1] \in Int /\ ChildWidths(b, width)[1] >= 1
<1>1. PICK n : n = Len(b.children) OBVIOUS
<1>2. ChildrenOK(b.children) /\ b.gap \in Nat /\ n \in Nat /\ 1 \in 1..n
  BY <1>1 DEF BoxOK, Box, ChildrenOK
<1>3. PICK content \in Int : content = ContentExtent(width, b) /\ content >= 1 BY ContentFacts
<1>4. PICK row : row = AllocateRow(content, b.gap, b.children) OBVIOUS
<1>5. row.widths \in Widths(n) /\ \A i \in 1..n : row.widths[i] >= 1
  BY <1>1, <1>2, <1>4, AllocateRowFacts
<1>6. PICK equal : equal = EqualRow(n) OBVIOUS
<1>7. ChildrenOK(equal) /\ Len(equal) = n
  <2>1. PICK mins : mins = [i \in 1..n |-> Minimum(equal[i])] OBVIOUS
  <2>2. n \in Nat BY <1>2
  <2> QED BY <1>6, <2>1, <2>2, EqualShares
<1>8. PICK other : other = AllocateRow(content, b.gap, equal) OBVIOUS
<1>9. other.widths \in Widths(n) /\ \A i \in 1..n : other.widths[i] >= 1
  BY <1>2, <1>7, <1>8, AllocateRowFacts
<1>10. ChildWidths(b, width) = IF row.fits THEN row.widths
                               ELSE IF b.stack THEN [i \in 1..n |-> content] ELSE other.widths
  BY <1>1, <1>3, <1>4, <1>6, <1>8 DEF ChildWidths, EqualRow
<1>11. row.widths[1] \in Int /\ other.widths[1] \in Int BY <1>2, <1>5, <1>9 DEF Widths
<1> QED BY <1>2, <1>3, <1>5, <1>9, <1>10, <1>11

------------------------------------------------------------------------------
(* Tables                                                                    *)

\* The readable width of a column is between the least width and the preferred.
LEMMA ColumnFacts ==
  ASSUME NEW c \in Column
  PROVE  /\ preferred(c) \in Int /\ readable(c) \in Int
         /\ tableMinColumnWidth <= readable(c) /\ readable(c) <= preferred(c)
<1>1. c.width \in Nat /\ c.title \in Nat BY DEF Column
<1>2. PICK p : p = preferred(c) OBVIOUS
<1>3. p \in Int /\ p >= 3 BY <1>1, <1>2 DEF preferred, AtLeast, tableMinColumnWidth
<1>4. PICK q : q = (p * 3 + 3) \div 4 OBVIOUS
<1>5. q \in Int BY <1>3, <1>4
<1>6. readable(c) = AtMost(p, AtLeast(AtMost(p, c.title), AtLeast(3, q)))
  BY <1>2, <1>4 DEF readable, tableMinColumnWidth
<1> QED BY <1>1, <1>2, <1>3, <1>5, <1>6 DEF AtMost, AtLeast, tableMinColumnWidth

\* The narrowing loop ends within the budget, if the floors do.
LEMMA NarrowingFacts ==
  ASSUME NEW n \in Nat, NEW w \in Widths(n), NEW floors \in Widths(n),
         \A i \in 1..n : tableMinColumnWidth <= floors[i] /\ floors[i] <= w[i],
         NEW budget \in Int, sumInts(floors) <= budget,
         NEW s, s = shrinkTableWidthsToFloors(w, floors, budget)
  PROVE  /\ s \in Widths(n)
         /\ \A i \in 1..n : floors[i] <= s[i] /\ s[i] <= w[i]
         /\ sumInts(s) <= budget
<1> DEFINE Above(v) == {i \in DOMAIN v : v[i] > AtLeast(tableMinColumnWidth, floors[i])}
<1> DEFINE Widest(v) == CHOOSE i \in Above(v) : \A j \in Above(v) : v[j] < v[i] \/ (v[j] = v[i] /\ i <= j)
<1> DEFINE Narrowed(v) == [v EXCEPT ![Widest(v)] = @ - 1]
<1> DEFINE Stop(v) == sumInts(v) <= budget \/ Above(v) = {}
<1> DEFINE rhs(f) == [v \in [DOMAIN w -> Int] |-> IF Stop(v) THEN v ELSE f[Narrowed(v)]]
<1>1. PICK r : r = CHOOSE f : f = rhs(f) OBVIOUS
<1>2. s = r[w] BY <1>1 DEF shrinkTableWidthsToFloors
<1>3. [DOMAIN w -> Int] = Widths(n) BY DEF Widths
<1>4. \A v \in Widths(n) : sumInts(v) \in Int BY SumType DEF Widths
<1>5. ASSUME NEW v \in Widths(n), NEW i \in 1..n PROVE i \in Above(v) <=> v[i] > floors[i]
  <2>1. DOMAIN v = 1..n /\ v[i] \in Int /\ floors[i] \in Int BY DEF Widths
  <2>2. AtLeast(tableMinColumnWidth, floors[i]) = floors[i] BY <2>1 DEF AtLeast, tableMinColumnWidth
  <2> QED BY <2>1, <2>2
<1>6. ASSUME NEW v \in Widths(n), Above(v) # {}
      PROVE  /\ Widest(v) \in 1..n /\ v[Widest(v)] > floors[Widest(v)]
             /\ Narrowed(v) \in Widths(n)
             /\ \A i \in 1..n : Narrowed(v)[i] = IF i = Widest(v) THEN v[i] - 1 ELSE v[i]
             /\ sumInts(Narrowed(v)) < sumInts(v)
  <2>1. Above(v) \in SUBSET (1..n) /\ \A i \in Above(v) : v[i] \in Int BY DEF Widths
  <2>2. Widest(v) \in Above(v)
    <3> HIDE DEF Above
    <3>1. PICK k : First(k, Above(v), v) BY <1>6, <2>1, LeftmostLargest
    <3>2. k \in Above(v) /\ \A j \in Above(v) : v[j] < v[k] \/ (v[j] = v[k] /\ k <= j)
      BY <3>1 DEF First
    <3> QED BY <3>2
  <2>3. PICK k : k = Widest(v) OBVIOUS
  <2>4. k \in 1..n /\ v[k] > floors[k]
    <3> HIDE DEF Above, Widest
    <3> QED BY <1>5, <2>1, <2>2, <2>3
  <2>5. PICK u : u = [v EXCEPT ![k] = v[k] - 1] OBVIOUS
  <2>6. u = Narrowed(v) BY <2>3, <2>5
  <2> HIDE DEF Above, Widest, Narrowed
  <2>7. u \in Widths(n) /\ \A i \in 1..n : u[i] = IF i = k THEN v[i] - 1 ELSE v[i]
    BY <2>4, <2>5 DEF Widths
  <2>8. \A i \in 1..n : v[i] \in Int BY DEF Widths
  <2>9. (\A i \in 1..n : u[i] <= v[i]) /\ u[k] < v[k] BY <2>4, <2>7, <2>8
  <2>10. sumInts(u) < sumInts(v) BY <2>4, <2>7, <2>9, SumMonotone DEF Widths
  <2> QED BY <2>3, <2>4, <2>6, <2>7, <2>10
<1> HIDE DEF Above, Widest, Narrowed
<1>7. PICK D : D = {v \in Widths(n) : Stop(v)} OBVIOUS
<1>8. PICK G : G = [v \in Widths(n) |-> IF Above(v) = {} THEN v ELSE Narrowed(v)] OBVIOUS
<1>9. PICK M : M = [v \in Widths(n) |-> AtLeast(0, sumInts(v) - budget)] OBVIOUS
<1>10. ASSUME NEW v \in Widths(n), v \notin D
       PROVE  sumInts(v) > budget /\ Above(v) # {} /\ G[v] = Narrowed(v)
  BY <1>4, <1>7, <1>8, <1>10
<1>11. Ends(Widths(n), D, G, M)
  <2>1. ASSUME NEW v \in Widths(n) PROVE G[v] \in Widths(n) BY <1>6, <1>8
  <2>2. G \in [Widths(n) -> Widths(n)] BY <1>8, <2>1
  <2>3. ASSUME NEW v \in Widths(n) PROVE M[v] \in Nat
    <3>1. sumInts(v) \in Int /\ M[v] = AtLeast(0, sumInts(v) - budget) BY <1>4, <1>9
    <3> QED BY <3>1 DEF AtLeast
  <2>4. M \in [Widths(n) -> Nat] BY <1>9, <2>3
  <2>5. ASSUME NEW v \in Widths(n), v \notin D PROVE M[G[v]] < M[v]
    <3>1. sumInts(v) > budget /\ G[v] = Narrowed(v) /\ Above(v) # {} BY <1>10, <2>5
    <3>2. Narrowed(v) \in Widths(n) /\ sumInts(Narrowed(v)) < sumInts(v) BY <1>6, <3>1
    <3>3. sumInts(Narrowed(v)) \in Int /\ sumInts(v) \in Int BY <1>4, <3>2
    <3>4. M[v] = AtLeast(0, sumInts(v) - budget) /\ M[G[v]] = AtLeast(0, sumInts(Narrowed(v)) - budget)
      BY <1>9, <3>1, <3>2
    <3> QED BY <3>1, <3>2, <3>3, <3>4 DEF AtLeast
  <2> QED BY <2>2, <2>4, <2>5 DEF Ends
<1>12. r = rhs(r)
  <2>1. PICK F \in [Widths(n) -> Widths(n)] : Loops(F, Widths(n), D, G) BY <1>11, LoopSolved
  <2>2. ASSUME NEW v \in Widths(n) PROVE F[v] = IF Stop(v) THEN v ELSE F[Narrowed(v)]
    <3>1. F[v] = IF v \in D THEN v ELSE F[G[v]] BY <2>1 DEF Loops
    <3>2. v \in D <=> Stop(v) BY <1>7
    <3> HIDE DEF Stop
    <3> QED BY <1>10, <3>1, <3>2
  <2> HIDE DEF Stop
  <2>3. F = [v \in Widths(n) |-> IF Stop(v) THEN v ELSE F[Narrowed(v)]] BY <2>1, <2>2
  <2>4. F = rhs(F) BY <1>3, <2>3
  <2> QED BY <1>1, <2>4
<1>13. Loops(r, Widths(n), D, G)
  <2>1. ASSUME NEW v \in Widths(n) PROVE r[v] = IF v \in D THEN v ELSE r[G[v]]
    <3>1. r[v] = IF Stop(v) THEN v ELSE r[Narrowed(v)]
      <4> HIDE DEF Stop
      <4> QED BY <1>3, <1>12
    <3>2. v \in D <=> Stop(v) BY <1>7
    <3> HIDE DEF Stop
    <3> QED BY <1>10, <3>1, <3>2
  <2> QED BY <2>1 DEF Loops
<1>14. PICK P : P = {v \in Widths(n) : \A i \in 1..n : floors[i] <= v[i] /\ v[i] <= w[i]} OBVIOUS
<1>15. ASSUME NEW v \in P, v \notin D PROVE G[v] \in P
  <2>1. v \in Widths(n) /\ \A i \in 1..n : floors[i] <= v[i] /\ v[i] <= w[i] BY <1>14
  <2>2. G[v] = Narrowed(v) /\ Above(v) # {} BY <1>10, <1>15, <2>1
  <2>3. Narrowed(v) \in Widths(n) BY <1>6, <2>1, <2>2
  <2>4. ASSUME NEW i \in 1..n PROVE floors[i] <= Narrowed(v)[i] /\ Narrowed(v)[i] <= w[i]
    <3>1. v[i] \in Int /\ w[i] \in Int /\ floors[i] \in Int BY <2>1 DEF Widths
    <3>2. Narrowed(v)[i] = IF i = Widest(v) THEN v[i] - 1 ELSE v[i] BY <1>6, <2>1, <2>2
    <3>3. i = Widest(v) => v[i] > floors[i] BY <1>6, <2>1, <2>2
    <3> QED BY <2>1, <3>1, <3>2, <3>3
  <2> QED BY <1>14, <2>2, <2>3, <2>4
<1>16. w \in P /\ P \in SUBSET Widths(n)
  <2>1. \A i \in 1..n : w[i] <= w[i] BY DEF Widths
  <2> QED BY <1>14, <2>1
<1>17. r[w] \in P /\ r[w] \in D BY <1>11, <1>13, <1>15, <1>16, LoopRule
<1>18. s \in Widths(n) /\ \A i \in 1..n : floors[i] <= s[i] /\ s[i] <= w[i] BY <1>2, <1>14, <1>17
<1>19. sumInts(s) <= budget
  <2> SUFFICES ASSUME sumInts(s) > budget PROVE FALSE BY <1>4, <1>18
  <2>1. Stop(s) BY <1>2, <1>7, <1>17
  <2>2. Above(s) = {} BY <1>4, <1>18, <2>1
  <2>3. ASSUME NEW i \in 1..n PROVE s[i] <= floors[i]
    <3>1. s[i] \in Int /\ floors[i] \in Int BY <1>18 DEF Widths
    <3>2. ~(s[i] > floors[i]) BY <1>5, <1>18, <2>2
    <3> QED BY <3>1, <3>2
  <2>4. sumInts(s) <= sumInts(floors) BY <1>18, <2>3, SumMonotone DEF Widths
  <2>5. sumInts(s) \in Int /\ sumInts(floors) \in Int BY <1>4, <1>18
  <2> QED BY <2>4, <2>5
<1> QED BY <1>18, <1>19

\* A prefix of a list of widths.
LEMMA PrefixFacts ==
  ASSUME NEW n \in Nat, NEW f \in Widths(n), NEW m \in 0..n
  PROVE  SubSeq(f, 1, m) \in Widths(m) /\ \A i \in 1..m : SubSeq(f, 1, m)[i] = f[i]
<1>1. f \in Seq(Int) /\ Len(f) = n BY FunctionIsSeq DEF Widths
<1>2. SubSeq(f, 1, m) \in Seq(Int) /\ Len(SubSeq(f, 1, m)) = m /\ \A i \in 1..m : SubSeq(f, 1, m)[i] = f[i]
  BY <1>1
<1>3. SubSeq(f, 1, m) \in [1..m -> Int] BY <1>2, LenProperties
<1> QED BY <1>2, <1>3 DEF Widths

InputOK(in) == in.cols \in Seq(Column) /\ in.width \in Int

\* The preferred and the readable widths of the columns, one above the other.
LEMMA ColumnWidths ==
  ASSUME NEW in, InputOK(in), NEW n, n = Len(in.cols)
  PROVE  /\ n \in Nat
         /\ preferredTableWidths(in.cols) \in Widths(n) /\ minimumReadableTableWidths(in.cols) \in Widths(n)
         /\ \A i \in 1..n :
              /\ preferredTableWidths(in.cols)[i] = preferred(in.cols[i])
              /\ minimumReadableTableWidths(in.cols)[i] = readable(in.cols[i])
              /\ tableMinColumnWidth <= readable(in.cols[i])
              /\ readable(in.cols[i]) <= preferred(in.cols[i])
              /\ readable(in.cols[i]) \in Int /\ preferred(in.cols[i]) \in Int
<1>1. n \in Nat /\ DOMAIN in.cols = 1..n /\ \A i \in 1..n : in.cols[i] \in Column BY DEF InputOK
<1>2. \A i \in 1..n : /\ readable(in.cols[i]) \in Int /\ preferred(in.cols[i]) \in Int
                      /\ tableMinColumnWidth <= readable(in.cols[i])
                      /\ readable(in.cols[i]) <= preferred(in.cols[i])
  BY <1>1, ColumnFacts
<1> QED BY <1>1, <1>2 DEF preferredTableWidths, minimumReadableTableWidths, Widths

\* The cells between columns are a number.
LEMMA ChromeType ==
  ASSUME NEW in, NEW m \in Nat
  PROVE  GridChrome(in, m) \in Int
<1>1. PICK sep \in Int : sep = tableColumnSeparatorWidth(in.variant) BY DEF tableColumnSeparatorWidth
<1>2. PICK k \in Int : k = AtLeast(0, m - 1) BY DEF AtLeast
<1>3. sep * k \in Int OBVIOUS
<1> QED BY <1>1, <1>2, <1>3 DEF GridChrome, tableSelectablePrefixW

\* A grid of the first m columns fits a pane their readable widths fit.
LEMMA GridFits ==
  ASSUME NEW in, InputOK(in), NEW n, n = Len(in.cols), NEW m \in 0..n, NEW width \in Int,
         PrefixWidth(in, m) <= width,
         NEW s, s = shrinkTableWidthsToFloors(SubSeq(preferredTableWidths(in.cols), 1, m),
                                              SubSeq(minimumReadableTableWidths(in.cols), 1, m),
                                              width - GridChrome(in, m))
  PROVE  /\ s \in Widths(m)
         /\ \A i \in 1..m : readable(in.cols[i]) <= s[i] /\ s[i] <= preferred(in.cols[i])
         /\ GridChrome(in, m) + sumInts(s) <= width
<1>1. PICK w : w = SubSeq(preferredTableWidths(in.cols), 1, m) OBVIOUS
<1>2. PICK floors : floors = SubSeq(minimumReadableTableWidths(in.cols), 1, m) OBVIOUS
<1>3. n \in Nat /\ m \in Nat /\ \A i \in 1..m : i \in 1..n
  <2>1. n \in Nat BY ColumnWidths
  <2> QED BY <2>1
<1>4. w \in Widths(m) /\ floors \in Widths(m)
  BY <1>1, <1>2, <1>3, ColumnWidths, PrefixFacts
<1>5. \A i \in 1..m : w[i] = preferred(in.cols[i]) /\ floors[i] = readable(in.cols[i])
  <2>1. \A i \in 1..m : w[i] = preferredTableWidths(in.cols)[i]
                        /\ floors[i] = minimumReadableTableWidths(in.cols)[i]
    BY <1>1, <1>2, <1>3, ColumnWidths, PrefixFacts
  <2> QED BY <1>3, <2>1, ColumnWidths
<1>6. PICK chrome \in Int : chrome = GridChrome(in, m) BY <1>3, ChromeType
<1>7. sumInts(floors) \in Int BY <1>3, <1>4, SumType DEF Widths
<1>8. PICK budget \in Int : budget = width - chrome OBVIOUS
<1>9. sumInts(floors) <= budget BY <1>2, <1>6, <1>7, <1>8 DEF PrefixWidth
<1>10. \A i \in 1..m : tableMinColumnWidth <= floors[i] /\ floors[i] <= w[i]
  BY <1>3, <1>5, ColumnWidths
<1>11. s = shrinkTableWidthsToFloors(w, floors, budget) BY <1>1, <1>2, <1>6, <1>8
<1>12. s \in Widths(m) /\ sumInts(s) <= budget /\ \A i \in 1..m : floors[i] <= s[i] /\ s[i] <= w[i]
  BY <1>3, <1>4, <1>9, <1>10, <1>11, NarrowingFacts
<1>13. sumInts(s) \in Int BY <1>3, <1>12, SumType DEF Widths
<1> QED BY <1>5, <1>6, <1>8, <1>12, <1>13

\* The minimum of the detail pane is a width, with room for every field.
LEMMA DetailMinType ==
  ASSUME NEW in, InputOK(in), Len(in.cols) >= 1
  PROVE  /\ detailMin(in.cols) \in Int
         /\ \A i \in DOMAIN in.cols : detailMin(in.cols) >= in.cols[i].title + 2 + readable(in.cols[i])
<1>1. PICK n : n = Len(in.cols) OBVIOUS
<1>2. n \in Nat \ {0} /\ DOMAIN in.cols = 1..n /\ \A i \in 1..n : in.cols[i] \in Column
  BY <1>1 DEF InputOK
<1>3. PICK f : f = [i \in 1..n |-> in.cols[i].title + 2 + readable(in.cols[i])] OBVIOUS
<1>4. \A i \in 1..n : in.cols[i].title + 2 + readable(in.cols[i]) \in Int
  <2>1. ASSUME NEW i \in 1..n PROVE in.cols[i].title + 2 + readable(in.cols[i]) \in Int
    <3>1. in.cols[i].title \in Int /\ readable(in.cols[i]) \in Int BY <1>2, ColumnFacts DEF Column
    <3> QED BY <3>1
  <2> QED BY <2>1
<1>5. f \in [1..n -> Int] BY <1>3, <1>4
<1>6. PICK S : S = {f[i] : i \in 1..n} OBVIOUS
<1>7. Max(S) \in Int /\ \A i \in 1..n : Max(S) >= f[i]
  <2>1. Max(S) \in S /\ \A y \in S : Max(S) >= y BY <1>2, <1>5, <1>6, MaxOfValues
  <2> QED BY <1>5, <1>6, <2>1
<1>8. S = {in.cols[i].title + 2 + readable(in.cols[i]) : i \in DOMAIN in.cols} BY <1>2, <1>3, <1>6
<1>9. detailMin(in.cols) = AtLeast(tableMinColumnWidth, Max(S)) BY <1>8 DEF detailMin
<1>10. detailMin(in.cols) \in Int /\ detailMin(in.cols) >= Max(S)
  BY <1>7, <1>9 DEF AtLeast, tableMinColumnWidth
<1>11. ASSUME NEW i \in 1..n PROVE detailMin(in.cols) >= in.cols[i].title + 2 + readable(in.cols[i])
  <2>1. f[i] \in Int /\ Max(S) >= f[i] /\ f[i] = in.cols[i].title + 2 + readable(in.cols[i])
    BY <1>3, <1>5, <1>7
  <2>2. detailMin(in.cols) >= f[i] BY <1>7, <1>10, <2>1
  <2> QED BY <2>1, <2>2
<1> QED BY <1>2, <1>10, <1>11

\* A field that has its place is as wide as the pane, and a record's line is inside
\* exactly when it is not marked and its title leaves a cell for the value.
LEMMA FieldFacts ==
  ASSUME NEW c \in Column, NEW width \in Int
  PROVE  /\ width >= c.title + 2 + readable(c) => DetailLine(c, width) <= width
         /\ \A mark \in Marks : RecordLine(c, width, mark) <= width <=> mark = 0 /\ c.title + 3 <= width
<1>1. c.title \in Nat /\ readable(c) \in Int /\ readable(c) >= 3
  BY ColumnFacts DEF Column, tableMinColumnWidth
<1>2. PICK t \in Nat : t = c.title BY <1>1
<1>3. PICK label : label = LabelWidth(c, width) OBVIOUS
<1>4. label = IF t > (IF width - 2 < 1 THEN 1 ELSE width - 2) THEN (IF width - 2 < 1 THEN 1 ELSE width - 2) ELSE t
  BY <1>2, <1>3 DEF LabelWidth, AtMost, AtLeast
<1>5. label \in Int BY <1>4
<1>6. width >= t + 5 => label = t BY <1>4
<1>7. DetailLine(c, width) = label + 2 + (IF width - (label + 2) < 1 THEN 1 ELSE width - (label + 2))
  BY <1>3 DEF DetailLine, AtLeast
<1>8. \A mark \in Marks :
        RecordLine(c, width, mark) = mark + label + 2 + (IF width - (t + 2) < 1 THEN 1 ELSE width - (t + 2))
  BY <1>2, <1>3 DEF RecordLine, AtLeast
<1>9. width >= t + 2 + readable(c) => width >= t + 5 BY <1>1
<1>10. width >= t + 5 => DetailLine(c, width) <= width BY <1>5, <1>6, <1>7
<1>11. ASSUME NEW mark \in Marks PROVE RecordLine(c, width, mark) <= width <=> mark = 0 /\ t + 3 <= width
  <2>1. mark = 0 \/ mark = 2 BY DEF Marks
  <2> QED BY <1>4, <1>5, <1>8, <2>1
<1> QED BY <1>2, <1>9, <1>10, <1>11

\* The panes of a table that is split: each keeps its minimum, together with
\* the separator they fill the width, and the visible columns fit the left one.
LEMMA PaneFacts ==
  ASSUME NEW in, InputOK(in), masterDetailEligible(in), NEW left, left = LeftPaneWidth(in),
         NEW m, m = masterColumns(in, left)
  PROVE  /\ left \in Int /\ in.width - tablePaneSeparatorWidth - left >= detailMin(in.cols)
         /\ m \in 1..Len(in.cols) /\ PrefixWidth(in, m) <= left
<1>1. PICK n : n = Len(in.cols) OBVIOUS
<1>2. n \in Nat /\ n >= 4 /\ DOMAIN in.cols = 1..n /\ in.width \in Int
  BY <1>1 DEF InputOK, masterDetailEligible
<1>3. detailMin(in.cols) \in Int BY <1>1, <1>2, DetailMinType
<1>4. 1 \in 1..n /\ readable(in.cols[1]) \in Int BY <1>1, <1>2, ColumnWidths
<1>5. masterMin(in.cols) \in Int /\ masterMin(in.cols) = 2 + readable(in.cols[1])
  BY <1>4 DEF masterMin, tableSelectablePrefixW
<1>6. in.width >= masterMin(in.cols) + 3 + detailMin(in.cols)
  BY DEF masterDetailEligible, tablePaneSeparatorWidth
<1>7. PICK q : q = (in.width * 2) \div 5 OBVIOUS
<1>8. q \in Int BY <1>2, <1>7
<1>9. left = AtMost(in.width - 3 - detailMin(in.cols), AtLeast(masterMin(in.cols), q))
  BY <1>7 DEF LeftPaneWidth, tablePaneSeparatorWidth
<1>10. left \in Int /\ left <= in.width - 3 - detailMin(in.cols) /\ left >= masterMin(in.cols)
  BY <1>2, <1>3, <1>5, <1>6, <1>8, <1>9 DEF AtMost, AtLeast
<1>11. PrefixWidth(in, 1) <= left
  <2>1. PICK f \in Widths(n) : f = minimumReadableTableWidths(in.cols) BY <1>1, ColumnWidths
  <2>2. f[1] = readable(in.cols[1]) BY <1>1, <1>4, <2>1, ColumnWidths
  <2>3. PICK g \in Widths(1) : g = SubSeq(f, 1, 1) /\ g[1] = f[1]
    <3>1. 1 \in 0..n /\ 1 \in 1..1 BY <1>2
    <3> QED BY <1>2, <2>1, <3>1, PrefixFacts
  <2>4. sumInts(g) = g[1]
    <3>1. PICK t : Totals(t, g, 1) /\ sumInts(g) = t[1] BY <2>3, SumLoop DEF Widths
    <3>2. 1 \in 1..1 /\ 1 - 1 = 0 /\ g[1] \in Int BY <1>4, <2>2, <2>3
    <3>3. t[1] = t[0] + g[1] /\ t[0] = 0 BY <3>1, <3>2 DEF Totals
    <3> QED BY <3>1, <3>2, <3>3
  <2>5. GridChrome(in, 1) = 2
    <3>1. in.selectable BY DEF masterDetailEligible
    <3>2. PICK sep \in Int : sep = tableColumnSeparatorWidth(in.variant) BY DEF tableColumnSeparatorWidth
    <3>3. AtLeast(0, 1 - 1) = 0 /\ sep * 0 = 0 BY DEF AtLeast
    <3> QED BY <3>1, <3>2, <3>3 DEF GridChrome, tableSelectablePrefixW
  <2>6. PrefixWidth(in, 1) = 2 + readable(in.cols[1]) BY <2>1, <2>2, <2>3, <2>4, <2>5 DEF PrefixWidth
  <2> QED BY <1>5, <1>10, <2>6
<1>12. PICK A : A = {k \in DOMAIN in.cols : PrefixWidth(in, k) <= left} OBVIOUS
<1>13. A \in SUBSET (1..n) /\ 1 \in A BY <1>2, <1>4, <1>11, <1>12
<1>14. PICK k \in A : \A j \in A : j <= k
  <2>1. PICK f : f = [j \in 1..n |-> j] OBVIOUS
  <2>2. \A j \in A : f[j] = j /\ f[j] \in Int BY <1>13, <2>1
  <2>3. PICK k : First(k, A, f) BY <1>2, <1>13, <2>2, LeftmostLargest
  <2> QED BY <1>13, <2>2, <2>3 DEF First
<1>15. PICK S : S = {0} \cup A OBVIOUS
<1>16. k \in S /\ \A y \in S : k >= y BY <1>13, <1>14, <1>15
<1>17. Max(S) \in S /\ \A y \in S : Max(S) >= y
  <2>1. \E x \in S : \A y \in S : x >= y BY <1>16
  <2> QED BY <2>1 DEF Max
<1>18. Max(S) \in A /\ Max(S) >= 1
  <2>1. 1 \in S BY <1>13, <1>15
  <2>2. Max(S) >= 1 BY <1>17, <2>1
  <2> QED BY <1>15, <1>17, <2>2
<1>19. m = Max(S)
  <2>1. m = AtLeast(1, Max(S)) BY <1>12, <1>15 DEF masterColumns
  <2>2. Max(S) \in Int
    <3>1. \A x \in A : x \in Int BY <1>13
    <3> QED BY <1>18, <3>1
  <2> QED BY <1>18, <2>1, <2>2 DEF AtLeast
<1>20. m \in 1..n /\ PrefixWidth(in, m) <= left BY <1>12, <1>13, <1>18, <1>19
<1>21. in.width - 3 - left >= detailMin(in.cols) BY <1>2, <1>3, <1>10
<1> QED BY <1>1, <1>10, <1>20, <1>21 DEF tablePaneSeparatorWidth

\* planTableLayout (table_layout.go:54-102) keeps the grid, the panes and the fields
\* of the detail inside the cell of a table, the columns between readable and
\* preferred widths; of records it says which titles leave room for the value. For
\* every list of columns, width and number of rows, in integers that do not wrap.
THEOREM EveryTableFits ==
  ASSUME NEW in, InputOK(in)
  PROVE  TableFits(in)
<1>1. PICK plan : plan = planTableLayout(in) OBVIOUS
<1>2. PICK n : n = Len(in.cols) OBVIOUS
<1>3. PICK pref : pref = preferredTableWidths(in.cols) OBVIOUS
<1>4. PICK mode : mode = TableMode(in) OBVIOUS
<1>5. n \in Nat /\ pref \in Widths(n) /\ Len(pref) = n /\ DOMAIN pref = 1..n
  <2>1. n \in Nat /\ pref \in Widths(n) BY <1>2, <1>3, ColumnWidths
  <2> QED BY <2>1, FunctionIsSeq DEF Widths
<1>6. \A i \in 1..n : pref[i] \in readable(in.cols[i])..preferred(in.cols[i])
  <2>1. ASSUME NEW i \in 1..n PROVE pref[i] \in readable(in.cols[i])..preferred(in.cols[i])
    <3>1. /\ pref[i] = preferred(in.cols[i]) /\ readable(in.cols[i]) <= preferred(in.cols[i])
          /\ readable(in.cols[i]) \in Int /\ preferred(in.cols[i]) \in Int
      BY <1>2, <1>3, ColumnWidths
    <3> QED BY <3>1
  <2> QED BY <2>1
<1> DEFINE left == IF mode = "masterDetail" THEN LeftPaneWidth(in) ELSE 0
<1> DEFINE m == IF mode = "masterDetail" THEN masterColumns(in, left) ELSE n
<1> DEFINE Narrow(k, width) ==
      shrinkTableWidthsToFloors(SubSeq(preferredTableWidths(in.cols), 1, k),
                                SubSeq(minimumReadableTableWidths(in.cols), 1, k),
                                width - GridChrome(in, k))
<1>7. /\ plan.mode = mode /\ plan.left = left
      /\ plan.widths = CASE mode = "compressed" -> Narrow(n, in.width)
                         [] mode = "masterDetail" -> Narrow(m, left)
                         [] OTHER -> pref
      /\ plan.right = IF mode = "masterDetail" THEN in.width - tablePaneSeparatorWidth - left ELSE 0
  BY <1>1, <1>2, <1>3, <1>4 DEF planTableLayout
<1>8. \/ mode = "full" /\ (n = 0 \/ in.width <= 0 \/ GridChrome(in, n) + sumInts(pref) <= in.width)
      \/ mode = "compressed" /\ PrefixWidth(in, n) <= in.width
      \/ mode = "masterDetail" /\ masterDetailEligible(in)
      \/ mode = "records"
  <2>1. in.width \in Int BY DEF InputOK
  <2> QED BY <1>2, <1>3, <1>4, <1>5, <2>1 DEF TableMode
<1> DEFINE Fields(right) == \A i \in DOMAIN in.cols : DetailLine(in.cols[i], right) <= right
<1> DEFINE Records == \A i \in DOMAIN in.cols, mark \in Marks :
                        RecordLine(in.cols[i], in.width, mark) <= in.width
                          <=> mark = 0 /\ in.cols[i].title + 3 <= in.width
<1>9. TableFits(in) <=>
        /\ plan.mode \in {"full", "compressed"} /\ in.width > 0 /\ in.cols # <<>> =>
             GridChrome(in, Len(plan.widths)) + sumInts(plan.widths) <= in.width
        /\ plan.mode = "masterDetail" =>
             /\ GridChrome(in, Len(plan.widths)) + sumInts(plan.widths) <= plan.left
             /\ plan.right >= detailMin(in.cols)
             /\ plan.left + tablePaneSeparatorWidth + plan.right = in.width
             /\ Fields(plan.right)
        /\ plan.mode = "records" => Records
        /\ \A i \in DOMAIN plan.widths :
             plan.widths[i] \in readable(in.cols[i])..preferred(in.cols[i])
  BY <1>1 DEF TableFits, GridWidth
<1>14. Records
  <2>1. in.width \in Int /\ \A i \in DOMAIN in.cols : in.cols[i] \in Column BY DEF InputOK
  <2> QED BY <2>1, FieldFacts
<1> HIDE DEF Records
<1>15. ASSUME NEW right \in Int, right >= detailMin(in.cols), n >= 1 PROVE Fields(right)
  <2>1. detailMin(in.cols) \in Int BY <1>2, <1>15, DetailMinType
  <2>2. \A i \in DOMAIN in.cols : in.cols[i] \in Column BY DEF InputOK
  <2>3. ASSUME NEW i \in DOMAIN in.cols PROVE DetailLine(in.cols[i], right) <= right
    <3>1. detailMin(in.cols) >= in.cols[i].title + 2 + readable(in.cols[i])
      BY <1>2, <1>15, <2>3, DetailMinType
    <3>2. PICK c \in Column : c = in.cols[i] BY <2>2
    <3>3. c.title \in Int /\ readable(c) \in Int BY ColumnFacts DEF Column
    <3>4. right >= c.title + 2 + readable(c) BY <1>15, <2>1, <3>1, <3>2, <3>3
    <3>5. DetailLine(c, right) <= right BY <3>4, FieldFacts
    <3> QED BY <3>2, <3>5
  <2> QED BY <2>3
<1> HIDE DEF Fields
<1> HIDE DEF left, m, Narrow
<1>10. CASE mode \in {"full", "records"}
  <2>1. plan.widths = pref /\ plan.mode = mode BY <1>7, <1>10
  <2>2. mode = "full" /\ in.width > 0 /\ in.cols # <<>> => GridChrome(in, n) + sumInts(pref) <= in.width
    <3>1. in.cols # <<>> => n # 0 BY <1>2 DEF InputOK
    <3>2. in.width > 0 => ~(in.width <= 0) BY DEF InputOK
    <3> QED BY <1>8, <3>1, <3>2
  <2> QED BY <1>5, <1>6, <1>9, <1>10, <1>14, <2>1, <2>2
<1>11. ASSUME NEW k \in 0..n, NEW width \in Int, PrefixWidth(in, k) <= width
       PROVE  /\ Len(Narrow(k, width)) = k /\ DOMAIN Narrow(k, width) = 1..k
              /\ GridChrome(in, k) + sumInts(Narrow(k, width)) <= width
              /\ \A i \in 1..k : Narrow(k, width)[i] \in readable(in.cols[i])..preferred(in.cols[i])
  <2>1. PICK s : s = Narrow(k, width) OBVIOUS
  <2>2. s = shrinkTableWidthsToFloors(SubSeq(preferredTableWidths(in.cols), 1, k),
                                      SubSeq(minimumReadableTableWidths(in.cols), 1, k),
                                      width - GridChrome(in, k))
    BY <2>1 DEF Narrow
  <2>3. /\ s \in Widths(k)
        /\ \A i \in 1..k : readable(in.cols[i]) <= s[i] /\ s[i] <= preferred(in.cols[i])
        /\ GridChrome(in, k) + sumInts(s) <= width
    BY <1>2, <1>11, <2>2, GridFits
  <2>4. k \in Nat /\ \A i \in 1..k : i \in 1..n BY <1>5
  <2>5. Len(s) = k /\ DOMAIN s = 1..k BY <2>3, <2>4, FunctionIsSeq DEF Widths
  <2>6. ASSUME NEW i \in 1..k PROVE s[i] \in readable(in.cols[i])..preferred(in.cols[i])
    <3>1. s[i] \in Int BY <2>3 DEF Widths
    <3>2. readable(in.cols[i]) \in Int /\ preferred(in.cols[i]) \in Int BY <1>2, <2>4, ColumnWidths
    <3> QED BY <2>3, <3>1, <3>2
  <2> QED BY <2>1, <2>3, <2>5, <2>6
<1>12. CASE mode = "compressed"
  <2>1. plan.widths = Narrow(n, in.width) /\ plan.mode = mode BY <1>7, <1>12
  <2>2. n \in 0..n /\ in.width \in Int /\ PrefixWidth(in, n) <= in.width BY <1>5, <1>8, <1>12 DEF InputOK
  <2> QED BY <1>9, <1>11, <1>12, <2>1, <2>2
<1>13. CASE mode = "masterDetail"
  <2>1. left = LeftPaneWidth(in) /\ m = masterColumns(in, left) /\ masterDetailEligible(in)
    BY <1>8, <1>13 DEF left, m
  <2>2. /\ left \in Int /\ in.width - tablePaneSeparatorWidth - left >= detailMin(in.cols)
        /\ m \in 1..n /\ PrefixWidth(in, m) <= left
    BY <1>2, <2>1, PaneFacts
  <2>3. /\ plan.widths = Narrow(m, left) /\ plan.mode = mode /\ plan.left = left
        /\ plan.right = in.width - tablePaneSeparatorWidth - left
    BY <1>7, <1>13
  <2>4. m \in 0..n BY <1>5, <2>2
  <2>5. left + tablePaneSeparatorWidth + (in.width - tablePaneSeparatorWidth - left) = in.width
    BY <2>2 DEF tablePaneSeparatorWidth, InputOK
  <2>6. /\ Len(plan.widths) = m /\ DOMAIN plan.widths = 1..m
        /\ GridChrome(in, m) + sumInts(plan.widths) <= left
        /\ \A i \in 1..m : plan.widths[i] \in readable(in.cols[i])..preferred(in.cols[i])
    BY <1>11, <2>2, <2>3, <2>4
  <2>7. plan.right \in Int /\ plan.right >= detailMin(in.cols) /\ n >= 1
    BY <1>5, <2>2, <2>3 DEF InputOK, tablePaneSeparatorWidth
  <2>8. Fields(plan.right) BY <1>15, <2>7
  <2> QED BY <1>9, <1>13, <2>2, <2>3, <2>5, <2>6, <2>8
<1> QED BY <1>8, <1>10, <1>12, <1>13


------------------------------------------------------------------------------
(* The widget and the key being handled                                      *)

Widgets == {NoWidget} \cup Inputs \cup Viewports \cup Tables

\* The greatest number of rows bounds the others.
LEMMA RowsBound == Max(Rows) \in Nat /\ \A r \in Rows : r \in Nat /\ r <= Max(Rows)
<1>1. Rows \subseteq Nat /\ Rows # {} /\ IsFiniteSet(Rows) BY ContentAssumption
<1>2. PICK n \in Nat : ExistsSurjection(1..n, Rows) BY <1>1, FS_NatSurjection
<1>3. PICK f : f \in Surjection(1..n, Rows) BY <1>2 DEF ExistsSurjection
<1>4. f \in [1..n -> Rows] /\ \A r \in Rows : \E i \in 1..n : f[i] = r BY <1>3 DEF Surjection
<1>5. n # 0 /\ f \in [1..n -> Int] /\ Rows = {f[i] : i \in 1..n}
  <2> PICK r : r \in Rows BY <1>1
  <2>1. n # 0
    <3>1. PICK i \in 1..n : f[i] = r BY <1>4
    <3> QED OBVIOUS
  <2>2. f \in [1..n -> Int]
    <3>1. \A i \in 1..n : f[i] \in Rows BY <1>4
    <3>2. \A x \in Rows : x \in Int BY <1>1
    <3>3. \A i \in 1..n : f[i] \in Int BY <3>1, <3>2
    <3> QED BY <1>4, <3>3
  <2>3. \A x : x \in Rows <=> \E i \in 1..n : f[i] = x BY <1>4
  <2>4. Rows = {f[i] : i \in 1..n} BY <2>3
  <2> QED BY <2>1, <2>2, <2>4
<1>6. Max(Rows) \in Rows /\ \A x \in Rows : x <= Max(Rows) BY <1>5, MaxOfValues
<1> QED BY <1>1, <1>6

\* What a widget has, by its type.
LEMMA WidgetFacts ==
  ASSUME NEW w \in Widgets
  PROVE  /\ w.type \in {"none", "input", "viewport", "table"}
         /\ w.type = "none" => w = NoWidget
         /\ w.type = "input" => w \in Inputs /\ w.len \in 0..MaxRunes
         /\ w.type = "viewport" =>
              w \in Viewports /\ w.len \in Nat /\ w.scrollable \in BOOLEAN /\ w.follow \in BOOLEAN
         /\ w.type = "table" =>
              /\ w \in Tables /\ w.len \in Rows /\ w.len \in Nat /\ w.len <= Max(Rows)
              /\ w.selectable \in BOOLEAN /\ w.sel \in Nat
<1>1. CASE w = NoWidget BY <1>1 DEF NoWidget
<1>2. CASE w \in Inputs BY <1>2 DEF Inputs
<1>3. CASE w \in Viewports
  <2>1. w.len \in Lines /\ w.type = "viewport" /\ w.scrollable \in BOOLEAN /\ w.follow \in BOOLEAN
    BY <1>3 DEF Viewports
  <2> QED BY <1>3, <2>1, ContentAssumption
<1>4. CASE w \in Tables
  <2>1. w.len \in Rows /\ w.type = "table" /\ w.selectable \in BOOLEAN /\ w.sel \in 0..Max(Rows)
    BY <1>4 DEF Tables
  <2> QED BY <1>4, <2>1, RowsBound
<1> QED BY <1>1, <1>2, <1>3, <1>4 DEF Widgets

\* A selection is a row of the table.
SelectionOK(w) == Selected(w) => w.sel < w.len

\* An input with another value.
LEMMA SetLen ==
  ASSUME NEW w \in Widgets, w.type = "input", NEW n \in 0..MaxRunes, NEW v, v = [w EXCEPT !.len = n]
  PROVE  v \in Widgets /\ v.type = "input" /\ v.len = n
<1>1. w \in Inputs BY WidgetFacts
<1>2. v \in Inputs /\ v.type = "input" /\ v.len = n BY <1>1 DEF Inputs
<1> QED BY <1>2 DEF Widgets

\* A table with another selection.
WithSelection(w, s) == [w EXCEPT !.sel = s]

\* It is a widget, and the same table otherwise.
LEMMA SetSel ==
  ASSUME NEW w \in Widgets, Selected(w), NEW s \in Nat, s < w.len, NEW v, v = WithSelection(w, s)
  PROVE  v \in Widgets /\ v.type = "table" /\ Selected(v) /\ v.len = w.len /\ v.sel = s
<1>1. w \in Tables /\ w.len \in Nat /\ w.len <= Max(Rows) /\ w.selectable /\ w.len > 0
  BY WidgetFacts DEF Selected, Selectable
<1>2. s \in 0..Max(Rows) BY <1>1, RowsBound
<1>3. v \in Tables /\ v.type = "table" /\ v.len = w.len /\ v.sel = s /\ v.selectable = w.selectable
  BY <1>1, <1>2 DEF Tables, WithSelection
<1> QED BY <1>1, <1>3 DEF Widgets, Selected, Selectable

\* The key that is handled and what it read; a viewport reads keys only when it
\* scrolls, a rune is read only by an input with room.
KeyOf(q, k, seen) ==
  /\ q = <<[k |-> k, seen |-> seen]>> /\ k \in Keys /\ seen \in Widgets
  /\ seen.type = "viewport" => Scrollable(seen)
  /\ k = "runes" => seen.type = "input" /\ seen.len < MaxRunes

KeyOK(q) == q = <<>> \/ \E k, seen : KeyOf(q, k, seen)

DocumentInv ==
  /\ widget \in Widgets /\ SelectionOK(widget)
  /\ focused \in BOOLEAN /\ loading \in BOOLEAN /\ dirty \in BOOLEAN
  /\ active \in BOOLEAN /\ quitting \in BOOLEAN
  /\ changes \in 0..MaxChanges
  /\ KeyOK(key)

\* The value of an input changes within its bounds, and nothing else does.
LEMMA SetInputFacts ==
  ASSUME widget \in Widgets, SelectionOK(widget), NEW n \in 0..MaxRunes, SetInput(n)
  PROVE  widget' \in Widgets /\ SelectionOK(widget)' /\ widget'.type = widget.type
         /\ (widget' # widget => widget.type = "input")
<1>1. CASE widget' = widget BY <1>1 DEF SelectionOK, Selected, Selectable
<1>2. CASE widget.type = "input" /\ widget' = [widget EXCEPT !.len = n]
  <2>1. widget' \in Widgets /\ widget'.type = "input" BY <1>2, SetLen
  <2> QED BY <1>2, <2>1 DEF SelectionOK, Selected, Selectable
<1> QED BY <1>1, <1>2 DEF SetInput

\* A selection moves inside its table.
LEMMA MoveFacts ==
  ASSUME widget \in Widgets, SelectionOK(widget), NEW d \in Int, MoveTableSelection(d)
  PROVE  widget' \in Widgets /\ SelectionOK(widget)' /\ widget'.type = widget.type
         /\ (widget' # widget => Selected(widget) /\ Selected(widget)')
<1>1. CASE widget' = widget BY <1>1 DEF SelectionOK, Selected, Selectable
<1>2. CASE Selected(widget) /\ widget' = [widget EXCEPT !.sel = clampInt(@ + d, 0, widget.len - 1)]
  <2>1. widget.type = "table" /\ widget.len \in Nat /\ widget.len > 0 /\ widget.sel \in Nat
    BY <1>2, WidgetFacts DEF Selected, Selectable
  <2>2. PICK s : s = clampInt(widget.sel + d, 0, widget.len - 1) OBVIOUS
  <2>3. s \in Nat /\ s < widget.len BY <2>1, <2>2 DEF clampInt, AtMost, AtLeast
  <2>4. PICK v : v = WithSelection(widget, s) OBVIOUS
  <2>5. v \in Widgets /\ v.type = "table" /\ Selected(v) /\ v.len = widget.len /\ v.sel = s
    <3>1. Selected(widget) BY <1>2
    <3> HIDE <1>2, <2>2
    <3> QED BY <2>3, <2>4, <3>1, SetSel
  <2>6. widget' = v BY <1>2, <2>2, <2>4 DEF WithSelection
  <2>7. SelectionOK(v) BY <2>1, <2>3, <2>5 DEF SelectionOK
  <2>8. SelectionOK(widget)' /\ Selected(widget)' BY <2>5, <2>6, <2>7 DEF SelectionOK, Selected, Selectable
  <2> QED BY <1>2, <2>1, <2>5, <2>6, <2>8
<1> QED BY <1>1, <1>2 DEF MoveTableSelection

\* Handling a key leaves the widget's type alone, whatever it read.
LEMMA HandleKeyFacts ==
  ASSUME DocumentInv, HandleKey
  PROVE  /\ widget' \in Widgets /\ SelectionOK(widget)' /\ widget'.type = widget.type
         /\ widget' # widget => widget.type = "input" \/ (Selected(widget) /\ Selected(widget)')
<1>1. key # <<>> BY DEF HandleKey
<1>2. PICK k, seen : KeyOf(key, k, seen) BY <1>1 DEF DocumentInv, KeyOK
<1>3. key[1].k = k /\ key[1].seen = seen /\ seen \in Widgets BY <1>2 DEF KeyOf
<1>4. widget \in Widgets /\ SelectionOK(widget) BY DEF DocumentInv
<1>5. CASE widget' = widget
  BY <1>4, <1>5 DEF SelectionOK, Selected, Selectable
<1>6. CASE handleInputKey /\ widget' # widget
  <2>1. PICK at : at = clampInt(Entry(caret, seen.len), 0, seen.len) OBVIOUS
  <2>2. seen.type = "input" BY <1>3, <1>6 DEF handleInputKey
  <2>3. seen.len \in 0..MaxRunes /\ MaxRunes \in Nat BY <1>3, <2>2, WidgetFacts, ContentAssumption
  <2>4. \/ k = "runes" /\ SetInput(seen.len + 1)
        \/ at > 0 /\ SetInput(seen.len - 1)
        \/ at < seen.len /\ SetInput(seen.len - 1)
    BY <1>3, <1>6, <2>1 DEF handleInputKey
  <2>5. k = "runes" => seen.len + 1 \in 0..MaxRunes BY <1>2, <2>3 DEF KeyOf
  <2>6. at > 0 \/ at < seen.len => seen.len - 1 \in 0..MaxRunes
    BY <2>1, <2>3 DEF clampInt, AtMost, AtLeast
  <2>7. PICK n \in 0..MaxRunes : SetInput(n) BY <2>4, <2>5, <2>6
  <2> QED BY <1>4, <1>6, <2>7, SetInputFacts
<1>7. CASE handleTableKey /\ widget' # widget
  <2>1. seen.type = "table" BY <1>3, <1>7 DEF handleTableKey
  <2>2. PICK current : current = IF Selected(widget) THEN widget.sel ELSE 0 OBVIOUS
  <2>3. current \in Int /\ seen.len \in Int
    BY <1>3, <1>4, <2>1, <2>2, WidgetFacts DEF Selected, Selectable
  <2>4. \/ MoveTableSelection(-1) \/ MoveTableSelection(1)
        \/ MoveTableSelection(-current) \/ MoveTableSelection(seen.len - 1 - current)
    BY <1>3, <1>7, <2>2 DEF handleTableKey
  <2>5. PICK d \in Int : MoveTableSelection(d) BY <2>3, <2>4
  <2> QED BY <1>4, <1>7, <2>5, MoveFacts
<1>8. CASE handleViewportKey BY <1>4, <1>5, <1>8 DEF handleViewportKey
<1> QED BY <1>5, <1>6, <1>7, <1>8 DEF HandleKey

\* Whether an animation is needed is a matter of the widget's type.
LEMMA NeedFacts ==
  ASSUME NEW v, NEW w, NEW f \in BOOLEAN, NEW l \in BOOLEAN
  PROVE  /\ NeedsAnimation(w, f, l) \in BOOLEAN
         /\ v.type = w.type => NeedsAnimation(v, f, l) = NeedsAnimation(w, f, l)
  BY DEF NeedsAnimation

\* What the agent publishes keeps the selection in its table.
LEMMA PublishedFacts ==
  ASSUME NEW w \in Widgets, Published(w)
  PROVE  SelectionOK(w)
<1> SUFFICES ASSUME Selected(w) PROVE w.sel < w.len BY DEF SelectionOK
<1>1. w.type = "table" /\ w.len \in Nat /\ w.len > 0 BY WidgetFacts DEF Selected, Selectable
<1>2. w.sel \in 0..(w.len - 1) \/ w.sel = 0 BY <1>1 DEF Published
<1> QED BY <1>1, <1>2

\* A new model shows a document that is in order.
LEMMA DocumentInit ==
  ASSUME Init
  PROVE  DocumentInv
<1>1. widget \in Widgets
  <2>1. [type : {"input"}, len : {0}] \subseteq Inputs BY ContentAssumption DEF Inputs
  <2> QED BY <2>1 DEF Init, Widgets
<1>2. SelectionOK(widget)
  BY DEF Init, SelectionOK, Selected, Selectable, NoWidget
<1>3. /\ focused \in BOOLEAN /\ loading \in BOOLEAN /\ dirty \in BOOLEAN /\ quitting \in BOOLEAN
      /\ KeyOK(key)
  BY DEF Init, KeyOK
<1>4. active \in BOOLEAN BY <1>3, NeedFacts DEF Init
<1>5. changes \in 0..MaxChanges BY ContentAssumption DEF Init
<1> QED BY <1>1, <1>2, <1>3, <1>4, <1>5 DEF DocumentInv

\* The command that follows an update leaves the animation on or off.
LEMMA CommandActive ==
  ASSUME active \in BOOLEAN, NEW need \in BOOLEAN, animationCommandIfNeeded(need)
  PROVE  active' = need
  BY DEF animationCommandIfNeeded, stopAnimation, animation

\* Every step keeps the document's part of the state typed, the selection in
\* its table, and the key what the terminal read.
LEMMA DocumentStep ==
  ASSUME DocumentInv, [Next]_vars
  PROVE  DocumentInv'
<1>1. CASE UNCHANGED vars
  BY <1>1 DEF DocumentInv, vars, document, local, animation, SelectionOK, KeyOK, KeyOf, Selected,
              Selectable, Scrollable
<1>2. ASSUME NEW w \in Widgets, NEW l \in BOOLEAN, Change(w, l) PROVE DocumentInv'
  <2>1. SelectionOK(w) BY <1>2, PublishedFacts DEF Change, DocumentInv
  <2>2. widget' \in Widgets /\ SelectionOK(widget)'
    BY <1>2, <2>1 DEF Change, SelectionOK, Selected, Selectable
  <2>3. changes' \in 0..MaxChanges BY <1>2, ContentAssumption DEF Change, DocumentInv
  <2>4. focused' \in BOOLEAN BY <1>2 DEF Change, DocumentInv, Focusable
  <2>5. loading' \in BOOLEAN /\ dirty' \in BOOLEAN /\ active' \in BOOLEAN /\ quitting' \in BOOLEAN /\ key' = key
    BY <1>2 DEF Change, DocumentInv, animation
  <2>6. KeyOK(key)' BY <2>5 DEF DocumentInv, KeyOK, KeyOf, Scrollable
  <2> QED BY <2>2, <2>3, <2>4, <2>5, <2>6 DEF DocumentInv
<1>3. ASSUME widget' = widget, loading' = loading, changes' = changes, focused' \in BOOLEAN,
             dirty' \in BOOLEAN, active' \in BOOLEAN, quitting' \in BOOLEAN, KeyOK(key)'
      PROVE  DocumentInv'
  <2>1. SelectionOK(widget)' BY <1>3 DEF DocumentInv, SelectionOK, Selected, Selectable
  <2> QED BY <1>3, <2>1 DEF DocumentInv
<1>4. ASSUME key' = key PROVE KeyOK(key)'
  BY <1>4 DEF DocumentInv, KeyOK, KeyOf, Scrollable
<1>5. ASSUME NEW sz \in Sizes, Resize(sz) PROVE DocumentInv'
  BY <1>3, <1>4, <1>5 DEF Resize, DocumentInv, document, animation
<1>6. CASE EngineDirty
  <2>1. active' \in BOOLEAN BY <1>6, NeedFacts, CommandActive DEF EngineDirty, DocumentInv
  <2> QED BY <1>3, <1>4, <1>6, <2>1 DEF EngineDirty, DocumentInv, document
<1>7. CASE CtrlC
  BY <1>3, <1>4, <1>7 DEF CtrlC, DocumentInv, document, stopAnimation
<1>8. CASE Tab
  <2>1. focused' \in BOOLEAN BY <1>8 DEF Tab, DocumentInv, Focusable
  <2>2. PICK need \in BOOLEAN : need = NeedsAnimation(widget, focused', loading)
    BY <2>1, NeedFacts DEF DocumentInv
  <2>3. active' \in BOOLEAN BY <1>8, <2>2, CommandActive DEF Tab, DocumentInv
  <2> QED BY <1>3, <1>4, <1>8, <2>1, <2>3 DEF Tab, DocumentInv
<1>9. CASE Tick
  <2>1. PICK e \in Epochs : AnimationTick(e) BY <1>9 DEF Tick
  <2>2. active' \in BOOLEAN BY <2>1 DEF AnimationTick, animation, stopAnimation, DocumentInv
  <2> QED BY <1>3, <1>4, <2>1, <2>2 DEF AnimationTick, DocumentInv, document
<1>10. ASSUME NEW k \in Keys, ReadKey(k) PROVE DocumentInv'
  <2>1. KeyOf(key, k, widget)'
    BY <1>10 DEF ReadKey, KeyOf, DocumentInv, document, InputKeys, TableKeys, ViewportKeys, Selectable,
                 Scrollable
  <2>2. KeyOK(key)' BY <2>1 DEF KeyOK
  <2> QED BY <1>3, <1>10, <2>2 DEF ReadKey, DocumentInv, document, animation
<1>11. CASE HandleKey
  <2>1. widget' \in Widgets /\ SelectionOK(widget)' /\ widget'.type = widget.type BY <1>11, HandleKeyFacts
  <2>2. /\ focused' = focused /\ loading' = loading /\ changes' = changes /\ dirty' = dirty
        /\ quitting' = quitting /\ key' = <<>>
    BY <1>11 DEF HandleKey, KeyDone
  <2>3. PICK need \in BOOLEAN : need = NeedsAnimation(widget', focused, loading)
    BY NeedFacts DEF DocumentInv
  <2>4. animationCommandIfNeeded(need) \/ active' = active
    BY <1>11, <2>3 DEF HandleKey, handleInputKey, handleTableKey, handleViewportKey, Consumed, animation
  <2>5. active' \in BOOLEAN BY <2>3, <2>4, CommandActive DEF DocumentInv
  <2> QED BY <2>1, <2>2, <2>5 DEF DocumentInv, KeyOK
<1> QED BY <1>1, <1>2, <1>5, <1>6, <1>7, <1>8, <1>9, <1>10, <1>11 DEF Next, Widgets

------------------------------------------------------------------------------
(* The chain of ticks                                                        *)

One(b) == IF b THEN 1 ELSE 0

\* The animation is not what is needed, and an update or a tick will see to it.
Due == active # NeedsAnimation(widget, focused, loading)

\* The epochs that were, and those that can still come without a change by the
\* agent: one when the animation is due, one when the focus is gained, and two
\* for Ctrl-C, which stops an animation that may be started again.
Potential == epoch + One(Due) + One(~focused) + 2 * One(~quitting)

AnimationInv ==
  /\ epoch \in Nat /\ ticks \in [Epochs -> 0..1]
  /\ OneChain
  /\ \A e \in Epochs : e > epoch => ticks[e] = 0
  /\ Potential <= 2 * changes + 3

\* A count of one or none.
LEMMA OneFacts == \A b : One(b) \in 0..1 /\ (b => One(b) = 1) /\ (~b => One(b) = 0)
  BY DEF One

\* A change of the agent adds two epochs at most, so that they never run out.
LEMMA EpochBound ==
  ASSUME DocumentInv, AnimationInv
  PROVE  epoch \in Epochs /\ epoch + 1 \in Epochs /\ Epochs \subseteq Nat
<1>1. epoch \in Nat /\ changes \in 0..MaxChanges /\ MaxChanges \in Nat
  BY ContentAssumption DEF DocumentInv, AnimationInv
<1>2. One(Due) \in 0..1 /\ One(~focused) \in 0..1 /\ One(~quitting) \in 0..1 BY OneFacts
<1>3. epoch <= 2 * changes + 3 BY <1>1, <1>2 DEF AnimationInv, Potential
<1> QED BY <1>1, <1>3 DEF Epochs

\* What is said of the ticks, for values to come.
Chain(t, e, on) == t \in [Epochs -> 0..1] /\ t[e] = One(on) /\ \A d \in Epochs : d > e => t[d] = 0

\* The chain stays one when the animation is stopped: the tick in flight is of
\* an epoch that is over.
LEMMA StopFacts ==
  ASSUME DocumentInv, AnimationInv, stopAnimation
  PROVE  /\ active' = FALSE /\ epoch' = epoch + One(active) /\ epoch' \in Epochs
         /\ ticks[epoch'] = 0 /\ \A d \in Epochs : d > epoch' => ticks[d] = 0
<1>1. epoch \in Epochs /\ epoch + 1 \in Epochs /\ Epochs \subseteq Nat BY EpochBound
<1>2. active' = FALSE /\ epoch' = IF active THEN epoch + 1 ELSE epoch BY DEF stopAnimation
<1>3. active \in BOOLEAN BY DEF DocumentInv
<1>4. ~active => ticks[epoch] = 0 BY DEF AnimationInv, OneChain
<1>5. \A d \in Epochs : d > epoch => ticks[d] = 0 BY DEF AnimationInv
<1>6. CASE active
  <2>1. epoch' = epoch + 1 BY <1>2, <1>6
  <2>2. ticks[epoch + 1] = 0 BY <1>1, <1>5
  <2>3. \A d \in Epochs : d > epoch + 1 => ticks[d] = 0 BY <1>1, <1>5
  <2> QED BY <1>1, <1>2, <1>6, <2>1, <2>2, <2>3 DEF One
<1>7. CASE ~active
  <2>1. epoch' = epoch BY <1>2, <1>7
  <2> QED BY <1>1, <1>2, <1>4, <1>5, <1>7, <2>1 DEF One
<1> QED BY <1>3, <1>6, <1>7

\* Starting it emits the one tick of a new epoch.
LEMMA CommandFacts ==
  ASSUME DocumentInv, AnimationInv, NEW need \in BOOLEAN, animationCommandIfNeeded(need)
  PROVE  active' = need /\ epoch' = epoch + One(active # need) /\ Chain(ticks', epoch', need)
<1>1. epoch \in Epochs /\ epoch + 1 \in Epochs /\ Epochs \subseteq Nat BY EpochBound
<1>2. active \in BOOLEAN /\ ticks \in [Epochs -> 0..1] BY DEF DocumentInv, AnimationInv
<1>3. CASE ~need
  <2>1. stopAnimation /\ ticks' = ticks BY <1>3 DEF animationCommandIfNeeded
  <2>2. /\ active' = FALSE /\ epoch' = epoch + One(active) /\ epoch' \in Epochs
        /\ ticks[epoch'] = 0 /\ \A d \in Epochs : d > epoch' => ticks[d] = 0
    BY <2>1, StopFacts
  <2>3. One(active) = One(active # need) /\ One(need) = 0 BY <1>2, <1>3 DEF One
  <2> QED BY <1>2, <1>3, <2>1, <2>2, <2>3 DEF Chain
<1>4. CASE need /\ active
  <2>1. active' = active /\ epoch' = epoch /\ ticks' = ticks
    BY <1>4 DEF animationCommandIfNeeded, animation
  <2>2. ticks[epoch] = 1 BY <1>4 DEF AnimationInv, OneChain
  <2>3. One(active # need) = 0 /\ One(need) = 1 BY <1>4 DEF One
  <2>4. \A d \in Epochs : d > epoch => ticks[d] = 0 BY DEF AnimationInv
  <2>5. active' = need BY <1>4, <2>1
  <2> QED BY <1>1, <1>2, <2>1, <2>2, <2>3, <2>4, <2>5 DEF Chain
<1>5. CASE need /\ ~active
  <2>1. active' = TRUE /\ epoch' = epoch + 1 /\ ticks' = [ticks EXCEPT ![epoch + 1] = @ + 1]
    BY <1>5 DEF animationCommandIfNeeded, Emit
  <2>2. \A d \in Epochs : d > epoch => ticks[d] = 0 BY DEF AnimationInv
  <2>3. ticks[epoch + 1] = 0 BY <1>1, <2>2
  <2>4. ticks' \in [Epochs -> 0..1] /\ ticks'[epoch + 1] = 1 BY <1>1, <1>2, <2>1, <2>3
  <2>5. \A d \in Epochs : d > epoch + 1 => ticks'[d] = 0 BY <1>1, <1>2, <2>1, <2>2
  <2>6. One(active # need) = 1 /\ One(need) = 1 BY <1>5 DEF One
  <2>7. active' = need BY <1>5, <2>1
  <2> QED BY <2>1, <2>4, <2>5, <2>6, <2>7 DEF Chain
<1> QED BY <1>2, <1>3, <1>4, <1>5

\* The invariant from its parts, for a step of an update.
LEMMA FollowingFacts ==
  ASSUME DocumentInv, AnimationInv, DocumentInv',
         NEW need \in BOOLEAN, need = NeedsAnimation(widget', focused', loading'),
         animationCommandIfNeeded(need), quitting' = quitting, changes' = changes,
         \/ focused' = focused /\ need = NeedsAnimation(widget, focused, loading)
         \/ focused' = TRUE /\ focused = FALSE
  PROVE  AnimationInv'
<1>1. active' = need /\ epoch' = epoch + One(active # need) /\ Chain(ticks', epoch', need) BY CommandFacts
<1>2. epoch \in Nat /\ changes \in Nat BY ContentAssumption DEF AnimationInv, DocumentInv
<1>3. One(active # need) \in 0..1 /\ One(Due) \in 0..1 /\ One(~focused) \in 0..1 /\ One(~quitting) \in 0..1
      /\ One(~focused') \in 0..1 /\ One(~quitting') = One(~quitting)
  BY OneFacts
<1>4. One(Due)' = 0 BY <1>1 DEF One, Due
<1>5. One(active # need) + One(~focused') <= One(Due) + One(~focused)
  <2>1. CASE focused' = focused /\ need = NeedsAnimation(widget, focused, loading)
    <3>1. One(active # need) = One(Due) BY <2>1 DEF One, Due
    <3>2. One(~focused') = One(~focused) BY <2>1
    <3> QED BY <1>3, <3>1, <3>2
  <2>2. CASE focused' = TRUE /\ focused = FALSE
    <3>1. One(~focused') = 0 /\ One(~focused) = 1 BY <2>2 DEF One
    <3> QED BY <1>3, <3>1
  <2> QED BY <2>1, <2>2
<1>6. Potential' <= 2 * changes' + 3
  <2>1. Potential' = epoch' + One(Due)' + One(~focused') + 2 * One(~quitting') BY DEF Potential, One
  <2>2. epoch + One(Due) + One(~focused) + 2 * One(~quitting) <= 2 * changes + 3 BY DEF AnimationInv, Potential
  <2> QED BY <1>1, <1>2, <1>3, <1>4, <1>5, <2>1, <2>2
<1>7. OneChain' BY <1>1 DEF OneChain, Chain, One
<1> QED BY <1>1, <1>2, <1>3, <1>6, <1>7 DEF AnimationInv, Chain

\* A new model has its one tick in flight, or needs none.
LEMMA AnimationInit ==
  ASSUME Init
  PROVE  AnimationInv
<1>1. DocumentInv BY DocumentInit
<1>2. 0 \in Epochs /\ Epochs \subseteq Nat BY ContentAssumption DEF Epochs
<1>3. active \in BOOLEAN /\ epoch = 0 /\ changes = 0 /\ focused = FALSE /\ quitting = FALSE /\ key = <<>>
      /\ active = NeedsAnimation(widget, focused, loading)
      /\ ticks = [e \in Epochs |-> IF active /\ e = 0 THEN 1 ELSE 0]
  BY <1>1 DEF Init, DocumentInv
<1>4. ticks \in [Epochs -> 0..1] BY <1>3
<1>5. OneChain BY <1>2, <1>3 DEF OneChain
<1>6. \A e \in Epochs : e > epoch => ticks[e] = 0 BY <1>2, <1>3
<1>7. Potential <= 2 * changes + 3
  <2>1. One(Due) = 0 /\ One(~focused) = 1 /\ One(~quitting) = 1 BY <1>3 DEF One, Due
  <2> QED BY <1>3, <2>1 DEF Potential
<1> QED BY <1>3, <1>4, <1>5, <1>6, <1>7 DEF AnimationInv

\* Every step keeps the chain one and the epochs within bounds.
LEMMA AnimationStep ==
  ASSUME DocumentInv, AnimationInv, [Next]_vars
  PROVE  AnimationInv'
<1>1. DocumentInv' BY DocumentStep
<1>2. ASSUME widget' = widget, focused' = focused, loading' = loading, changes' = changes,
             active' = active, epoch' = epoch, ticks' = ticks, quitting' = quitting
      PROVE  AnimationInv'
  BY <1>2 DEF AnimationInv, OneChain, Potential, Due, One
<1>3. CASE UNCHANGED vars
  BY <1>2, <1>3 DEF AnimationInv, vars, document, local, animation
<1>4. ASSUME NEW w \in Widgets, NEW l \in BOOLEAN, Change(w, l) PROVE AnimationInv'
  <2>1. /\ active' = active /\ epoch' = epoch /\ ticks' = ticks /\ quitting' = quitting /\ key' = key
        /\ changes' = changes + 1
    BY <1>4 DEF Change, animation
  <2>2. epoch \in Nat /\ changes \in Nat BY ContentAssumption DEF AnimationInv, DocumentInv
  <2>3. /\ One(Due)' \in 0..1 /\ One(~focused)' \in 0..1 /\ One(~quitting)' = One(~quitting)
        /\ One(Due) \in 0..1 /\ One(~focused) \in 0..1 /\ One(~quitting) \in 0..1
    BY <2>1, OneFacts DEF One, Due
  <2>4. Potential' <= 2 * changes' + 3
    <3>1. epoch + One(Due) + One(~focused) + 2 * One(~quitting) <= 2 * changes + 3 BY DEF AnimationInv, Potential
    <3>2. Potential' = epoch + One(Due)' + One(~focused)' + 2 * One(~quitting)' BY <2>1 DEF Potential
    <3> QED BY <2>1, <2>2, <2>3, <3>1, <3>2
  <2>5. OneChain' BY <2>1 DEF AnimationInv, OneChain
  <2> QED BY <2>1, <2>4, <2>5 DEF AnimationInv
<1>5. ASSUME NEW sz \in Sizes, Resize(sz) PROVE AnimationInv'
  BY <1>2, <1>5 DEF Resize, AnimationInv, document, animation
<1>6. CASE EngineDirty
  <2>1. PICK need \in BOOLEAN : need = NeedsAnimation(widget, focused, loading)
    BY NeedFacts DEF DocumentInv
  <2>2. /\ widget' = widget /\ focused' = focused /\ loading' = loading /\ changes' = changes
        /\ quitting' = quitting /\ key' = key
    BY <1>6 DEF EngineDirty, document, Idle
  <2>3. animationCommandIfNeeded(need) BY <1>6, <2>1 DEF EngineDirty
  <2>4. need = NeedsAnimation(widget', focused', loading') BY <2>1, <2>2
  <2> QED BY <1>1, <2>1, <2>2, <2>3, <2>4, FollowingFacts
<1>7. CASE CtrlC
  <2>1. /\ ~quitting /\ quitting' = TRUE /\ stopAnimation /\ key = <<>> /\ key' = key /\ ticks' = ticks
        /\ changes' = changes /\ focused' = focused
    BY <1>7 DEF CtrlC, Idle, document
  <2>2. /\ active' = FALSE /\ epoch' = epoch + One(active) /\ epoch' \in Epochs
        /\ ticks[epoch'] = 0 /\ \A d \in Epochs : d > epoch' => ticks[d] = 0
    BY <2>1, StopFacts
  <2>3. /\ One(active) \in 0..1 /\ One(Due)' \in 0..1 /\ One(~quitting)' = 0 /\ One(Due) \in 0..1
        /\ One(~focused) \in 0..1 /\ One(~quitting) = 1
    BY <2>1, OneFacts DEF One, Due
  <2>4. One(~focused)' = One(~focused) BY <2>1 DEF One
  <2>5. epoch \in Nat /\ changes \in Nat BY ContentAssumption DEF AnimationInv, DocumentInv
  <2>6. Potential' <= 2 * changes' + 3
    <3>1. epoch + One(Due) + One(~focused) + 2 * One(~quitting) <= 2 * changes + 3 BY DEF AnimationInv, Potential
    <3>2. Potential' = epoch' + One(Due)' + One(~focused)' + 2 * One(~quitting)' BY DEF Potential
    <3> QED BY <2>1, <2>2, <2>3, <2>4, <2>5, <3>1, <3>2
  <2>7. OneChain' BY <2>1, <2>2 DEF OneChain
  <2>8. epoch' \in Nat BY <2>2, <2>3, <2>5
  <2> QED BY <2>1, <2>2, <2>6, <2>7, <2>8 DEF AnimationInv
<1>8. CASE Tab
  <2>1. /\ widget' = widget /\ loading' = loading /\ changes' = changes
        /\ quitting' = quitting /\ key' = key /\ focused' \in BOOLEAN
        /\ focused' = focused \/ (focused' = TRUE /\ focused = FALSE)
    BY <1>1, <1>8 DEF Tab, Idle, DocumentInv
  <2>2. PICK need \in BOOLEAN : need = NeedsAnimation(widget', focused', loading')
    BY <1>1, NeedFacts DEF DocumentInv
  <2>3. animationCommandIfNeeded(need) BY <1>8, <2>1, <2>2 DEF Tab
  <2>4. focused' = focused => need = NeedsAnimation(widget, focused, loading) BY <2>1, <2>2
  <2> QED BY <1>1, <2>1, <2>2, <2>3, <2>4, FollowingFacts
<1>9. CASE Tick
  <2>1. PICK e \in Epochs : AnimationTick(e) BY <1>9 DEF Tick
  <2>2. /\ widget' = widget /\ focused' = focused /\ loading' = loading /\ changes' = changes
        /\ quitting' = quitting /\ key' = key /\ ticks[e] > 0
    BY <2>1 DEF AnimationTick, Idle, document
  <2>3. epoch \in Epochs /\ Epochs \subseteq Nat /\ ticks \in [Epochs -> 0..1] BY EpochBound DEF AnimationInv
  <2>4. epoch \in Nat /\ changes \in Nat BY ContentAssumption DEF AnimationInv, DocumentInv
  <2>5. PICK need \in BOOLEAN : need = NeedsAnimation(widget, focused, loading)
    BY NeedFacts DEF DocumentInv
  <2>6. CASE UNCHANGED animation
    BY <1>2, <2>2, <2>6 DEF animation, AnimationInv
  <2>7. CASE active /\ e = epoch /\ ~need /\ stopAnimation /\ ticks' = [ticks EXCEPT ![e] = @ - 1]
    <3>1. /\ active' = FALSE /\ epoch' = epoch + One(active) /\ epoch' \in Epochs
          /\ \A d \in Epochs : d > epoch' => ticks[d] = 0
          /\ ticks[epoch'] = 0
      BY <2>2, <2>7, StopFacts
    <3>2. One(active) = 1 /\ One(Due) = 1 /\ One(Due)' = 0 BY <2>2, <2>5, <2>7, <3>1 DEF One, Due
    <3>3. epoch' = epoch + 1 BY <3>1, <3>2
    <3>4. One(~focused)' = One(~focused) /\ One(~quitting)' = One(~quitting) BY <2>2 DEF One
    <3>5. One(~focused) \in 0..1 /\ One(~quitting) \in 0..1 BY OneFacts
    <3>6. Potential' <= 2 * changes' + 3
      <4>1. epoch + One(Due) + One(~focused) + 2 * One(~quitting) <= 2 * changes + 3 BY DEF AnimationInv, Potential
      <4>2. Potential' = epoch' + One(Due)' + One(~focused)' + 2 * One(~quitting)' BY DEF Potential
      <4> QED BY <2>2, <2>4, <3>2, <3>3, <3>4, <3>5, <4>1, <4>2
    <3>7. ticks' \in [Epochs -> 0..1] BY <2>2, <2>3, <2>7
    <3>8. \A d \in Epochs : d # epoch => ticks'[d] = ticks[d] BY <2>3, <2>7
    <3>9. \A d \in Epochs : d > epoch' => ticks'[d] = 0
      <4>1. \A d \in Epochs : d > epoch' => d # epoch BY <2>3, <2>4, <3>3
      <4> QED BY <3>1, <3>8, <4>1
    <3>10. ticks'[epoch'] = 0
      <4>1. epoch' # epoch BY <2>4, <3>3
      <4> QED BY <3>1, <3>8, <4>1
    <3>11. OneChain' BY <3>1, <3>10 DEF OneChain
    <3> QED BY <2>2, <2>4, <3>3, <3>6, <3>7, <3>9, <3>11 DEF AnimationInv
  <2>8. CASE ~(active /\ e = epoch) /\ ticks' = [ticks EXCEPT ![e] = @ - 1] /\ UNCHANGED <<active, epoch>>
    <3>1. e # epoch
      <4>1. ~active => ticks[epoch] = 0 BY DEF AnimationInv, OneChain
      <4> QED BY <2>2, <2>8, <4>1
    <3>2. ticks' \in [Epochs -> 0..1] BY <2>2, <2>3, <2>8
    <3>3. \A d \in Epochs : d > epoch => ticks'[d] = 0
      <4>1. \A d \in Epochs : d > epoch => ticks[d] = 0 BY DEF AnimationInv
      <4>2. ~(e > epoch) BY <2>2, <4>1
      <4> QED BY <2>3, <2>8, <4>1, <4>2
    <3>4. ticks'[epoch] = ticks[epoch] BY <2>3, <2>8, <3>1
    <3>5. OneChain' BY <2>2, <2>8, <3>4 DEF AnimationInv, OneChain
    <3>6. Potential' = Potential BY <2>2, <2>8 DEF Potential, Due, One
    <3> QED BY <2>2, <2>8, <3>2, <3>3, <3>5, <3>6 DEF AnimationInv
  <2> QED BY <2>1, <2>5, <2>6, <2>7, <2>8 DEF AnimationTick
<1>10. ASSUME NEW k \in Keys, ReadKey(k) PROVE AnimationInv'
  BY <1>2, <1>10 DEF ReadKey, Idle, document, animation
<1>11. CASE HandleKey
  <2>1. widget' \in Widgets /\ widget'.type = widget.type BY <1>11, HandleKeyFacts
  <2>2. /\ focused' = focused /\ loading' = loading /\ changes' = changes
        /\ quitting' = quitting /\ key' = <<>>
    BY <1>11 DEF HandleKey, KeyDone, AnimationInv
  <2>3. PICK need \in BOOLEAN : need = NeedsAnimation(widget', focused, loading)
    BY NeedFacts DEF DocumentInv
  <2>4. need = NeedsAnimation(widget, focused, loading) BY <2>1, <2>3, NeedFacts DEF DocumentInv
  <2>5. need = NeedsAnimation(widget', focused', loading') BY <2>2, <2>3
  <2>6. CASE animationCommandIfNeeded(need)
    BY <1>1, <2>2, <2>4, <2>5, <2>6, FollowingFacts
  <2>7. CASE widget' = widget /\ UNCHANGED animation
    BY <1>2, <2>2, <2>7 DEF animation
  <2>8. animationCommandIfNeeded(need) \/ (widget' = widget /\ UNCHANGED animation)
    BY <1>11, <2>3 DEF HandleKey, handleInputKey, handleTableKey, handleViewportKey, Consumed
  <2> QED BY <2>6, <2>7, <2>8
<1> QED BY <1>3, <1>4, <1>5, <1>6, <1>7, <1>8, <1>9, <1>10, <1>11 DEF Next, Widgets

\* The document's part of the state and the animation, in every state.
THEOREM AnimationInvariant == Spec => [](DocumentInv /\ AnimationInv)
<1>1. Init => DocumentInv /\ AnimationInv BY DocumentInit, AnimationInit
<1>2. DocumentInv /\ AnimationInv /\ [Next]_vars => (DocumentInv /\ AnimationInv)'
  BY DocumentStep, AnimationStep
<1> QED BY <1>1, <1>2, PTL DEF Spec

\* The chain of ticks never forks (model.go:234-246): one tick of the current
\* epoch is in flight while the animation is on and none when it is off, for any
\* number of changes, keys, resizes and late ticks of epochs that are over.
THEOREM NoTimerFanOut == Spec => []OneChain
<1>1. AnimationInv => OneChain BY DEF AnimationInv
<1> QED BY <1>1, AnimationInvariant, PTL

------------------------------------------------------------------------------
(* The scroll position of a viewport                                         *)

Opt(o, S) == o = <<>> \/ \E x \in S : o = <<x>>
ViewportEntry == [offset : Nat, pinned : BOOLEAN]
CellOK(at) == at.w \in Int /\ at.w >= 1 /\ at.h \in Int

\* The cell of the widget is at least one cell wide, at every size.
LEMMA CellFacts ==
  ASSUME box \in Boxes, NEW sz \in Sizes \cup {InitialSize}
  PROVE  CellOK(WidgetCell(sz)) /\ sz.w \in Int
<1>1. BoxOK(box) BY BoxesOK
<1>2. sz.w \in Int /\ sz.h \in Int BY LayoutAssumption DEF InitialSize
<1>3. ChildWidths(box, sz.w)[1] \in Int /\ ChildWidths(box, sz.w)[1] >= 1 BY <1>1, <1>2, ChildWidthsFacts
<1>4. ContentExtent(sz.h, box) \in Int BY <1>1, <1>2, ContentFacts
<1> QED BY <1>2, <1>3, <1>4 DEF CellOK, WidgetCell

MaxOffset(w, at) == AtLeast(0, TotalLines(w, at) - ClampViewportHeight(ViewHeight, at.h))

\* Where an entry is drawn.
Position(w, at, l) ==
  IF w.follow /\ l.pinned THEN MaxOffset(w, at) ELSE clampInt(l.offset, 0, MaxOffset(w, at))

\* The greatest offset is a number of lines.
LEMMA MaxOffsetType ==
  ASSUME NEW w \in Widgets, w.type = "viewport", NEW at, CellOK(at)
  PROVE  MaxOffset(w, at) \in Nat
<1>1. w.len \in Nat BY WidgetFacts
<1>2. PICK q \in Int : q = (LineCells + at.w - 1) \div at.w BY ContentAssumption DEF CellOK
<1>3. TotalLines(w, at) \in Int BY <1>1, <1>2 DEF TotalLines
<1>4. ClampViewportHeight(ViewHeight, at.h) \in Int
  BY ContentAssumption DEF CellOK, ClampViewportHeight, AtMost, AtLeast
<1> QED BY <1>3, <1>4 DEF MaxOffset, AtLeast

\* What a render reports, from the entry.
LEMMA RenderFacts ==
  ASSUME NEW w, NEW at, NEW v, NEW l, l = Entry(v, NewViewport(w))
  PROVE  /\ renderViewport(w, at, v).maxOffset = MaxOffset(w, at)
         /\ renderViewport(w, at, v).offset = Position(w, at, l)
  BY DEF renderViewport, MaxOffset, Position

\* The entry that is drawn is the one that is kept, or a new one.
LEMMA EntryFacts ==
  ASSUME NEW w \in Widgets, w.type = "viewport", NEW v, Opt(v, ViewportEntry)
  PROVE  Entry(v, NewViewport(w)) \in ViewportEntry /\ (v # <<>> => v[1] \in ViewportEntry /\ v = <<v[1]>>
           /\ Entry(v, NewViewport(w)) = v[1])
<1>1. NewViewport(w) \in ViewportEntry BY WidgetFacts DEF NewViewport, ViewportEntry
<1>2. CASE v = <<>> BY <1>1, <1>2 DEF Entry
<1>3. ASSUME NEW x \in ViewportEntry, v = <<x>> 
      PROVE  Entry(v, NewViewport(w)) = x /\ v[1] = x /\ v # <<>>
  BY <1>3 DEF Entry
<1> QED BY <1>2, <1>3 DEF Opt

\* A position exists, and drawing the entry at it leaves it there.
LEMMA PositionFacts ==
  ASSUME NEW w \in Widgets, w.type = "viewport", NEW at, CellOK(at), NEW l \in ViewportEntry,
         NEW p, p = Position(w, at, l)
  PROVE  /\ p \in Nat /\ p <= MaxOffset(w, at)
         /\ [offset |-> p, pinned |-> l.pinned] \in ViewportEntry
         /\ Position(w, at, [offset |-> p, pinned |-> l.pinned]) = p
         /\ w.follow /\ l.pinned => p = MaxOffset(w, at)
         /\ ~(w.follow /\ l.pinned) /\ l.offset <= MaxOffset(w, at) => p = l.offset
         /\ ~(w.follow /\ l.pinned) /\ p < MaxOffset(w, at) => p = l.offset
<1>1. PICK m \in Nat : m = MaxOffset(w, at) BY MaxOffsetType
<1>2. l.offset \in Nat /\ l.pinned \in BOOLEAN BY DEF ViewportEntry
<1>3. p = IF w.follow /\ l.pinned THEN m ELSE clampInt(l.offset, 0, m) BY <1>1 DEF Position
<1>4. p \in Nat /\ p <= m BY <1>1, <1>2, <1>3 DEF clampInt, AtMost, AtLeast
<1>5. [offset |-> p, pinned |-> l.pinned] \in ViewportEntry BY <1>2, <1>4 DEF ViewportEntry
<1>6. clampInt(p, 0, m) = p BY <1>1, <1>4 DEF clampInt, AtMost, AtLeast
<1>7. Position(w, at, [offset |-> p, pinned |-> l.pinned])
        = IF w.follow /\ l.pinned THEN m ELSE clampInt(p, 0, m)
  BY <1>1 DEF Position
<1>8. Position(w, at, [offset |-> p, pinned |-> l.pinned]) = p BY <1>3, <1>6, <1>7
<1>9. /\ ~(w.follow /\ l.pinned) /\ l.offset <= m => p = l.offset
      /\ ~(w.follow /\ l.pinned) /\ p < m => p = l.offset
  BY <1>1, <1>2, <1>3 DEF clampInt, AtMost, AtLeast
<1> QED BY <1>1, <1>3, <1>4, <1>5, <1>8, <1>9

\* Reconciliation keeps the pin and moves the offset to where it is drawn.
LEMMA ReconciledEntry ==
  ASSUME NEW w \in Widgets, Scrollable(w), NEW at, NEW v, Opt(v, ViewportEntry),
         NEW l, l = Entry(v, NewViewport(w))
  PROVE  /\ l \in ViewportEntry
         /\ ReconciledViewport(w, at, v) = <<[offset |-> Position(w, at, l), pinned |-> l.pinned]>>
<1>1. w.type = "viewport" BY DEF Scrollable
<1>2. l \in ViewportEntry BY <1>1, EntryFacts
<1>3. renderViewport(w, at, <<l>>).offset = Position(w, at, l)
  <2>1. l = Entry(<<l>>, NewViewport(w)) BY DEF Entry
  <2> QED BY <2>1, RenderFacts
<1>4. PICK p : p = Position(w, at, l) OBVIOUS
<1>5. ReconciledViewport(w, at, v) = <<[l EXCEPT !.offset = p]>> BY <1>3, <1>4 DEF ReconciledViewport
<1>6. [l EXCEPT !.offset = p] = [offset |-> p, pinned |-> l.pinned] BY <1>2 DEF ViewportEntry
<1> QED BY <1>2, <1>4, <1>5, <1>6

\* A second reconciliation changes nothing.
LEMMA ViewportSettles ==
  ASSUME NEW w \in Widgets, NEW at, CellOK(at), NEW v, Opt(v, ViewportEntry),
         NEW u, u = ReconciledViewport(w, at, v)
  PROVE  Opt(u, ViewportEntry) /\ u = ReconciledViewport(w, at, u)
<1>1. CASE ~Scrollable(w) BY <1>1 DEF ReconciledViewport, Opt
<1>2. CASE Scrollable(w)
  <2>1. w.type = "viewport" BY <1>2 DEF Scrollable
  <2>2. PICK l : l = Entry(v, NewViewport(w)) OBVIOUS
  <2>3. PICK p : p = Position(w, at, l) OBVIOUS
  <2>4. PICK m : m = [offset |-> p, pinned |-> l.pinned] OBVIOUS
  <2>5. l \in ViewportEntry /\ u = <<m>> BY <1>2, <2>2, <2>3, <2>4, ReconciledEntry
  <2>6. m \in ViewportEntry /\ Position(w, at, m) = p BY <2>1, <2>3, <2>4, <2>5, PositionFacts
  <2>7. Opt(u, ViewportEntry) BY <2>5, <2>6 DEF Opt
  <2>8. Entry(u, NewViewport(w)) = m BY <2>5 DEF Entry
  <2>9. ReconciledViewport(w, at, u) = <<[offset |-> Position(w, at, m), pinned |-> m.pinned]>>
    BY <1>2, <2>7, <2>8, ReconciledEntry
  <2>10. m.pinned = l.pinned BY <2>4
  <2> QED BY <2>4, <2>5, <2>6, <2>7, <2>9, <2>10
<1> QED BY <1>1, <1>2

------------------------------------------------------------------------------
(* The window of a table                                                     *)

\* The window is inside the table, shows the selected row, and stays where it
\* is when it is computed again from its own start.
WindowHolds(win, rows, s, cap) ==
  /\ win.start \in Int
  /\ visibleTableRowWindow(rows, s, win.start, cap) = win
  /\ rows > 0 /\ cap > 0 /\ 0 <= s /\ s < rows =>
       win.start <= s /\ s <= win.end - 1 /\ win.end <= rows /\ win.end \in Int

\* So does every window that is computed.
LEMMA WindowFacts ==
  ASSUME NEW rows \in Nat, NEW s \in Int, NEW o \in Int, NEW cap \in Int,
         NEW win, win = visibleTableRowWindow(rows, s, o, cap)
  PROVE  WindowHolds(win, rows, s, cap)
<1>1. CASE rows <= 0 \/ cap <= 0 BY <1>1 DEF visibleTableRowWindow, WindowHolds
<1>2. CASE ~(rows <= 0 \/ cap <= 0)
  <2>1. PICK c : c = AtMost(rows, cap) OBVIOUS
  <2>2. PICK t : t = AtMost(rows - 1, AtLeast(0, s)) OBVIOUS
  <2>3. PICK from : from = AtMost(rows - c, AtLeast(0, o)) OBVIOUS
  <2>4. PICK start : start = AtMost(rows - c, AtLeast(t - c + 1, AtMost(t, from))) OBVIOUS
  <2>5. win = [start |-> start, end |-> start + c]
    BY <1>2, <2>1, <2>2, <2>3, <2>4 DEF visibleTableRowWindow
  <2>6. c \in 1..rows /\ t \in 0..(rows - 1) BY <1>2, <2>1, <2>2 DEF AtMost, AtLeast
  <2>7. from \in 0..(rows - c) BY <2>3, <2>6 DEF AtMost, AtLeast
  <2>8. start \in 0..(rows - c) /\ start <= t /\ t - c + 1 <= start
    BY <2>4, <2>6, <2>7 DEF AtMost, AtLeast
  <2>9. AtMost(rows - c, AtLeast(0, start)) = start BY <2>6, <2>8 DEF AtMost, AtLeast
  <2>10. AtMost(rows - c, AtLeast(t - c + 1, AtMost(t, start))) = start
    BY <2>6, <2>8 DEF AtMost, AtLeast
  <2>11. visibleTableRowWindow(rows, s, start, cap) = [start |-> start, end |-> start + c]
    BY <1>2, <2>1, <2>2, <2>9, <2>10 DEF visibleTableRowWindow
  <2>12. 0 <= s /\ s < rows => t = s BY <2>2 DEF AtMost, AtLeast
  <2> QED BY <2>5, <2>6, <2>8, <2>11, <2>12 DEF WindowHolds
<1> QED BY <1>1, <1>2

\* The mode of a table does not depend on what is selected or scrolled.
LEMMA ModeFacts ==
  ASSUME NEW in, NEW jn, in.cols = jn.cols, in.width = jn.width, in.rows = jn.rows,
         in.selectable = jn.selectable, in.variant = jn.variant
  PROVE  TableMode(in) = TableMode(jn)
<1>1. \A n : GridChrome(in, n) = GridChrome(jn, n) BY DEF GridChrome
<1>2. \A n : PrefixWidth(in, n) = PrefixWidth(jn, n) BY <1>1 DEF PrefixWidth
<1>3. masterDetailEligible(in) <=> masterDetailEligible(jn) BY DEF masterDetailEligible
<1> QED BY <1>1, <1>2, <1>3 DEF TableMode

\* TableInput, ReconciledTable with the columns as a parameter.
InputOf(cs, w, at, t) ==
  [width |-> at.w, height |-> at.h, cols |-> cs, rows |-> w.len,
   selectable |-> w.selectable, selected |-> w.sel, offset |-> Entry(t, 0), variant |-> "normal"]

RowsDrawn(cs, w, at) ==
  tableVisibleRowCapacity(InputOf(cs, w, at, <<>>), TableMode(InputOf(cs, w, at, <<>>)))

WindowOf(cs, w, at, t) == visibleTableRowWindow(w.len, w.sel, Entry(t, 0), RowsDrawn(cs, w, at))

TableAt(cs, w, at, t) == IF Selectable(w) THEN <<WindowOf(cs, w, at, t).start>> ELSE <<>>

\* The number of rows that are drawn does not depend on the offset, and a table
\* with rows shows one.
LEMMA CapacityFacts ==
  ASSUME NEW cs \in Seq(Column), NEW w \in Widgets, w.type = "table", NEW at, CellOK(at), NEW t
  PROVE  /\ RowWindow(InputOf(cs, w, at, t)) = WindowOf(cs, w, at, t)
         /\ RowsDrawn(cs, w, at) \in Int
         /\ w.len > 0 => RowsDrawn(cs, w, at) > 0
<1>1. PICK in : in = InputOf(cs, w, at, t) OBVIOUS
<1>2. PICK jn : jn = InputOf(cs, w, at, <<>>) OBVIOUS
<1>3. TableMode(in) = TableMode(jn)
  <2>1. in.cols = jn.cols /\ in.width = jn.width /\ in.rows = jn.rows
        /\ in.selectable = jn.selectable /\ in.variant = jn.variant
    BY <1>1, <1>2 DEF InputOf
  <2> QED BY <2>1, ModeFacts
<1>4. PICK mode : mode = TableMode(jn) OBVIOUS
<1>5. in.cols = cs /\ in.rows = w.len /\ in.height = at.h /\ in.variant = "normal"
      /\ in.selected = w.sel /\ in.offset = Entry(t, 0)
  BY <1>1 DEF InputOf
<1>6. jn.cols = cs /\ jn.rows = w.len /\ jn.height = at.h /\ jn.variant = "normal" BY <1>2 DEF InputOf
<1>7. tableVisibleRowCapacity(in, mode) = tableVisibleRowCapacity(jn, mode)
  BY <1>5, <1>6 DEF tableVisibleRowCapacity
<1>8. RowsDrawn(cs, w, at) = tableVisibleRowCapacity(jn, mode) BY <1>2, <1>4 DEF RowsDrawn
<1>9. RowWindow(in) = WindowOf(cs, w, at, t)
  BY <1>3, <1>4, <1>5, <1>7, <1>8 DEF RowWindow, WindowOf
<1>10. w.len \in Nat /\ at.h \in Int /\ Len(cs) \in Nat BY WidgetFacts DEF CellOK
<1>11. PICK h : h = AtLeast(1, at.h) OBVIOUS
<1>12. h \in Nat BY <1>10, <1>11 DEF AtLeast
<1>13. PICK f : f = IF mode = "records" THEN h \div (Len(cs) + 1) ELSE h - 2 OBVIOUS
<1>14. f \in Int
  <2>1. h \div (Len(cs) + 1) \in Nat BY <1>10, <1>12, Quotient
  <2> QED BY <1>12, <1>13, <2>1
<1>15. tableVisibleRowCapacity(jn, mode) = IF w.len <= 0 THEN 0 ELSE AtMost(w.len, AtLeast(1, f))
  BY <1>6, <1>11, <1>13 DEF tableVisibleRowCapacity
<1>16. /\ tableVisibleRowCapacity(jn, mode) \in Int
       /\ w.len > 0 => tableVisibleRowCapacity(jn, mode) > 0
  BY <1>10, <1>14, <1>15 DEF AtMost, AtLeast
<1> QED BY <1>1, <1>8, <1>9, <1>16

\* The operators of the model in terms of these.
LEMMA TableOperators ==
  ASSUME cols \in Seq(Column), NEW w \in Widgets, NEW at, CellOK(at), NEW t
  PROVE  /\ w.type = "table" => TableWindow(w, at, t) = WindowOf(cols, w, at, t)
         /\ ReconciledTable(w, at, t) = TableAt(cols, w, at, t)
<1>1. TableInput(w, at, t) = InputOf(cols, w, at, t) BY DEF TableInput, InputOf
<1>2. w.type = "table" => TableWindow(w, at, t) = WindowOf(cols, w, at, t)
  BY <1>1, CapacityFacts DEF TableWindow
<1> QED BY <1>2 DEF ReconciledTable, TableAt, Selectable

\* A second reconciliation of the table changes nothing, and the window shows
\* the selected row.
LEMMA TableSettles ==
  ASSUME NEW cs \in Seq(Column), NEW w \in Widgets, NEW at, CellOK(at), NEW t, Opt(t, Int),
         NEW u, u = TableAt(cs, w, at, t)
  PROVE  /\ Opt(u, Int) /\ u = TableAt(cs, w, at, u)
         /\ Selected(w) /\ SelectionOK(w) =>
              /\ WindowOf(cs, w, at, t).start <= w.sel
              /\ w.sel <= WindowOf(cs, w, at, t).end - 1
              /\ WindowOf(cs, w, at, t).end <= w.len
              /\ WindowOf(cs, w, at, t).start \in Int /\ WindowOf(cs, w, at, t).end \in Int
<1>1. CASE ~Selectable(w) BY <1>1 DEF TableAt, Opt, Selected
<1>2. CASE Selectable(w)
  <2>1. w.type = "table" /\ w.len \in Nat /\ w.sel \in Nat BY <1>2, WidgetFacts DEF Selectable
  <2>2. PICK cap : cap = RowsDrawn(cs, w, at) OBVIOUS
  <2>3. cap \in Int /\ (w.len > 0 => cap > 0) BY <2>1, <2>2, CapacityFacts
  <2>4. PICK o : o = Entry(t, 0) OBVIOUS
  <2>5. o \in Int BY <2>4 DEF Entry, Opt
  <2>6. PICK win : win = visibleTableRowWindow(w.len, w.sel, o, cap) OBVIOUS
  <2>7. WindowOf(cs, w, at, t) = win BY <2>2, <2>4, <2>6 DEF WindowOf
  <2>8. /\ win.start \in Int
        /\ visibleTableRowWindow(w.len, w.sel, win.start, cap) = win
        /\ w.len > 0 /\ cap > 0 /\ 0 <= w.sel /\ w.sel < w.len =>
              win.start <= w.sel /\ w.sel <= win.end - 1 /\ win.end <= w.len /\ win.end \in Int
    <3>1. PICK rows \in Nat : rows = w.len BY <2>1
    <3>2. PICK s \in Int : s = w.sel BY <2>1
    <3>3. win = visibleTableRowWindow(rows, s, o, cap) BY <2>6, <3>1, <3>2
    <3>4. WindowHolds(win, rows, s, cap) BY <2>3, <2>5, <3>3, WindowFacts
    <3> QED BY <3>1, <3>2, <3>4 DEF WindowHolds
  <2>9. u = <<win.start>> BY <1>2, <2>7 DEF TableAt
  <2>10. Entry(u, 0) = win.start BY <2>9 DEF Entry
  <2>11. WindowOf(cs, w, at, u) = win BY <2>2, <2>8, <2>10 DEF WindowOf
  <2>12. TableAt(cs, w, at, u) = u BY <1>2, <2>9, <2>11 DEF TableAt
  <2>13. Opt(u, Int) BY <2>8, <2>9 DEF Opt
  <2>14. Selected(w) /\ SelectionOK(w) => w.len > 0 /\ w.sel < w.len BY DEF Selected, SelectionOK
  <2> QED BY <2>1, <2>3, <2>7, <2>8, <2>12, <2>13, <2>14
<1> QED BY <1>1, <1>2

------------------------------------------------------------------------------
(* What the terminal keeps                                                   *)

\* Another reconciliation would change nothing.
Settled(cs, w, at, v, t) == v = ReconciledViewport(w, at, v) /\ t = TableAt(cs, w, at, t)

ScreenOK == box \in Boxes /\ cols \in ColumnSets /\ size \in Sizes \cup {InitialSize} /\ cell = WidgetCell(size)

LocalInv ==
  /\ ScreenOK
  /\ Opt(viewport, ViewportEntry) /\ Opt(table, Int)
  /\ ~dirty => Settled(cols, widget, cell, viewport, table)
  /\ ~dirty /\ key # <<>> => key[1].seen = widget

\* The cell has a width and the columns are columns.
LEMMA ScreenFacts ==
  ASSUME ScreenOK
  PROVE  BoxOK(box) /\ CellOK(cell) /\ size.w \in Int /\ cols \in Seq(Column)
<1>1. box \in Boxes /\ cols \in ColumnSets /\ size \in Sizes \cup {InitialSize} /\ cell = WidgetCell(size)
  BY DEF ScreenOK
<1> QED BY <1>1, CellFacts, BoxesOK, LayoutAssumption

\* After a reconciliation another one would change nothing.
LEMMA ReconcileFacts ==
  ASSUME LocalInv, NEW w \in Widgets, NEW at, CellOK(at),
         viewport' = ReconciledViewport(w, at, viewport), table' = ReconciledTable(w, at, table)
  PROVE  Opt(viewport', ViewportEntry) /\ Opt(table', Int) /\ Settled(cols, w, at, viewport', table')
<1>1. cols \in Seq(Column) BY ScreenFacts DEF LocalInv
<1>2. PICK v : v = ReconciledViewport(w, at, viewport) OBVIOUS
<1>3. PICK t : t = TableAt(cols, w, at, table) OBVIOUS
<1>4. viewport' = v /\ table' = t BY <1>1, <1>2, <1>3, TableOperators
<1>5. Opt(v, ViewportEntry) /\ v = ReconciledViewport(w, at, v) BY <1>2, ViewportSettles DEF LocalInv
<1>6. Opt(t, Int) /\ t = TableAt(cols, w, at, t) BY <1>1, <1>3, TableSettles DEF LocalInv
<1> QED BY <1>4, <1>5, <1>6 DEF Settled

\* A new model keeps nothing yet.
LEMMA LocalInit ==
  ASSUME Init
  PROVE  LocalInv
<1>1. ScreenOK BY DEF Init, ScreenOK
<1>2. widget.type # "viewport" /\ widget.type # "table" BY DEF Init, NoWidget
<1>3. viewport = <<>> /\ table = <<>> /\ key = <<>> BY DEF Init
<1>4. ReconciledViewport(widget, cell, viewport) = <<>> /\ TableAt(cols, widget, cell, table) = <<>>
  BY <1>2 DEF ReconciledViewport, TableAt, Scrollable, Selectable
<1> QED BY <1>1, <1>3, <1>4 DEF LocalInv, Settled, Opt

\* A widget that is neither scrolled nor selected in has no entries.
LEMMA PlainSettled ==
  ASSUME NEW cs, NEW at, NEW v, NEW t, NEW w, NEW u, w.type = u.type, w.type = "input",
         Settled(cs, u, at, v, t)
  PROVE  Settled(cs, w, at, v, t)
  BY DEF Settled, ReconciledViewport, TableAt, Scrollable, Selectable

\* A key in a viewport ends where the pin and the content put it.
ViewportMove(w, at, u) ==
  \E target, pinned :
    /\ u = <<[offset |-> target, pinned |-> pinned]>> /\ pinned \in BOOLEAN
    /\ target \in Nat /\ target <= MaxOffset(w, at)
    /\ pinned => target = MaxOffset(w, at)

\* Every key that is handled in a viewport moves it so.
LEMMA ViewportKeyFacts ==
  ASSUME DocumentInv, LocalInv, key # <<>>, handleViewportKey, widget.type = "viewport"
  PROVE  ViewportMove(widget, cell, viewport')
<1>1. PICK k, seen : KeyOf(key, k, seen) BY DEF DocumentInv, KeyOK
<1>2. key[1].k = k /\ key[1].seen = seen BY <1>1 DEF KeyOf
<1>3. widget \in Widgets /\ CellOK(cell) BY ScreenFacts DEF DocumentInv, LocalInv
<1>4. PICK max \in Nat : max = MaxOffset(widget, cell) BY <1>3, MaxOffsetType
<1>5. PICK m : m = renderViewport(widget, cell, viewport) OBVIOUS
<1>6. m.maxOffset = max BY <1>4, <1>5, RenderFacts
<1>7. PICK to : to = CASE k = "up" -> m.offset - 1
                       [] k = "down" -> m.offset + 1
                       [] k = "pgup" -> m.offset - AtLeast(1, m.visible - 1)
                       [] k = "pgdown" -> m.offset + AtLeast(1, m.visible - 1)
                       [] k = "home" -> 0
                       [] OTHER -> m.maxOffset
  OBVIOUS
<1>8. PICK target : target = clampInt(to, 0, max) OBVIOUS
<1>9. PICK pinned : pinned = PinAfter(k, seen.follow, Entry(viewport, NewViewport(seen)).pinned, target, max)
  OBVIOUS
<1>10. viewport' = <<[offset |-> target, pinned |-> pinned]>>
  BY <1>2, <1>5, <1>6, <1>7, <1>8, <1>9 DEF handleViewportKey
<1>11. to \in Int
  <2>1. PICK l \in ViewportEntry : l = Entry(viewport, NewViewport(widget))
    BY <1>3, EntryFacts DEF LocalInv
  <2>2. m.offset \in Int
    <3>1. PICK p : p = Position(widget, cell, l) OBVIOUS
    <3>2. p \in Nat BY <1>3, <3>1, PositionFacts
    <3>3. m.offset = p BY <1>5, <2>1, <3>1, RenderFacts
    <3> QED BY <3>2, <3>3
  <2>3. m.visible \in Int
    <3>1. ClampViewportHeight(ViewHeight, cell.h) \in Int
      BY <1>3, ContentAssumption DEF CellOK, ClampViewportHeight, AtMost, AtLeast
    <3>2. TotalLines(widget, cell) \in Int
      <4>1. PICK q \in Int : q = (LineCells + cell.w - 1) \div cell.w BY <1>3, ContentAssumption DEF CellOK
      <4>2. widget.len \in Nat BY <1>3, WidgetFacts
      <4> QED BY <4>1, <4>2 DEF TotalLines
    <3>3. m.visible = AtMost(ClampViewportHeight(ViewHeight, cell.h), TotalLines(widget, cell))
      BY <1>5 DEF renderViewport
    <3> QED BY <3>1, <3>2, <3>3 DEF AtMost
  <2>4. AtLeast(1, m.visible - 1) \in Int BY <2>3 DEF AtLeast
  <2> QED BY <1>4, <1>6, <1>7, <2>2, <2>4
<1>12. target \in Nat /\ target <= max BY <1>8, <1>11 DEF clampInt, AtMost, AtLeast
<1>13. pinned \in BOOLEAN BY <1>9 DEF PinAfter
<1>14. pinned => target = max
  <2> SUFFICES ASSUME pinned PROVE target = max OBVIOUS
  <2>1. CASE k = "end"
    <3>1. to = max BY <1>6, <1>7, <2>1
    <3> QED BY <1>8, <3>1 DEF clampInt, AtMost, AtLeast
  <2>2. CASE ~(target < max) BY <1>12, <2>2
  <2> QED BY <1>9, <2>1, <2>2 DEF PinAfter
<1> QED BY <1>4, <1>10, <1>12, <1>13, <1>14 DEF ViewportMove

\* Such an entry is settled.
LEMMA MoveSettled ==
  ASSUME NEW w \in Widgets, w.type = "viewport", NEW at, CellOK(at), NEW u, ViewportMove(w, at, u)
  PROVE  Opt(u, ViewportEntry) /\ (Scrollable(w) => u = ReconciledViewport(w, at, u))
<1>1. PICK max \in Nat : max = MaxOffset(w, at) BY MaxOffsetType
<1>2. PICK target, pinned :
        /\ u = <<[offset |-> target, pinned |-> pinned]>> /\ pinned \in BOOLEAN
        /\ target \in Nat /\ target <= max
        /\ pinned => target = max
  BY <1>1 DEF ViewportMove
<1>3. PICK l : l = [offset |-> target, pinned |-> pinned] OBVIOUS
<1>4. l \in ViewportEntry /\ u = <<l>> /\ l.offset = target /\ l.pinned = pinned BY <1>2, <1>3 DEF ViewportEntry
<1>5. Opt(u, ViewportEntry) BY <1>4 DEF Opt
<1>6. Entry(u, NewViewport(w)) = l BY <1>4 DEF Entry
<1>7. Position(w, at, l) = target
  <2>1. Position(w, at, l) = IF w.follow /\ pinned THEN max ELSE clampInt(target, 0, max)
    BY <1>1, <1>4 DEF Position
  <2> QED BY <1>2, <2>1 DEF clampInt, AtMost, AtLeast
<1>8. Scrollable(w) => ReconciledViewport(w, at, u) = <<[offset |-> target, pinned |-> pinned]>>
  BY <1>4, <1>5, <1>6, <1>7, ReconciledEntry
<1> QED BY <1>2, <1>5, <1>8

\* Handling a key leaves what the terminal keeps in order, with or without a
\* change that came in between.
LEMMA HandleKeyLocal ==
  ASSUME DocumentInv, LocalInv, HandleKey
  PROVE  LocalInv'
<1>1. /\ box' = box /\ cols' = cols /\ size' = size /\ cell' = cell /\ dirty' = dirty
      /\ key # <<>> /\ key' = <<>>
  BY DEF HandleKey, KeyDone
<1>2. ScreenOK' BY <1>1 DEF LocalInv, ScreenOK, WidgetCell
<1>3. widget \in Widgets /\ CellOK(cell) /\ cols \in Seq(Column) BY ScreenFacts DEF DocumentInv, LocalInv
<1>4. widget' \in Widgets /\ widget'.type = widget.type BY HandleKeyFacts
<1>5. PICK k, seen : KeyOf(key, k, seen) BY <1>1 DEF DocumentInv, KeyOK
<1>6. key[1].k = k /\ key[1].seen = seen /\ seen \in Widgets /\ (seen.type = "viewport" => Scrollable(seen))
  BY <1>5 DEF KeyOf
<1>7. ~dirty => seen = widget /\ Settled(cols, widget, cell, viewport, table) BY <1>1, <1>6 DEF LocalInv
<1>8. ASSUME Opt(viewport', ViewportEntry), Opt(table', Int),
             ~dirty => Settled(cols, widget', cell, viewport', table')
      PROVE  LocalInv'
  BY <1>1, <1>2, <1>8 DEF LocalInv
<1>9. CASE UNCHANGED <<widget, viewport, table>>
  BY <1>7, <1>8, <1>9 DEF LocalInv
<1>10. CASE handleInputKey
  <2>1. seen.type = "input" /\ viewport' = viewport /\ table' = table BY <1>6, <1>10 DEF handleInputKey
  <2>2. ~dirty => Settled(cols, widget', cell, viewport, table) BY <1>4, <1>7, <2>1, PlainSettled
  <2> QED BY <1>8, <2>1, <2>2 DEF LocalInv
<1>11. CASE handleTableKey
  <2>1. \/ reconcileLocalState(widget', cell)
        \/ UNCHANGED <<widget, local>>
    BY <1>11 DEF handleTableKey
  <2>2. CASE reconcileLocalState(widget', cell)
    <3>1. PICK w : w = widget' OBVIOUS
    <3>2. viewport' = ReconciledViewport(w, cell, viewport) /\ table' = ReconciledTable(w, cell, table)
      BY <2>2, <3>1 DEF reconcileLocalState
    <3>3. Opt(viewport', ViewportEntry) /\ Opt(table', Int) /\ Settled(cols, w, cell, viewport', table')
      BY <1>3, <1>4, <3>1, <3>2, ReconcileFacts
    <3> QED BY <1>8, <3>1, <3>3
  <2>3. CASE UNCHANGED <<widget, local>> BY <1>9, <2>3 DEF local
  <2> QED BY <2>1, <2>2, <2>3
<1>12. CASE handleViewportKey
  <2>1. CASE widget.type # "viewport"
    BY <1>9, <1>12, <2>1 DEF handleViewportKey, local
  <2>2. CASE widget.type = "viewport"
    <3>1. seen.type = "viewport" /\ widget' = widget /\ table' = table BY <1>6, <1>12, <2>2 DEF handleViewportKey
    <3>2. ViewportMove(widget, cell, viewport') BY <1>1, <1>12, <2>2, ViewportKeyFacts
    <3>3. PICK u : u = viewport' OBVIOUS
    <3>4. Opt(u, ViewportEntry) /\ (Scrollable(widget) => u = ReconciledViewport(widget, cell, u))
      BY <1>3, <2>2, <3>2, <3>3, MoveSettled
    <3>5. ~dirty => Scrollable(widget) BY <1>6, <1>7, <3>1
    <3>6. ~dirty => Settled(cols, widget, cell, u, table) BY <1>7, <3>4, <3>5 DEF Settled
    <3> QED BY <1>8, <3>1, <3>3, <3>4, <3>6 DEF LocalInv
  <2> QED BY <2>1, <2>2
<1> QED BY <1>10, <1>11, <1>12 DEF HandleKey

\* Apart from a key being handled, an entry is left alone or reconciled with
\* what the snapshot and the size are after the step.
LEMMA OtherSteps ==
  ASSUME [Next]_vars, ~HandleKey
  PROVE  /\ ~KeyStep
         /\ viewport' = viewport \/ viewport' = ReconciledViewport(widget', cell', viewport)
<1>1. CASE UNCHANGED vars BY <1>1 DEF vars, local, KeyStep
<1>2. ASSUME NEW w \in Widgets, NEW l \in BOOLEAN, Change(w, l)
      PROVE  ~KeyStep /\ viewport' = viewport
  BY <1>2 DEF Change, local, KeyStep
<1>3. ASSUME NEW sz \in Sizes, Resize(sz)
      PROVE  ~KeyStep /\ viewport' = ReconciledViewport(widget', cell', viewport)
  BY <1>3 DEF Resize, Idle, KeyStep, reconcileLocalState, document
<1>4. CASE EngineDirty BY <1>4 DEF EngineDirty, Idle, KeyStep, reconcileLocalState, document
<1>5. CASE CtrlC BY <1>5 DEF CtrlC, Idle, KeyStep, local
<1>6. CASE Tab BY <1>6 DEF Tab, Idle, KeyStep, reconcileLocalState
<1>7. CASE Tick BY <1>7 DEF Tick, AnimationTick, Idle, KeyStep, local
<1>8. ASSUME NEW k \in Keys, ReadKey(k) PROVE ~KeyStep /\ viewport' = viewport
  BY <1>8 DEF ReadKey, Idle, KeyStep, local
<1> QED BY <1>1, <1>2, <1>3, <1>4, <1>5, <1>6, <1>7, <1>8 DEF Next, Widgets

\* Every step leaves what the terminal keeps in order.
LEMMA LocalStep ==
  ASSUME DocumentInv, LocalInv, [Next]_vars
  PROVE  LocalInv'
<1>1. widget \in Widgets /\ CellOK(cell) /\ cols \in Seq(Column) BY ScreenFacts DEF DocumentInv, LocalInv
<1>2. ASSUME box' = box, cols' = cols, size' = size, cell' = cell PROVE ScreenOK'
  BY <1>2 DEF LocalInv, ScreenOK, WidgetCell
<1>3. ASSUME box' = box, cols' = cols, size' = size, cell' = cell, widget' = widget, dirty' = dirty,
             viewport' = viewport, table' = table, key' = key
      PROVE  LocalInv'
  BY <1>2, <1>3 DEF LocalInv
<1>4. ASSUME NEW at, CellOK(at), cell' = at, reconcileLocalState(widget, at), cols' = cols,
             widget' = widget, ScreenOK', key' = <<>>
      PROVE  LocalInv'
  <2>1. viewport' = ReconciledViewport(widget, at, viewport) /\ table' = ReconciledTable(widget, at, table)
    BY <1>4 DEF reconcileLocalState
  <2>2. Opt(viewport', ViewportEntry) /\ Opt(table', Int) /\ Settled(cols, widget, at, viewport', table')
    BY <1>1, <1>4, <2>1, ReconcileFacts
  <2> QED BY <1>4, <2>2 DEF LocalInv
<1>5. CASE UNCHANGED vars BY <1>3, <1>5 DEF vars, document, local
<1>6. ASSUME NEW w \in Widgets, NEW l \in BOOLEAN, Change(w, l) PROVE LocalInv'
  <2>1. ScreenOK' BY <1>2, <1>6 DEF Change
  <2> QED BY <1>6, <2>1 DEF Change, LocalInv, local
<1>7. ASSUME NEW sz \in Sizes, Resize(sz) PROVE LocalInv'
  <2>1. PICK at : at = WidgetCell(sz) OBVIOUS
  <2>2. /\ box' = box /\ cols' = cols /\ size' = sz /\ cell' = at /\ reconcileLocalState(widget, at)
        /\ widget' = widget /\ key' = <<>>
    BY <1>7, <2>1 DEF Resize, Idle, document, reconcileLocalState
  <2>3. CellOK(at) BY <2>1, CellFacts DEF LocalInv, ScreenOK
  <2>4. ScreenOK' BY <2>1, <2>2 DEF LocalInv, ScreenOK, WidgetCell
  <2> QED BY <1>4, <2>2, <2>3, <2>4
<1>8. CASE EngineDirty
  <2>1. ScreenOK' BY <1>2, <1>8 DEF EngineDirty
  <2> QED BY <1>1, <1>4, <1>8, <2>1 DEF EngineDirty, Idle, document
<1>9. CASE CtrlC BY <1>3, <1>9 DEF CtrlC, document, local
<1>10. CASE Tab
  <2>1. ScreenOK' BY <1>2, <1>10 DEF Tab
  <2> QED BY <1>1, <1>4, <1>10, <2>1 DEF Tab, Idle
<1>11. CASE Tick BY <1>3, <1>11 DEF Tick, AnimationTick, document, local
<1>12. ASSUME NEW k \in Keys, ReadKey(k) PROVE LocalInv'
  <2>1. ScreenOK' BY <1>2, <1>12 DEF ReadKey
  <2>2. key'[1].seen = widget /\ widget' = widget BY <1>12 DEF ReadKey, document
  <2> QED BY <1>12, <2>1, <2>2 DEF ReadKey, LocalInv, document, local
<1>13. CASE HandleKey BY <1>13, HandleKeyLocal
<1> QED BY <1>5, <1>6, <1>7, <1>8, <1>9, <1>10, <1>11, <1>12, <1>13 DEF Next, Widgets

------------------------------------------------------------------------------
(* Theorems                                                                  *)

\* The inductive invariant of the terminal.
THEOREM TerminalInvariant == Spec => [](DocumentInv /\ AnimationInv /\ LocalInv)
<1>1. Init => DocumentInv /\ LocalInv BY DocumentInit, LocalInit
<1>2. DocumentInv /\ LocalInv /\ [Next]_vars => (DocumentInv /\ LocalInv)' BY DocumentStep, LocalStep
<1> QED BY <1>1, <1>2, AnimationInvariant, PTL DEF Spec

\* Types, and the bound on epochs is never met.
THEOREM TerminalTypeCorrect == Spec => []TypeOK
<1>1. DocumentInv /\ AnimationInv /\ LocalInv => TypeOK
  <2> SUFFICES ASSUME DocumentInv, AnimationInv, LocalInv PROVE TypeOK OBVIOUS
  <2>1. epoch \in Epochs BY EpochBound
  <2>2. ticks \in [Epochs -> 0..2]
    <3>1. ticks \in [Epochs -> 0..1] BY DEF AnimationInv
    <3>2. \A n \in 0..1 : n \in 0..2 OBVIOUS
    <3> QED BY <3>1, <3>2
  <2>3. {focused, loading, dirty, active, quitting} \subseteq BOOLEAN BY DEF DocumentInv
  <2>4. widget \in {NoWidget} \cup Inputs \cup Viewports \cup Tables BY DEF DocumentInv, Widgets
  <2>5. changes \in 0..MaxChanges /\ size \in Sizes \cup {InitialSize} BY DEF DocumentInv, LocalInv, ScreenOK
  <2> QED BY <2>1, <2>2, <2>3, <2>4, <2>5 DEF TypeOK
<1> QED BY <1>1, TerminalInvariant, PTL

\* Once the updates are in (model.go:308-347), the scroll offset is where pin
\* and content put it and the table's window shows the selected row, for every
\* text, table, box, size and order of changes, resizes and keys.
THEOREM WindowsAlwaysSettled == Spec => []WindowsSettled
<1>1. DocumentInv /\ LocalInv => WindowsSettled
  <2> SUFFICES ASSUME DocumentInv, LocalInv, ~dirty, key = <<>>
               PROVE  /\ viewport = ReconciledViewport(widget, cell, viewport)
                      /\ table = ReconciledTable(widget, cell, table)
                      /\ Scrollable(widget) /\ widget.follow /\ viewport[1].pinned =>
                           viewport[1].offset = renderViewport(widget, cell, viewport).maxOffset
                      /\ Selected(widget) =>
                           LET window == TableWindow(widget, cell, table)
                           IN /\ table[1] = window.start
                              /\ widget.sel \in window.start..(window.end - 1)
                              /\ window.end <= widget.len
    BY DEF WindowsSettled
  <2>1. widget \in Widgets /\ SelectionOK(widget) /\ CellOK(cell) /\ cols \in Seq(Column)
    BY ScreenFacts DEF DocumentInv, LocalInv
  <2>2. viewport = ReconciledViewport(widget, cell, viewport) /\ table = TableAt(cols, widget, cell, table)
    BY DEF LocalInv, Settled
  <2>3. table = ReconciledTable(widget, cell, table) BY <2>1, <2>2, TableOperators
  <2>4. ASSUME Scrollable(widget), widget.follow, viewport[1].pinned
        PROVE  viewport[1].offset = renderViewport(widget, cell, viewport).maxOffset
    <3>1. widget.type = "viewport" BY <2>4 DEF Scrollable
    <3>2. PICK l : l = Entry(viewport, NewViewport(widget)) OBVIOUS
    <3>3. PICK p : p = Position(widget, cell, l) OBVIOUS
    <3>4. l \in ViewportEntry /\ viewport = <<[offset |-> p, pinned |-> l.pinned]>>
      BY <2>1, <2>2, <2>4, <3>2, <3>3, ReconciledEntry DEF LocalInv
    <3>5. viewport[1].offset = p /\ l.pinned BY <2>4, <3>4
    <3>6. p = MaxOffset(widget, cell) BY <2>4, <3>3, <3>5 DEF Position
    <3> QED BY <3>2, <3>5, <3>6, RenderFacts
  <2>5. ASSUME Selected(widget)
        PROVE  /\ table[1] = TableWindow(widget, cell, table).start
               /\ widget.sel \in TableWindow(widget, cell, table).start..(TableWindow(widget, cell, table).end - 1)
               /\ TableWindow(widget, cell, table).end <= widget.len
    <3>1. Selectable(widget) /\ widget.type = "table" /\ widget.sel \in Int
      BY <2>1, <2>5, WidgetFacts DEF Selected, Selectable
    <3>2. PICK win : win = WindowOf(cols, widget, cell, table) OBVIOUS
    <3>3. TableWindow(widget, cell, table) = win BY <2>1, <3>1, <3>2, TableOperators
    <3>4. table[1] = win.start BY <2>2, <3>1, <3>2 DEF TableAt
    <3>5. win.start <= widget.sel /\ widget.sel <= win.end - 1 /\ win.end <= widget.len
          /\ win.start \in Int /\ win.end \in Int
      BY <2>1, <2>2, <2>5, <3>2, TableSettles DEF LocalInv
    <3>6. widget.sel \in win.start..(win.end - 1) BY <3>1, <3>5
    <3> QED BY <3>3, <3>4, <3>5, <3>6
  <2> QED BY <2>2, <2>3, <2>4, <2>5
<1> QED BY <1>1, TerminalInvariant, PTL

\* The widths that are handed out fit, for every box, list of columns and size, in
\* integers that do not wrap: a row is inside its box when its minima fit, and
\* otherwise stacked or, given a cell for every child, shared equally inside it
\* (layout/flex.go:16-164, renderer.go:166-205); the grid, the panes and the
\* detail's fields of a table are inside its cell (table_layout.go:54-268). Of
\* records it says that one without mark is when its titles leave a cell for the
\* value, and not that all are (render_components.go:393-418).
THEOREM LayoutAlwaysFits == Spec => []LayoutFits
<1>1. DocumentInv /\ LocalInv => LayoutFits
  <2> SUFFICES ASSUME DocumentInv, LocalInv PROVE LayoutFits OBVIOUS
  <2>1. BoxOK(box) /\ CellOK(cell) /\ size.w \in Int /\ cols \in Seq(Column) BY ScreenFacts DEF LocalInv
  <2>2. RowFits(box, size.w) BY <2>1, EveryRowFits
  <2>3. PICK in : in = TableInput(widget, cell, table) OBVIOUS
  <2>4. InputOK(in) BY <2>1, <2>3 DEF InputOK, TableInput, CellOK
  <2>5. TableFits(in) BY <2>4, EveryTableFits
  <2> QED BY <2>2, <2>3, <2>5 DEF LayoutFits
<1> QED BY <1>1, TerminalInvariant, PTL

\* An entry that is reconciled keeps its pin, and its offset while that exists.
LEMMA ReconciledPosition ==
  ASSUME NEW w \in Widgets, NEW at, CellOK(at), NEW v, Opt(v, ViewportEntry), v # <<>>,
         NEW u, u # <<>>, u = ReconciledViewport(w, at, v)
  PROVE  /\ Scrollable(w) /\ u[1].pinned = v[1].pinned
         /\ w.follow /\ v[1].pinned => u[1].offset = MaxOffset(w, at)
         /\ ~(w.follow /\ v[1].pinned) /\ v[1].offset <= MaxOffset(w, at) => u[1].offset = v[1].offset
         /\ ~(w.follow /\ v[1].pinned) /\ u[1].offset < MaxOffset(w, at) => u = v
<1>1. Scrollable(w) BY DEF ReconciledViewport
<1>2. w.type = "viewport" BY <1>1 DEF Scrollable
<1>3. PICK l : l = Entry(v, NewViewport(w)) OBVIOUS
<1>4. PICK p : p = Position(w, at, l) OBVIOUS
<1>5. l \in ViewportEntry /\ u = <<[offset |-> p, pinned |-> l.pinned]>> BY <1>1, <1>3, <1>4, ReconciledEntry
<1>6. v[1] = l /\ v = <<l>> BY <1>2, <1>3, EntryFacts
<1>7. /\ w.follow /\ l.pinned => p = MaxOffset(w, at)
      /\ ~(w.follow /\ l.pinned) /\ l.offset <= MaxOffset(w, at) => p = l.offset
      /\ ~(w.follow /\ l.pinned) /\ p < MaxOffset(w, at) => p = l.offset
  BY <1>2, <1>4, <1>5, PositionFacts
<1>8. l = [offset |-> l.offset, pinned |-> l.pinned] BY <1>5 DEF ViewportEntry
<1>9. u[1].offset = p /\ u[1].pinned = l.pinned BY <1>5
<1>10. p = l.offset => u = v BY <1>5, <1>6, <1>8
<1> QED BY <1>1, <1>6, <1>7, <1>9, <1>10

\* The reading position is the user's, whatever the agent sends: only a key
\* changes the tail pin, and one that ends above the tail clears it
\* (key_router.go:168-216); an update or a resize moves an unpinned offset only
\* when it no longer exists (render_components.go and model.go:314-326).
THEOREM ReadingPositionKept == Spec => ReadingPosition
<1> DEFINE CellDrawn == CellOK(cell)
<1>1. LocalInv => CellDrawn BY ScreenFacts DEF LocalInv
<1>2. DocumentInv /\ LocalInv /\ DocumentInv' /\ CellDrawn' /\ [Next]_vars =>
        [viewport # <<>> /\ viewport' # <<>> =>
           /\ viewport'[1].pinned # viewport[1].pinned => KeyStep
           /\ KeyStep /\ viewport' # viewport /\ widget.type = "viewport"
                /\ viewport'[1].offset < renderViewport(widget, cell, viewport).maxOffset
                => ~viewport'[1].pinned
           /\ ~KeyStep /\ Scrollable(widget') /\ ~(widget'.follow /\ viewport[1].pinned)
                /\ viewport[1].offset <= renderViewport(widget', cell', viewport).maxOffset
                => viewport'[1].offset = viewport[1].offset]_vars
  <2> SUFFICES ASSUME DocumentInv, LocalInv, DocumentInv', CellDrawn', [Next]_vars,
                      viewport # <<>>, viewport' # <<>>
               PROVE  /\ viewport'[1].pinned # viewport[1].pinned => KeyStep
                      /\ KeyStep /\ viewport' # viewport /\ widget.type = "viewport"
                           /\ viewport'[1].offset < renderViewport(widget, cell, viewport).maxOffset
                           => ~viewport'[1].pinned
                      /\ ~KeyStep /\ Scrollable(widget') /\ ~(widget'.follow /\ viewport[1].pinned)
                           /\ viewport[1].offset <= renderViewport(widget', cell', viewport).maxOffset
                           => viewport'[1].offset = viewport[1].offset
    OBVIOUS
  <2>1. /\ widget \in Widgets /\ CellOK(cell)
        /\ Opt(viewport, ViewportEntry)
    BY ScreenFacts DEF DocumentInv, LocalInv
  <2>2. PICK w : w = widget' OBVIOUS
  <2>3. PICK at : at = cell' OBVIOUS
  <2>4. PICK u : u = viewport' OBVIOUS
  <2>5. w \in Widgets BY <2>2 DEF DocumentInv
  <2>6. CASE HandleKey
    <3>1. KeyStep BY <2>6 DEF HandleKey, KeyDone, KeyStep
    <3>2. ASSUME u # viewport, widget.type = "viewport",
                 u[1].offset < MaxOffset(widget, cell)
          PROVE  ~u[1].pinned
      <4>1. CASE handleInputKey BY <2>4, <3>2, <4>1 DEF handleInputKey
      <4>2. CASE handleTableKey
        <5>1. w = widget
          BY <2>2, <2>6, <3>2, HandleKeyFacts DEF Selected, Selectable
        <5>2. u = ReconciledViewport(widget, cell, viewport)
          BY <2>2, <2>4, <3>2, <4>2, <5>1 DEF handleTableKey, reconcileLocalState, local
        <5>3. /\ widget.follow /\ viewport[1].pinned => u[1].offset = MaxOffset(widget, cell)
              /\ ~(widget.follow /\ viewport[1].pinned) /\ u[1].offset < MaxOffset(widget, cell) => u = viewport
          BY <2>1, <2>4, <5>2, ReconciledPosition
        <5>4. MaxOffset(widget, cell) \in Nat BY <2>1, <3>2, MaxOffsetType
        <5> QED BY <3>2, <5>3, <5>4
      <4>3. CASE handleViewportKey
        <5>1. key # <<>> BY <2>6 DEF HandleKey
        <5>2. ViewportMove(widget, cell, u) BY <2>4, <3>2, <4>3, <5>1, ViewportKeyFacts
        <5>3. PICK target, pinned :
                /\ u = <<[offset |-> target, pinned |-> pinned]>> /\ target \in Nat
                /\ pinned \in BOOLEAN /\ (pinned => target = MaxOffset(widget, cell))
          BY <5>2 DEF ViewportMove
        <5>4. u[1].offset = target /\ u[1].pinned = pinned BY <5>3
        <5> QED BY <3>2, <5>3, <5>4
      <4> QED BY <2>6, <4>1, <4>2, <4>3 DEF HandleKey
    <3>3. renderViewport(widget, cell, viewport).maxOffset = MaxOffset(widget, cell) BY RenderFacts
    <3> QED BY <2>4, <3>1, <3>2, <3>3
  <2>7. CASE ~HandleKey
    <3>1. ~KeyStep /\ (u = viewport \/ u = ReconciledViewport(w, at, viewport))
      BY <2>2, <2>3, <2>4, <2>7, OtherSteps
    <3>2. CellOK(at) BY <2>3
    <3>3. u = viewport \/
            /\ u[1].pinned = viewport[1].pinned
            /\ ~(w.follow /\ viewport[1].pinned) /\ viewport[1].offset <= MaxOffset(w, at)
                 => u[1].offset = viewport[1].offset
      BY <2>1, <2>4, <2>5, <3>1, <3>2, ReconciledPosition
    <3>4. renderViewport(w, at, viewport).maxOffset = MaxOffset(w, at) BY RenderFacts
    <3> QED BY <2>2, <2>3, <2>4, <3>1, <3>3, <3>4
  <2> QED BY <2>6, <2>7
<1> QED
  <2> HIDE DEF CellDrawn
  <2> QED BY <1>1, <1>2, TerminalInvariant, PTL DEF Spec, ReadingPosition
==============================================================================
