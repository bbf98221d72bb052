------------------------- MODULE SemanticStateProofs -------------------------
(***************************************************************************)
(* The content of the engine: reducer and projection, for every set of ids *)
(* and of operations the schema admits and for all limits.                 *)
(*                                                                         *)
(* ContentInv is inductive and small: the document is a typed function     *)
(* that passes the structural checks (DocOK, Structural), the projection   *)
(* is typed and matches the document. The work is in what one call of the  *)
(* reducer and one of Reconcile do.                                        *)
(*                                                                         *)
(*  - The reducer. For each operation: the candidate is a document and     *)
(*    differs from the old one only where the operation says (ReplacedOK   *)
(*    to CandidateFacts), it keeps the tree (ReplacedTree to               *)
(*    CandidateTree), it keeps to the schema (ReplacedTyped to             *)
(*    CandidateTyped).                                                     *)
(*  - Trees. Subtree(d, id) is shown to be the least set that contains id  *)
(*    and the children of its members, Lineage(d, id) the least one that   *)
(*    contains id and the parents of its members. A document is a tree if  *)
(*    its links agree node by node (LocalTree) and every set that contains *)
(*    the root and is closed under children contains all nodes (Rooted);   *)
(*    nothing else is used about depths.                                   *)
(*  - The walk of FocusableIDs. A visit k levels deep is complete for a    *)
(*    node with fewer than k levels below it; of N nodes, at most          *)
(*    N - Cardinality(Lineage(d, id)) levels are below id. So the walk     *)
(*    from the root is complete, and its head is the first focusable node  *)
(*    in preorder (FirstOfAll).                                            *)
(*  - Recursion. The model's recursive functions (reachability, sums of    *)
(*    text, the walk, FlattenSeq) are dealt with by induction in set form: *)
(*    the set of the numbers that have a property contains 0 and the       *)
(*    successor of each member, so it contains all (SetInduction, from the *)
(*    well-foundedness of < on Nat); solutions exist by Recursion.         *)
(***************************************************************************)
EXTENDS SemanticState, FiniteSetTheorems, SequenceTheorems, WellFoundedInduction, TLAPS

------------------------------------------------------------------------------
(* Induction and recursion over natural numbers, for sets and functions      *)

\* Induction, for the set of the numbers that have a property.
LEMMA SetInduction ==
  ASSUME NEW S, 0 \in S, \A n \in Nat : n \in S => n + 1 \in S
  PROVE  Nat \subseteq S
<1> SUFFICES ASSUME Nat \ S # {} PROVE FALSE OBVIOUS
<1> DEFINE R == {p \in Nat \X Nat : p[1] < p[2]}
<1>1. IsWellFoundedOn(R, Nat) BY NatLessThanWellFounded DEF OpToRel
<1>2. \E x \in Nat \ S : \A y \in Nat \ S : ~(<<y, x>> \in R)
  <2> HIDE DEF R
  <2> QED BY <1>1, WFMin
<1>3. PICK x \in Nat \ S : \A y \in Nat \ S : ~(y < x) BY <1>2
<1>4. x - 1 \in Nat \ S BY <1>3
<1> QED BY <1>3, <1>4

\* A property of the numbers up to N, as the set of those that have it.
LEMMA InductionUpTo ==
  ASSUME NEW N \in Nat, NEW S, 0 \in S, \A n \in 0..(N - 1) : n \in S => n + 1 \in S
  PROVE  \A n \in 0..N : n \in S
<1> DEFINE T == {n \in Nat : n <= N => n \in S}
<1>1. 0 \in T OBVIOUS
<1>2. \A n \in Nat : n \in T => n + 1 \in T OBVIOUS
<1>3. Nat \subseteq T
  <2> HIDE DEF T
  <2> QED BY <1>1, <1>2, SetInduction
<1> QED BY <1>3

\* A function that starts with base and goes on with G exists up to any N.
Recurses(f, X, base, G, N) ==
  /\ f \in [0..N -> X]
  /\ f[0] = base
  /\ \A k \in 1..N : f[k] = G[<<k, f[k - 1]>>]

\* Such a function exists for every base, step and N.
LEMMA Recursion ==
  ASSUME NEW X, NEW base \in X, NEW G \in [Nat \X X -> X], NEW N \in Nat
  PROVE  \E f : Recurses(f, X, base, G, N)
<1> DEFINE Ok(f, n) == f[0] = base /\ \A k \in 1..n : f[k] = G[<<k, f[k - 1]>>]
<1> DEFINE S == {n \in Nat : \E f \in [0..n -> X] : Ok(f, n)}
<1>1. 0 \in S
  <2>1. [k \in 0..0 |-> base] \in [0..0 -> X] /\ Ok([k \in 0..0 |-> base], 0) OBVIOUS
  <2> QED BY <2>1
<1>2. ASSUME NEW n \in Nat, n \in S PROVE n + 1 \in S
  <2>1. PICK f \in [0..n -> X] : Ok(f, n) BY <1>2
  <2>2. PICK last \in X : last = G[<<n + 1, f[n]>>] OBVIOUS
  <2>3. PICK g : g = [k \in 0..(n + 1) |-> IF k <= n THEN f[k] ELSE last] OBVIOUS
  <2>4. g \in [0..(n + 1) -> X] BY <2>3
  <2>5. g[0] = base BY <2>1, <2>3
  <2>6. ASSUME NEW k \in 1..(n + 1) PROVE g[k] = G[<<k, g[k - 1]>>]
    <3>1. g[k - 1] = f[k - 1] BY <2>3
    <3>2. CASE k <= n
      <4>1. k \in 1..n /\ g[k] = f[k] BY <2>3, <3>2
      <4> QED BY <2>1, <3>1, <4>1
    <3>3. CASE k = n + 1
      <4>1. g[k] = last /\ k - 1 = n BY <2>3, <3>3
      <4> QED BY <2>2, <3>1, <3>3, <4>1
    <3> QED BY <3>2, <3>3
  <2>7. Ok(g, n + 1) BY <2>5, <2>6
  <2> HIDE DEF Ok
  <2> QED BY <2>4, <2>7
<1>3. Nat \subseteq S
  <2> HIDE DEF S
  <2> QED BY <1>1, <1>2, SetInduction
<1> QED BY <1>3 DEF Recurses

\* A function on 1..n with values in S is a sequence over S.
LEMMA SeqOfElements ==
  ASSUME NEW S, NEW n \in Nat, NEW s, s = [i \in 1..n |-> s[i]], \A i \in 1..n : s[i] \in S
  PROVE  s \in Seq(S)
<1>1. s \in [1..n -> S] OBVIOUS
<1> QED BY <1>1, SeqDef

------------------------------------------------------------------------------
(* Lists of children                                                         *)

RemovalLoop(out, S, children, id) ==
  /\ out \in [0..Len(children) -> Seq(S)]
  /\ out[0] = <<>>
  /\ \A i \in 1..Len(children) :
       out[i] = IF children[i] # id THEN Append(out[i - 1], children[i]) ELSE out[i - 1]
  /\ removeChild(children, id) = out[Len(children)]

\* removeChild computes its loop.
LEMMA RemoveChildLoop ==
  ASSUME NEW S, NEW children \in Seq(S), NEW id
  PROVE  \E out : RemovalLoop(out, S, children, id)
<1> DEFINE N == Len(children)
<1> DEFINE X == Seq(S)
<1> DEFINE rhs(f) == [i \in 0..N |-> IF i = 0 THEN <<>>
                        ELSE IF children[i] # id THEN Append(f[i - 1], children[i]) ELSE f[i - 1]]
<1>1. PICK G : G = [p \in Nat \X X |->
                      IF p[1] \in 1..N /\ children[p[1]] # id
                      THEN Append(p[2], children[p[1]]) ELSE p[2]]
  OBVIOUS
<1>2. G \in [Nat \X X -> X]
  <2>1. \A p \in Nat \X X : (IF p[1] \in 1..N /\ children[p[1]] # id
                             THEN Append(p[2], children[p[1]]) ELSE p[2]) \in X
    OBVIOUS
  <2> QED BY <1>1, <2>1
<1>3. N \in Nat /\ <<>> \in X OBVIOUS
<1>4. PICK f \in [0..N -> X] : f[0] = <<>> /\ \A k \in 1..N : f[k] = G[<<k, f[k - 1]>>]
  <2> HIDE DEF N, X
  <2>1. \E f : Recurses(f, X, <<>>, G, N) BY <1>2, <1>3, Recursion
  <2> QED BY <2>1 DEF Recurses
<1>5. ASSUME NEW k \in 1..N
      PROVE  f[k] = IF children[k] # id THEN Append(f[k - 1], children[k]) ELSE f[k - 1]
  <2>1. f[k - 1] \in X BY <1>3, <1>4
  <2>2. <<k, f[k - 1]>> \in Nat \X X BY <1>3, <2>1
  <2>3. PICK s \in X : s = f[k - 1] BY <2>1
  <2>4. G[<<k, s>>] = IF children[k] # id THEN Append(s, children[k]) ELSE s
    BY <1>1, <2>2, <2>3
  <2> QED BY <1>4, <2>3, <2>4
<1>6. \E g : g = rhs(g)
  <2>1. ASSUME NEW i \in 0..N PROVE f[i] = rhs(f)[i]
    <3>1. i = 0 \/ i \in 1..N BY <1>3
    <3> QED BY <1>4, <1>5, <3>1
  <2>2. f = rhs(f) BY <1>4, <2>1
  <2> QED BY <2>2
<1>7. PICK r : r = CHOOSE g : g = rhs(g) OBVIOUS
<1>8. r = rhs(r) BY <1>6, <1>7
<1>9. removeChild(children, id) = r[N] BY <1>7 DEF removeChild
<1>10. r[0] = <<>> /\ \A i \in 1..N :
         r[i] = IF children[i] # id THEN Append(r[i - 1], children[i]) ELSE r[i - 1]
  <2>1. \A i \in 0..N : r[i] = rhs(r)[i] BY <1>8
  <2> QED BY <1>3, <2>1
<1>11. r \in [0..N -> X]
  <2> DEFINE T == {i \in 0..N : r[i] \in X}
  <2>1. 0 \in T
    <3>1. r[0] \in X BY <1>3, <1>10
    <3> QED BY <1>3, <3>1
  <2>2. ASSUME NEW n \in 0..(N - 1), n \in T PROVE n + 1 \in T
    <3>1. n + 1 \in 1..N /\ (n + 1) - 1 = n /\ r[n] \in X BY <1>3, <2>2
    <3>2. r[n + 1] = IF children[n + 1] # id THEN Append(r[n], children[n + 1]) ELSE r[n]
      BY <1>10, <3>1
    <3>3. children[n + 1] \in S BY <3>1
    <3>4. r[n + 1] \in X BY <3>1, <3>2, <3>3
    <3> QED BY <1>3, <3>1, <3>4
  <2>3. \A n \in 0..N : n \in T
    <3> HIDE DEF T, N
    <3> QED BY <1>3, <2>1, <2>2, InductionUpTo
  <2>4. r = [i \in 0..N |-> r[i]] BY <1>8
  <2> QED BY <2>3, <2>4
<1> QED BY <1>9, <1>10, <1>11 DEF RemovalLoop

\* It keeps all the other children, each once if each was there once.
LEMMA RemoveChildFacts ==
  ASSUME NEW S, NEW children \in Seq(S), NEW id
  PROVE  LET out == removeChild(children, id) IN
         /\ out \in Seq(S)
         /\ ToSet(out) = ToSet(children) \ {id}
         /\ IsInjective(children) => IsInjective(out)
<1> DEFINE N == Len(children)
<1>0. PICK out \in [0..N -> Seq(S)] :
        /\ out[0] = <<>>
        /\ \A i \in 1..N :
             out[i] = IF children[i] # id THEN Append(out[i - 1], children[i]) ELSE out[i - 1]
        /\ removeChild(children, id) = out[N]
  <2>1. \E out : RemovalLoop(out, S, children, id) BY RemoveChildLoop
  <2> QED BY <2>1 DEF RemovalLoop
<1> DEFINE Inv(i) == /\ ToSet(out[i]) = {children[j] : j \in 1..i} \ {id}
                     /\ IsInjective(children) => IsInjective(out[i])
<1> DEFINE T == {i \in 0..N : Inv(i)}
<1>1. N \in Nat /\ DOMAIN children = 1..N OBVIOUS
<1>2. 0 \in T
  <2>1. ToSet(<<>>) = {} /\ IsInjective(<<>>) BY DEF ToSet, IsInjective
  <2>2. Inv(0) BY <1>0, <2>1
  <2> QED BY <1>1, <2>2
<1>3. ASSUME NEW n \in 0..(N - 1), n \in T PROVE n + 1 \in T
  <2>1. n + 1 \in 1..N /\ n \in 0..N /\ (n + 1) - 1 = n BY <1>1
  <2>2. PICK s \in Seq(S) : s = out[n] BY <1>0, <2>1
  <2>3. PICK c \in S : c = children[n + 1] BY <2>1
  <2>4. {children[j] : j \in 1..(n + 1)} = {children[j] : j \in 1..n} \cup {c}
    BY <2>1, <2>3
  <2>5. CASE c = id
    <3>1. out[n + 1] = s BY <1>0, <2>1, <2>2, <2>3, <2>5
    <3>2. Inv(n) BY <1>3
    <3>3. ToSet(out[n + 1]) = {children[j] : j \in 1..(n + 1)} \ {id}
      BY <2>2, <2>4, <2>5, <3>1, <3>2
    <3>4. Inv(n + 1) BY <2>2, <3>1, <3>2, <3>3
    <3> QED BY <2>1, <3>4
  <2>6. CASE c # id
    <3>1. out[n + 1] = Append(s, c) BY <1>0, <2>1, <2>2, <2>3, <2>6
    <3>2. DOMAIN s = 1..Len(s) /\ DOMAIN Append(s, c) = 1..(Len(s) + 1)
          /\ Append(s, c)[Len(s) + 1] = c /\ \A j \in 1..Len(s) : Append(s, c)[j] = s[j]
          /\ Len(s) \in Nat
      OBVIOUS
    <3>3. ToSet(Append(s, c)) = ToSet(s) \cup {c}
      <4>1. PICK t : t = Append(s, c) OBVIOUS
      <4>2. \A x : x \in ToSet(t) <=> \E j \in 1..(Len(s) + 1) : x = t[j]
        BY <3>2, <4>1 DEF ToSet
      <4>3. \A x : x \in ToSet(s) <=> \E j \in 1..Len(s) : x = s[j]
        BY <3>2 DEF ToSet
      <4>4. ASSUME NEW x PROVE x \in ToSet(t) <=> x \in ToSet(s) \cup {c}
        BY <3>2, <4>1, <4>2, <4>3
      <4> QED BY <4>1, <4>4
    <3>4. ASSUME IsInjective(children) PROVE IsInjective(Append(s, c))
      <4>1. IsInjective(s) /\ ToSet(s) = {children[j] : j \in 1..n} \ {id}
        BY <1>3, <2>2, <3>4
      <4>2. c \notin {children[j] : j \in 1..n}
        <5>1. \A j \in 1..n : j \in DOMAIN children /\ j # n + 1 BY <1>1, <2>1
        <5>2. n + 1 \in DOMAIN children BY <1>1, <2>1
        <5> QED BY <2>3, <3>4, <5>1, <5>2 DEF IsInjective
      <4>3. \A j \in 1..Len(s) : s[j] # c BY <3>2, <4>1, <4>2 DEF ToSet
      <4> QED BY <3>2, <4>1, <4>3 DEF IsInjective
    <3>5. Inv(n) BY <1>3
    <3>6. ToSet(out[n + 1]) = {children[j] : j \in 1..(n + 1)} \ {id}
      BY <2>2, <2>4, <2>6, <3>1, <3>3, <3>5
    <3>7. Inv(n + 1) BY <3>1, <3>4, <3>6
    <3> QED BY <2>1, <3>7
  <2> QED BY <2>5, <2>6
<1>4. \A n \in 0..N : n \in T
  <2> HIDE DEF T, N
  <2> QED BY <1>1, <1>2, <1>3, InductionUpTo
<1>5. Inv(N) /\ out[N] \in Seq(S)
  <2>1. N \in 0..N BY <1>1
  <2> QED BY <1>0, <1>4, <2>1
<1>6. ToSet(children) = {children[j] : j \in 1..N} BY DEF ToSet
<1> QED BY <1>0, <1>5, <1>6

\* out is children with id at place i.
Inserted(out, S, children, id, i) ==
  /\ out \in Seq(S) /\ Len(out) = Len(children) + 1
  /\ out[i] = id
  /\ \A j \in 1..(i - 1) : out[j] = children[j]
  /\ \A j \in (i + 1)..(Len(children) + 1) : out[j] = children[j - 1]

\* insertChild puts the child somewhere among the others.
LEMMA InsertPlace ==
  ASSUME NEW S, NEW children \in Seq(S), NEW id \in S, NEW index
  PROVE  \E i \in 1..(Len(children) + 1) :
           Inserted(insertChild(children, id, index), S, children, id, i)
<1> DEFINE N == Len(children)
<1>0. N \in Nat /\ DOMAIN children = 1..N OBVIOUS
<1>1. PICK out : out = insertChild(children, id, index) OBVIOUS
<1>2. \E i \in 1..(N + 1) : Inserted(out, S, children, id, i)
  <2>1. CASE index # <<>> /\ index[1] \in 0..(N - 1)
    <3>1. PICK i \in 1..N : i = index[1] + 1 BY <1>0, <2>1
    <3>2. out = SubSeq(children, 1, i - 1) \o <<id>> \o SubSeq(children, i, N)
      BY <1>1, <2>1, <3>1 DEF insertChild, InsertAt
    <3>3. PICK a : a = SubSeq(children, 1, i - 1) OBVIOUS
    <3>4. /\ a \in Seq(S) /\ Len(a) = i - 1
          /\ \A j \in 1..(i - 1) : a[j] = children[j]
      <4>1. i - 1 \in Int /\ \A j \in 1..(i - 1) : children[j] \in S BY <1>0, <3>1
      <4>2. /\ a \in Seq(S) /\ Len(a) = IF 1 <= i - 1 THEN i - 1 - 1 + 1 ELSE 0
            /\ \A j \in 1..(i - 1 - 1 + 1) : a[j] = children[1 + j - 1]
        BY <3>3, <4>1, SubSeqProperties
      <4> QED BY <4>2
    <3>5. PICK b : b = SubSeq(children, i, N) OBVIOUS
    <3>6. /\ b \in Seq(S) /\ Len(b) = N - i + 1
          /\ \A j \in 1..(N - i + 1) : b[j] = children[i + j - 1]
      <4>1. i \in Int /\ N \in Int /\ i <= N /\ \A j \in i..N : children[j] \in S BY <1>0, <3>1
      <4> HIDE DEF N
      <4> QED BY <3>5, <4>1, SubSeqProperties
    <3>7. PICK c : c = a \o <<id>> OBVIOUS
    <3>8. /\ c \in Seq(S) /\ Len(c) = i /\ c[i] = id
          /\ \A j \in 1..(i - 1) : c[j] = a[j]
      BY <3>4, <3>7
    <3>9. out = c \o b BY <3>2, <3>3, <3>5, <3>7
    <3>11. /\ out \in Seq(S) /\ Len(out) = i + (N - i + 1)
           /\ \A j \in 1..(i + (N - i + 1)) : out[j] = IF j <= i THEN c[j] ELSE b[j - i]
      <4>1. /\ out \in Seq(S) /\ Len(out) = Len(c) + Len(b)
            /\ \A j \in 1..(Len(c) + Len(b)) : out[j] = IF j <= Len(c) THEN c[j] ELSE b[j - Len(c)]
        BY <3>6, <3>8, <3>9, ConcatProperties
      <4>2. Len(c) = i /\ Len(b) = N - i + 1 BY <3>6, <3>8
      <4> QED BY <4>1, <4>2
    <3>12. i + (N - i + 1) = N + 1 BY <1>0
    <3>13. out[i] = id BY <1>0, <3>8, <3>11, <3>12
    <3>14. \A j \in 1..(i - 1) : out[j] = children[j]
      BY <1>0, <3>4, <3>8, <3>11, <3>12
    <3>15. ASSUME NEW j \in (i + 1)..(N + 1) PROVE out[j] = children[j - 1]
      <4>1. j - i \in 1..(N - i + 1) /\ i + (j - i) - 1 = j - 1 /\ ~(j <= i) /\ j \in 1..(N + 1)
        BY <1>0, <3>1
      <4>2. out[j] = b[j - i] BY <3>11, <3>12, <4>1
      <4> QED BY <3>6, <4>1, <4>2
    <3>16. out \in Seq(S) /\ Len(out) = N + 1 BY <3>11, <3>12
    <3>17. i \in 1..(N + 1) BY <1>0, <3>1
    <3> QED BY <3>13, <3>14, <3>15, <3>16, <3>17 DEF Inserted
  <2>2. CASE ~(index # <<>> /\ index[1] \in 0..(N - 1))
    <3>1. out = Append(children, id) BY <1>1, <2>2 DEF insertChild
    <3>2. /\ N + 1 \in 1..(N + 1) /\ out \in Seq(S) /\ Len(out) = N + 1 /\ out[N + 1] = id
          /\ \A j \in 1..((N + 1) - 1) : out[j] = children[j]
          /\ \A j \in ((N + 1) + 1)..(N + 1) : FALSE
      BY <1>0, <3>1
    <3> QED BY <3>2 DEF Inserted
  <2> QED BY <2>1, <2>2
<1> QED BY <1>1, <1>2

\* The others stay, each once if each was there once.
LEMMA InsertChildFacts ==
  ASSUME NEW S, NEW children \in Seq(S), NEW id \in S, NEW index
  PROVE  LET out == insertChild(children, id, index) IN
         /\ out \in Seq(S)
         /\ ToSet(out) = ToSet(children) \cup {id}
         /\ IsInjective(children) /\ id \notin ToSet(children) => IsInjective(out)
<1> DEFINE N == Len(children)
<1>0. N \in Nat /\ DOMAIN children = 1..N OBVIOUS
<1>1. PICK out : out = insertChild(children, id, index) OBVIOUS
<1>2. \E i \in 1..(N + 1) : Inserted(out, S, children, id, i) BY <1>1, InsertPlace
<1>3. PICK i \in 1..(N + 1) :
        /\ out \in Seq(S) /\ Len(out) = N + 1
        /\ out[i] = id
        /\ \A j \in 1..(i - 1) : out[j] = children[j]
        /\ \A j \in (i + 1)..(N + 1) : out[j] = children[j - 1]
  BY <1>2 DEF Inserted
<1>4. DOMAIN out = 1..(N + 1) BY <1>3
<1>5. ASSUME NEW j \in 1..(N + 1), j # i
      PROVE  \E k \in 1..N : k = (IF j < i THEN j ELSE j - 1) /\ out[j] = children[k]
  <2>1. CASE j < i
    <3>1. j \in 1..(i - 1) /\ j \in 1..N BY <1>0, <2>1
    <3> QED BY <1>3, <2>1, <3>1
  <2>2. CASE j > i
    <3>1. j \in (i + 1)..(N + 1) /\ j - 1 \in 1..N /\ ~(j < i) BY <1>0, <2>2
    <3> QED BY <1>3, <2>2, <3>1
  <2> QED BY <1>0, <1>5, <2>1, <2>2
<1>6. ASSUME NEW k \in 1..N
      PROVE  \E j \in 1..(N + 1) : out[j] = children[k]
  <2>1. CASE k < i
    <3>1. k \in 1..(i - 1) /\ k \in 1..(N + 1) BY <1>0, <2>1
    <3> QED BY <1>3, <3>1
  <2>2. CASE k >= i
    <3>1. k + 1 \in (i + 1)..(N + 1) /\ k + 1 \in 1..(N + 1) /\ (k + 1) - 1 = k BY <1>0, <2>2
    <3> QED BY <1>3, <3>1
  <2> QED BY <1>0, <2>1, <2>2
<1>7. ToSet(out) = ToSet(children) \cup {id}
  <2>1. \A x : x \in ToSet(out) <=> \E j \in 1..(N + 1) : x = out[j] BY <1>4 DEF ToSet
  <2>2. \A x : x \in ToSet(children) <=> \E k \in 1..N : x = children[k] BY <1>0 DEF ToSet
  <2>3. \A x \in ToSet(out) : x \in ToSet(children) \cup {id} BY <1>3, <1>5, <2>1, <2>2
  <2>4. \A x \in ToSet(children) \cup {id} : x \in ToSet(out) BY <1>3, <1>6, <2>1, <2>2
  <2> QED BY <2>3, <2>4
<1>8. ASSUME IsInjective(children), id \notin ToSet(children) PROVE IsInjective(out)
  <2>1. SUFFICES ASSUME NEW a \in 1..(N + 1), NEW b \in 1..(N + 1), out[a] = out[b]
                 PROVE  a = b
    BY <1>4 DEF IsInjective
  <2>2. \A k \in 1..N : children[k] # id BY <1>0, <1>8 DEF ToSet
  <2>3. CASE a = i \/ b = i BY <1>3, <1>5, <2>1, <2>2, <2>3
  <2>4. CASE a # i /\ b # i
    <3>1. PICK k \in 1..N : k = (IF a < i THEN a ELSE a - 1) /\ out[a] = children[k]
      BY <1>5, <2>4
    <3>2. PICK l \in 1..N : l = (IF b < i THEN b ELSE b - 1) /\ out[b] = children[l]
      BY <1>5, <2>4
    <3>3. k = l BY <1>0, <1>8, <2>1, <3>1, <3>2 DEF IsInjective
    <3> QED BY <1>0, <2>4, <3>1, <3>2, <3>3
  <2> QED BY <2>3, <2>4
<1> QED BY <1>1, <1>3, <1>7, <1>8

\* How FlattenSeq puts sequences one after the other.
FlattenLoop(r, S, seqs) ==
  /\ \A i \in 1..Len(seqs) :
       r[i] \in Seq(S) /\ r[i] = IF i = 1 THEN seqs[i] ELSE r[i - 1] \o seqs[i]
  /\ FlattenSeq(seqs) = r[Len(seqs)]

\* The loop that FlattenSeq chooses exists.
LEMMA FlattenSeqLoop ==
  ASSUME NEW S, NEW seqs \in Seq(Seq(S)), Len(seqs) # 0
  PROVE  \E r : FlattenLoop(r, S, seqs)
<1> DEFINE N == Len(seqs)
<1> DEFINE X == Seq(S)
<1> DEFINE rhs(f) == [i \in 1..N |-> IF i = 1 THEN seqs[i] ELSE f[i - 1] \o seqs[i]]
<1>0. N \in Nat /\ \A i \in 1..N : seqs[i] \in X OBVIOUS
<1>2. N # 0 OBVIOUS
<1>3. \E r : FlattenLoop(r, S, seqs)
  <2>0. PICK M \in Nat : M = N - 1
    <3>1. N - 1 \in Nat BY <1>0, <1>2
    <3> QED BY <3>1
  <2>1. PICK G : G = [p \in Nat \X X |-> IF p[1] + 1 \in 1..N THEN p[2] \o seqs[p[1] + 1] ELSE p[2]]
    OBVIOUS
  <2>2. G \in [Nat \X X -> X]
    <3>1. \A p \in Nat \X X :
            (IF p[1] + 1 \in 1..N THEN p[2] \o seqs[p[1] + 1] ELSE p[2]) \in X
      BY <1>0
    <3> QED BY <2>1, <3>1
  <2>3. seqs[1] \in X BY <1>0, <1>2
  <2>4. PICK f : Recurses(f, X, seqs[1], G, M)
    <3> HIDE DEF X, N
    <3> QED BY <2>0, <2>2, <2>3, Recursion
  <2>5. PICK g : g = [i \in 1..N |-> f[i - 1]] OBVIOUS
  <2>6. ASSUME NEW i \in 1..N
        PROVE  g[i] = IF i = 1 THEN seqs[i] ELSE g[i - 1] \o seqs[i]
    <3>1. i - 1 \in 0..M BY <2>0
    <3>2. CASE i = 1 BY <2>4, <2>5, <3>2 DEF Recurses
    <3>3. CASE i # 1
      <4>1. i - 1 \in 1..M /\ i - 1 \in 1..N /\ i - 1 \in Nat /\ (i - 1) + 1 = i
            /\ (i - 1) - 1 \in 0..M
        BY <1>0, <2>0, <3>3
      <4>2. PICK k \in 1..M : k = i - 1 BY <4>1
      <4>3. PICK s \in X : s = f[k - 1] BY <2>4, <4>1, <4>2 DEF Recurses
      <4>4. f[k] = G[<<k, s>>] BY <2>4, <4>3 DEF Recurses
      <4>5. <<k, s>> \in Nat \X X BY <4>1, <4>2, <4>3
      <4>6. G[<<k, s>>] = s \o seqs[i] BY <2>1, <4>1, <4>2, <4>5
      <4>7. g[i] = f[k] /\ g[i - 1] = s BY <2>5, <4>1, <4>2, <4>3
      <4> QED BY <3>3, <4>4, <4>6, <4>7
    <3> QED BY <3>2, <3>3
  <2>7. \E h : h = rhs(h)
    <3>1. g = rhs(g) BY <2>5, <2>6
    <3> QED BY <3>1
  <2>8. PICK r : r = CHOOSE h : h = rhs(h) OBVIOUS
  <2>9. r = rhs(r) BY <2>7, <2>8
  <2>10. FlattenSeq(seqs) = r[N] BY <1>2, <2>8 DEF FlattenSeq
  <2>11. \A i \in 1..N : r[i] = IF i = 1 THEN seqs[i] ELSE r[i - 1] \o seqs[i]
    BY <2>9
  <2> DEFINE T == {i \in 0..M : r[i + 1] \in X}
  <2>12. 0 \in T
    <3>1. r[1] = seqs[1] BY <1>0, <1>2, <2>11
    <3> QED BY <2>0, <2>3, <3>1
  <2>13. ASSUME NEW n \in 0..(M - 1), n \in T PROVE n + 1 \in T
    <3>1. n + 2 \in 1..N /\ (n + 2) - 1 = n + 1 /\ n + 2 # 1 /\ n + 1 \in 0..M
          /\ (n + 1) + 1 = n + 2
      BY <2>0
    <3>2. PICK s \in X : s = r[n + 1] BY <2>13
    <3>3. PICK t \in X : t = seqs[n + 2] BY <1>0, <3>1
    <3>4. r[n + 2] = s \o t BY <2>11, <3>1, <3>2, <3>3
    <3>5. s \o t \in X BY <3>2, <3>3, ConcatProperties
    <3>6. r[(n + 1) + 1] \in X BY <3>1, <3>4, <3>5
    <3> QED BY <3>1, <3>6
  <2>14. \A n \in 0..M : n \in T
    <3> HIDE DEF T
    <3> QED BY <2>12, <2>13, InductionUpTo
  <2>15. ASSUME NEW i \in 1..N PROVE r[i] \in X
    <3>1. i - 1 \in 0..M /\ (i - 1) + 1 = i BY <2>0
    <3>2. i - 1 \in T BY <2>14, <3>1
    <3> QED BY <3>1, <3>2
  <2> QED BY <2>10, <2>11, <2>15 DEF FlattenLoop
<1> QED BY <1>3

\* Whose head a sequence put together from the first m of seqs has.
HeadOf(s, seqs, m) ==
  \/ s = <<>> /\ \A i \in 1..m : seqs[i] = <<>>
  \/ /\ s # <<>>
     /\ \E i \in 1..m : /\ seqs[i] # <<>> /\ Head(s) = Head(seqs[i])
                        /\ \A j \in 1..(i - 1) : seqs[j] = <<>>

\* FlattenSeq starts with the head of the first list that has one.
LEMMA FlattenHead ==
  ASSUME NEW S, NEW seqs \in Seq(Seq(S))
  PROVE  FlattenSeq(seqs) \in Seq(S) /\ HeadOf(FlattenSeq(seqs), seqs, Len(seqs))
<1> DEFINE N == Len(seqs)
<1>0. N \in Nat /\ \A i \in 1..N : seqs[i] \in Seq(S) OBVIOUS
<1>1. CASE N = 0
  <2>1. FlattenSeq(seqs) = seqs BY <1>1 DEF FlattenSeq
  <2>2. seqs = <<>> BY <1>1
  <2>3. HeadOf(<<>>, seqs, N) BY <1>1 DEF HeadOf
  <2> QED BY <2>1, <2>2, <2>3, EmptySeq
<1>2. CASE N # 0
  <2>0. PICK M \in Nat : M = N - 1
    <3>1. N - 1 \in Nat BY <1>0, <1>2
    <3> QED BY <3>1
  <2>1. PICK r : FlattenLoop(r, S, seqs) BY <1>2, FlattenSeqLoop
  <2>2. \A i \in 1..N :
          r[i] \in Seq(S) /\ r[i] = IF i = 1 THEN seqs[i] ELSE r[i - 1] \o seqs[i]
    BY <2>1 DEF FlattenLoop
  <2> DEFINE T == {i \in 0..M : HeadOf(r[i + 1], seqs, i + 1)}
  <2>3. 0 \in T
    <3>1. r[1] = seqs[1] BY <1>0, <1>2, <2>2
    <3>2. HeadOf(r[1], seqs, 1) BY <3>1 DEF HeadOf
    <3> QED BY <2>0, <3>2
  <2>4. ASSUME NEW n \in 0..(M - 1), n \in T PROVE n + 1 \in T
    <3>1. n + 2 \in 1..N /\ (n + 2) - 1 = n + 1 /\ n + 2 # 1 /\ n + 1 \in 0..M
          /\ (n + 1) + 1 = n + 2 /\ n + 1 \in 1..N
      BY <2>0
    <3>2. PICK s \in Seq(S) : s = r[n + 1] BY <2>2, <3>1
    <3>3. PICK t \in Seq(S) : t = seqs[n + 2] BY <1>0, <3>1
    <3>4. r[n + 2] = s \o t BY <2>2, <3>1, <3>2, <3>3
    <3>5. HeadOf(s, seqs, n + 1) BY <2>4, <3>2
    <3>6. CASE s = <<>>
      <4>1. r[n + 2] = t BY <3>3, <3>4, <3>6, ConcatEmptySeq
      <4>2. \A i \in 1..(n + 1) : seqs[i] = <<>> BY <3>5, <3>6 DEF HeadOf
      <4>3. CASE t = <<>>
        <5>1. ASSUME NEW i \in 1..(n + 2) PROVE seqs[i] = <<>>
          <6>1. i \in 1..(n + 1) \/ i = n + 2 OBVIOUS
          <6> QED BY <3>3, <4>2, <4>3, <6>1
        <5> QED BY <4>1, <4>3, <5>1 DEF HeadOf
      <4>4. CASE t # <<>>
        <5>1. n + 2 \in 1..(n + 2) OBVIOUS
        <5>2. \A j \in 1..((n + 2) - 1) : seqs[j] = <<>> BY <4>2
        <5> QED BY <3>3, <4>1, <4>4, <5>1, <5>2 DEF HeadOf
      <4>5. HeadOf(r[n + 2], seqs, n + 2) BY <4>3, <4>4
      <4> QED BY <3>1, <4>5
    <3>7. CASE s # <<>>
      <4>1. PICK i \in 1..(n + 1) :
              /\ seqs[i] # <<>> /\ Head(s) = Head(seqs[i])
              /\ \A j \in 1..(i - 1) : seqs[j] = <<>>
        BY <3>5, <3>7 DEF HeadOf
      <4>2. s \o t # <<>> /\ Head(s \o t) = Head(s)
        <5>1. PICK st : st = s \o t OBVIOUS
        <5>2. st \in Seq(S) /\ st # <<>> BY <3>7, <5>1, ConcatProperties, ConcatEqualIffEmpty
        <5>3. Len(s) \in Nat /\ Len(s) # 0 /\ Len(t) \in Nat BY <3>7
        <5>4. 1 \in 1..(Len(s) + Len(t)) /\ 1 <= Len(s) BY <5>3
        <5>5. st[1] = s[1] BY <5>1, <5>4, ConcatProperties
        <5>6. Head(st) = st[1] /\ Head(s) = s[1] BY <3>7, <5>2
        <5> QED BY <5>1, <5>2, <5>5, <5>6
      <4>3. i \in 1..(n + 2) OBVIOUS
      <4>4. HeadOf(r[n + 2], seqs, n + 2) BY <3>4, <4>1, <4>2, <4>3 DEF HeadOf
      <4> QED BY <3>1, <4>4
    <3> QED BY <3>6, <3>7
  <2>5. \A n \in 0..M : n \in T
    <3> HIDE DEF T
    <3> QED BY <2>3, <2>4, InductionUpTo
  <2>6. M \in 0..M /\ M + 1 = N /\ N \in 1..N BY <1>0, <1>2, <2>0
  <2>7. HeadOf(r[N], seqs, N) BY <2>5, <2>6
  <2> QED BY <2>1, <2>2, <2>6, <2>7 DEF FlattenLoop
<1> QED BY <1>1, <1>2

------------------------------------------------------------------------------
(* Documents                                                                 *)

AllIds == Ids \cup {"root"}

NodeOK(n) ==
  /\ n = [type |-> n.type, parent |-> n.parent, children |-> n.children,
          props |-> n.props, explicit |-> n.explicit, text |-> n.text]
  /\ n.children \in Seq(AllIds) /\ n.text \in Nat
  /\ validateNormalized(n.props)
  /\ "rows" \in DOMAIN n.props => n.props["rows"] \in Nat
  /\ "row_ids" \in DOMAIN n.props => n.props["row_ids"] \in Seq(STRING)
  /\ n.type = "table" => "rows" \in DOMAIN n.props

NodesOK(nodes) ==
  /\ nodes = [id \in DOMAIN nodes |-> nodes[id]]
  /\ \A id \in DOMAIN nodes : NodeOK(nodes[id])

DocOK(d) ==
  /\ d = [revision |-> d.revision, totalText |-> d.totalText, nodes |-> d.nodes]
  /\ d.revision \in Nat
  /\ NodesOK(d.nodes)
  /\ DOMAIN d.nodes \subseteq AllIds /\ IsFiniteSet(DOMAIN d.nodes)

\* What a new map of properties has to satisfy for its node to be NodeOK.
PropsOK(t, p) ==
  /\ validateNormalized(p)
  /\ "rows" \in DOMAIN p => p["rows"] \in Nat
  /\ "row_ids" \in DOMAIN p => p["row_ids"] \in Seq(STRING)
  /\ t = "table" => "rows" \in DOMAIN p

PatchOK(p) ==
  /\ "rows" \in DOMAIN p => p["rows"] \in Nat
  /\ "row_ids" \in DOMAIN p => p["row_ids"] \in Seq(STRING)

\* The patches of an operation come from the schema.
LEMMA OperationFacts ==
  ASSUME NEW op \in Operations
  PROVE  /\ op.op \in {"upsert", "props", "text", "remove", "focus", "commit"}
         /\ op.op \in {"upsert", "props"} => PatchOK(op.props)
         /\ op.op = "upsert" => op.type \in NodeTypes
         /\ op.op = "text" => op.text \in Nat
         /\ op.id \in AllIds
<1>1. CASE op \in Upserts
  <2>1. PICK t \in Types : op \in [op : {"upsert"}, id : Ids, type : {t}, parent : Parents,
                                   index : Indexes, props : Patches[t]]
    BY <1>1 DEF Upserts
  <2>2. op.op = "upsert" /\ op.props \in Patches[t] /\ op.type \in Types /\ op.id \in Ids
    BY <2>1
  <2> QED BY <2>2, PatchesAssumption DEF PatchOK, AllIds
<1>2. CASE op \in PropsOps
  <2>1. op.op = "props" /\ op.props \in UNION {Patches[t] : t \in Types \cup {"box"}}
        /\ op.id \in AllIds
    BY <1>2 DEF PropsOps, AllIds
  <2>2. PICK t \in Types \cup {"box"} : op.props \in Patches[t] BY <2>1
  <2> QED BY <2>1, <2>2, PatchesAssumption DEF PatchOK
<1>3. CASE op \in TextOps BY <1>3, ChunksAssumption DEF TextOps, AllIds
<1>4. CASE op \in OtherOps BY <1>4 DEF OtherOps, AllIds
<1> QED BY <1>1, <1>2, <1>3, <1>4 DEF Operations

\* A map over the type's defaults.
LEMMA FullPropsOK ==
  ASSUME NEW t \in NodeTypes, NEW patch, PatchOK(patch), NormalizeOk(t, patch)
  PROVE  PropsOK(t, FullProps(t, patch))
<1> DEFINE p == FullProps(t, patch)
<1> DEFINE r == Retained(patch)
<1>1. validateNormalized(p) BY DEF NormalizeOk
<1>2. PatchOK(r) BY DEF PatchOK, Retained, Without
<1>3. PICK def : def = defaults[t] OBVIOUS
<1>4. p = [k \in DOMAIN def \cup DOMAIN r |-> IF k \in DOMAIN r THEN r[k] ELSE def[k]]
  BY <1>3 DEF FullProps, Merge
<1>5. PatchOK(def) /\ (t = "table" => "rows" \in DOMAIN def)
  BY <1>3 DEF PatchOK, defaults, NodeTypes
<1> HIDE DEF p, r
<1>6. PatchOK(p) /\ (t = "table" => "rows" \in DOMAIN p) BY <1>2, <1>4, <1>5 DEF PatchOK
<1> QED BY <1>1, <1>6 DEF PropsOK, PatchOK, p

\* A valid patch merged into a node's map.
LEMMA MergedPropsOK ==
  ASSUME NEW n, NodeOK(n), NEW patch, PatchOK(patch), MergeOk(n, patch)
  PROVE  PropsOK(n.type, Merge(n.props, Retained(patch)))
<1> DEFINE p == Merge(n.props, Retained(patch))
<1> DEFINE r == Retained(patch)
<1>1. validateNormalized(p) BY DEF MergeOk
<1>2. PatchOK(r) BY DEF PatchOK, Retained, Without
<1>3. PICK old : old = n.props OBVIOUS
<1>4. p = [k \in DOMAIN old \cup DOMAIN r |-> IF k \in DOMAIN r THEN r[k] ELSE old[k]]
  BY <1>3 DEF Merge
<1>5. PatchOK(old) /\ (n.type = "table" => "rows" \in DOMAIN old)
  BY <1>3 DEF PatchOK, NodeOK
<1> HIDE DEF p, r
<1>6. PatchOK(p) /\ (n.type = "table" => "rows" \in DOMAIN p)
  BY <1>2, <1>4, <1>5 DEF PatchOK
<1> QED BY <1>1, <1>6 DEF PropsOK, PatchOK, p

\* Two nodes that differ in their place in the tree alone.
SameContent(m, n) ==
  m.type = n.type /\ m.props = n.props /\ m.explicit = n.explicit /\ m.text = n.text

Rearranged(m, nodes) ==
  /\ NodesOK(m) /\ DOMAIN m = DOMAIN nodes
  /\ \A id \in DOMAIN nodes : SameContent(m[id], nodes[id])

\* New children or a new parent are a rearrangement.
LEMMA PlaceOne ==
  ASSUME NEW nodes, NodesOK(nodes), NEW x, NEW c
  PROVE  /\ (x \in DOMAIN nodes => c \in Seq(AllIds))
              => Rearranged([nodes EXCEPT ![x].children = c], nodes)
         /\ Rearranged([nodes EXCEPT ![x].parent = c], nodes)
<1>1. ASSUME NEW n, NodeOK(n)
      PROVE  /\ c \in Seq(AllIds) => NodeOK([n EXCEPT !.children = c])
             /\ SameContent([n EXCEPT !.children = c], n)
             /\ NodeOK([n EXCEPT !.parent = c]) /\ SameContent([n EXCEPT !.parent = c], n)
  BY <1>1 DEF NodeOK, SameContent
<1>2. ASSUME NEW n PROVE SameContent(n, n) BY DEF SameContent
<1>3. ASSUME NEW f, NEW n, f = [nodes EXCEPT ![x] = n],
             x \in DOMAIN nodes => NodeOK(n) /\ SameContent(n, nodes[x])
      PROVE  Rearranged(f, nodes)
  BY <1>2, <1>3 DEF NodesOK, Rearranged
<1>4. PICK n : n = nodes[x] OBVIOUS
<1>5. (x \in DOMAIN nodes => c \in Seq(AllIds))
        => Rearranged([nodes EXCEPT ![x] = [n EXCEPT !.children = c]], nodes)
  BY <1>1, <1>3, <1>4 DEF NodesOK
<1>6. Rearranged([nodes EXCEPT ![x] = [n EXCEPT !.parent = c]], nodes)
  BY <1>1, <1>3, <1>4 DEF NodesOK
<1> QED BY <1>4, <1>5, <1>6

\* Moving children twice only moves children.
LEMMA RearrangedTwice ==
  ASSUME NEW k, NEW m, NEW n, Rearranged(k, m), Rearranged(m, n)
  PROVE  Rearranged(k, n)
BY DEF Rearranged, SameContent

\* Relocating a node only moves children.
LEMMA RelocatedContent ==
  ASSUME NEW d, NodesOK(d.nodes), NEW op, op.id \in AllIds
  PROVE  Rearranged(Relocated(d, op), d.nodes)
<1> DEFINE old == d.nodes[op.id].parent
<1> DEFINE target == TargetParent(d, op)
<1>1. CASE target # old
  <2>1. PICK b : b = removeChild(d.nodes[old].children, op.id) OBVIOUS
  <2>2. PICK k : k = [d.nodes EXCEPT ![old].children = b] OBVIOUS
  <2>3. PICK c : c = insertChild(k[target].children, op.id, op.index) OBVIOUS
  <2>4. PICK l : l = [k EXCEPT ![target].children = c] OBVIOUS
  <2>5. PICK m : m = [l EXCEPT ![op.id].parent = target] OBVIOUS
  <2>6. Relocated(d, op) = m
    BY <1>1, <2>1, <2>2, <2>3, <2>4, <2>5, Zenon DEF Relocated
  <2>7. Rearranged(k, d.nodes)
    <3>1. old \in DOMAIN d.nodes => b \in Seq(AllIds)
      BY <2>1, RemoveChildFacts DEF NodesOK, NodeOK
    <3> QED BY <2>2, <3>1, PlaceOne
  <2>8. Rearranged(l, k)
    <3>1. NodesOK(k) BY <2>7 DEF Rearranged
    <3>2. target \in DOMAIN k => c \in Seq(AllIds)
      BY <2>3, <3>1, InsertChildFacts DEF NodesOK, NodeOK
    <3> QED BY <2>4, <3>1, <3>2, PlaceOne
  <2>9. Rearranged(m, l)
    <3>1. NodesOK(l) BY <2>8 DEF Rearranged
    <3> QED BY <2>5, <3>1, PlaceOne
  <2> QED BY <2>6, <2>7, <2>8, <2>9, RearrangedTwice
<1>2. CASE target = old /\ op.index # <<>>
  <2>1. PICK b : b = insertChild(removeChild(d.nodes[old].children, op.id), op.id, op.index)
    OBVIOUS
  <2>2. PICK k : k = [d.nodes EXCEPT ![old].children = b] OBVIOUS
  <2>3. Relocated(d, op) = k BY <1>2, <2>1, <2>2 DEF Relocated
  <2>4. old \in DOMAIN d.nodes => b \in Seq(AllIds)
    <3>1. old \in DOMAIN d.nodes => removeChild(d.nodes[old].children, op.id) \in Seq(AllIds)
      BY RemoveChildFacts DEF NodesOK, NodeOK
    <3> QED BY <2>1, <3>1, InsertChildFacts
  <2>5. Rearranged(k, d.nodes) BY <2>2, <2>4, PlaceOne
  <2> QED BY <2>3, <2>5
<1>3. CASE target = old /\ op.index = <<>>
  BY <1>3 DEF Relocated, Rearranged, SameContent
<1> QED BY <1>1, <1>2, <1>3

------------------------------------------------------------------------------
(* The candidate of an operation                                             *)

\* What an operation makes of a document: a well-typed document under the same
\* revision. Every node it does not drop is there with its type, and one that
\* it drops is gone or has another type.
CandidateOK(d, op, c) ==
  /\ DocOK(c)
  /\ c.revision = d.revision
  /\ \A id \in DOMAIN d.nodes \ Dropped(d, op) :
       id \in DOMAIN c.nodes /\ c.nodes[id].type = d.nodes[id].type
  /\ \A id \in Dropped(d, op) \cap DOMAIN c.nodes : c.nodes[id].type # d.nodes[id].type

\* Upserting a node that exists.
LEMMA ReplacedOK ==
  ASSUME NEW d, DocOK(d), NEW op \in Operations, op.op = "upsert",
         op.id \in DOMAIN d.nodes, UpsertOk(d, op)
  PROVE  CandidateOK(d, op, Replaced(d, op))
<1>0. PICK moved : moved = Relocated(d, op) OBVIOUS
<1>1. Rearranged(moved, d.nodes) BY <1>0, OperationFacts, RelocatedContent DEF DocOK
<1>2. PICK kept : kept = IF TypeChanged(d, op) THEN 0 ELSE moved[op.id].text OBVIOUS
<1>3. PICK props : props = FullProps(op.type, op.props) OBVIOUS
<1>4. PropsOK(op.type, props)
  BY <1>3, OperationFacts, FullPropsOK DEF UpsertOk
<1>5. PICK total : total = d.totalText - (moved[op.id].text - kept) OBVIOUS
<1>6. PICK n : n = [moved[op.id] EXCEPT !.type = op.type, !.props = props,
                       !.explicit = explicitPropKeys(op.props), !.text = kept]
  OBVIOUS
<1>7. PICK nodes : nodes = [moved EXCEPT ![op.id] = n] OBVIOUS
<1>8. Replaced(d, op) = [d EXCEPT !.totalText = total, !.nodes = nodes]
  BY <1>0, <1>2, <1>3, <1>5, <1>6, <1>7, Zenon DEF Replaced
<1>9. NodeOK(n) /\ n.type = op.type
  <2>1. PICK old : old = moved[op.id] OBVIOUS
  <2>2. NodeOK(old) BY <1>1, <2>1 DEF Rearranged, NodesOK
  <2>3. PICK e : e = explicitPropKeys(op.props) OBVIOUS
  <2>4. n = [type |-> op.type, parent |-> old.parent, children |-> old.children,
             props |-> props, explicit |-> e, text |-> kept]
    BY <1>6, <2>1, <2>2, <2>3 DEF NodeOK
  <2>5. kept \in Nat BY <1>2, <2>1, <2>2 DEF NodeOK
  <2> QED BY <1>4, <2>2, <2>4, <2>5 DEF NodeOK, PropsOK
<1>10. /\ NodesOK(nodes) /\ DOMAIN nodes = DOMAIN d.nodes
       /\ nodes[op.id].type = op.type
       /\ \A id \in DOMAIN d.nodes \ {op.id} : nodes[id].type = d.nodes[id].type
  BY <1>1, <1>7, <1>9 DEF NodesOK, Rearranged, SameContent
<1>11. PICK c : c = Replaced(d, op) OBVIOUS
<1>12. DocOK(c) /\ c.revision = d.revision /\ c.nodes = nodes
  BY <1>8, <1>10, <1>11 DEF DocOK
<1>13. Dropped(d, op) = IF d.nodes[op.id].type # op.type THEN {op.id} ELSE {}
  BY DEF Dropped, Removed, TypeChanged
<1> QED BY <1>10, <1>11, <1>12, <1>13 DEF CandidateOK

\* Upserting a new node.
LEMMA CreatedOK ==
  ASSUME NEW d, DocOK(d), NEW op \in Operations, op.op = "upsert",
         op.id \notin DOMAIN d.nodes, UpsertOk(d, op)
  PROVE  CandidateOK(d, op, Created(d, op))
<1>0. PICK target : target = TargetParent(d, op) OBVIOUS
<1>1. PICK new : new = Node(op.type, target, op.props) OBVIOUS
<1>2. NodeOK(new)
  <2>1. PropsOK(op.type, FullProps(op.type, op.props))
    BY OperationFacts, FullPropsOK DEF UpsertOk
  <2>2. <<>> \in Seq(AllIds) OBVIOUS
  <2> QED BY <1>1, <2>1, <2>2 DEF Node, NodeOK, PropsOK
<1>3. PICK c : c = insertChild(d.nodes[target].children, op.id, op.index) OBVIOUS
<1>4. PICK k : k = [d.nodes EXCEPT ![target].children = c] OBVIOUS
<1>5. Rearranged(k, d.nodes)
  <2>1. target \in DOMAIN d.nodes => c \in Seq(AllIds)
    BY <1>3, OperationFacts, InsertChildFacts DEF DocOK, NodesOK, NodeOK
  <2> QED BY <1>4, <2>1, PlaceOne DEF DocOK
<1>6. PICK nodes : nodes = [id \in DOMAIN d.nodes \cup {op.id} |-> IF id = op.id THEN new ELSE k[id]]
  OBVIOUS
<1>7. PICK raw : raw = [id \in DOMAIN d.nodes \cup {op.id} |->
           IF id = op.id THEN Node(op.type, target, op.props)
           ELSE IF id = target
           THEN [d.nodes[id] EXCEPT !.children = insertChild(@, op.id, op.index)]
           ELSE d.nodes[id]]
  OBVIOUS
<1>8. raw = nodes
  <2>1. \A id \in DOMAIN d.nodes \ {op.id} :
          k[id] = IF id = target
                  THEN [d.nodes[id] EXCEPT !.children = insertChild(@, op.id, op.index)]
                  ELSE d.nodes[id]
    BY <1>3, <1>4
  <2> QED BY <1>1, <1>6, <1>7, <2>1
<1>9. Created(d, op) = [d EXCEPT !.nodes = nodes]
  BY <1>0, <1>7, <1>8, Zenon DEF Created
<1>10. NodesOK(nodes) /\ DOMAIN d.nodes \subseteq DOMAIN nodes
       /\ \A id \in DOMAIN d.nodes : nodes[id].type = d.nodes[id].type
  BY <1>2, <1>5, <1>6 DEF NodesOK, Rearranged, SameContent
<1>11. PICK e : e = Created(d, op) OBVIOUS
<1>12. DocOK(e) /\ e.revision = d.revision /\ e.nodes = nodes
  <2>1. DOMAIN nodes = DOMAIN d.nodes \cup {op.id} BY <1>6
  <2>2. DOMAIN nodes \subseteq AllIds BY <2>1, OperationFacts DEF DocOK
  <2>3. IsFiniteSet(DOMAIN nodes) BY <2>1, FS_AddElement DEF DocOK
  <2> QED BY <1>9, <1>10, <1>11, <2>2, <2>3 DEF DocOK
<1>13. Dropped(d, op) = {}
  BY DEF Dropped, Removed, TypeChanged
<1> QED BY <1>10, <1>11, <1>12, <1>13 DEF CandidateOK

\* Changing properties.
LEMMA PatchedOK ==
  ASSUME NEW d, DocOK(d), NEW op \in Operations, op.op = "props", PropsOk(d, op)
  PROVE  CandidateOK(d, op, Patched(d, op))
<1>0. op.id \in DOMAIN d.nodes /\ NodeOK(d.nodes[op.id]) /\ MergeOk(d.nodes[op.id], op.props)
  BY DEF DocOK, NodesOK, PropsOk
<1>1. PICK old : old = d.nodes[op.id] OBVIOUS
<1>2. PICK props : props = Merge(old.props, Retained(op.props)) OBVIOUS
<1>3. PropsOK(old.type, props) BY <1>0, <1>1, <1>2, OperationFacts, MergedPropsOK
<1>4. PICK n : n = [old EXCEPT !.props = props,
                               !.explicit = @ \cup explicitPropKeys(op.props)] OBVIOUS
<1>5. NodeOK(n) /\ n.type = old.type
  BY <1>0, <1>1, <1>3, <1>4 DEF NodeOK, PropsOK
<1>6. PICK nodes : nodes = [d.nodes EXCEPT ![op.id] = n] OBVIOUS
<1>7. Patched(d, op) = [d EXCEPT !.nodes = nodes]
  <2>1. Patched(d, op) = [d EXCEPT !.nodes[op.id] = n]
    BY <1>1, <1>2, <1>4, Zenon DEF Patched
  <2> QED BY <1>6, <2>1 DEF DocOK
<1>8. NodesOK(nodes) /\ DOMAIN nodes = DOMAIN d.nodes
      /\ \A id \in DOMAIN d.nodes : nodes[id].type = d.nodes[id].type
  BY <1>0, <1>1, <1>5, <1>6 DEF NodesOK, DocOK
<1>9. PICK c : c = Patched(d, op) OBVIOUS
<1>10. DocOK(c) /\ c.revision = d.revision /\ c.nodes = nodes
  BY <1>7, <1>8, <1>9 DEF DocOK
<1>11. Dropped(d, op) = {} BY DEF Dropped, Removed, TypeChanged
<1> QED BY <1>8, <1>9, <1>10, <1>11 DEF CandidateOK

\* Appending text.
LEMMA ExtendedOK ==
  ASSUME NEW d, DocOK(d), NEW op \in Operations, op.op = "text", TextOk(d, op)
  PROVE  CandidateOK(d, op, Extended(d, op))
<1>0. op.id \in DOMAIN d.nodes /\ NodeOK(d.nodes[op.id])
  BY DEF DocOK, NodesOK, TextOk
<1>1. PICK old : old = d.nodes[op.id] OBVIOUS
<1>2. PICK n : n = [old EXCEPT !.text = @ + op.text] OBVIOUS
<1>3. NodeOK(n) /\ n.type = old.type BY <1>0, <1>1, <1>2, OperationFacts DEF NodeOK
<1>4. PICK nodes : nodes = [d.nodes EXCEPT ![op.id] = n] OBVIOUS
<1>5. PICK total : total = d.totalText + op.text OBVIOUS
<1>6. Extended(d, op) = [d EXCEPT !.nodes = nodes, !.totalText = total]
  BY <1>1, <1>2, <1>4, <1>5 DEF Extended, DocOK
<1>7. NodesOK(nodes) /\ DOMAIN nodes = DOMAIN d.nodes
      /\ \A id \in DOMAIN d.nodes : nodes[id].type = d.nodes[id].type
  BY <1>0, <1>1, <1>3, <1>4 DEF NodesOK, DocOK
<1>8. PICK c : c = Extended(d, op) OBVIOUS
<1>9. DocOK(c) /\ c.revision = d.revision /\ c.nodes = nodes
  BY <1>6, <1>7, <1>8 DEF DocOK
<1>10. Dropped(d, op) = {} BY DEF Dropped, Removed, TypeChanged
<1> QED BY <1>7, <1>8, <1>9, <1>10 DEF CandidateOK

\* Removing a subtree.
LEMMA SweptOK ==
  ASSUME NEW d, DocOK(d), NEW op, op.op = "remove", RemoveOk(d, op)
  PROVE  CandidateOK(d, op, Swept(d, op))
<1>1. PICK parent : parent = d.nodes[op.id].parent OBVIOUS
<1>2. PICK b : b = removeChild(d.nodes[parent].children, op.id) OBVIOUS
<1>3. PICK k : k = [d.nodes EXCEPT ![parent].children = b] OBVIOUS
<1>4. Rearranged(k, d.nodes)
  <2>1. parent \in DOMAIN d.nodes => b \in Seq(AllIds)
    BY <1>2, RemoveChildFacts DEF DocOK, NodesOK, NodeOK
  <2> QED BY <1>3, <2>1, PlaceOne DEF DocOK
<1>5. PICK gone : gone = Subtree(d, op.id) OBVIOUS
<1>6. PICK nodes : nodes = Without(k, gone) OBVIOUS
<1>7. PICK total : total = d.totalText - RemovedText(d, op) OBVIOUS
<1>8. Swept(d, op) = [d EXCEPT !.totalText = total, !.nodes = nodes]
  BY <1>1, <1>2, <1>3, <1>5, <1>6, <1>7, Zenon DEF Swept
<1>9. NodesOK(nodes) /\ DOMAIN nodes = DOMAIN d.nodes \ gone
      /\ \A id \in DOMAIN d.nodes \ gone : nodes[id].type = d.nodes[id].type
  BY <1>4, <1>6 DEF NodesOK, Without, Rearranged, SameContent
<1>10. PICK c : c = Swept(d, op) OBVIOUS
<1>11. DocOK(c) /\ c.revision = d.revision /\ c.nodes = nodes
  <2>1. DOMAIN nodes \subseteq AllIds /\ IsFiniteSet(DOMAIN nodes)
    BY <1>9, FS_Subset DEF DocOK
  <2> QED BY <1>8, <1>9, <1>10, <2>1 DEF DocOK
<1>12. Dropped(d, op) = gone BY <1>5 DEF Dropped, Removed, TypeChanged
<1> QED BY <1>9, <1>10, <1>11, <1>12 DEF CandidateOK

\* The five of them together.
LEMMA CandidateFacts ==
  ASSUME NEW d, DocOK(d), NEW op \in Operations, CandidateOk(d, op)
  PROVE  CandidateOK(d, op, Candidate(d, op))
<1>1. CASE op.op = "upsert"
  BY <1>1, ReplacedOK, CreatedOK DEF CandidateOk, Candidate
<1>2. CASE op.op = "props" BY <1>2, PatchedOK DEF CandidateOk, Candidate
<1>3. CASE op.op = "text" BY <1>3, ExtendedOK DEF CandidateOk, Candidate
<1>4. CASE op.op = "remove" BY <1>4, SweptOK DEF CandidateOk, Candidate
<1>5. CASE op.op \in {"focus", "commit"}
  <2>1. Candidate(d, op) = d BY <1>5 DEF Candidate
  <2>2. Dropped(d, op) = {} BY <1>5 DEF Dropped, Removed, TypeChanged
  <2> QED BY <2>1, <2>2 DEF CandidateOK
<1> QED BY <1>1, <1>2, <1>3, <1>4, <1>5, OperationFacts

------------------------------------------------------------------------------
(* The reducer's verdict                                                     *)

\* An accepted operation yields its candidate, under the next revision exactly
\* when the nodes differ.
LEMMA ReduceFacts ==
  ASSUME NEW d, DocOK(d), NEW op \in Operations, Reduce(d, op).ok
  PROVE  LET r == Reduce(d, op) IN
         /\ CandidateOk(d, op)
         /\ r.changed \in BOOLEAN
         /\ r.changed <=> r.doc.nodes # d.nodes
         /\ r.changed => r.doc.revision = d.revision + 1
         /\ ~r.changed => r.doc = d
         /\ r.doc.nodes = Candidate(d, op).nodes
         /\ DocOK(r.doc)
<1>0. PICK c : c = Candidate(d, op) OBVIOUS
<1>1. PICK ch, e : /\ ch = (c.nodes # d.nodes)
                   /\ e = IF c.nodes # d.nodes THEN [c EXCEPT !.revision = @ + 1] ELSE d
  OBVIOUS
<1>2. CandidateOk(d, op) /\ Reduce(d, op) = [ok |-> TRUE, changed |-> ch, doc |-> e]
  BY <1>0, <1>1 DEF Reduce
<1>3. CandidateOK(d, op, c) BY <1>0, <1>2, CandidateFacts
<1>4. DocOK(c) /\ c.revision = d.revision BY <1>3 DEF CandidateOK
<1>5. PICK r : r = Reduce(d, op) /\ r.changed = ch /\ r.doc = e BY <1>2
<1>6. CASE c.nodes # d.nodes
  <2>1. ch = TRUE /\ e = [c EXCEPT !.revision = @ + 1] BY <1>1, <1>6, Zenon
  <2>3. e = [revision |-> d.revision + 1, totalText |-> c.totalText, nodes |-> c.nodes]
    BY <1>4, <2>1 DEF DocOK
  <2>4. DocOK(e) /\ e.nodes = c.nodes /\ e.revision = d.revision + 1
    BY <1>4, <2>3 DEF DocOK
  <2> QED BY <1>0, <1>2, <1>5, <1>6, <2>1, <2>4
<1>7. CASE c.nodes = d.nodes
  <2>1. ch = FALSE /\ e = d BY <1>1, <1>7, Zenon
  <2> QED BY <1>0, <1>2, <1>5, <1>7, <2>1
<1> QED BY <1>6, <1>7

------------------------------------------------------------------------------
(* The projection                                                            *)

StateOK(p) ==
  /\ p = [focused |-> p.focused, inputs |-> p.inputs, selections |-> p.selections,
          bindings |-> p.bindings, dirtyRevision |-> p.dirtyRevision,
          renderGeneration |-> p.renderGeneration,
          publicationGeneration |-> p.publicationGeneration]
  /\ p.inputs = [id \in DOMAIN p.inputs |-> p.inputs[id]]
  /\ p.selections = [id \in DOMAIN p.selections |-> p.selections[id]]
  /\ p.renderGeneration \in Nat /\ p.publicationGeneration \in Nat

\* The parts of the new projection and of its counters.
LEMMA ReconcileFacts ==
  ASSUME NEW p, StateOK(p), NEW prev, NEW r, NEW op
  PROVE  LET q == Reconcile(p, prev, r, op)
             frame == \/ r.changed \/ q.focused # p.focused \/ q.inputs # p.inputs
                      \/ q.selections # p.selections \/ q.bindings # p.bindings
         IN /\ StateOK(q)
            /\ q.focused = FocusAfter(p, prev, r.doc, op)
            /\ q.inputs = InputsAfter(p, prev, r.doc, op)
            /\ q.selections = SelectionsAfter(p, r.doc)
            /\ q.bindings = buildBindings(r.doc)
            /\ q.dirtyRevision = IF r.changed THEN r.doc.revision ELSE p.dirtyRevision
            /\ frame => /\ q.renderGeneration = p.renderGeneration + 1
                        /\ q.publicationGeneration = p.publicationGeneration + 1
            /\ ~frame => q = p
<1>0. PICK focused, inputs, selections, bindings, dirty :
        /\ focused = FocusAfter(p, prev, r.doc, op)
        /\ inputs = InputsAfter(p, prev, r.doc, op)
        /\ selections = SelectionsAfter(p, r.doc)
        /\ bindings = buildBindings(r.doc)
        /\ dirty = IF r.changed THEN r.doc.revision ELSE p.dirtyRevision
  OBVIOUS
<1>1. inputs = [id \in DOMAIN inputs |-> inputs[id]]
  BY <1>0 DEF InputsAfter
<1>2. selections = [id \in DOMAIN selections |-> selections[id]]
  BY <1>0 DEF SelectionsAfter
<1>3. PICK cand : cand = [focused |-> focused, inputs |-> inputs, selections |-> selections,
          bindings |-> bindings, dirtyRevision |-> dirty,
          renderGeneration |-> p.renderGeneration,
          publicationGeneration |-> p.publicationGeneration]
  OBVIOUS
<1>4. cand = [p EXCEPT !.focused = focused, !.inputs = inputs, !.selections = selections,
                       !.bindings = bindings, !.dirtyRevision = dirty]
  <2>1. PICK a : a = [p EXCEPT !.focused = focused, !.inputs = inputs] OBVIOUS
  <2>2. a = [focused |-> focused, inputs |-> inputs, selections |-> p.selections,
             bindings |-> p.bindings, dirtyRevision |-> p.dirtyRevision,
             renderGeneration |-> p.renderGeneration,
             publicationGeneration |-> p.publicationGeneration]
    BY <2>1 DEF StateOK
  <2>3. PICK b : b = [a EXCEPT !.selections = selections, !.bindings = bindings] OBVIOUS
  <2>4. b = [focused |-> focused, inputs |-> inputs, selections |-> selections,
             bindings |-> bindings, dirtyRevision |-> p.dirtyRevision,
             renderGeneration |-> p.renderGeneration,
             publicationGeneration |-> p.publicationGeneration]
    BY <2>2, <2>3
  <2>5. cand = [b EXCEPT !.dirtyRevision = dirty] BY <1>3, <2>4
  <2> QED BY <2>1, <2>3, <2>5, Zenon
<1>5. PICK q : q = Reconcile(p, prev, r, op) OBVIOUS
<1>6. q = IF projectionChanged(p, cand, r.changed)
          THEN [cand EXCEPT !.renderGeneration = @ + 1, !.publicationGeneration = @ + 1]
          ELSE cand
  BY <1>0, <1>4, <1>5 DEF Reconcile
<1>7. CASE projectionChanged(p, cand, r.changed)
  <2>1. q = [focused |-> focused, inputs |-> inputs, selections |-> selections,
          bindings |-> bindings, dirtyRevision |-> dirty,
          renderGeneration |-> p.renderGeneration + 1,
          publicationGeneration |-> p.publicationGeneration + 1]
    BY <1>3, <1>6, <1>7
  <2>2. StateOK(q) BY <1>1, <1>2, <2>1 DEF StateOK
  <2>3. \/ r.changed \/ focused # p.focused \/ inputs # p.inputs
        \/ selections # p.selections \/ bindings # p.bindings
    BY <1>3, <1>7 DEF projectionChanged
  <2> QED BY <1>0, <1>5, <2>1, <2>2, <2>3
<1>8. CASE ~projectionChanged(p, cand, r.changed)
  <2>1. ~(\/ r.changed \/ focused # p.focused \/ inputs # p.inputs
          \/ selections # p.selections \/ bindings # p.bindings)
    BY <1>3, <1>8 DEF projectionChanged
  <2>2. q = cand /\ dirty = p.dirtyRevision BY <1>0, <1>6, <1>8, <2>1
  <2>3. q = p BY <1>3, <2>1, <2>2 DEF StateOK
  <2> QED BY <1>0, <1>5, <2>1, <2>2, <2>3
<1> QED BY <1>7, <1>8

\* Exactly the inputs of the new document have a value; one that was an input
\* before keeps its value unless it is forced.
LEMMA InputsFollow ==
  ASSUME NEW p, NEW prev, DocOK(prev), NEW op \in Operations,
         InputsMatch(p, prev), NEW next, next.nodes = Candidate(prev, op).nodes,
         CandidateOk(prev, op)
  PROVE  /\ DOMAIN InputsAfter(p, prev, next, op) = InputNodes(next)
         /\ \A id \in InputNodes(prev) \cap InputNodes(next) :
              InputsAfter(p, prev, next, op)[id] # p.inputs[id] => op.id = id /\ Forces(op)
<1>0. PICK c : c = Candidate(prev, op) OBVIOUS
<1>1. CandidateOK(prev, op, c) BY <1>0, CandidateFacts
<1>2. InputNodes(next) = {id \in DOMAIN c.nodes : c.nodes[id].type = "input"}
  BY <1>0 DEF InputNodes
<1>3. PICK kept : kept = Without(p.inputs, Dropped(prev, op)) OBVIOUS
<1>4. /\ DOMAIN kept = InputNodes(prev) \ Dropped(prev, op)
      /\ \A id \in DOMAIN kept : kept[id] = p.inputs[id]
  BY <1>3 DEF Without, InputsMatch
<1>5. DOMAIN kept \subseteq InputNodes(next)
  BY <1>1, <1>2, <1>4 DEF CandidateOK, InputNodes
<1>6. \A id \in InputNodes(prev) \cap InputNodes(next) : id \in DOMAIN kept
  BY <1>1, <1>2, <1>4 DEF CandidateOK, InputNodes
<1>7. InputsAfter(p, prev, next, op) =
        [id \in DOMAIN kept \cup InputNodes(next) |->
           IF /\ id \in InputNodes(next)
              /\ RecreatesInput(prev, next, op, id) \/ id \notin DOMAIN kept
           THEN next.nodes[id].props["value"] ELSE kept[id]]
  BY <1>3 DEF InputsAfter
<1>8. DOMAIN InputsAfter(p, prev, next, op) = InputNodes(next)
  BY <1>5, <1>7
<1>9. ASSUME NEW id \in InputNodes(prev) \cap InputNodes(next),
             InputsAfter(p, prev, next, op)[id] # p.inputs[id]
      PROVE  op.id = id /\ Forces(op)
  BY <1>4, <1>6, <1>7, <1>9 DEF RecreatesInput
<1> QED BY <1>8, <1>9

\* A selection names an existing row, by its identity where it has one.
RowSelected(n, s) ==
  /\ s.index \in 0..(Rows(n) - 1)
  /\ s.rowID = IF RowIDs(n) = <<>> THEN "" ELSE RowIDs(n)[s.index + 1]

\* What a table with rows looks like.
LEMMA TableFacts ==
  ASSUME NEW n, NodeOK(n), n.type = "table", Rows(n) > 0
  PROVE  /\ Rows(n) \in Nat
         /\ RowIDs(n) \in Seq(STRING)
         /\ RowIDs(n) # <<>> => Len(RowIDs(n)) = Rows(n)
         /\ Len(RowIDs(n)) = Rows(n) => RowIDs(n) # <<>>
         /\ "" \notin ToSet(RowIDs(n))
<1>0. PICK rows : rows = Rows(n) OBVIOUS
<1>1. rows \in Nat /\ rows > 0 BY <1>0 DEF NodeOK, Rows
<1>2. CASE "row_ids" \in DOMAIN n.props
  <2>1. PICK ids : ids = n.props["row_ids"] OBVIOUS
  <2>2. RowIDs(n) = ids BY <1>2, <2>1 DEF RowIDs
  <2>3. /\ ids \in Seq(STRING) /\ "" \notin ToSet(ids)
        /\ Len(ids) = rows
    BY <1>0, <1>2, <2>1 DEF NodeOK, validateNormalized, Rows
  <2>4. ids # <<>>
    <3>0. Len(ids) = rows BY <2>3
    <3>1. Len(ids) # 0 BY <1>1, <3>0
    <3>2. Len(<<>>) = 0 OBVIOUS
    <3> QED BY <3>1, <3>2
  <2> QED BY <1>0, <1>1, <2>2, <2>3, <2>4
<1>3. CASE "row_ids" \notin DOMAIN n.props
  <2>1. RowIDs(n) = <<>> BY <1>3 DEF RowIDs
  <2>2. ToSet(<<>>) = {} BY DEF ToSet
  <2>3. <<>> \in Seq(STRING) /\ Len(<<>>) = 0 OBVIOUS
  <2>4. Len(<<>>) # rows BY <1>1, <2>3
  <2> QED BY <1>0, <1>1, <2>1, <2>2, <2>3, <2>4
<1> QED BY <1>2, <1>3

\* tableSelectionAt selects a row the table has, whatever index is asked for.
LEMMA SelectionAt ==
  ASSUME NEW n, NodeOK(n), n.type = "table", Rows(n) > 0, NEW index \in Int
  PROVE  RowSelected(n, tableSelectionAt(n, index))
<1>5. PICK rows \in Nat : rows = Rows(n) /\ rows > 0 BY TableFacts
<1>0. PICK i : i = IF index < 0 THEN 0 ELSE IF index >= rows THEN rows - 1 ELSE index
  OBVIOUS
<1>1. PICK s : s = tableSelectionAt(n, index) OBVIOUS
<1>2. s.index = i /\ s.rowID = IF Len(RowIDs(n)) = Rows(n) THEN RowIDs(n)[i + 1] ELSE ""
  BY <1>5, <1>0, <1>1 DEF tableSelectionAt
<1>3. i \in 0..(rows - 1) BY <1>5, <1>0
<1> QED BY <1>5, <1>1, <1>2, <1>3, TableFacts DEF RowSelected

\* A reconciled selection is a row of the table, the one with the old identity if
\* the table still has it.
LEMMA SelectionReconciled ==
  ASSUME NEW n, NodeOK(n), n.type = "table", Rows(n) > 0,
         NEW current, current = <<>> \/ \E s : current = <<s>> /\ s.index \in Int
  PROVE  /\ RowSelected(n, reconcileSelection(n, current))
         /\ \A s : current = <<s>> /\ s.rowID \in ToSet(RowIDs(n))
                     => reconcileSelection(n, current).rowID = s.rowID
<1>1. CASE /\ current # <<>> /\ current[1].rowID # ""
           /\ Len(RowIDs(n)) = Rows(n) /\ current[1].rowID \in ToSet(RowIDs(n))
  <2>1. PICK s : current = <<s>> BY <1>1
  <2>2. PICK i : i = CHOOSE k \in DOMAIN RowIDs(n) : RowIDs(n)[k] = s.rowID OBVIOUS
  <2>3. \E k \in DOMAIN RowIDs(n) : RowIDs(n)[k] = s.rowID
    BY <1>1, <2>1 DEF ToSet
  <2>4. i \in DOMAIN RowIDs(n) /\ RowIDs(n)[i] = s.rowID BY <2>2, <2>3
  <2>5. reconcileSelection(n, current) = [index |-> i - 1, rowID |-> s.rowID]
    BY <1>1, <2>1, <2>2 DEF reconcileSelection
  <2>6. PICK rows \in Nat, ids \in Seq(STRING) :
          rows = Rows(n) /\ ids = RowIDs(n) /\ Len(ids) = rows /\ ids # <<>>
    BY <1>1, TableFacts
  <2>7. i \in 1..rows BY <2>4, <2>6
  <2>8. (i - 1) + 1 = i /\ i - 1 \in 0..(rows - 1) BY <2>6, <2>7
  <2>9. RowSelected(n, [index |-> i - 1, rowID |-> s.rowID])
    BY <2>4, <2>6, <2>8 DEF RowSelected
  <2> QED BY <2>1, <2>5, <2>9
<1>2. CASE ~(/\ current # <<>> /\ current[1].rowID # ""
             /\ Len(RowIDs(n)) = Rows(n) /\ current[1].rowID \in ToSet(RowIDs(n)))
  <2>1. PICK index \in Int : index = IF current = <<>> THEN 0 ELSE current[1].index OBVIOUS
  <2>2. reconcileSelection(n, current) = tableSelectionAt(n, index)
    BY <1>2, <2>1 DEF reconcileSelection
  <2>3. ASSUME NEW s, current = <<s>>, s.rowID \in ToSet(RowIDs(n)) PROVE FALSE
    <3>1. RowIDs(n) # <<>> BY <2>3 DEF ToSet
    <3> QED BY <1>2, <2>3, <3>1, TableFacts
  <2>4. RowSelected(n, tableSelectionAt(n, index)) BY <2>1, SelectionAt
  <2> QED BY <2>2, <2>3, <2>4
<1> QED BY <1>1, <1>2

\* A selectable table is a node with rows to count.
LEMMA SelectableFacts ==
  ASSUME NEW d, DocOK(d), NEW id \in SelectableTables(d)
  PROVE  /\ id \in DOMAIN d.nodes /\ NodeOK(d.nodes[id]) /\ d.nodes[id].type = "table"
         /\ Rows(d.nodes[id]) \in Nat
BY DEF DocOK, NodesOK, NodeOK, SelectableTables, Rows

\* Exactly the selectable tables with rows have a selection, and a named row
\* that is still there stays selected.
LEMMA SelectionsFollow ==
  ASSUME NEW p, NEW prev, DocOK(prev), SelectionsMatch(p, prev), NEW next, DocOK(next)
  PROVE  LET s == SelectionsAfter(p, next) IN
         /\ DOMAIN s = {id \in SelectableTables(next) : Rows(next.nodes[id]) > 0}
         /\ \A id \in DOMAIN s : RowSelected(next.nodes[id], s[id])
         /\ \A id \in DOMAIN p.selections \cap DOMAIN s :
              p.selections[id].rowID \in ToSet(RowIDs(next.nodes[id]))
                => s[id].rowID = p.selections[id].rowID
<1>0. PICK s : s = SelectionsAfter(p, next) OBVIOUS
<1>1. /\ DOMAIN s = {id \in SelectableTables(next) : Rows(next.nodes[id]) > 0}
      /\ \A id \in DOMAIN s : s[id] = reconcileSelection(next.nodes[id], SelectionOf(p, id))
  BY <1>0 DEF SelectionsAfter
<1>2. ASSUME NEW id \in DOMAIN p.selections PROVE p.selections[id].index \in Int
  <2>1. id \in SelectableTables(prev) /\ RowSelected(prev.nodes[id], p.selections[id])
    BY <1>2 DEF SelectionsMatch, RowSelected
  <2>2. PICK rows \in Nat : rows = Rows(prev.nodes[id]) BY <2>1, SelectableFacts
  <2>3. PICK i : i = p.selections[id].index OBVIOUS
  <2>4. i \in 0..(rows - 1) BY <2>1, <2>2, <2>3 DEF RowSelected
  <2> QED BY <2>2, <2>3, <2>4
<1>3. ASSUME NEW id \in DOMAIN s
      PROVE  /\ RowSelected(next.nodes[id], s[id])
             /\ id \in DOMAIN p.selections
                  /\ p.selections[id].rowID \in ToSet(RowIDs(next.nodes[id]))
                => s[id].rowID = p.selections[id].rowID
  <2>1. PICK n : n = next.nodes[id] OBVIOUS
  <2>2. NodeOK(n) /\ n.type = "table" /\ Rows(n) > 0
    BY <1>1, <1>3, <2>1, SelectableFacts
  <2>3. PICK current : current = SelectionOf(p, id) OBVIOUS
  <2>4. s[id] = reconcileSelection(n, current) BY <1>1, <1>3, <2>1, <2>3
  <2>5. current = <<>> \/ \E t : current = <<t>> /\ t.index \in Int
    BY <1>2, <2>3 DEF SelectionOf
  <2>6. RowSelected(n, s[id]) BY <2>2, <2>4, <2>5, SelectionReconciled
  <2>7. ASSUME id \in DOMAIN p.selections, p.selections[id].rowID \in ToSet(RowIDs(n))
        PROVE  s[id].rowID = p.selections[id].rowID
    <3>1. current = <<p.selections[id]>> BY <2>3, <2>7 DEF SelectionOf
    <3> QED BY <2>2, <2>4, <2>5, <2>7, <3>1, SelectionReconciled
  <2> QED BY <2>1, <2>6, <2>7
<1> QED BY <1>0, <1>1, <1>3

\* Without a conflict, the bindings lead from every key to the node it is on.
LEMMA BindingsBuilt ==
  ASSUME NEW d, ~BindingConflict(d), NEW p, p.bindings = buildBindings(d)
  PROVE  BindingsMatch(p, d)
<1> DEFINE items(id) == d.nodes[id].props["items"]
<1> DEFINE A == {x \in DOMAIN d.nodes : d.nodes[x].type = "actions"}
<1>1. \A a : a \in ActionItems(d) <=> \E id \in A : \E i \in DOMAIN items(id) : a = <<id, i>>
  BY DEF ActionItems
<1>2. \A id, i : ItemKey(d, <<id, i>>) = items(id)[i] BY DEF ItemKey
<1>3. PICK keys : keys = {ItemKey(d, a) : a \in ActionItems(d)} OBVIOUS
<1>4. /\ DOMAIN p.bindings = keys
      /\ \A key \in keys :
           p.bindings[key] = (CHOOSE a \in ActionItems(d) : ItemKey(d, a) = key)[1]
  BY <1>3 DEF buildBindings
<1>5. ASSUME NEW id \in A, NEW i \in DOMAIN items(id)
      PROVE  items(id)[i] \in keys /\ p.bindings[items(id)[i]] = id
  <2>1. <<id, i>> \in ActionItems(d) BY <1>1, <1>5
  <2>2. PICK key : key = items(id)[i] OBVIOUS
  <2>3. ItemKey(d, <<id, i>>) = key BY <1>2, <2>2
  <2>4. key \in keys BY <1>3, <2>1, <2>3
  <2>5. PICK a : a = CHOOSE b \in ActionItems(d) : ItemKey(d, b) = key OBVIOUS
  <2>6. a \in ActionItems(d) /\ ItemKey(d, a) = key BY <2>1, <2>3, <2>5
  <2>7. a = <<id, i>> BY <2>1, <2>3, <2>6 DEF BindingConflict
  <2>8. p.bindings[key] = a[1] BY <1>4, <2>4, <2>5
  <2> QED BY <2>2, <2>4, <2>7, <2>8
<1>6. ASSUME NEW key \in keys
      PROVE  \E id \in A : \E i \in DOMAIN items(id) : key = items(id)[i]
  <2>1. PICK a \in ActionItems(d) : ItemKey(d, a) = key BY <1>3, <1>6
  <2>2. PICK id \in A : \E i \in DOMAIN items(id) : a = <<id, i>> BY <1>1, <2>1
  <2>3. PICK i \in DOMAIN items(id) : a = <<id, i>> BY <2>2
  <2> QED BY <1>2, <2>1, <2>3
<1>7. \A id \in A : ToSet(items(id)) = {items(id)[i] : i \in DOMAIN items(id)}
  BY DEF ToSet
<1>8. \A key \in DOMAIN p.bindings : p.bindings[key] \in DOMAIN d.nodes
  BY <1>4, <1>5, <1>6
<1>9. ASSUME NEW id \in DOMAIN d.nodes
      PROVE  /\ d.nodes[id].type = "actions" => ToSet(items(id)) \subseteq DOMAIN p.bindings
             /\ \A key \in DOMAIN p.bindings :
                  p.bindings[key] = id
                    <=> d.nodes[id].type = "actions" /\ key \in ToSet(items(id))
  <2>1. CASE id \in A
    <3>1. \A i \in DOMAIN items(id) : items(id)[i] \in keys /\ p.bindings[items(id)[i]] = id
      BY <1>5, <2>1
    <3>2. \A key : key \in ToSet(items(id)) <=> \E i \in DOMAIN items(id) : key = items(id)[i]
      BY <1>7, <2>1
    <3>3. \A key \in keys : p.bindings[key] = id => key \in ToSet(items(id))
      <4>1. SUFFICES ASSUME NEW key \in keys, p.bindings[key] = id
                     PROVE  key \in ToSet(items(id))
        OBVIOUS
      <4>2. PICK x \in A : \E i \in DOMAIN items(x) : key = items(x)[i] BY <1>6
      <4>3. x = id BY <1>5, <4>1, <4>2
      <4> QED BY <3>2, <4>2, <4>3
    <3> QED BY <1>4, <2>1, <3>1, <3>2, <3>3
  <2>2. CASE id \notin A
    BY <1>4, <1>5, <1>6, <2>2
  <2> QED BY <2>1, <2>2
<1> QED BY <1>8, <1>9 DEF BindingsMatch

------------------------------------------------------------------------------
(* The first focusable node                                                  *)

\* What the structural checks say of the children lists.
ChildrenExist(d) ==
  /\ "root" \in DOMAIN d.nodes
  /\ \A id \in DOMAIN d.nodes : ToSet(d.nodes[id].children) \subseteq DOMAIN d.nodes

\* What a visit of id adds to the walk: the node itself, then what the visits
\* of its children, one level less deep, have added.
Own(d, id) == IF id # "root" /\ focusable(d.nodes[id]) THEN <<id>> ELSE <<>>

Below(d, id, w) == [i \in DOMAIN d.nodes[id].children |-> w[d.nodes[id].children[i]]]

Walks(d) == [DOMAIN d.nodes -> Seq(Focusable(d))]

FocusWalk(r, d) ==
  LET N == Cardinality(DOMAIN d.nodes)
  IN /\ FocusableIDs(d) = r[N]["root"]
     /\ \A k \in 0..N : r[k] \in Walks(d)
     /\ \A k \in 1..N, id \in DOMAIN d.nodes :
          r[k][id] = Own(d, id) \o FlattenSeq(Below(d, id, r[k - 1]))

\* The visits of a node's children, one list for each.
LEMMA BelowOK ==
  ASSUME NEW d, DocOK(d), ChildrenExist(d), NEW id \in DOMAIN d.nodes, NEW w \in Walks(d)
  PROVE  /\ Below(d, id, w) \in Seq(Seq(Focusable(d)))
         /\ Len(Below(d, id, w)) = Len(d.nodes[id].children)
         /\ d.nodes[id].children \in Seq(DOMAIN d.nodes)
         /\ \A i \in 1..Len(d.nodes[id].children) :
              Below(d, id, w)[i] = w[d.nodes[id].children[i]]
<1> DEFINE D == DOMAIN d.nodes
<1>1. PICK children, seqs : children = d.nodes[id].children /\ seqs = Below(d, id, w) OBVIOUS
<1>2. children \in Seq(D)
  <2>1. children \in Seq(AllIds) BY <1>1 DEF DocOK, NodesOK, NodeOK
  <2>2. \A i \in 1..Len(children) : children[i] \in D
    BY <1>1, <2>1 DEF ChildrenExist, ToSet
  <2>3. Len(children) \in Nat /\ children = [i \in 1..Len(children) |-> children[i]] BY <2>1
  <2> QED BY <2>2, <2>3, SeqOfElements
<1>3. DOMAIN children = 1..Len(children) /\ Len(children) \in Nat BY <1>2
<1>4. seqs = [i \in DOMAIN children |-> w[children[i]]] BY <1>1 DEF Below
<1>5. PICK Y : Y = Seq(Focusable(d)) OBVIOUS
<1>6. \A i \in 1..Len(children) : w[children[i]] \in Y BY <1>2, <1>5 DEF Walks
<1>7. PICK m \in Nat : m = Len(children) BY <1>3
<1>8. \A i \in 1..m : seqs[i] \in Y /\ seqs[i] = w[children[i]] BY <1>3, <1>4, <1>6, <1>7
<1>9. seqs = [i \in 1..m |-> seqs[i]] BY <1>3, <1>4, <1>7
<1>10. seqs \in Seq(Y) BY <1>8, <1>9, SeqOfElements
<1>11. Len(seqs) = m BY <1>9, <1>10
<1> QED BY <1>1, <1>2, <1>5, <1>7, <1>8, <1>10, <1>11

\* The visit of a node lists focusable nodes.
LEMMA VisitOK ==
  ASSUME NEW d, DocOK(d), ChildrenExist(d), NEW id \in DOMAIN d.nodes, NEW w \in Walks(d)
  PROVE  Own(d, id) \o FlattenSeq(Below(d, id, w)) \in Seq(Focusable(d))
<1>1. PICK S : S = Focusable(d) OBVIOUS
<1>2. PICK seqs : seqs = Below(d, id, w) OBVIOUS
<1>3. seqs \in Seq(Seq(S)) BY <1>1, <1>2, BelowOK
<1>4. FlattenSeq(seqs) \in Seq(S) BY <1>3, FlattenHead
<1>5. Own(d, id) \in Seq(S)
  <2>1. CASE id # "root" /\ focusable(d.nodes[id])
    <3>1. Own(d, id) = <<id>> /\ id \in S BY <1>1, <2>1 DEF Focusable, Own
    <3> QED BY <3>1
  <2>2. CASE ~(id # "root" /\ focusable(d.nodes[id]))
    <3>1. Own(d, id) = <<>> BY <2>2 DEF Own
    <3> QED BY <3>1, EmptySeq
  <2> QED BY <2>1, <2>2
<1> QED BY <1>1, <1>2, <1>4, <1>5, ConcatProperties

\* The walk lists focusable nodes only.
LEMMA FocusWalkExists ==
  ASSUME NEW d, DocOK(d), ChildrenExist(d)
  PROVE  \E r : FocusWalk(r, d)
<1> DEFINE D == DOMAIN d.nodes
<1> DEFINE X == Walks(d)
<1> DEFINE visit(id, below) == Own(d, id) \o FlattenSeq(Below(d, id, below))
<1>0. PICK N \in Nat : N = Cardinality(D) BY FS_CardinalityType DEF DocOK
<1> DEFINE rhs(f) == [k \in 0..N |-> [id \in D |-> IF k = 0 THEN <<>> ELSE visit(id, f[k - 1])]]
<1>1. ASSUME NEW id \in D, NEW below \in X PROVE visit(id, below) \in Seq(Focusable(d))
  BY VisitOK
<1>2. PICK base : base = [id \in D |-> <<>>] OBVIOUS
<1>3. base \in X
  <2>1. <<>> \in Seq(Focusable(d)) BY EmptySeq
  <2> QED BY <1>2, <2>1 DEF Walks
<1> HIDE DEF visit
<1>4. PICK G : G = [p \in Nat \X X |-> [id \in D |-> visit(id, p[2])]] OBVIOUS
<1>5. G \in [Nat \X X -> X]
  <2>1. ASSUME NEW p \in Nat \X X PROVE [id \in D |-> visit(id, p[2])] \in X
    <3>1. PICK below \in X : below = p[2] OBVIOUS
    <3>2. \A id \in D : visit(id, below) \in Seq(Focusable(d)) BY <1>1
    <3> QED BY <3>1, <3>2 DEF Walks
  <2> HIDE DEF X
  <2> QED BY <1>4, <2>1
<1>6. PICK f : Recurses(f, X, base, G, N)
  <2> HIDE DEF X
  <2> QED BY <1>0, <1>3, <1>5, Recursion
<1>7. \E g : g = rhs(g)
  <2>1. ASSUME NEW k \in 0..N
        PROVE  f[k] = [id \in D |-> IF k = 0 THEN <<>> ELSE visit(id, f[k - 1])]
    <3>1. CASE k = 0 BY <1>2, <1>6, <3>1 DEF Recurses
    <3>2. CASE k # 0
      <4>1. k \in 1..N /\ k - 1 \in 0..N /\ k \in Nat BY <3>2
      <4>2. PICK below \in X : below = f[k - 1] BY <1>6, <4>1 DEF Recurses
      <4>3. f[k] = G[<<k, below>>] BY <1>6, <4>1, <4>2 DEF Recurses
      <4>4. G[<<k, below>>] = [id \in D |-> visit(id, below)]
        <5>1. <<k, below>> \in Nat \X X /\ <<k, below>>[2] = below BY <4>1, <4>2
        <5> HIDE DEF X
        <5> QED BY <1>4, <5>1
      <4> QED BY <3>2, <4>2, <4>3, <4>4
    <3> QED BY <3>1, <3>2
  <2>2. f = [k \in 0..N |-> f[k]] BY <1>6 DEF Recurses
  <2>3. f = rhs(f) BY <2>1, <2>2
  <2> QED BY <2>3
<1>8. PICK r : r = CHOOSE g : g = rhs(g) OBVIOUS
<1>9. r = rhs(r) BY <1>7, <1>8
<1>10. FocusableIDs(d) = r[N]["root"]
  BY <1>0, <1>8, Zenon DEF FocusableIDs, visit, Own, Below
<1>11. \A k \in 0..N : r[k] = [id \in D |-> IF k = 0 THEN <<>> ELSE visit(id, r[k - 1])]
  BY <1>9
<1> DEFINE T == {k \in 0..N : r[k] \in X}
<1>12. 0 \in T
  <2>1. r[0] = base BY <1>0, <1>2, <1>11
  <2> HIDE DEF X
  <2> QED BY <1>0, <1>3, <2>1
<1>13. ASSUME NEW n \in 0..(N - 1), n \in T PROVE n + 1 \in T
  <2>1. n + 1 \in 0..N /\ n + 1 # 0 /\ (n + 1) - 1 = n BY <1>0
  <2>2. PICK below \in X : below = r[n] BY <1>13
  <2>3. r[n + 1] = [id \in D |-> visit(id, below)] BY <1>11, <2>1, <2>2
  <2>4. \A id \in D : visit(id, below) \in Seq(Focusable(d)) BY <1>1
  <2>5. r[n + 1] \in X BY <2>3, <2>4 DEF Walks
  <2> HIDE DEF X
  <2> QED BY <2>1, <2>5
<1>14. \A n \in 0..N : n \in T
  <2> HIDE DEF T
  <2> QED BY <1>0, <1>12, <1>13, InductionUpTo
<1>15. ASSUME NEW k \in 1..N, NEW id \in D
       PROVE  r[k][id] = Own(d, id) \o FlattenSeq(Below(d, id, r[k - 1]))
  <2>1. k \in 0..N /\ k # 0 OBVIOUS
  <2> QED BY <1>11, <2>1 DEF visit
<1>16. \A k \in 0..N : r[k] \in X BY <1>14
<1> QED BY <1>0, <1>10, <1>15, <1>16 DEF FocusWalk

\* FocusableIDs lists focusable nodes only.
LEMMA FocusableIDsOK ==
  ASSUME NEW d, DocOK(d), ChildrenExist(d)
  PROVE  FocusableIDs(d) \in Seq(Focusable(d))
<1>1. PICK N \in Nat : N = Cardinality(DOMAIN d.nodes) BY FS_CardinalityType DEF DocOK
<1>2. PICK r : FocusWalk(r, d) BY FocusWalkExists
<1>3. N \in 0..N /\ "root" \in DOMAIN d.nodes BY <1>1 DEF ChildrenExist
<1>4. r[N] \in Walks(d) /\ FocusableIDs(d) = r[N]["root"] BY <1>1, <1>2, <1>3 DEF FocusWalk
<1> QED BY <1>3, <1>4 DEF Walks

\* firstFocusable is a focusable node, or none.
LEMMA FirstFocusableOK ==
  ASSUME NEW d, DocOK(d), ChildrenExist(d)
  PROVE  firstFocusable(d) \in Focusable(d) \cup {""}
<1>1. PICK ids : ids = FocusableIDs(d) OBVIOUS
<1>2. ids \in Seq(Focusable(d)) BY <1>1, FocusableIDsOK
<1>3. CASE ids = <<>> BY <1>1, <1>3 DEF firstFocusable
<1>4. CASE ids # <<>>
  <2>1. Head(ids) \in Focusable(d) BY <1>2, <1>4, HeadTailProperties
  <2> QED BY <1>1, <1>4, <2>1 DEF firstFocusable
<1> QED BY <1>3, <1>4

\* After Reconcile the focus is on a focusable node, or nowhere.
LEMMA FocusFollows ==
  ASSUME NEW p, NEW prev, NEW next, DocOK(next), ChildrenExist(next), NEW op
  PROVE  FocusAfter(p, prev, next, op) \in Focusable(next) \cup {""}
BY FirstFocusableOK DEF FocusAfter

------------------------------------------------------------------------------
(* Reachability                                                              *)

\* r[k] is what at most k steps of N inside D lead to from id.
Reaches(r, D, N, id) ==
  /\ r[0] = {id}
  /\ \A k \in 1..Cardinality(D) : r[k] = r[k - 1] \cup UNION {N[x] : x \in r[k - 1] \cap D}

SolvesReach(h, D, N, id, M) ==
  h = [k \in 0..M |-> IF k = 0 THEN {id}
                      ELSE h[k - 1] \cup UNION {N[x] : x \in h[k - 1] \cap D}]

\* The recursive definition of such an r has a solution.
LEMMA ReachExists ==
  ASSUME NEW D, NEW N, NEW id, NEW M \in Nat
  PROVE  \E h : SolvesReach(h, D, N, id, M)
<1> DEFINE X == SUBSET (D \cup {id} \cup UNION {N[x] : x \in D})
<1> DEFINE G == [p \in Nat \X X |-> p[2] \cup UNION {N[x] : x \in p[2] \cap D}]
<1>1. {id} \in X OBVIOUS
<1>2. ASSUME NEW s \in X PROVE s \cup UNION {N[x] : x \in s \cap D} \in X OBVIOUS
<1>3. G \in [Nat \X X -> X]
  <2>1. ASSUME NEW p \in Nat \X X PROVE p[2] \cup UNION {N[x] : x \in p[2] \cap D} \in X
    <3>1. p[2] \in X OBVIOUS
    <3> HIDE DEF X
    <3> QED BY <1>2, <3>1
  <2> QED BY <2>1
<1>4. PICK f : Recurses(f, X, {id}, G, M)
  <2> HIDE DEF G, X
  <2> QED BY <1>1, <1>3, Recursion
<1>5. ASSUME NEW k \in 1..M
      PROVE  f[k] = f[k - 1] \cup UNION {N[x] : x \in f[k - 1] \cap D}
  <2>1. k \in Nat /\ k - 1 \in 0..M OBVIOUS
  <2>2. PICK s : s = f[k - 1] OBVIOUS
  <2>3. s \in X /\ f[k] = G[<<k, s>>] BY <1>4, <2>1, <2>2 DEF Recurses
  <2>4. G[<<k, s>>] = s \cup UNION {N[x] : x \in s \cap D}
    <3>1. <<k, s>> \in Nat \X X BY <2>1, <2>3
    <3> HIDE DEF X
    <3> QED BY <3>1
  <2> QED BY <2>2, <2>3, <2>4
<1>6. f[0] = {id} /\ f = [k \in 0..M |-> f[k]] BY <1>4 DEF Recurses
<1>7. \A k \in 0..M : f[k] = IF k = 0 THEN {id}
                             ELSE f[k - 1] \cup UNION {N[x] : x \in f[k - 1] \cap D}
  <2> TAKE k \in 0..M
  <2>1. k = 0 \/ k \in 1..M OBVIOUS
  <2> QED BY <1>5, <1>6, <2>1
<1> QED BY <1>6, <1>7 DEF SolvesReach

\* After as many steps as there are nodes, nothing is left to reach.
LEMMA Closure ==
  ASSUME NEW D, IsFiniteSet(D), NEW N, NEW id \in D, NEW r, Reaches(r, D, N, id),
         NEW L, L = r[Cardinality(D)]
  PROVE  /\ id \in L
         /\ \A x \in L \cap D : N[x] \cap D \subseteq L
         /\ \A C : id \in C /\ (\A x \in C \cap D : N[x] \subseteq C) => L \subseteq C
         /\ \A C : id \in C /\ (\A x \in C \cap D : N[x] \cap D \subseteq C) => L \cap D \subseteq C
<1> DEFINE M == Cardinality(D)
<1>0. M \in Nat BY FS_CardinalityType
<1>1. /\ r[0] = {id}
      /\ \A k \in 0..(M - 1) :
           r[k + 1] = r[k] \cup UNION {N[x] : x \in r[k] \cap D}
  <2>1. r[0] = {id} BY DEF Reaches
  <2>2. ASSUME NEW k \in 0..(M - 1)
        PROVE  r[k + 1] = r[k] \cup UNION {N[x] : x \in r[k] \cap D}
    <3>1. k + 1 \in 1..M /\ (k + 1) - 1 = k BY <1>0
    <3> QED BY <3>1 DEF Reaches
  <2> QED BY <2>1, <2>2
<1> HIDE DEF M
<1>2. id \in L
  <2> DEFINE T == {k \in Nat : id \in r[k]}
  <2>1. 0 \in T BY <1>1
  <2>2. \A k \in 0..(M - 1) : k \in T => k + 1 \in T BY <1>1
  <2>3. \A k \in 0..M : k \in T
    <3> HIDE DEF T
    <3> QED BY <1>0, <2>1, <2>2, InductionUpTo
  <2>4. M \in T BY <1>0, <2>3
  <2> QED BY <2>4 DEF M
<1>3. ASSUME NEW C, id \in C, \A x \in C \cap D : N[x] \subseteq C PROVE L \subseteq C
  <2> DEFINE T == {k \in Nat : r[k] \subseteq C}
  <2>1. 0 \in T BY <1>1, <1>3
  <2>2. \A k \in 0..(M - 1) : k \in T => k + 1 \in T BY <1>1, <1>3
  <2>3. \A k \in 0..M : k \in T
    <3> HIDE DEF T
    <3> QED BY <1>0, <2>1, <2>2, InductionUpTo
  <2>4. M \in T BY <1>0, <2>3
  <2> QED BY <2>4 DEF M
<1>4. ASSUME NEW C, id \in C, \A x \in C \cap D : N[x] \cap D \subseteq C
      PROVE  L \cap D \subseteq C
  <2> DEFINE T == {k \in Nat : r[k] \cap D \subseteq C}
  <2>1. 0 \in T BY <1>1, <1>4
  <2>2. \A k \in 0..(M - 1) : k \in T => k + 1 \in T BY <1>1, <1>4
  <2>3. \A k \in 0..M : k \in T
    <3> HIDE DEF T
    <3> QED BY <1>0, <2>1, <2>2, InductionUpTo
  <2>4. M \in T BY <1>0, <2>3
  <2> QED BY <2>4 DEF M
<1>5. \A x \in L \cap D : N[x] \cap D \subseteq L
  <2> DEFINE Closed(s) == \A x \in s \cap D : N[x] \cap D \subseteq s
  <2> DEFINE T == {k \in Nat : Closed(r[k]) \/ Cardinality(r[k] \cap D) >= k + 1}
  <2>1. 0 \in T
    <3>1. r[0] \cap D = {id} BY <1>1
    <3>2. Cardinality({id}) = 1 BY FS_Singleton
    <3>3. Cardinality(r[0] \cap D) >= 0 + 1 BY <3>1, <3>2
    <3> QED BY <3>3
  <2>2. ASSUME NEW k \in 0..(M - 1), k \in T PROVE k + 1 \in T
    <3>0. k + 1 \in Nat OBVIOUS
    <3>1. PICK s, t : s = r[k] /\ t = r[k + 1] OBVIOUS
    <3>2. t = s \cup UNION {N[x] : x \in s \cap D} BY <1>1, <3>1
    <3>3. CASE Closed(s)
      <4>1. Closed(t) BY <3>2, <3>3
      <4> QED BY <3>0, <3>1, <4>1
    <3>4. CASE ~Closed(s)
      <4>1. Cardinality(s \cap D) >= k + 1 BY <2>2, <3>1, <3>4
      <4>2. PICK x \in s \cap D, y \in D : y \in N[x] /\ y \notin s BY <3>4
      <4>3. PICK u, v : u = s \cap D /\ v = t \cap D OBVIOUS
      <4>4. y \notin u /\ u \cup {y} \in SUBSET v BY <3>2, <4>2, <4>3
      <4>5. IsFiniteSet(u) /\ IsFiniteSet(v) BY <4>3, FS_Subset
      <4>6. Cardinality(u \cup {y}) = Cardinality(u) + 1 BY <4>4, <4>5, FS_AddElement
      <4>7. Cardinality(u \cup {y}) <= Cardinality(v) BY <4>4, <4>5, FS_Subset
      <4>8. Cardinality(u) \in Nat /\ Cardinality(v) \in Nat BY <4>5, FS_CardinalityType
      <4>9. Cardinality(v) >= (k + 1) + 1 BY <4>1, <4>3, <4>6, <4>7, <4>8
      <4> QED BY <3>0, <3>1, <4>3, <4>9
    <3> QED BY <3>3, <3>4
  <2>3. \A k \in 0..M : k \in T
    <3> HIDE DEF T
    <3> QED BY <1>0, <2>1, <2>2, InductionUpTo
  <2>4. M \in T BY <1>0, <2>3
  <2>5. ~(Cardinality(r[M] \cap D) >= M + 1)
    <3>1. PICK u : u = r[M] \cap D OBVIOUS
    <3>2. IsFiniteSet(u) /\ Cardinality(u) <= M BY <3>1, FS_Subset DEF M
    <3>3. Cardinality(u) \in Nat BY <3>2, FS_CardinalityType
    <3>4. ~(Cardinality(u) >= M + 1) BY <1>0, <3>2, <3>3
    <3> QED BY <3>1, <3>4
  <2>6. Closed(r[M]) BY <2>4, <2>5
  <2> QED BY <2>6 DEF M
<1> QED BY <1>2, <1>3, <1>4, <1>5

Kids(d, x) == ToSet(d.nodes[x].children)

ClosedUnder(C, d) == \A x \in C \cap DOMAIN d.nodes : Kids(d, x) \subseteq C

\* A subtree is the least set with its root that is closed under children.
LEMMA SubtreeFacts ==
  ASSUME NEW d, IsFiniteSet(DOMAIN d.nodes),
         \A x \in DOMAIN d.nodes : Kids(d, x) \subseteq DOMAIN d.nodes,
         NEW id \in DOMAIN d.nodes
  PROVE  LET S == Subtree(d, id) IN
         /\ id \in S /\ S \subseteq DOMAIN d.nodes /\ ClosedUnder(S, d)
         /\ \A C : id \in C /\ ClosedUnder(C, d) => S \subseteq C
<1> DEFINE D == DOMAIN d.nodes
<1> DEFINE M == Cardinality(D)
<1> DEFINE N == [x \in D |-> Kids(d, x)]
<1> DEFINE rhs(f) == [k \in 0..M |-> IF k = 0 THEN {id}
      ELSE f[k - 1] \cup UNION {ToSet(d.nodes[x].children) : x \in f[k - 1] \cap DOMAIN d.nodes}]
<1>0. M \in Nat BY FS_CardinalityType
<1>1. PICK h : SolvesReach(h, D, N, id, M)
  <2> HIDE DEF D, M, N
  <2> QED BY <1>0, ReachExists
<1>2. \A s : UNION {ToSet(d.nodes[x].children) : x \in s \cap D} = UNION {N[x] : x \in s \cap D}
  BY DEF Kids
<1>3. h = rhs(h)
  <2> HIDE DEF N, M
  <2>1. ASSUME NEW k \in 0..M
        PROVE  UNION {ToSet(d.nodes[x].children) : x \in h[k - 1] \cap D}
                 = UNION {N[x] : x \in h[k - 1] \cap D}
    <3>1. PICK s : s = h[k - 1] OBVIOUS
    <3> QED BY <1>2, <3>1
  <2> HIDE DEF D
  <2> QED BY <1>1, <2>1, Zenon DEF D, SolvesReach
<1>4. PICK r : r = CHOOSE f : f = rhs(f) OBVIOUS
<1>5. r = rhs(r)
  <2> HIDE DEF rhs
  <2> QED BY <1>3, <1>4
<1>6. Subtree(d, id) = r[M] BY <1>4 DEF Subtree
<1>7. Reaches(r, D, N, id)
  <2>1. r[0] = {id} BY <1>0, <1>5
  <2>2. \A k \in 1..M : r[k] = r[k - 1] \cup UNION {N[x] : x \in r[k - 1] \cap D}
    <3> TAKE k \in 1..M
    <3>1. r[k] = r[k - 1] \cup UNION {ToSet(d.nodes[x].children) : x \in r[k - 1] \cap D}
      <4>1. k \in 0..M /\ k # 0 BY <1>0
      <4> QED BY <1>5, <4>1
    <3> QED BY <1>2, <3>1
  <2> QED BY <2>1, <2>2 DEF Reaches
<1>8. PICK S : S = r[M] OBVIOUS
<1>9. /\ id \in S
      /\ \A x \in S \cap D : N[x] \cap D \subseteq S
      /\ \A C : id \in C /\ (\A x \in C \cap D : N[x] \subseteq C) => S \subseteq C
  <2> HIDE DEF N
  <2> QED BY <1>7, <1>8, Closure
<1>10. \A x \in D : N[x] = Kids(d, x) /\ N[x] \subseteq D OBVIOUS
<1>11. S \subseteq D /\ ClosedUnder(S, d)
  <2> HIDE DEF N
  <2>1. S \subseteq D BY <1>9, <1>10
  <2> QED BY <1>9, <1>10, <2>1 DEF ClosedUnder
<1>12. \A C : id \in C /\ ClosedUnder(C, d) => S \subseteq C
  <2> HIDE DEF N
  <2> QED BY <1>9, <1>10 DEF ClosedUnder
<1> QED BY <1>6, <1>8, <1>9, <1>11, <1>12

\* The lineage of a node is the least set with it that is closed under parents.
LEMMA LineageFacts ==
  ASSUME NEW d, IsFiniteSet(DOMAIN d.nodes), NEW id \in DOMAIN d.nodes
  PROVE  LET L == Lineage(d, id)
             D == DOMAIN d.nodes
             Up(C) == \A x \in C \cap D : d.nodes[x].parent \in D => d.nodes[x].parent \in C
         IN /\ id \in L /\ L \subseteq D /\ Up(L)
            /\ \A C : id \in C /\ Up(C) => L \subseteq C
<1> DEFINE D == DOMAIN d.nodes
<1> DEFINE M == Cardinality(D)
<1> DEFINE N == [x \in D |-> {d.nodes[x].parent}]
<1> DEFINE rhs(f) == [k \in 0..M |-> IF k = 0 THEN {id}
      ELSE f[k - 1] \cup {d.nodes[x].parent : x \in f[k - 1] \cap DOMAIN d.nodes}]
<1>0. M \in Nat BY FS_CardinalityType
<1>1. PICK h : SolvesReach(h, D, N, id, M)
  <2> HIDE DEF D, M, N
  <2> QED BY <1>0, ReachExists
<1>2. \A s : {d.nodes[x].parent : x \in s \cap D} = UNION {N[x] : x \in s \cap D}
  OBVIOUS
<1>3. h = rhs(h)
  <2> HIDE DEF N, M
  <2>1. ASSUME NEW k \in 0..M
        PROVE  {d.nodes[x].parent : x \in h[k - 1] \cap D}
                 = UNION {N[x] : x \in h[k - 1] \cap D}
    <3>1. PICK s : s = h[k - 1] OBVIOUS
    <3> QED BY <1>2, <3>1
  <2> HIDE DEF D
  <2> QED BY <1>1, <2>1, Zenon DEF D, SolvesReach
<1>4. PICK r : r = CHOOSE f : f = rhs(f) OBVIOUS
<1>5. r = rhs(r)
  <2> HIDE DEF rhs
  <2> QED BY <1>3, <1>4
<1>6. Lineage(d, id) = r[M] \cap D BY <1>4 DEF Lineage
<1>7. Reaches(r, D, N, id)
  <2>1. r[0] = {id} BY <1>0, <1>5
  <2>2. \A k \in 1..M : r[k] = r[k - 1] \cup UNION {N[x] : x \in r[k - 1] \cap D}
    <3> TAKE k \in 1..M
    <3>1. r[k] = r[k - 1] \cup {d.nodes[x].parent : x \in r[k - 1] \cap D}
      <4>1. k \in 0..M /\ k # 0 BY <1>0
      <4> QED BY <1>5, <4>1
    <3> QED BY <1>2, <3>1
  <2> QED BY <2>1, <2>2 DEF Reaches
<1>8. PICK S : S = r[M] OBVIOUS
<1>9. /\ id \in S
      /\ \A x \in S \cap D : N[x] \cap D \subseteq S
      /\ \A C : id \in C /\ (\A x \in C \cap D : N[x] \cap D \subseteq C) => S \cap D \subseteq C
  <2> HIDE DEF N
  <2> QED BY <1>7, <1>8, Closure
<1>10. \A x \in D : N[x] = {d.nodes[x].parent} OBVIOUS
<1> HIDE DEF N
<1>11. \A x \in S \cap D : d.nodes[x].parent \in D => d.nodes[x].parent \in S
  BY <1>9, <1>10
<1>12. \A C : id \in C /\ (\A x \in C \cap D : d.nodes[x].parent \in D => d.nodes[x].parent \in C)
         => S \cap D \subseteq C
  BY <1>9, <1>10
<1> QED BY <1>6, <1>8, <1>9, <1>11, <1>12

------------------------------------------------------------------------------
(* The text of a set of nodes                                                *)

TextOf(nodes, S) == MapThenSumSet(LAMBDA id : nodes[id].text, S)

TextsOK(nodes, S) == IsFiniteSet(S) /\ \A x \in S : nodes[x].text \in Nat

\* I gives every part of S its text, in whichever order it is added up.
Sums(I, nodes, S) ==
  /\ I \in [SUBSET S -> Nat]
  /\ I[{}] = 0
  /\ \A s \in SUBSET S : \A x \in s : I[s] = nodes[x].text + I[s \ {x}]

SolvesSum(g, nodes, S) ==
  g = [s \in SUBSET S |-> IF s = {} THEN 0
         ELSE nodes[CHOOSE x \in s : TRUE].text + g[s \ {CHOOSE x \in s : TRUE}]]

\* Induction over the parts of a finite set, by their size.
LEMMA PartsInduction ==
  ASSUME NEW S, IsFiniteSet(S), NEW P, {} \in P,
         \A s \in SUBSET S : s # {} /\ (\A x \in s : s \ {x} \in P) => s \in P
  PROVE  \A s \in SUBSET S : s \in P
<1> DEFINE M == Cardinality(S)
<1> DEFINE T == {k \in Nat : \A s \in SUBSET S : Cardinality(s) = k => s \in P}
<1>0. M \in Nat BY FS_CardinalityType
<1>1. 0 \in T
  <2>1. \A s \in SUBSET S : IsFiniteSet(s) BY FS_Subset
  <2>2. \A s \in SUBSET S : Cardinality(s) = 0 => s = {} BY <2>1, FS_EmptySet
  <2> QED BY <2>2
<1>2. ASSUME NEW k \in 0..(M - 1), k \in T PROVE k + 1 \in T
  <2> SUFFICES ASSUME NEW s \in SUBSET S, Cardinality(s) = k + 1 PROVE s \in P
    OBVIOUS
  <2>1. IsFiniteSet(s) BY FS_Subset
  <2>2. s # {} BY <2>1, FS_EmptySet
  <2>3. ASSUME NEW x \in s PROVE s \ {x} \in P
    <3>1. Cardinality(s \ {x}) = (k + 1) - 1 BY <2>1, FS_RemoveElement
    <3>2. s \ {x} \in SUBSET S /\ (k + 1) - 1 = k OBVIOUS
    <3> QED BY <1>2, <3>1, <3>2
  <2> QED BY <2>2, <2>3
<1>3. \A k \in 0..M : k \in T
  <2> HIDE DEF T, M
  <2> QED BY <1>0, <1>1, <1>2, InductionUpTo
<1>4. ASSUME NEW s \in SUBSET S PROVE s \in P
  <2>1. IsFiniteSet(s) /\ Cardinality(s) <= M BY FS_Subset
  <2>2. Cardinality(s) \in Nat BY <2>1, FS_CardinalityType
  <2>3. Cardinality(s) \in 0..M BY <1>0, <2>1, <2>2
  <2>4. Cardinality(s) \in T
    <3> HIDE DEF T, M
    <3> QED BY <1>3, <2>3
  <2> QED BY <2>4
<1> QED BY <1>4

\* The recursive sum of texts has a solution.
LEMMA SumExists ==
  ASSUME NEW nodes, NEW S, TextsOK(nodes, S)
  PROVE  \E g : SolvesSum(g, nodes, S)
<1> DEFINE X == [SUBSET S -> Nat]
<1> DEFINE ch(s) == CHOOSE x \in s : TRUE
<1> DEFINE G == [p \in Nat \X X |-> [s \in SUBSET S |-> IF s = {} THEN 0
                                       ELSE nodes[ch(s)].text + p[2][s \ {ch(s)}]]]
<1> DEFINE M == Cardinality(S)
<1> DEFINE base == [s \in SUBSET S |-> 0]
<1>0. M \in Nat /\ base \in X BY FS_CardinalityType DEF TextsOK
<1>1. \A s \in SUBSET S : s # {} => ch(s) \in s OBVIOUS
<1> HIDE DEF ch
<1>2. ASSUME NEW f \in X
      PROVE  [s \in SUBSET S |-> IF s = {} THEN 0
                ELSE nodes[ch(s)].text + f[s \ {ch(s)}]] \in X
  <2>1. ASSUME NEW s \in SUBSET S, s # {} PROVE nodes[ch(s)].text + f[s \ {ch(s)}] \in Nat
    <3>1. ch(s) \in S BY <1>1, <2>1
    <3>2. nodes[ch(s)].text \in Nat BY <3>1 DEF TextsOK
    <3>3. f[s \ {ch(s)}] \in Nat
      <4>1. s \ {ch(s)} \in SUBSET S OBVIOUS
      <4> QED BY <4>1
    <3> QED BY <3>2, <3>3
  <2> QED BY <2>1
<1>3. G \in [Nat \X X -> X]
  <2>1. ASSUME NEW p \in Nat \X X
        PROVE  [s \in SUBSET S |-> IF s = {} THEN 0
                  ELSE nodes[ch(s)].text + p[2][s \ {ch(s)}]] \in X
    <3>1. PICK f \in X : f = p[2] OBVIOUS
    <3> HIDE DEF X
    <3> QED BY <1>2, <3>1
  <2> HIDE DEF X
  <2> QED BY <2>1
<1>4. PICK f : Recurses(f, X, base, G, M)
  <2> HIDE DEF G, X, M, base
  <2> QED BY <1>0, <1>3, Recursion
<1>5. PICK g : g = [s \in SUBSET S |-> f[Cardinality(s)][s]] OBVIOUS
<1>6. ASSUME NEW s \in SUBSET S, s # {}
      PROVE  g[s] = nodes[ch(s)].text + g[s \ {ch(s)}]
  <2>1. PICK k : k = Cardinality(s) OBVIOUS
  <2>2. IsFiniteSet(s) /\ k <= M BY <2>1, FS_Subset DEF TextsOK
  <2>3. k \in 1..M /\ k - 1 \in 0..M
    <3>1. k \in Nat BY <2>1, <2>2, FS_CardinalityType
    <3>2. k # 0 BY <1>6, <2>1, <2>2, FS_EmptySet
    <3> QED BY <1>0, <2>2, <3>1, <3>2
  <2>4. PICK t : t = s \ {ch(s)} OBVIOUS
  <2>5. t \in SUBSET S /\ Cardinality(t) = k - 1
    BY <1>1, <1>6, <2>1, <2>2, <2>4, FS_RemoveElement
  <2>6. PICK h : h = f[k - 1] OBVIOUS
  <2>7. h \in X /\ f[k] = G[<<k, h>>] BY <1>4, <2>3, <2>6 DEF Recurses
  <2>8. G[<<k, h>>] = [u \in SUBSET S |-> IF u = {} THEN 0
                          ELSE nodes[ch(u)].text + h[u \ {ch(u)}]]
    <3>1. <<k, h>> \in Nat \X X BY <2>3, <2>7
    <3> HIDE DEF X
    <3> QED BY <3>1
  <2>9. f[k][s] = nodes[ch(s)].text + h[t] BY <1>6, <2>4, <2>7, <2>8
  <2>10. g[s] = f[k][s] /\ g[t] = h[t] BY <1>5, <2>1, <2>5, <2>6
  <2> QED BY <2>4, <2>9, <2>10
<1>7. g[{}] = 0
  <2>1. Cardinality({}) = 0 /\ {} \in SUBSET S BY FS_EmptySet
  <2>2. f[0] = base BY <1>4 DEF Recurses
  <2>3. g[{}] = base[{}] BY <1>5, <2>1, <2>2
  <2> QED BY <2>1, <2>3
<1>8. g = [s \in SUBSET S |-> g[s]] BY <1>5
<1>9. \A s \in SUBSET S : g[s] = IF s = {} THEN 0 ELSE nodes[ch(s)].text + g[s \ {ch(s)}]
  BY <1>6, <1>7
<1>10. g = [s \in SUBSET S |-> IF s = {} THEN 0 ELSE nodes[ch(s)].text + g[s \ {ch(s)}]]
  BY <1>8, <1>9, Zenon
<1> QED BY <1>10, Zenon DEF SolvesSum, ch

\* The sum that TextOf computes.
LEMMA SumFacts ==
  ASSUME NEW nodes, NEW S, TextsOK(nodes, S)
  PROVE  \E I : Sums(I, nodes, S) /\ TextOf(nodes, S) = I[S]
<1> DEFINE ch(s) == CHOOSE x \in s : TRUE
<1>0. \A s \in SUBSET S : s # {} => ch(s) \in s OBVIOUS
<1>1. PICK I : I = CHOOSE g : SolvesSum(g, nodes, S) OBVIOUS
<1>2. SolvesSum(I, nodes, S) BY <1>1, SumExists
<1>3. TextOf(nodes, S) = I[S]
  BY <1>1, Zenon DEF TextOf, MapThenSumSet, MapThenFoldSet, SolvesSum
<1>4. I = [s \in SUBSET S |-> IF s = {} THEN 0 ELSE nodes[ch(s)].text + I[s \ {ch(s)}]]
  BY <1>2, Zenon DEF SolvesSum
<1>5. I[{}] = 0 /\ \A s \in SUBSET S : s # {} => I[s] = nodes[ch(s)].text + I[s \ {ch(s)}]
  <2>1. {} \in SUBSET S OBVIOUS
  <2> HIDE DEF ch
  <2> QED BY <1>4, <2>1
<1>6. \A x \in S : nodes[x].text \in Nat BY DEF TextsOK
<1> HIDE DEF ch
<1>7. \A s \in SUBSET S : I[s] \in Nat
  <2> DEFINE P == {s \in SUBSET S : I[s] \in Nat}
  <2>1. {} \in P BY <1>5
  <2>2. ASSUME NEW s \in SUBSET S, s # {}, \A x \in s : s \ {x} \in P PROVE s \in P
    <3>1. ch(s) \in s /\ ch(s) \in S BY <1>0, <2>2
    <3>2. I[s \ {ch(s)}] \in Nat /\ nodes[ch(s)].text \in Nat BY <1>6, <2>2, <3>1
    <3>3. I[s] = nodes[ch(s)].text + I[s \ {ch(s)}] BY <1>5, <2>2
    <3>4. PICK a \in Nat, b \in Nat : a = nodes[ch(s)].text /\ b = I[s \ {ch(s)}] BY <3>2
    <3>5. a + b \in Nat OBVIOUS
    <3>6. I[s] \in Nat BY <3>3, <3>4, <3>5
    <3> QED BY <3>6
  <2>3. \A s \in SUBSET S : s \in P
    <3> HIDE DEF P
    <3> QED BY <2>1, <2>2, PartsInduction DEF TextsOK
  <2> QED BY <2>3
<1>8. \A s \in SUBSET S : \A x \in s : I[s] = nodes[x].text + I[s \ {x}]
  <2> DEFINE P == {s \in SUBSET S : \A x \in s : I[s] = nodes[x].text + I[s \ {x}]}
  <2>1. {} \in P OBVIOUS
  <2>2. ASSUME NEW s \in SUBSET S, s # {}, \A x \in s : s \ {x} \in P PROVE s \in P
    <3>1. PICK y \in s : y = ch(s) BY <1>0, <2>2
    <3>2. I[s] = nodes[y].text + I[s \ {y}] BY <1>5, <2>2, <3>1
    <3>3. ASSUME NEW x \in s PROVE I[s] = nodes[x].text + I[s \ {x}]
      <4>1. CASE x = y BY <3>2, <4>1
      <4>2. CASE x # y
        <5>1. PICK u : u = (s \ {y}) \ {x} OBVIOUS
        <5>2. u = (s \ {x}) \ {y} /\ u \in SUBSET S BY <5>1
        <5>3. I[s \ {y}] = nodes[x].text + I[u]
          <6>1. s \ {y} \in P /\ x \in s \ {y} BY <2>2, <4>2
          <6> QED BY <5>1, <6>1
        <5>4. I[s \ {x}] = nodes[y].text + I[u]
          <6>1. s \ {x} \in P /\ y \in s \ {x} BY <2>2, <4>2
          <6> QED BY <5>2, <6>1
        <5>5. I[u] \in Nat /\ nodes[x].text \in Nat /\ nodes[y].text \in Nat
          BY <1>6, <1>7, <5>2
        <5>6. PICK a, b, c : a = I[u] /\ b = nodes[x].text /\ c = nodes[y].text OBVIOUS
        <5>7. c + (b + a) = b + (c + a) BY <5>5, <5>6
        <5> QED BY <3>2, <5>3, <5>4, <5>6, <5>7
      <4> QED BY <4>1, <4>2
    <3> QED BY <3>3
  <2>3. \A s \in SUBSET S : s \in P
    <3> HIDE DEF P
    <3> QED BY <2>1, <2>2, PartsInduction DEF TextsOK
  <2> QED BY <2>3
<1>9. I \in [SUBSET S -> Nat]
  <2>1. I = [s \in SUBSET S |-> I[s]]
    <3>1. PICK E : E = [s \in SUBSET S |-> IF s = {} THEN 0
                          ELSE nodes[ch(s)].text + I[s \ {ch(s)}]]
      OBVIOUS
    <3>2. E = [s \in SUBSET S |-> E[s]] BY <3>1
    <3> QED BY <1>4, <3>1, <3>2
  <2> QED BY <1>7, <2>1
<1> QED BY <1>3, <1>5, <1>8, <1>9 DEF Sums

\* Two sums agree on nodes with the same texts.
LEMMA SumsAgree ==
  ASSUME NEW m, NEW n, NEW A, NEW B, NEW I, NEW J, Sums(I, m, A), Sums(J, n, B),
         NEW S \in SUBSET (A \cap B), IsFiniteSet(S), \A x \in S : m[x].text = n[x].text
  PROVE  I[S] = J[S]
<1> DEFINE P == {s \in SUBSET S : I[s] = J[s]}
<1>1. {} \in P BY DEF Sums
<1>2. ASSUME NEW s \in SUBSET S, s # {}, \A x \in s : s \ {x} \in P PROVE s \in P
  <2>1. PICK x \in s : TRUE BY <1>2
  <2>2. I[s] = m[x].text + I[s \ {x}] /\ J[s] = n[x].text + J[s \ {x}] BY DEF Sums
  <2>3. I[s \ {x}] = J[s \ {x}] BY <1>2
  <2> QED BY <2>2, <2>3
<1>3. \A s \in SUBSET S : s \in P
  <2> HIDE DEF P
  <2> QED BY <1>1, <1>2, PartsInduction
<1> QED BY <1>3

\* One node more, other nodes with the same texts, and a set in two parts.
LEMMA TextFacts ==
  ASSUME NEW m, NEW S, TextsOK(m, S)
  PROVE  /\ TextOf(m, S) \in Nat
         /\ \A n : (\A x \in S : n[x].text = m[x].text) => TextOf(n, S) = TextOf(m, S)
         /\ \A x \in S : TextOf(m, S) = m[x].text + TextOf(m, S \ {x})
         /\ \A A \in SUBSET S : TextOf(m, S) = TextOf(m, A) + TextOf(m, S \ A)
<1>0. IsFiniteSet(S) /\ \A A \in SUBSET S : IsFiniteSet(A) BY FS_Subset DEF TextsOK
<1>1. PICK I : Sums(I, m, S) /\ TextOf(m, S) = I[S] BY SumFacts
<1>2. ASSUME NEW A \in SUBSET S PROVE TextOf(m, A) = I[A] /\ I[A] \in Nat
  <2>1. TextsOK(m, A) BY <1>0 DEF TextsOK
  <2>2. PICK J : Sums(J, m, A) /\ TextOf(m, A) = J[A] BY <2>1, SumFacts
  <2>3. J[A] = I[A]
    <3>1. A \in SUBSET (A \cap S) OBVIOUS
    <3> QED BY <1>0, <1>1, <2>2, <3>1, SumsAgree
  <2> QED BY <1>1, <2>2, <2>3 DEF Sums
<1>3. TextOf(m, S) \in Nat BY <1>1 DEF Sums
<1>4. ASSUME NEW n, \A x \in S : n[x].text = m[x].text PROVE TextOf(n, S) = TextOf(m, S)
  <2>1. TextsOK(n, S) BY <1>4 DEF TextsOK
  <2>2. PICK J : Sums(J, n, S) /\ TextOf(n, S) = J[S] BY <2>1, SumFacts
  <2>3. S \in SUBSET (S \cap S) OBVIOUS
  <2>4. J[S] = I[S] BY <1>0, <1>1, <1>4, <2>2, <2>3, SumsAgree
  <2> QED BY <1>1, <2>2, <2>4
<1>5. ASSUME NEW x \in S PROVE TextOf(m, S) = m[x].text + TextOf(m, S \ {x})
  <2>1. I[S] = m[x].text + I[S \ {x}] BY <1>1 DEF Sums
  <2>2. TextOf(m, S \ {x}) = I[S \ {x}] BY <1>2
  <2> QED BY <1>1, <2>1, <2>2
<1>6. ASSUME NEW A \in SUBSET S PROVE TextOf(m, S) = TextOf(m, A) + TextOf(m, S \ A)
  <2> DEFINE B == S \ A
  <2> DEFINE P == {s \in SUBSET A : I[B \cup s] = I[s] + I[B]}
  <2>1. {} \in P
    <3>1. B \cup {} = B /\ I[{}] = 0 /\ I[B] \in Nat BY <1>1, <1>2 DEF Sums
    <3>2. I[B \cup {}] = I[{}] + I[B] BY <3>1
    <3> QED BY <3>2
  <2>2. ASSUME NEW s \in SUBSET A, s # {}, \A x \in s : s \ {x} \in P PROVE s \in P
    <3>1. PICK x \in s : TRUE BY <2>2
    <3>2. PICK t, u : t = s \ {x} /\ u = B \cup t OBVIOUS
    <3>3. (B \cup s) \ {x} = u /\ B \cup s \in SUBSET S /\ x \in B \cup s BY <3>1, <3>2
    <3>4. I[B \cup s] = m[x].text + I[u] BY <1>1, <3>3 DEF Sums
    <3>5. I[s] = m[x].text + I[t]
      <4>1. s \in SUBSET S OBVIOUS
      <4> QED BY <1>1, <3>1, <3>2, <4>1 DEF Sums
    <3>6. I[u] = I[t] + I[B] BY <2>2, <3>1, <3>2
    <3>7. m[x].text \in Nat /\ I[t] \in Nat /\ I[B] \in Nat
      <4>1. t \in SUBSET S /\ B \in SUBSET S /\ x \in S BY <3>1, <3>2
      <4>2. I[t] \in Nat /\ I[B] \in Nat BY <1>2, <4>1
      <4> QED BY <4>1, <4>2 DEF TextsOK
    <3>8. PICK a, b, c : a = m[x].text /\ b = I[t] /\ c = I[B] OBVIOUS
    <3>9. a + (b + c) = (a + b) + c BY <3>7, <3>8
    <3>10. I[B \cup s] = I[s] + I[B] BY <3>4, <3>5, <3>6, <3>8, <3>9
    <3> QED BY <3>10
  <2>3. \A s \in SUBSET A : s \in P
    <3> HIDE DEF P
    <3> QED BY <1>0, <2>1, <2>2, PartsInduction
  <2>4. I[B \cup A] = I[A] + I[B] BY <2>3
  <2>5. B \cup A = S OBVIOUS
  <2>6. TextOf(m, A) = I[A] /\ TextOf(m, B) = I[B] BY <1>2
  <2> QED BY <1>1, <2>4, <2>5, <2>6
<1> QED BY <1>3, <1>4, <1>5, <1>6

------------------------------------------------------------------------------
(* Trees                                                                     *)

\* Structural, with the tree's shape in terms of parents and sets of children,
\* and its connectedness as: no smaller closed set has the root.
LocalTree(d) ==
  /\ "root" \in DOMAIN d.nodes
  /\ d.nodes["root"].type = "box" /\ d.nodes["root"].parent = ""
  /\ \A x \in DOMAIN d.nodes :
       /\ Kids(d, x) # {} => Container(d.nodes[x].type)
       /\ IsInjective(d.nodes[x].children)
       /\ \A c \in Kids(d, x) : c \in DOMAIN d.nodes /\ d.nodes[c].parent = x

Rooted(d) == \A C : "root" \in C /\ ClosedUnder(C, d) => DOMAIN d.nodes \subseteq C

\* validateInvariants in terms of the local conditions, the lineages and the sum.
LEMMA StructuralMeans ==
  ASSUME NEW d, DocOK(d)
  PROVE  Structural(d) <=> /\ LocalTree(d) /\ Rooted(d)
                           /\ d.totalText = TextOf(d.nodes, DOMAIN d.nodes)
<1> DEFINE D == DOMAIN d.nodes
<1>1. \A x \in D : d.nodes[x].children = <<>> <=> Kids(d, x) = {}
  <2> TAKE x \in D
  <2>1. PICK s \in Seq(AllIds) : s = d.nodes[x].children BY DEF DocOK, NodesOK, NodeOK
  <2>2. s = <<>> <=> ToSet(s) = {}
    <3>1. DOMAIN s = 1..Len(s) /\ Len(s) \in Nat BY LenProperties
    <3>2. CASE s = <<>>
      <4>1. DOMAIN <<>> = {} OBVIOUS
      <4> QED BY <3>2, <4>1 DEF ToSet
    <3>3. CASE s # <<>>
      <4>1. Len(s) # 0 BY <3>3, EmptySeq
      <4>2. 1 \in DOMAIN s BY <3>1, <4>1
      <4> QED BY <3>3, <4>2 DEF ToSet
    <3> QED BY <3>2, <3>3
  <2> QED BY <2>1, <2>2 DEF Kids
<1>2. RetainedText(d) = TextOf(d.nodes, D) BY Zenon DEF RetainedText, TextOf
<1>3. ASSUME LocalTree(d) PROVE Subtree(d, "root") = D <=> Rooted(d)
  <2>1. PICK S : S = Subtree(d, "root") OBVIOUS
  <2>2. /\ "root" \in S /\ S \subseteq D /\ ClosedUnder(S, d)
        /\ \A C : "root" \in C /\ ClosedUnder(C, d) => S \subseteq C
    <3>1. IsFiniteSet(D) /\ "root" \in D /\ \A x \in D : Kids(d, x) \subseteq D
      BY <1>3 DEF LocalTree, DocOK
    <3> QED BY <2>1, <3>1, SubtreeFacts
  <2> QED BY <2>1, <2>2 DEF Rooted
<1>4. (/\ "root" \in DOMAIN d.nodes
       /\ d.nodes["root"].type = "box" /\ d.nodes["root"].parent = ""
       /\ \A id \in DOMAIN d.nodes :
            LET n == d.nodes[id] IN
            /\ n.children # <<>> => Container(n.type)
            /\ IsInjective(n.children)
            /\ \A c \in ToSet(n.children) : c \in DOMAIN d.nodes /\ d.nodes[c].parent = id)
      <=> LocalTree(d)
  BY <1>1 DEF LocalTree, Kids
<1> QED BY <1>2, <1>3, <1>4 DEF Structural

\* Every node but the root is a child of its parent.
LEMMA HasParent ==
  ASSUME NEW d, LocalTree(d), Rooted(d), NEW id \in DOMAIN d.nodes, id # "root"
  PROVE  d.nodes[id].parent \in DOMAIN d.nodes /\ id \in Kids(d, d.nodes[id].parent)
<1> DEFINE D == DOMAIN d.nodes
<1> DEFINE C == {c \in D : c = "root" \/ \E x \in D : c \in Kids(d, x)}
<1>1. "root" \in C /\ ClosedUnder(C, d) BY DEF LocalTree, ClosedUnder
<1>2. id \in C
  <2> HIDE DEF C
  <2> QED BY <1>1 DEF Rooted
<1>3. PICK x \in D : id \in Kids(d, x) BY <1>2
<1> QED BY <1>3 DEF LocalTree

\* A subtree hangs on its root alone, and is told by the lineages.
LEMMA HangsOn ==
  ASSUME NEW d, DocOK(d), LocalTree(d), Rooted(d), NEW id \in DOMAIN d.nodes
  PROVE  LET S == Subtree(d, id) IN
         /\ id \in S /\ S \subseteq DOMAIN d.nodes /\ ClosedUnder(S, d)
         /\ \A c \in S \ {id} : d.nodes[c].parent \in S
         /\ id # "root" => "root" \notin S /\ d.nodes[id].parent \notin S
         /\ \A x \in DOMAIN d.nodes : x \in S <=> id \in Lineage(d, x)
<1> DEFINE D == DOMAIN d.nodes
<1>0. PICK S : S = Subtree(d, id) OBVIOUS
<1>1. /\ id \in S /\ S \subseteq D /\ ClosedUnder(S, d)
      /\ \A C : id \in C /\ ClosedUnder(C, d) => S \subseteq C
  <2>1. IsFiniteSet(D) /\ \A x \in D : Kids(d, x) \subseteq D BY DEF LocalTree, DocOK
  <2> QED BY <1>0, <2>1, SubtreeFacts
<1>2. \A c \in S \ {id} : d.nodes[c].parent \in S
  <2> DEFINE C == {c \in S : c = id \/ d.nodes[c].parent \in S}
  <2>1. id \in C BY <1>1
  <2>2. ClosedUnder(C, d) BY <1>1 DEF ClosedUnder, LocalTree
  <2>3. S \subseteq C
    <3> HIDE DEF C
    <3> QED BY <1>1, <2>1, <2>2
  <2> QED BY <2>3
<1>3. ASSUME id # "root" PROVE "root" \notin S
  <2>1. "" \notin D BY IdsAssumption DEF DocOK, AllIds
  <2> QED BY <1>1, <1>2, <1>3, <2>1 DEF LocalTree
<1>4. ASSUME id # "root", d.nodes[id].parent \in S PROVE FALSE
  <2> DEFINE C == D \ S
  <2>1. "root" \in C BY <1>3, <1>4 DEF LocalTree
  <2>2. ClosedUnder(C, d)
    <3> SUFFICES ASSUME NEW x \in C, NEW c \in Kids(d, x) PROVE c \in C BY DEF ClosedUnder
    <3>1. c \in D /\ d.nodes[c].parent = x /\ x \notin S BY DEF LocalTree
    <3> QED BY <1>2, <1>4, <3>1
  <2>3. D \subseteq C
    <3> HIDE DEF C
    <3> QED BY <2>1, <2>2 DEF Rooted
  <2> QED BY <1>1, <2>3
<1>5. ASSUME NEW x \in D, x \in S PROVE id \in Lineage(d, x)
  <2> DEFINE C == {y \in D : id \in Lineage(d, y)}
  <2>1. \A y \in D : /\ y \in Lineage(d, y) /\ Lineage(d, y) \subseteq D
                     /\ \A z \in Lineage(d, y) :
                          d.nodes[z].parent \in D => d.nodes[z].parent \in Lineage(d, y)
                     /\ \A B : y \in B /\ (\A z \in B \cap D : d.nodes[z].parent \in D
                                               => d.nodes[z].parent \in B)
                          => Lineage(d, y) \subseteq B
    <3> TAKE y \in D
    <3>1. PICK L : L = Lineage(d, y) OBVIOUS
    <3>2. /\ y \in L /\ L \subseteq D
          /\ \A z \in L \cap D : d.nodes[z].parent \in D => d.nodes[z].parent \in L
          /\ \A B : y \in B /\ (\A z \in B \cap D : d.nodes[z].parent \in D
                                  => d.nodes[z].parent \in B) => L \subseteq B
      <4>1. IsFiniteSet(D) BY DEF DocOK
      <4> QED BY <3>1, <4>1, LineageFacts
    <3> QED BY <3>1, <3>2
  <2>2. id \in C BY <2>1
  <2>3. ClosedUnder(C, d)
    <3> SUFFICES ASSUME NEW y \in C, NEW c \in Kids(d, y) PROVE c \in C
      BY DEF ClosedUnder
    <3>1. c \in D /\ d.nodes[c].parent = y /\ y \in D BY DEF LocalTree
    <3>2. PICK L : L = Lineage(d, c) OBVIOUS
    <3>3. c \in L /\ L \subseteq D
          /\ \A z \in L : d.nodes[z].parent \in D => d.nodes[z].parent \in L
      BY <2>1, <3>1, <3>2
    <3>4. y \in L BY <3>1, <3>3
    <3>5. Lineage(d, y) \subseteq L BY <2>1, <3>1, <3>3, <3>4
    <3>6. id \in L BY <3>5
    <3> QED BY <3>1, <3>2, <3>6
  <2>4. S \subseteq C
    <3> HIDE DEF C
    <3> QED BY <1>1, <2>2, <2>3
  <2> QED BY <1>5, <2>4
<1>6. ASSUME NEW x \in D, x \notin S PROVE id \notin Lineage(d, x)
  <2> DEFINE C == D \ S
  <2>1. x \in C BY <1>6
  <2>2. \A z \in C \cap D : d.nodes[z].parent \in D => d.nodes[z].parent \in C
    <3> SUFFICES ASSUME NEW z \in C, d.nodes[z].parent \in S PROVE FALSE OBVIOUS
    <3>1. z # "root"
      <4>1. "" \notin D BY IdsAssumption DEF DocOK, AllIds
      <4> QED BY <1>1, <4>1 DEF LocalTree
    <3>2. z \in Kids(d, d.nodes[z].parent) BY <3>1, HasParent
    <3> QED BY <1>1, <3>2 DEF ClosedUnder
  <2>3. Lineage(d, x) \subseteq C
    <3> HIDE DEF C
    <3>1. IsFiniteSet(D) BY DEF DocOK
    <3> QED BY <2>1, <2>2, <3>1, LineageFacts
  <2> QED BY <1>1, <2>3
<1> QED BY <1>0, <1>1, <1>2, <1>3, <1>4, <1>5, <1>6

\* A node of the same shape everywhere.
LEMMA SameTree ==
  ASSUME NEW d, LocalTree(d), Rooted(d), NEW e, DOMAIN e.nodes = DOMAIN d.nodes,
         \A x \in DOMAIN d.nodes :
           /\ e.nodes[x].type = d.nodes[x].type /\ e.nodes[x].parent = d.nodes[x].parent
           /\ e.nodes[x].children = d.nodes[x].children
  PROVE  LocalTree(e) /\ Rooted(e)
<1>1. \A x \in DOMAIN d.nodes : Kids(e, x) = Kids(d, x) BY DEF Kids
<1>2. \A C : ClosedUnder(C, e) <=> ClosedUnder(C, d) BY <1>1 DEF ClosedUnder
<1>3. Rooted(e) BY <1>2 DEF Rooted
<1> QED BY <1>1, <1>3 DEF LocalTree

\* e has a leaf id below t that d has not.
Grown(e, d, id, t) ==
  /\ DOMAIN e.nodes = DOMAIN d.nodes \cup {id}
  /\ \A x \in DOMAIN d.nodes :
       /\ e.nodes[x].type = d.nodes[x].type /\ e.nodes[x].parent = d.nodes[x].parent
       /\ Kids(e, x) = IF x = t THEN Kids(d, x) \cup {id} ELSE Kids(d, x)
  /\ \A x \in DOMAIN e.nodes : IsInjective(e.nodes[x].children)
  /\ e.nodes[id].parent = t /\ Kids(e, id) = {}

\* A new leaf under a container leaves a tree a tree.
LEMMA GrownTree ==
  ASSUME NEW d, LocalTree(d), Rooted(d), NEW id, id \notin DOMAIN d.nodes,
         NEW target \in DOMAIN d.nodes, Container(d.nodes[target].type),
         NEW e, Grown(e, d, id, target)
  PROVE  LocalTree(e) /\ Rooted(e)
<1> USE DEF Grown
<1> DEFINE D == DOMAIN d.nodes
<1>1. Rooted(e)
  <2> SUFFICES ASSUME NEW C, "root" \in C, ClosedUnder(C, e) PROVE D \cup {id} \subseteq C
    BY DEF Rooted
  <2>1. ClosedUnder(C, d) BY DEF ClosedUnder
  <2>2. D \subseteq C BY <2>1 DEF Rooted
  <2>3. id \in C BY <2>2 DEF ClosedUnder
  <2> QED BY <2>2, <2>3
<1>2. "root" \in DOMAIN e.nodes /\ e.nodes["root"].type = "box" /\ e.nodes["root"].parent = ""
  BY DEF LocalTree
<1>3. ASSUME NEW x \in DOMAIN e.nodes, NEW c \in Kids(e, x)
      PROVE  c \in DOMAIN e.nodes /\ e.nodes[c].parent = x /\ Container(e.nodes[x].type)
  <2>1. x \in D OBVIOUS
  <2>2. CASE c = id
    <3>1. x = target BY <2>1, <2>2 DEF LocalTree
    <3> QED BY <2>2, <3>1
  <2>3. CASE c # id
    <3>1. c \in Kids(d, x) BY <2>1, <2>3
    <3>2. c \in D /\ d.nodes[c].parent = x /\ Container(d.nodes[x].type)
      BY <2>1, <3>1 DEF LocalTree
    <3> QED BY <2>1, <3>2
  <2> QED BY <2>2, <2>3
<1> QED BY <1>1, <1>2, <1>3 DEF LocalTree

\* A subtree under a new parent outside it.
LEMMA MovedTree ==
  ASSUME NEW d, DocOK(d), LocalTree(d), Rooted(d), NEW id \in DOMAIN d.nodes, id # "root",
         NEW target \in DOMAIN d.nodes, Container(d.nodes[target].type),
         target \notin Subtree(d, id),
         NEW e, DOMAIN e.nodes = DOMAIN d.nodes,
         \A x \in DOMAIN d.nodes :
           /\ x # id => e.nodes[x].type = d.nodes[x].type
           /\ e.nodes[x].parent = IF x = id THEN target ELSE d.nodes[x].parent
           /\ IsInjective(e.nodes[x].children)
           /\ Kids(e, x) = IF x = target THEN Kids(d, x) \cup {id} ELSE Kids(d, x) \ {id},
         Kids(d, id) # {} => Container(e.nodes[id].type)
  PROVE  LocalTree(e) /\ Rooted(e)
<1> DEFINE D == DOMAIN d.nodes
<1>0. PICK S : S = Subtree(d, id) OBVIOUS
<1>1. id \in S /\ S \subseteq D /\ ClosedUnder(S, d) /\ target \notin S
  BY <1>0, HangsOn
<1>2. Rooted(e)
  <2> SUFFICES ASSUME NEW C, "root" \in C, ClosedUnder(C, e) PROVE D \subseteq C
    BY DEF Rooted
  <2>1. ClosedUnder(C \cup S, d) BY <1>1 DEF ClosedUnder
  <2>2. D \subseteq C \cup S BY <2>1 DEF Rooted
  <2>3. target \in C BY <1>1, <2>2
  <2>4. id \in C BY <2>3 DEF ClosedUnder
  <2>5. ClosedUnder(C, d) BY <2>4 DEF ClosedUnder
  <2> QED BY <2>5 DEF Rooted
<1>3. "root" \in DOMAIN e.nodes /\ e.nodes["root"].type = "box" /\ e.nodes["root"].parent = ""
  BY DEF LocalTree
<1>4. target # id BY <1>1
<1>5. ASSUME NEW x \in D, NEW c \in Kids(e, x)
      PROVE  c \in D /\ e.nodes[c].parent = x /\ Container(e.nodes[x].type)
  <2>1. CASE c = id
    <3>1. x = target BY <2>1
    <3> QED BY <1>4, <2>1, <3>1
  <2>2. CASE c # id
    <3>1. c \in Kids(d, x) BY <2>2
    <3>2. c \in D /\ d.nodes[c].parent = x /\ Container(d.nodes[x].type) BY <3>1 DEF LocalTree
    <3> QED BY <2>2, <3>1, <3>2
  <2> QED BY <2>1, <2>2
<1> QED BY <1>2, <1>3, <1>5 DEF LocalTree

\* The tree without a subtree.
LEMMA PrunedTree ==
  ASSUME NEW d, DocOK(d), LocalTree(d), Rooted(d), NEW id \in DOMAIN d.nodes, id # "root",
         NEW e, DOMAIN e.nodes = DOMAIN d.nodes \ Subtree(d, id),
         \A x \in DOMAIN e.nodes :
           /\ e.nodes[x].type = d.nodes[x].type /\ e.nodes[x].parent = d.nodes[x].parent
           /\ IsInjective(e.nodes[x].children)
           /\ Kids(e, x) = Kids(d, x) \ {id}
  PROVE  LocalTree(e) /\ Rooted(e)
<1> DEFINE D == DOMAIN d.nodes
<1>0. PICK S : S = Subtree(d, id) OBVIOUS
<1>1. /\ id \in S /\ S \subseteq D /\ ClosedUnder(S, d)
      /\ \A c \in S \ {id} : d.nodes[c].parent \in S
      /\ "root" \notin S
  BY <1>0, HangsOn
<1>2. DOMAIN e.nodes = D \ S BY <1>0
<1>3. Rooted(e)
  <2> SUFFICES ASSUME NEW C, "root" \in C, ClosedUnder(C, e) PROVE D \ S \subseteq C
    BY <1>2 DEF Rooted
  <2>1. ClosedUnder(C \cup S, d) BY <1>1, <1>2 DEF ClosedUnder
  <2>2. D \subseteq C \cup S BY <2>1 DEF Rooted
  <2> QED BY <2>2
<1>4. "root" \in DOMAIN e.nodes /\ e.nodes["root"].type = "box" /\ e.nodes["root"].parent = ""
  BY <1>1, <1>2 DEF LocalTree
<1>5. ASSUME NEW x \in D \ S, NEW c \in Kids(e, x)
      PROVE  c \in D \ S /\ e.nodes[c].parent = x /\ Container(e.nodes[x].type)
  <2>1. c \in Kids(d, x) /\ c # id BY <1>2
  <2>2. c \in D /\ d.nodes[c].parent = x /\ Container(d.nodes[x].type) BY <2>1 DEF LocalTree
  <2>3. c \notin S BY <1>1, <2>1, <2>2
  <2> QED BY <1>2, <2>2, <2>3
<1> QED BY <1>2, <1>3, <1>4, <1>5 DEF LocalTree

------------------------------------------------------------------------------
(* The reducer keeps the tree                                                *)

\* What setting one list of children or one parent leaves alone.
LEMMA PlacedFields ==
  ASSUME NEW nodes, NodesOK(nodes), NEW x, NEW c
  PROVE  /\ LET k == [nodes EXCEPT ![x].children = c]
            IN /\ DOMAIN k = DOMAIN nodes
               /\ \A y \in DOMAIN nodes :
                    /\ k[y].children = IF y = x THEN c ELSE nodes[y].children
                    /\ k[y].parent = nodes[y].parent
         /\ LET k == [nodes EXCEPT ![x].parent = c]
            IN /\ DOMAIN k = DOMAIN nodes
               /\ \A y \in DOMAIN nodes :
                    /\ k[y].children = nodes[y].children
                    /\ k[y].parent = IF y = x THEN c ELSE nodes[y].parent
<1>1. ASSUME NEW n, NodeOK(n)
      PROVE  /\ [n EXCEPT !.children = c].children = c
             /\ [n EXCEPT !.children = c].parent = n.parent
             /\ [n EXCEPT !.parent = c].children = n.children
             /\ [n EXCEPT !.parent = c].parent = c
  BY <1>1 DEF NodeOK
<1>2. PICK n : n = nodes[x] OBVIOUS
<1>3. x \in DOMAIN nodes => NodeOK(n) BY <1>2 DEF NodesOK
<1>4. PICK k : k = [nodes EXCEPT ![x].children = c] OBVIOUS
<1>5. k = [nodes EXCEPT ![x] = [n EXCEPT !.children = c]] BY <1>2, <1>4
<1>6. /\ DOMAIN k = DOMAIN nodes
      /\ \A y \in DOMAIN nodes : k[y] = IF y = x THEN [n EXCEPT !.children = c] ELSE nodes[y]
  BY <1>5
<1>7. PICK l : l = [nodes EXCEPT ![x].parent = c] OBVIOUS
<1>8. l = [nodes EXCEPT ![x] = [n EXCEPT !.parent = c]] BY <1>2, <1>7
<1>9. /\ DOMAIN l = DOMAIN nodes
      /\ \A y \in DOMAIN nodes : l[y] = IF y = x THEN [n EXCEPT !.parent = c] ELSE nodes[y]
  BY <1>8
<1>10. \A y \in DOMAIN nodes :
         /\ k[y].children = IF y = x THEN c ELSE nodes[y].children
         /\ k[y].parent = nodes[y].parent
  <2> TAKE y \in DOMAIN nodes
  <2>1. CASE y = x
    <3>1. NodeOK(n) /\ k[y] = [n EXCEPT !.children = c] BY <1>3, <1>6, <2>1
    <3>2. k[y].children = c /\ k[y].parent = n.parent BY <1>1, <3>1
    <3> QED BY <1>2, <2>1, <3>2
  <2>2. CASE y # x BY <1>6, <2>2
  <2> QED BY <2>1, <2>2
<1>11. \A y \in DOMAIN nodes :
         /\ l[y].children = nodes[y].children
         /\ l[y].parent = IF y = x THEN c ELSE nodes[y].parent
  <2> TAKE y \in DOMAIN nodes
  <2>1. CASE y = x
    <3>1. NodeOK(n) /\ l[y] = [n EXCEPT !.parent = c] BY <1>3, <1>9, <2>1
    <3>2. l[y].children = n.children /\ l[y].parent = c BY <1>1, <3>1
    <3> QED BY <1>2, <2>1, <3>2
  <2>2. CASE y # x BY <1>9, <2>2
  <2> QED BY <2>1, <2>2
<1> QED BY <1>4, <1>6, <1>7, <1>9, <1>10, <1>11

\* A node's list of children.
LEMMA ChildList ==
  ASSUME NEW d, DocOK(d), LocalTree(d), NEW x \in DOMAIN d.nodes
  PROVE  d.nodes[x].children \in Seq(AllIds) /\ IsInjective(d.nodes[x].children)
<1>1. d.nodes[x].children \in Seq(AllIds) BY DEF DocOK, NodesOK, NodeOK
<1>2. IsInjective(d.nodes[x].children) BY DEF LocalTree
<1> QED BY <1>1, <1>2

\* Where an upsert may put an existing node: below a container outside its
\* own subtree, or where it is.
LEMMA TargetFacts ==
  ASSUME NEW d, DocOK(d), LocalTree(d), Rooted(d), NEW op,
         op.id \in DOMAIN d.nodes, UpsertOk(d, op)
  PROVE  LET t == TargetParent(d, op) IN
         /\ op.id # "root" /\ t \in DOMAIN d.nodes /\ Container(d.nodes[t].type)
         /\ t \notin Subtree(d, op.id)
<1> DEFINE old == d.nodes[op.id].parent
<1>1. PICK t : t = TargetParent(d, op) OBVIOUS
<1>2. op.id # "root" BY DEF UpsertOk
<1>3. old \in DOMAIN d.nodes /\ op.id \in Kids(d, old) BY <1>2, HasParent
<1>4. CASE t = old
  <2>1. Container(d.nodes[old].type) BY <1>3 DEF LocalTree
  <2>2. old \notin Subtree(d, op.id) BY <1>2, HangsOn
  <2> QED BY <1>1, <1>2, <1>3, <1>4, <2>1, <2>2
<1>5. CASE t # old
  <2>1. t \in DOMAIN d.nodes /\ ~wouldCreateCycle(d, op.id, t) /\ Container(d.nodes[t].type)
    BY <1>1, <1>5 DEF UpsertOk
  <2>2. op.id \notin Lineage(d, t) BY <2>1 DEF wouldCreateCycle
  <2>3. t \notin Subtree(d, op.id) BY <2>1, <2>2, HangsOn
  <2> QED BY <1>1, <1>2, <2>1, <2>3
<1> QED BY <1>4, <1>5

\* The topology of d with id below t.
Placed(m, d, id, t) ==
  /\ DOMAIN m = DOMAIN d.nodes
  /\ \A x \in DOMAIN d.nodes :
       /\ m[x].parent = IF x = id THEN t ELSE d.nodes[x].parent
       /\ IsInjective(m[x].children)
       /\ ToSet(m[x].children) = IF x = t THEN Kids(d, x) \cup {id} ELSE Kids(d, x) \ {id}

\* A list of children in which index placed id.
ListedAt(children, id, index) ==
  \E b \in Seq(AllIds) : id \notin ToSet(b) /\ children = insertChild(b, id, index)

\* The topology after an upsert of an existing node.
LEMMA RelocatedTree ==
  ASSUME NEW d, DocOK(d), LocalTree(d), Rooted(d), NEW op, op.id \in AllIds,
         op.id \in DOMAIN d.nodes, UpsertOk(d, op)
  PROVE  LET t == TargetParent(d, op) IN
         /\ Placed(Relocated(d, op), d, op.id, t)
         /\ op.index # <<>> => ListedAt(Relocated(d, op)[t].children, op.id, op.index)
<1> DEFINE D == DOMAIN d.nodes
<1> DEFINE id == op.id
<1>0. PICK t, m : t = TargetParent(d, op) /\ m = Relocated(d, op) OBVIOUS
<1>1. PICK old : old = d.nodes[id].parent OBVIOUS
<1>2. t \in D /\ t \notin Subtree(d, id) /\ id # "root" BY <1>0, TargetFacts
<1>3. old \in D /\ id \in Kids(d, old) BY <1>1, <1>2, HasParent
<1>4. ASSUME NEW x \in D
      PROVE  /\ d.nodes[x].children \in Seq(AllIds) /\ IsInjective(d.nodes[x].children)
             /\ \A c \in Kids(d, x) : d.nodes[c].parent = x
  BY DEF DocOK, NodesOK, NodeOK, LocalTree
<1>5. NodesOK(d.nodes) BY DEF DocOK
<1>6. PICK b : b = removeChild(d.nodes[old].children, id) OBVIOUS
<1>7. b \in Seq(AllIds) /\ ToSet(b) = Kids(d, old) \ {id} /\ IsInjective(b)
  <2>1. PICK s \in Seq(AllIds) : s = d.nodes[old].children /\ IsInjective(s) BY <1>3, <1>4
  <2> QED BY <1>6, <2>1, RemoveChildFacts DEF Kids
<1>8. CASE t # old
  <2>1. PICK k : k = [d.nodes EXCEPT ![old].children = b] OBVIOUS
  <2>2. /\ DOMAIN k = D
        /\ \A y \in D : /\ k[y].children = IF y = old THEN b ELSE d.nodes[y].children
                        /\ k[y].parent = d.nodes[y].parent
    BY <1>5, <2>1, PlacedFields
  <2>3. NodesOK(k)
    <3>1. Rearranged(k, d.nodes) BY <1>5, <1>7, <2>1, PlaceOne
    <3> QED BY <3>1 DEF Rearranged
  <2>4. PICK c : c = insertChild(k[t].children, id, op.index) OBVIOUS
  <2>5. c \in Seq(AllIds) /\ ToSet(c) = Kids(d, t) \cup {id} /\ IsInjective(c)
    <3>1. k[t].children = d.nodes[t].children BY <1>2, <1>8, <2>2
    <3>2. PICK s \in Seq(AllIds) : s = d.nodes[t].children /\ IsInjective(s) BY <1>2, <1>4
    <3>3. id \notin ToSet(s) BY <1>1, <1>2, <1>4, <1>8, <3>2 DEF Kids
    <3> QED BY <2>4, <3>1, <3>2, <3>3, InsertChildFacts DEF Kids
  <2>6. PICK l : l = [k EXCEPT ![t].children = c] OBVIOUS
  <2>7. /\ DOMAIN l = D
        /\ \A y \in D : /\ l[y].children = IF y = t THEN c ELSE k[y].children
                        /\ l[y].parent = k[y].parent
    BY <2>2, <2>3, <2>6, PlacedFields
  <2>8. NodesOK(l)
    <3>1. Rearranged(l, k) BY <2>3, <2>5, <2>6, PlaceOne
    <3> QED BY <3>1 DEF Rearranged
  <2>9. m = [l EXCEPT ![id].parent = t]
    BY <1>0, <1>1, <1>6, <1>8, <2>1, <2>4, <2>6, Zenon DEF Relocated
  <2>10. /\ DOMAIN m = D
         /\ \A y \in D : /\ m[y].children = l[y].children
                         /\ m[y].parent = IF y = id THEN t ELSE l[y].parent
    BY <2>7, <2>8, <2>9, PlacedFields
  <2>11. ASSUME NEW x \in D
         PROVE  /\ m[x].parent = IF x = id THEN t ELSE d.nodes[x].parent
                /\ IsInjective(m[x].children)
                /\ ToSet(m[x].children) = IF x = t THEN Kids(d, x) \cup {id} ELSE Kids(d, x) \ {id}
    <3>1. m[x].parent = IF x = id THEN t ELSE d.nodes[x].parent BY <2>2, <2>7, <2>10
    <3>2. m[x].children = IF x = t THEN c ELSE IF x = old THEN b ELSE d.nodes[x].children
      BY <2>2, <2>7, <2>10
    <3>3. x # old => id \notin Kids(d, x) BY <1>1, <1>4
    <3>4. CASE x = t BY <2>5, <3>1, <3>2, <3>4
    <3>5. CASE x # t /\ x = old BY <1>7, <3>1, <3>2, <3>5
    <3>6. CASE x # t /\ x # old
      <4>1. ToSet(m[x].children) = Kids(d, x) BY <3>2, <3>6 DEF Kids
      <4> QED BY <1>4, <3>1, <3>2, <3>3, <3>6, <4>1
    <3> QED BY <3>4, <3>5, <3>6
  <2>12. Placed(m, d, id, t) BY <2>10, <2>11 DEF Placed
  <2>13. m[t].children = c BY <1>2, <2>7, <2>10
  <2>14. ListedAt(c, id, op.index)
    <3>1. k[t].children = d.nodes[t].children BY <1>2, <1>8, <2>2
    <3>2. d.nodes[t].children \in Seq(AllIds) BY <1>2, <1>4
    <3>3. id \notin ToSet(d.nodes[t].children) BY <1>1, <1>2, <1>4, <1>8 DEF Kids
    <3> QED BY <2>4, <3>1, <3>2, <3>3 DEF ListedAt
  <2> QED BY <1>0, <2>12, <2>13, <2>14
<1>9. CASE t = old /\ op.index # <<>>
  <2>1. PICK c : c = insertChild(b, id, op.index) OBVIOUS
  <2>2. c \in Seq(AllIds) /\ ToSet(c) = (Kids(d, t) \ {id}) \cup {id} /\ IsInjective(c)
    BY <1>7, <1>9, <2>1, InsertChildFacts
  <2>3. m = [d.nodes EXCEPT ![old].children = c]
    BY <1>0, <1>1, <1>6, <1>9, <2>1 DEF Relocated
  <2>4. /\ DOMAIN m = D
        /\ \A y \in D : /\ m[y].children = IF y = old THEN c ELSE d.nodes[y].children
                        /\ m[y].parent = d.nodes[y].parent
    BY <1>5, <2>3, PlacedFields
  <2>5. ASSUME NEW x \in D
        PROVE  /\ m[x].parent = IF x = id THEN t ELSE d.nodes[x].parent
               /\ IsInjective(m[x].children)
               /\ ToSet(m[x].children) = IF x = t THEN Kids(d, x) \cup {id} ELSE Kids(d, x) \ {id}
    <3>1. m[x].parent = IF x = id THEN t ELSE d.nodes[x].parent BY <1>1, <1>9, <2>4
    <3>2. x # old => id \notin Kids(d, x) BY <1>1, <1>4
    <3>3. CASE x = t BY <1>9, <2>2, <2>4, <3>1, <3>3
    <3>4. CASE x # t
      <4>1. m[x].children = d.nodes[x].children BY <1>9, <2>4, <3>4
      <4>2. ToSet(m[x].children) = Kids(d, x) BY <4>1 DEF Kids
      <4> QED BY <1>4, <1>9, <3>1, <3>2, <3>4, <4>1, <4>2
    <3> QED BY <3>3, <3>4
  <2>6. Placed(m, d, id, t) BY <2>4, <2>5 DEF Placed
  <2>7. ListedAt(m[t].children, id, op.index)
    <3>1. m[t].children = c BY <1>2, <1>9, <2>4
    <3>2. id \notin ToSet(b) BY <1>7
    <3> QED BY <1>7, <2>1, <3>1, <3>2 DEF ListedAt
  <2> QED BY <1>0, <2>6, <2>7
<1>10. CASE t = old /\ op.index = <<>>
  <2>1. m = d.nodes BY <1>0, <1>1, <1>10 DEF Relocated
  <2>2. ASSUME NEW x \in D
        PROVE  /\ m[x].parent = IF x = id THEN t ELSE d.nodes[x].parent
               /\ IsInjective(m[x].children)
               /\ ToSet(m[x].children) = IF x = t THEN Kids(d, x) \cup {id} ELSE Kids(d, x) \ {id}
    <3>1. ToSet(m[x].children) = Kids(d, x) BY <2>1 DEF Kids
    <3>2. x # old => id \notin Kids(d, x) BY <1>1, <1>4
    <3> QED BY <1>1, <1>3, <1>4, <1>10, <2>1, <3>1, <3>2
  <2>3. Placed(m, d, id, t) BY <2>1, <2>2 DEF Placed
  <2> QED BY <1>0, <1>10, <2>3
<1> QED BY <1>8, <1>9, <1>10

Texts(d) == d.totalText = TextOf(d.nodes, DOMAIN d.nodes)

\* The texts of a document can be added up.
LEMMA TextsKnown == ASSUME NEW d, DocOK(d) PROVE TextsOK(d.nodes, DOMAIN d.nodes)
BY DEF DocOK, NodesOK, NodeOK, TextsOK

\* The sum without one node.
LEMMA TextWithout ==
  ASSUME NEW m, NEW S, TextsOK(m, S), NEW x \in S
  PROVE  TextOf(m, S) = m[x].text + TextOf(m, S \ {x})
BY TextFacts

\* One node's text changes, and the total by as much.
LEMMA OneTextChanged ==
  ASSUME NEW d, DocOK(d), Texts(d), NEW id \in DOMAIN d.nodes, NEW e, DocOK(e),
         DOMAIN e.nodes = DOMAIN d.nodes,
         \A x \in DOMAIN d.nodes \ {id} : e.nodes[x].text = d.nodes[x].text,
         e.totalText = d.totalText - (d.nodes[id].text - e.nodes[id].text)
  PROVE  Texts(e)
<1> DEFINE D == DOMAIN d.nodes
<1>1. TextsOK(d.nodes, D) /\ TextsOK(e.nodes, D) BY TextsKnown
<1>2. TextsOK(d.nodes, D \ {id})
  <2>1. IsFiniteSet(D) BY <1>1 DEF TextsOK
  <2>2. IsFiniteSet(D \ {id}) BY <2>1, FS_RemoveElement
  <2> QED BY <1>1, <2>2 DEF TextsOK
<1>3. PICK rest : rest = TextOf(d.nodes, D \ {id}) OBVIOUS
<1>4. rest \in Nat /\ TextOf(e.nodes, D \ {id}) = rest BY <1>2, <1>3, TextFacts
<1>5. TextOf(d.nodes, D) = d.nodes[id].text + rest BY <1>1, <1>3, TextWithout
<1>6. TextOf(e.nodes, D) = e.nodes[id].text + rest BY <1>1, <1>4, TextWithout
<1>7. d.nodes[id].text \in Nat /\ e.nodes[id].text \in Nat BY <1>1 DEF TextsOK
<1>8. d.totalText = d.nodes[id].text + rest BY <1>5 DEF Texts
<1>9. PICK a, b : a = d.nodes[id].text /\ b = e.nodes[id].text OBVIOUS
<1>10. (a + rest) - (a - b) = b + rest BY <1>4, <1>7, <1>9
<1> QED BY <1>6, <1>8, <1>9, <1>10 DEF Texts

\* Upserting a node that exists, possibly elsewhere, keeps the tree.
LEMMA ReplacedTree ==
  ASSUME NEW d, DocOK(d), LocalTree(d), Rooted(d), Texts(d), NEW op \in Operations,
         op.op = "upsert", op.id \in DOMAIN d.nodes, UpsertOk(d, op),
         NEW e, e = Replaced(d, op)
  PROVE  LocalTree(e) /\ Rooted(e) /\ Texts(e)
<1> DEFINE D == DOMAIN d.nodes
<1> DEFINE id == op.id
<1>0. PICK m, t : m = Relocated(d, op) /\ t = TargetParent(d, op) OBVIOUS
<1>1. op.id \in AllIds BY OperationFacts
<1>2. Rearranged(m, d.nodes) BY <1>0, <1>1, RelocatedContent DEF DocOK
<1>3. /\ DOMAIN m = D
      /\ \A x \in D :
           /\ m[x].parent = IF x = id THEN t ELSE d.nodes[x].parent
           /\ IsInjective(m[x].children)
           /\ ToSet(m[x].children) = IF x = t THEN Kids(d, x) \cup {id} ELSE Kids(d, x) \ {id}
  <2>1. Placed(m, d, id, t) BY <1>0, <1>1, RelocatedTree
  <2> QED BY <2>1 DEF Placed
<1>4. PICK kept : kept = IF TypeChanged(d, op) THEN 0 ELSE m[id].text OBVIOUS
<1>5. PICK total : total = d.totalText - (m[id].text - kept) OBVIOUS
<1>6. PICK n : n = [m[id] EXCEPT !.type = op.type, !.props = FullProps(op.type, op.props),
                       !.explicit = explicitPropKeys(op.props), !.text = kept]
  OBVIOUS
<1>7. PICK nodes : nodes = [m EXCEPT ![id] = n] OBVIOUS
<1>8. e = [d EXCEPT !.totalText = total, !.nodes = nodes]
  BY <1>0, <1>4, <1>5, <1>6, <1>7, Zenon DEF Replaced
<1>9. e.nodes = nodes /\ e.totalText = total BY <1>8 DEF DocOK
<1>10. n.type = op.type /\ n.parent = m[id].parent /\ n.children = m[id].children /\ n.text = kept
  <2>1. PICK o : o = m[id] OBVIOUS
  <2>2. NodeOK(o) BY <1>2, <2>1 DEF Rearranged, NodesOK
  <2>3. PICK p, q : p = FullProps(op.type, op.props) /\ q = explicitPropKeys(op.props) OBVIOUS
  <2>4. n = [type |-> op.type, parent |-> o.parent, children |-> o.children,
             props |-> p, explicit |-> q, text |-> kept]
    BY <1>6, <2>1, <2>2, <2>3 DEF NodeOK
  <2> QED BY <2>1, <2>4
<1>11. /\ DOMAIN nodes = D /\ nodes[id] = n
       /\ \A x \in D \ {id} : nodes[x] = m[x]
  BY <1>3, <1>7
<1>12. LocalTree(e) /\ Rooted(e)
  <2>1. \A x \in D : nodes[x].parent = m[x].parent /\ nodes[x].children = m[x].children
    BY <1>10, <1>11
  <2>2. \A x \in D :
          /\ e.nodes[x].parent = IF x = id THEN t ELSE d.nodes[x].parent
          /\ IsInjective(e.nodes[x].children)
          /\ Kids(e, x) = IF x = t THEN Kids(d, x) \cup {id} ELSE Kids(d, x) \ {id}
    BY <1>3, <1>9, <2>1 DEF Kids
  <2>3. \A x \in D : x # id => e.nodes[x].type = d.nodes[x].type
    BY <1>2, <1>9, <1>11 DEF Rearranged, SameContent
  <2>4. id # "root" /\ t \in D /\ Container(d.nodes[t].type) /\ t \notin Subtree(d, id)
    BY <1>0, TargetFacts
  <2>5. Kids(d, id) # {} => Container(e.nodes[id].type)
    <3> SUFFICES ASSUME Kids(d, id) # {} PROVE Container(op.type)
      BY <1>9, <1>10, <1>11
    <3>1. Container(d.nodes[id].type) BY DEF LocalTree
    <3>2. d.nodes[id].children # <<>>
      <4>1. DOMAIN <<>> = {} OBVIOUS
      <4> QED BY <4>1 DEF Kids, ToSet
    <3> QED BY <3>1, <3>2 DEF UpsertOk
  <2>6. DOMAIN e.nodes = D BY <1>9, <1>11
  <2> QED BY <2>2, <2>3, <2>4, <2>5, <2>6, MovedTree
<1>13. Texts(e)
  <2>1. \A x \in D : m[x].text = d.nodes[x].text BY <1>2 DEF Rearranged, SameContent
  <2>2. \A x \in D \ {id} : e.nodes[x].text = d.nodes[x].text BY <1>9, <1>11, <2>1
  <2>3. e.nodes[id].text = kept BY <1>9, <1>10, <1>11
  <2>4. e.totalText = d.totalText - (d.nodes[id].text - e.nodes[id].text)
    BY <1>5, <1>9, <2>1, <2>3
  <2>5. DocOK(e) BY ReplacedOK DEF CandidateOK
  <2>6. DOMAIN e.nodes = D BY <1>9, <1>11
  <2> QED BY <2>2, <2>4, <2>5, <2>6, OneTextChanged
<1> QED BY <1>12, <1>13

\* Upserting a new node keeps the tree.
LEMMA CreatedTree ==
  ASSUME NEW d, DocOK(d), LocalTree(d), Rooted(d), Texts(d), NEW op \in Operations,
         op.op = "upsert", op.id \notin DOMAIN d.nodes, UpsertOk(d, op),
         NEW e, e = Created(d, op)
  PROVE  LocalTree(e) /\ Rooted(e) /\ Texts(e)
<1> DEFINE D == DOMAIN d.nodes
<1> DEFINE id == op.id
<1>0. PICK t : t = TargetParent(d, op) OBVIOUS
<1>1. t \in D /\ Container(d.nodes[t].type) BY <1>0 DEF UpsertOk
<1>2. PICK new : new = Node(op.type, t, op.props) OBVIOUS
<1>3. new.parent = t /\ new.children = <<>> /\ new.text = 0 BY <1>2 DEF Node
<1>4. PICK c : c = insertChild(d.nodes[t].children, id, op.index) OBVIOUS
<1>5. PICK n : n = [d.nodes[t] EXCEPT !.children = c] OBVIOUS
<1>6. PICK nodes : nodes = [x \in D \cup {id} |-> IF x = id THEN new
                              ELSE IF x = t THEN n ELSE d.nodes[x]]
  OBVIOUS
<1>7. e = [d EXCEPT !.nodes = nodes]
  <2>1. PICK raw : raw = [x \in DOMAIN d.nodes \cup {op.id} |->
           IF x = op.id THEN Node(op.type, t, op.props)
           ELSE IF x = t
           THEN [d.nodes[x] EXCEPT !.children = insertChild(@, op.id, op.index)]
           ELSE d.nodes[x]]
    OBVIOUS
  <2>2. \A x \in D \cup {id} :
          (IF x = id THEN new ELSE IF x = t THEN n ELSE d.nodes[x])
            = IF x = op.id THEN Node(op.type, t, op.props)
              ELSE IF x = t
              THEN [d.nodes[x] EXCEPT !.children = insertChild(@, op.id, op.index)]
              ELSE d.nodes[x]
    BY <1>2, <1>4, <1>5
  <2>3. raw = nodes BY <1>6, <2>1, <2>2
  <2> QED BY <1>0, <2>1, <2>3, Zenon DEF Created
<1>8. e.nodes = nodes /\ e.totalText = d.totalText BY <1>7 DEF DocOK
<1>9. /\ n.type = d.nodes[t].type /\ n.parent = d.nodes[t].parent
      /\ n.text = d.nodes[t].text /\ n.children = c
  <2>1. NodeOK(d.nodes[t]) BY <1>1 DEF DocOK, NodesOK
  <2> QED BY <1>5, <2>1 DEF NodeOK
<1>10. /\ DOMAIN nodes = D \cup {id} /\ nodes[id] = new /\ nodes[t] = n
       /\ \A x \in D \ {t} : nodes[x] = d.nodes[x]
  BY <1>1, <1>6
<1>11. IsInjective(c) /\ ToSet(c) = Kids(d, t) \cup {id}
  <2>1. PICK s \in Seq(AllIds) : s = d.nodes[t].children /\ IsInjective(s)
    BY <1>1, ChildList
  <2>2. id \notin ToSet(s) BY <1>1, <2>1 DEF LocalTree, Kids
  <2>3. id \in AllIds BY OperationFacts
  <2> QED BY <1>4, <2>1, <2>2, <2>3, InsertChildFacts DEF Kids
<1>12. LocalTree(e) /\ Rooted(e)
  <2>1. \A x \in D :
          /\ e.nodes[x].type = d.nodes[x].type /\ e.nodes[x].parent = d.nodes[x].parent
          /\ Kids(e, x) = IF x = t THEN Kids(d, x) \cup {id} ELSE Kids(d, x)
    BY <1>8, <1>9, <1>10, <1>11 DEF Kids
  <2>2. \A x \in D : IsInjective(e.nodes[x].children)
    BY <1>8, <1>9, <1>10, <1>11 DEF LocalTree
  <2>3. e.nodes[id].parent = t /\ e.nodes[id].children = <<>> BY <1>3, <1>8, <1>10
  <2>4. Kids(e, id) = {} /\ IsInjective(e.nodes[id].children)
    <3>1. DOMAIN <<>> = {} OBVIOUS
    <3>2. DOMAIN e.nodes[id].children = {} BY <2>3, <3>1, Zenon
    <3> QED BY <3>2 DEF Kids, ToSet, IsInjective
  <2>5. DOMAIN e.nodes = D \cup {id} BY <1>8, <1>10
  <2>6. \A x \in DOMAIN e.nodes : IsInjective(e.nodes[x].children) BY <2>2, <2>4, <2>5
  <2>7. Grown(e, d, id, t) BY <2>1, <2>3, <2>4, <2>5, <2>6 DEF Grown
  <2> QED BY <1>1, <2>7, GrownTree
<1>13. Texts(e)
  <2>1. DocOK(e) BY CreatedOK DEF CandidateOK
  <2>2. TextsOK(e.nodes, D \cup {id}) BY <1>8, <1>10, <2>1, TextsKnown
  <2>3. (D \cup {id}) \ {id} = D OBVIOUS
  <2>4. TextOf(e.nodes, D \cup {id}) = e.nodes[id].text + TextOf(e.nodes, D)
    <3>1. id \in D \cup {id} OBVIOUS
    <3> QED BY <2>2, <2>3, <3>1, TextWithout
  <2>5. \A x \in D : e.nodes[x].text = d.nodes[x].text BY <1>8, <1>9, <1>10
  <2>6. TextOf(e.nodes, D) = TextOf(d.nodes, D) /\ TextOf(d.nodes, D) \in Nat
    BY <2>5, TextsKnown, TextFacts
  <2>7. e.nodes[id].text = 0 BY <1>3, <1>8, <1>10
  <2>8. TextOf(e.nodes, D \cup {id}) = TextOf(d.nodes, D) BY <2>4, <2>6, <2>7
  <2> QED BY <1>8, <1>10, <2>8 DEF Texts
<1> QED BY <1>12, <1>13

\* Changing properties keeps the tree.
LEMMA PatchedTree ==
  ASSUME NEW d, DocOK(d), LocalTree(d), Rooted(d), Texts(d), NEW op \in Operations,
         op.op = "props", PropsOk(d, op), NEW e, e = Patched(d, op)
  PROVE  LocalTree(e) /\ Rooted(e) /\ Texts(e)
<1> DEFINE D == DOMAIN d.nodes
<1>0. op.id \in D /\ NodeOK(d.nodes[op.id]) BY DEF DocOK, NodesOK, PropsOk
<1>1. PICK old : old = d.nodes[op.id] OBVIOUS
<1>2. PICK props : props = Merge(old.props, Retained(op.props)) OBVIOUS
<1>3. PICK n : n = [old EXCEPT !.props = props,
                               !.explicit = @ \cup explicitPropKeys(op.props)] OBVIOUS
<1>4. /\ n.type = old.type /\ n.parent = old.parent
      /\ n.children = old.children /\ n.text = old.text
  BY <1>0, <1>1, <1>3 DEF NodeOK
<1>5. PICK nodes : nodes = [d.nodes EXCEPT ![op.id] = n] OBVIOUS
<1>6. e = [d EXCEPT !.nodes = nodes]
  <2>1. e = [d EXCEPT !.nodes[op.id] = n] BY <1>1, <1>2, <1>3, Zenon DEF Patched
  <2> QED BY <1>5, <2>1 DEF DocOK
<1>7. e.nodes = nodes /\ e.totalText = d.totalText BY <1>6 DEF DocOK
<1>8. /\ DOMAIN e.nodes = D
      /\ \A x \in D :
           /\ e.nodes[x].type = d.nodes[x].type /\ e.nodes[x].parent = d.nodes[x].parent
           /\ e.nodes[x].children = d.nodes[x].children
           /\ e.nodes[x].text = d.nodes[x].text
  BY <1>1, <1>4, <1>5, <1>7
<1>9. LocalTree(e) /\ Rooted(e) BY <1>8, SameTree
<1>10. TextOf(e.nodes, D) = TextOf(d.nodes, D) BY <1>8, TextsKnown, TextFacts
<1> QED BY <1>7, <1>8, <1>9, <1>10 DEF Texts

\* Appending text keeps the tree and its sum.
LEMMA ExtendedTree ==
  ASSUME NEW d, DocOK(d), LocalTree(d), Rooted(d), Texts(d), NEW op \in Operations,
         op.op = "text", TextOk(d, op), NEW e, e = Extended(d, op)
  PROVE  LocalTree(e) /\ Rooted(e) /\ Texts(e)
<1> DEFINE D == DOMAIN d.nodes
<1>0. op.id \in D /\ NodeOK(d.nodes[op.id]) BY DEF DocOK, NodesOK, TextOk
<1>1. PICK old : old = d.nodes[op.id] OBVIOUS
<1>2. PICK n : n = [old EXCEPT !.text = @ + op.text] OBVIOUS
<1>3. /\ n.type = old.type /\ n.parent = old.parent
      /\ n.children = old.children /\ n.text = old.text + op.text
  BY <1>0, <1>1, <1>2 DEF NodeOK
<1>4. PICK nodes : nodes = [d.nodes EXCEPT ![op.id] = n] OBVIOUS
<1>5. PICK total : total = d.totalText + op.text OBVIOUS
<1>6. e = [d EXCEPT !.nodes = nodes, !.totalText = total]
  BY <1>1, <1>2, <1>4, <1>5 DEF Extended, DocOK
<1>7. e.nodes = nodes /\ e.totalText = total BY <1>6 DEF DocOK
<1>8. /\ DOMAIN e.nodes = D
      /\ \A x \in D :
           /\ e.nodes[x].type = d.nodes[x].type /\ e.nodes[x].parent = d.nodes[x].parent
           /\ e.nodes[x].children = d.nodes[x].children
  BY <1>1, <1>3, <1>4, <1>7
<1>9. LocalTree(e) /\ Rooted(e) BY <1>8, SameTree
<1>10. /\ e.nodes[op.id].text = old.text + op.text
       /\ \A x \in D \ {op.id} : e.nodes[x].text = d.nodes[x].text
  BY <1>0, <1>3, <1>4, <1>7
<1>11. Texts(e)
  <2>1. DocOK(e) BY ExtendedOK DEF CandidateOK
  <2>2. d.totalText \in Nat BY TextsKnown, TextFacts DEF Texts
  <2>3. op.text \in Nat /\ old.text \in Nat BY <1>0, <1>1, OperationFacts DEF NodeOK
  <2>4. PICK a, b, c : a = d.totalText /\ b = op.text /\ c = old.text OBVIOUS
  <2>5. a + b = a - (c - (c + b)) BY <2>2, <2>3, <2>4
  <2>6. e.totalText = d.totalText - (d.nodes[op.id].text - e.nodes[op.id].text)
    BY <1>1, <1>5, <1>7, <1>10, <2>4, <2>5
  <2> QED BY <1>0, <1>8, <1>10, <2>1, <2>6, OneTextChanged
<1> QED BY <1>9, <1>11

\* Removing a subtree keeps the rest a tree.
LEMMA SweptTree ==
  ASSUME NEW d, DocOK(d), LocalTree(d), Rooted(d), Texts(d), NEW op \in Operations,
         op.op = "remove", RemoveOk(d, op), NEW e, e = Swept(d, op)
  PROVE  LocalTree(e) /\ Rooted(e) /\ Texts(e)
<1> DEFINE D == DOMAIN d.nodes
<1> DEFINE id == op.id
<1>0. id \in D /\ id # "root" BY DEF RemoveOk
<1>1. PICK parent : parent = d.nodes[id].parent OBVIOUS
<1>2. parent \in D /\ id \in Kids(d, parent) BY <1>0, <1>1, HasParent
<1>3. PICK b : b = removeChild(d.nodes[parent].children, id) OBVIOUS
<1>4. ToSet(b) = Kids(d, parent) \ {id} /\ IsInjective(b)
  <2>1. PICK s \in Seq(AllIds) : s = d.nodes[parent].children /\ IsInjective(s)
    BY <1>2, ChildList
  <2> QED BY <1>3, <2>1, RemoveChildFacts DEF Kids
<1>5. PICK k : k = [d.nodes EXCEPT ![parent].children = b] OBVIOUS
<1>6. /\ DOMAIN k = D
      /\ \A y \in D : /\ k[y].children = IF y = parent THEN b ELSE d.nodes[y].children
                      /\ k[y].parent = d.nodes[y].parent
  BY <1>5, PlacedFields DEF DocOK
<1>7. \A y \in D : k[y].type = d.nodes[y].type /\ k[y].text = d.nodes[y].text
  <2>1. b \in Seq(AllIds) BY <1>2, <1>3, RemoveChildFacts DEF DocOK, NodesOK, NodeOK
  <2>2. Rearranged(k, d.nodes) BY <1>5, <2>1, PlaceOne DEF DocOK
  <2> QED BY <2>2 DEF Rearranged, SameContent
<1>8. PICK S : S = Subtree(d, id) OBVIOUS
<1>9. PICK nodes : nodes = Without(k, S) OBVIOUS
<1>10. PICK total : total = d.totalText - RemovedText(d, op) OBVIOUS
<1>11. e = [d EXCEPT !.totalText = total, !.nodes = nodes]
  BY <1>1, <1>3, <1>5, <1>8, <1>9, <1>10, Zenon DEF Swept
<1>12. e.nodes = nodes /\ e.totalText = total BY <1>11 DEF DocOK
<1>13. DOMAIN nodes = D \ S /\ \A x \in D \ S : nodes[x] = k[x] BY <1>6, <1>9 DEF Without
<1>14. S \subseteq D BY <1>0, <1>8, HangsOn
<1>15. LocalTree(e) /\ Rooted(e)
  <2>1. ASSUME NEW x \in D
        PROVE  IsInjective(k[x].children) /\ ToSet(k[x].children) = Kids(d, x) \ {id}
    <3>1. CASE x = parent BY <1>4, <1>6, <3>1
    <3>2. CASE x # parent
      <4>1. k[x].children = d.nodes[x].children BY <1>6, <3>2
      <4>2. id \notin Kids(d, x) BY <1>1, <3>2 DEF LocalTree
      <4> QED BY <4>1, <4>2 DEF Kids, LocalTree
    <3> QED BY <3>1, <3>2
  <2>2. \A x \in DOMAIN e.nodes :
          /\ e.nodes[x].type = d.nodes[x].type /\ e.nodes[x].parent = d.nodes[x].parent
          /\ IsInjective(e.nodes[x].children)
          /\ Kids(e, x) = Kids(d, x) \ {id}
    BY <1>6, <1>7, <1>12, <1>13, <2>1 DEF Kids
  <2>3. DOMAIN e.nodes = D \ Subtree(d, id) BY <1>8, <1>12, <1>13
  <2> QED BY <1>0, <2>2, <2>3, PrunedTree
<1>16. Texts(e)
  <2>1. RemovedText(d, op) = TextOf(d.nodes, S) BY <1>8, Zenon DEF RemovedText, TextOf
  <2>2. TextsOK(d.nodes, D) BY TextsKnown
  <2>3. TextOf(d.nodes, D) = TextOf(d.nodes, S) + TextOf(d.nodes, D \ S)
    BY <1>14, <2>2, TextFacts
  <2>4. TextsOK(d.nodes, S) /\ TextsOK(d.nodes, D \ S)
    <3>1. IsFiniteSet(D) BY <2>2 DEF TextsOK
    <3>2. IsFiniteSet(S) /\ IsFiniteSet(D \ S) BY <1>14, <3>1, FS_Subset
    <3> QED BY <1>14, <2>2, <3>2 DEF TextsOK
  <2>5. TextOf(d.nodes, S) \in Nat /\ TextOf(d.nodes, D \ S) \in Nat BY <2>4, TextFacts
  <2>6. \A x \in D \ S : e.nodes[x].text = d.nodes[x].text BY <1>7, <1>12, <1>13
  <2>7. TextOf(e.nodes, D \ S) = TextOf(d.nodes, D \ S) BY <2>4, <2>6, TextFacts
  <2>8. PICK a, c : a = TextOf(d.nodes, S) /\ c = TextOf(d.nodes, D \ S) OBVIOUS
  <2>9. (a + c) - a = c BY <2>5, <2>8
  <2>10. e.totalText = TextOf(e.nodes, D \ S)
    BY <1>10, <1>12, <2>1, <2>3, <2>7, <2>8, <2>9 DEF Texts
  <2> QED BY <1>12, <1>13, <2>10 DEF Texts
<1> QED BY <1>15, <1>16

\* The candidate of every accepted operation passes the structural checks.
LEMMA CandidateTree ==
  ASSUME NEW d, DocOK(d), Structural(d), NEW op \in Operations, CandidateOk(d, op)
  PROVE  Structural(Candidate(d, op))
<1>0. PICK e : e = Candidate(d, op) OBVIOUS
<1>1. LocalTree(d) /\ Rooted(d) /\ Texts(d) BY StructuralMeans DEF Texts
<1>2. DocOK(e) BY <1>0, CandidateFacts DEF CandidateOK
<1>3. LocalTree(e) /\ Rooted(e) /\ Texts(e)
  <2>1. CASE op.op = "upsert" /\ op.id \in DOMAIN d.nodes
    <3>1. e = Replaced(d, op) /\ UpsertOk(d, op) BY <1>0, <2>1 DEF CandidateOk, Candidate
    <3> QED BY <1>1, <2>1, <3>1, ReplacedTree
  <2>2. CASE op.op = "upsert" /\ op.id \notin DOMAIN d.nodes
    <3>1. e = Created(d, op) /\ UpsertOk(d, op) BY <1>0, <2>2 DEF CandidateOk, Candidate
    <3> QED BY <1>1, <2>2, <3>1, CreatedTree
  <2>3. CASE op.op = "props"
    <3>1. e = Patched(d, op) /\ PropsOk(d, op) BY <1>0, <2>3 DEF CandidateOk, Candidate
    <3> QED BY <1>1, <2>3, <3>1, PatchedTree
  <2>4. CASE op.op = "text"
    <3>1. e = Extended(d, op) /\ TextOk(d, op) BY <1>0, <2>4 DEF CandidateOk, Candidate
    <3> QED BY <1>1, <2>4, <3>1, ExtendedTree
  <2>5. CASE op.op = "remove"
    <3>1. e = Swept(d, op) /\ RemoveOk(d, op) BY <1>0, <2>5 DEF CandidateOk, Candidate
    <3> QED BY <1>1, <2>5, <3>1, SweptTree
  <2>6. CASE op.op \in {"focus", "commit"}
    <3>1. e = d BY <1>0, <2>6 DEF Candidate
    <3> QED BY <1>1, <3>1
  <2> QED BY <2>1, <2>2, <2>3, <2>4, <2>5, <2>6, OperationFacts
<1> QED BY <1>0, <1>2, <1>3, StructuralMeans DEF Texts

\* The structural checks look at the nodes and the total alone.
LEMMA SameStructure ==
  ASSUME NEW d, NEW e, DocOK(d), DocOK(e), e.nodes = d.nodes, e.totalText = d.totalText,
         Structural(d)
  PROVE  Structural(e)
<1>1. LocalTree(d) /\ Rooted(d) /\ Texts(d) BY StructuralMeans DEF Texts
<1>2. \A x : Kids(e, x) = Kids(d, x) BY DEF Kids
<1>3. LocalTree(e) BY <1>1, <1>2 DEF LocalTree
<1>4. Rooted(e) BY <1>1, <1>2 DEF Rooted, ClosedUnder
<1>5. Texts(e) BY <1>1 DEF Texts
<1> QED BY <1>3, <1>4, <1>5, StructuralMeans DEF Texts

------------------------------------------------------------------------------
(* The inductive invariant                                                   *)

ContentInv ==
  /\ DocOK(doc) /\ Structural(doc)
  /\ StateOK(state) /\ token \in Nat
  /\ ProjectionMatchesDocument

\* A changed document has passed the structural checks.
LEMMA ReduceChecked ==
  ASSUME NEW d, DocOK(d), Structural(d), NEW op \in Operations, Reduce(d, op).ok
  PROVE  Structural(Reduce(d, op).doc)
<1>1. PICK r, c : r = Reduce(d, op) /\ c = Candidate(d, op) OBVIOUS
<1>2. DocOK(r.doc) /\ r.doc.nodes = c.nodes /\ (c.nodes = d.nodes => r.doc = d)
  BY <1>1, ReduceFacts
<1>3. CASE c.nodes # d.nodes
  <2>1. CandidateOk(d, op) /\ Structural(c) /\ r.doc = [c EXCEPT !.revision = @ + 1]
    BY <1>1, <1>3 DEF Reduce
  <2>2. DocOK(c) BY <1>1, <2>1, CandidateFacts DEF CandidateOK
  <2>3. r.doc.totalText = c.totalText BY <2>1, <2>2 DEF DocOK
  <2> QED BY <1>1, <1>2, <2>1, <2>2, <2>3, SameStructure
<1>4. CASE c.nodes = d.nodes BY <1>1, <1>2, <1>4
<1> QED BY <1>3, <1>4

\* In a document that passed the checks, children are nodes.
LEMMA StructuralChildren == ASSUME NEW d, Structural(d) PROVE ChildrenExist(d)
BY DEF Structural, ChildrenExist

\* What the counters do when Apply takes content and projection from (d, p) to
\* (e, q): nothing, a new document, or a new interaction.
Advances(d, p, e, q) ==
  \/ e = d /\ q = p
  \/ /\ e.nodes # d.nodes
     /\ e.revision = d.revision + 1 /\ q.dirtyRevision = d.revision + 1
     /\ q.renderGeneration = p.renderGeneration + 1
     /\ q.publicationGeneration = p.publicationGeneration + 1
  \/ /\ e = d /\ q.dirtyRevision = p.dirtyRevision
     /\ \/ q.focused # p.focused \/ q.inputs # p.inputs
        \/ q.selections # p.selections \/ q.bindings # p.bindings
     /\ q.renderGeneration = p.renderGeneration + 1
     /\ q.publicationGeneration = p.publicationGeneration + 1

Keeps(op, e, q) ==
  /\ \A id \in InputNodes(doc) \cap InputNodes(e) :
       q.inputs[id] # state.inputs[id] => op.id = id /\ Forces(op)
  /\ \A id \in DOMAIN state.selections \cap DOMAIN q.selections :
       state.selections[id].rowID \in ToSet(RowIDs(e.nodes[id]))
         => q.selections[id].rowID = state.selections[id].rowID

\* Everything Apply promises of one operation.
LEMMA OutcomeFacts ==
  ASSUME ContentInv, NEW op \in Operations
  PROVE  LET e == Outcome(op).doc
             q == Outcome(op).state
         IN /\ DocOK(e) /\ Structural(e) /\ StateOK(q)
            /\ FocusMatches(q, e) /\ InputsMatch(q, e)
            /\ SelectionsMatch(q, e) /\ BindingsMatch(q, e)
            /\ Advances(doc, state, e, q)
            /\ Keeps(op, e, q)
<1>1. PICK e, q : e = Outcome(op).doc /\ q = Outcome(op).state OBVIOUS
<1>2. CASE e = doc /\ q = state
  <2>1. Keeps(op, doc, state) BY DEF Keeps
  <2>2. Advances(doc, state, doc, state) BY DEF Advances
  <2> QED BY <1>1, <1>2, <2>1, <2>2 DEF ContentInv, ProjectionMatchesDocument
<1>3. CASE ~(e = doc /\ q = state)
  <2>1. PICK r : r = Reduce(doc, op) OBVIOUS
  <2>2. r.ok /\ ReconcileOk(r.doc, op) /\ e = r.doc /\ q = Reconcile(state, doc, r, op)
    BY <1>1, <1>3, <2>1 DEF Outcome
  <2>3. DocOK(doc) /\ Structural(doc) /\ StateOK(state) BY DEF ContentInv
  <2>4. /\ CandidateOk(doc, op) /\ DocOK(e) /\ e.nodes = Candidate(doc, op).nodes
        /\ r.changed \in BOOLEAN /\ (r.changed <=> e.nodes # doc.nodes)
        /\ (r.changed => e.revision = doc.revision + 1) /\ (~r.changed => e = doc)
    BY <2>1, <2>2, <2>3, ReduceFacts
  <2>5. Structural(e) BY <2>1, <2>2, <2>3, ReduceChecked
  <2>6. PICK frame : frame = (\/ r.changed \/ q.focused # state.focused
                              \/ q.inputs # state.inputs
                              \/ q.selections # state.selections
                              \/ q.bindings # state.bindings)
    OBVIOUS
  <2>7. /\ StateOK(q)
        /\ q.focused = FocusAfter(state, doc, e, op)
        /\ q.inputs = InputsAfter(state, doc, e, op)
        /\ q.selections = SelectionsAfter(state, e)
        /\ q.bindings = buildBindings(e)
        /\ q.dirtyRevision = IF r.changed THEN e.revision ELSE state.dirtyRevision
        /\ frame => /\ q.renderGeneration = state.renderGeneration + 1
                    /\ q.publicationGeneration = state.publicationGeneration + 1
        /\ ~frame => q = state
    BY <2>2, <2>3, <2>6, ReconcileFacts
  <2>8. FocusMatches(q, e)
    <3>1. FocusAfter(state, doc, e, op) \in Focusable(e) \cup {""}
      BY <2>4, <2>5, StructuralChildren, FocusFollows
    <3> QED BY <2>7, <3>1 DEF FocusMatches
  <2>9. InputsMatch(state, doc) /\ SelectionsMatch(state, doc)
    BY DEF ContentInv, ProjectionMatchesDocument
  <2>10. /\ DOMAIN q.inputs = InputNodes(e)
         /\ \A id \in InputNodes(doc) \cap InputNodes(e) :
              q.inputs[id] # state.inputs[id] => op.id = id /\ Forces(op)
    BY <2>3, <2>4, <2>7, <2>9, InputsFollow
  <2>11. /\ DOMAIN q.selections = {id \in SelectableTables(e) : Rows(e.nodes[id]) > 0}
         /\ \A id \in DOMAIN q.selections : RowSelected(e.nodes[id], q.selections[id])
         /\ \A id \in DOMAIN state.selections \cap DOMAIN q.selections :
              state.selections[id].rowID \in ToSet(RowIDs(e.nodes[id]))
                => q.selections[id].rowID = state.selections[id].rowID
    <3>1. PICK s : s = SelectionsAfter(state, e) OBVIOUS
    <3>2. /\ DOMAIN s = {id \in SelectableTables(e) : Rows(e.nodes[id]) > 0}
          /\ \A id \in DOMAIN s : RowSelected(e.nodes[id], s[id])
          /\ \A id \in DOMAIN state.selections \cap DOMAIN s :
               state.selections[id].rowID \in ToSet(RowIDs(e.nodes[id]))
                 => s[id].rowID = state.selections[id].rowID
      BY <2>3, <2>4, <2>9, <3>1, SelectionsFollow
    <3>3. q.selections = s BY <2>7, <3>1
    <3> QED BY <3>2, <3>3
  <2>12. SelectionsMatch(q, e) BY <2>11 DEF SelectionsMatch, RowSelected
  <2>13. BindingsMatch(q, e) BY <2>2, <2>7, BindingsBuilt DEF ReconcileOk
  <2>14. Advances(doc, state, e, q)
    <3>1. CASE r.changed
      <4>1. frame BY <2>6, <3>1
      <4> QED BY <2>4, <2>7, <3>1, <4>1 DEF Advances
    <3>2. CASE ~r.changed /\ frame
      <4>1. \/ q.focused # state.focused \/ q.inputs # state.inputs
            \/ q.selections # state.selections \/ q.bindings # state.bindings
        BY <2>6, <3>2
      <4> QED BY <2>4, <2>7, <3>2, <4>1 DEF Advances
    <3>3. CASE ~r.changed /\ ~frame BY <2>4, <2>7, <3>3 DEF Advances
    <3> QED BY <3>1, <3>2, <3>3
  <2>15. InputsMatch(q, e) BY <2>10 DEF InputsMatch
  <2>16. Keeps(op, e, q) BY <2>10, <2>11 DEF Keeps
  <2> QED BY <1>1, <2>4, <2>5, <2>7, <2>8, <2>12, <2>13, <2>14, <2>15, <2>16
<1> QED BY <1>2, <1>3

------------------------------------------------------------------------------
(* The steps                                                                 *)

\* What a setter does to a projection: nothing, or a new interaction and a redraw.
Redraws(p, q) ==
  \/ q = p
  \/ /\ \/ q.focused # p.focused \/ q.inputs # p.inputs
        \/ q.selections # p.selections \/ q.bindings # p.bindings
     /\ q.renderGeneration = p.renderGeneration + 1
     /\ q.publicationGeneration = p.publicationGeneration
     /\ q.dirtyRevision = p.dirtyRevision

Matches(p, d) ==
  /\ FocusMatches(p, d) /\ InputsMatch(p, d) /\ SelectionsMatch(p, d) /\ BindingsMatch(p, d)

\* A projection with other interaction and one more redraw.
LEMMA RedrawnFacts ==
  ASSUME NEW p, StateOK(p), NEW focused, NEW inputs, NEW selections,
         inputs = [id \in DOMAIN inputs |-> inputs[id]],
         selections = [id \in DOMAIN selections |-> selections[id]],
         NEW q, q = [focused |-> focused, inputs |-> inputs, selections |-> selections,
                     bindings |-> p.bindings, dirtyRevision |-> p.dirtyRevision,
                     renderGeneration |-> p.renderGeneration + 1,
                     publicationGeneration |-> p.publicationGeneration],
         focused # p.focused \/ inputs # p.inputs \/ selections # p.selections
  PROVE  StateOK(q) /\ Redraws(p, q)
BY DEF StateOK, Redraws

\* SetLocalFocus moves the focus among focusable nodes.
LEMMA FocusStep ==
  ASSUME NEW p, NEW d, StateOK(p), Matches(p, d), NEW id \in Focusable(d)
  PROVE  LET q == SetLocalFocus(p, id) IN StateOK(q) /\ Redraws(p, q) /\ Matches(q, d)
<1>1. PICK q : q = SetLocalFocus(p, id) OBVIOUS
<1>2. CASE p.focused = id BY <1>1, <1>2 DEF SetLocalFocus, Redraws
<1>3. CASE p.focused # id
  <2>1. q = [focused |-> id, inputs |-> p.inputs, selections |-> p.selections,
             bindings |-> p.bindings, dirtyRevision |-> p.dirtyRevision,
             renderGeneration |-> p.renderGeneration + 1,
             publicationGeneration |-> p.publicationGeneration]
    BY <1>1, <1>3 DEF SetLocalFocus, Redrawn, StateOK
  <2>2. StateOK(q) /\ Redraws(p, q)
    <3>1. /\ p.inputs = [x \in DOMAIN p.inputs |-> p.inputs[x]]
          /\ p.selections = [x \in DOMAIN p.selections |-> p.selections[x]]
      BY DEF StateOK
    <3> QED BY <1>3, <2>1, <3>1, RedrawnFacts
  <2>3. Matches(q, d)
    BY <2>1 DEF Matches, FocusMatches, InputsMatch, SelectionsMatch, BindingsMatch
  <2> QED BY <1>1, <2>2, <2>3
<1> QED BY <1>2, <1>3

\* SetInputValue changes the value of an input node.
LEMMA InputStep ==
  ASSUME NEW p, NEW d, StateOK(p), Matches(p, d), NEW id \in InputNodes(d), NEW value
  PROVE  LET q == SetInputValue(p, id, value) IN StateOK(q) /\ Redraws(p, q) /\ Matches(q, d)
<1>1. PICK q : q = SetInputValue(p, id, value) OBVIOUS
<1>2. CASE p.inputs[id] = value BY <1>1, <1>2 DEF SetInputValue, Redraws
<1>3. CASE p.inputs[id] # value
  <2>1. PICK inputs : inputs = [p.inputs EXCEPT ![id] = value] OBVIOUS
  <2>2. q = [focused |-> p.focused, inputs |-> inputs, selections |-> p.selections,
             bindings |-> p.bindings, dirtyRevision |-> p.dirtyRevision,
             renderGeneration |-> p.renderGeneration + 1,
             publicationGeneration |-> p.publicationGeneration]
    BY <1>1, <1>3, <2>1 DEF SetInputValue, Redrawn, StateOK
  <2>3. id \in DOMAIN p.inputs BY DEF Matches, InputsMatch
  <2>4. /\ DOMAIN inputs = DOMAIN p.inputs /\ inputs = [x \in DOMAIN inputs |-> inputs[x]]
        /\ inputs[id] # p.inputs[id]
    BY <1>3, <2>1, <2>3
  <2>5. StateOK(q) /\ Redraws(p, q)
    <3>1. p.selections = [x \in DOMAIN p.selections |-> p.selections[x]] BY DEF StateOK
    <3>2. inputs # p.inputs BY <2>4
    <3> QED BY <2>2, <2>4, <3>1, <3>2, RedrawnFacts
  <2>6. Matches(q, d)
    BY <2>2, <2>4 DEF Matches, FocusMatches, InputsMatch, SelectionsMatch, BindingsMatch
  <2> QED BY <1>1, <2>5, <2>6
<1> QED BY <1>2, <1>3

\* SetTableSelection selects a row of the table.
LEMMA SelectionStep ==
  ASSUME NEW p, NEW d, DocOK(d), StateOK(p), Matches(p, d),
         NEW id \in SelectableTables(d), NEW index \in Int
  PROVE  LET q == SetTableSelection(p, d.nodes[id], id, index)
         IN  StateOK(q) /\ Redraws(p, q) /\ Matches(q, d)
<1> DEFINE n == d.nodes[id]
<1>1. PICK q : q = SetTableSelection(p, n, id, index) OBVIOUS
<1>2. NodeOK(n) /\ n.type = "table" /\ Rows(n) \in Nat BY SelectableFacts
<1>3. CASE Rows(n) = 0
  <2>1. id \notin DOMAIN p.selections
    <3>1. DOMAIN p.selections = {t \in SelectableTables(d) : Rows(d.nodes[t]) > 0}
      BY DEF Matches, SelectionsMatch
    <3>2. ~(Rows(d.nodes[id]) > 0)
      <4>1. PICK rows : rows = Rows(d.nodes[id]) OBVIOUS
      <4>2. ~(rows > 0) BY <1>3, <4>1
      <4> QED BY <4>1, <4>2
    <3> QED BY <3>1, <3>2
  <2>2. q = p BY <1>1, <1>3, <2>1 DEF SetTableSelection
  <2> QED BY <1>1, <2>2 DEF Redraws
<1>4. CASE Rows(n) # 0
  <2>0. Rows(n) > 0 BY <1>2, <1>4
  <2>1. PICK s : s = tableSelectionAt(n, index) OBVIOUS
  <2>2. RowSelected(n, s) BY <1>2, <2>0, <2>1, SelectionAt
  <2>3. PICK with : with = Merge(p.selections, [x \in {id} |-> s]) OBVIOUS
  <2>4. /\ DOMAIN with = DOMAIN p.selections \cup {id}
        /\ with = [x \in DOMAIN with |-> with[x]]
        /\ with[id] = s /\ \A x \in DOMAIN p.selections \ {id} : with[x] = p.selections[x]
    BY <2>3 DEF Merge
  <2>5. CASE with = p.selections
    <3>1. q = p BY <1>1, <1>4, <2>1, <2>3, <2>5 DEF SetTableSelection
    <3> QED BY <1>1, <3>1 DEF Redraws
  <2>6. CASE with # p.selections
    <3>1. q = Redrawn([p EXCEPT !.selections = with])
      BY <1>1, <1>4, <2>1, <2>3, <2>6 DEF SetTableSelection
    <3>2. q = [focused |-> p.focused, inputs |-> p.inputs, selections |-> with,
               bindings |-> p.bindings, dirtyRevision |-> p.dirtyRevision,
               renderGeneration |-> p.renderGeneration + 1,
               publicationGeneration |-> p.publicationGeneration]
      BY <3>1 DEF Redrawn, StateOK
    <3>3. StateOK(q) /\ Redraws(p, q)
      <4>1. p.inputs = [x \in DOMAIN p.inputs |-> p.inputs[x]] BY DEF StateOK
      <4> QED BY <2>4, <2>6, <3>2, <4>1, RedrawnFacts
    <3>4. SelectionsMatch(q, d)
      <4>1. q.selections = with BY <3>2
      <4>2. DOMAIN with = {t \in SelectableTables(d) : Rows(d.nodes[t]) > 0}
        BY <2>0, <2>4 DEF Matches, SelectionsMatch
      <4>3. \A x \in DOMAIN p.selections : RowSelected(d.nodes[x], p.selections[x])
        BY DEF Matches, SelectionsMatch, RowSelected
      <4>4. \A x \in DOMAIN with : RowSelected(d.nodes[x], with[x])
        BY <2>2, <2>4, <4>3
      <4> QED BY <4>1, <4>2, <4>4 DEF SelectionsMatch, RowSelected
    <3>5. Matches(q, d)
      BY <3>2, <3>4 DEF Matches, FocusMatches, InputsMatch, BindingsMatch
    <3> QED BY <1>1, <3>3, <3>5
  <2> QED BY <2>5, <2>6
<1> QED BY <1>3, <1>4

\* The terminal's calls change the projection only, and redraw.
LEMMA TerminalFacts ==
  ASSUME ContentInv, TerminalStep
  PROVE  /\ UNCHANGED <<doc, token>>
         /\ StateOK(state') /\ Redraws(state, state') /\ Matches(state', doc)
<1>0. DocOK(doc) /\ StateOK(state) /\ Matches(state, doc)
  BY DEF ContentInv, ProjectionMatchesDocument, Matches
<1>1. CASE Focus BY <1>0, <1>1, FocusStep DEF Focus, SetState
<1>2. CASE SetInput BY <1>0, <1>2, InputStep DEF SetInput, SetState
<1>3. CASE SelectRow
  <2>1. PICK id \in SelectableTables(doc), index \in -1..(MaxTableRows + 1) :
          SetState(SetTableSelection(state, doc.nodes[id], id, index))
    BY <1>3 DEF SelectRow
  <2>2. index \in Int BY <2>1, LimitsAssumption
  <2> QED BY <1>0, <2>1, <2>2, SelectionStep DEF SetState
<1>4. CASE MoveSelection
  <2>1. PICK id \in SelectableTables(doc), delta \in {-1, 1} :
          SetState(MoveTableSelection(state, doc.nodes[id], id, delta))
    BY <1>4 DEF MoveSelection
  <2>2. PICK n, q : n = doc.nodes[id] /\ q = MoveTableSelection(state, n, id, delta) OBVIOUS
  <2>3. state' = q /\ UNCHANGED <<doc, token>> BY <2>1, <2>2 DEF SetState
  <2>4. CASE Rows(n) = 0
    <3>1. q = state BY <2>2, <2>4 DEF MoveTableSelection
    <3> QED BY <1>0, <2>3, <3>1 DEF Redraws
  <2>5. CASE Rows(n) # 0
    <3>1. PICK current : current = IF id \in DOMAIN state.selections
                                   THEN state.selections[id].index ELSE 0
      OBVIOUS
    <3>2. current \in Int
      <4>1. CASE id \in DOMAIN state.selections
        <5>1. PICK rows \in Nat : rows = Rows(n) BY <1>0, <2>2, SelectableFacts
        <5>2. current \in 0..(rows - 1)
          BY <1>0, <2>2, <3>1, <4>1, <5>1 DEF Matches, SelectionsMatch
        <5> QED BY <5>1, <5>2
      <4>2. CASE id \notin DOMAIN state.selections BY <3>1, <4>2
      <4> QED BY <4>1, <4>2
    <3>3. PICK index \in Int : index = current + delta
      <4>1. delta \in Int BY <2>1
      <4>2. current + delta \in Int BY <3>2, <4>1
      <4> QED BY <4>2
    <3>4. q = SetTableSelection(state, n, id, index)
      BY <2>2, <2>5, <3>1, <3>3 DEF MoveTableSelection
    <3> QED BY <1>0, <2>2, <2>3, <3>4, SelectionStep
  <2> QED BY <2>4, <2>5
<1> QED BY <1>1, <1>2, <1>3, <1>4 DEF TerminalStep

\* What one operation of the agent does to the variables.
LEMMA AgentFacts ==
  ASSUME ContentInv, AgentStep
  PROVE  /\ DocOK(doc') /\ Structural(doc') /\ StateOK(state') /\ Matches(state', doc')
         /\ Advances(doc, state, doc', state')
         /\ \/ token' = token + 1
            \/ token' = token /\ state'.publicationGeneration = state.publicationGeneration
<1>1. PICK op \in Operations : Apply(op) BY DEF AgentStep
<1>2. PICK e, q : e = Outcome(op).doc /\ q = Outcome(op).state OBVIOUS
<1>3. doc' = e /\ state' = q BY <1>1, <1>2 DEF Apply
<1>4. \/ token' = token + 1
      \/ token' = token /\ q.publicationGeneration = state.publicationGeneration
  BY <1>1, <1>2 DEF Apply
<1>5. /\ DocOK(e) /\ Structural(e) /\ StateOK(q)
      /\ FocusMatches(q, e) /\ InputsMatch(q, e)
      /\ SelectionsMatch(q, e) /\ BindingsMatch(q, e)
      /\ Advances(doc, state, e, q)
  BY <1>2, OutcomeFacts
<1> QED BY <1>3, <1>4, <1>5 DEF Matches

\* The empty document and its projection.
LEMMA InitFacts == ASSUME Init PROVE ContentInv
<1>1. PICK n : n = Node("box", "", NoProps) OBVIOUS
<1>2. /\ n.type = "box" /\ n.parent = "" /\ n.children = <<>> /\ n.text = 0
      /\ n = [type |-> n.type, parent |-> n.parent, children |-> n.children,
              props |-> n.props, explicit |-> n.explicit, text |-> n.text]
  BY <1>1 DEF Node
<1>3. DOMAIN n.props = {"gap"}
  <2>1. n.props = Merge(defaults["box"], Retained(NoProps)) BY <1>1 DEF Node, FullProps
  <2>2. DOMAIN Retained(NoProps) = {}
    <3>1. DOMAIN NoProps = {} BY DEF NoProps
    <3> QED BY <3>1 DEF Retained, Without
  <2>3. DOMAIN defaults["box"] = {"gap"} BY DEF defaults, NodeTypes
  <2>4. DOMAIN n.props = DOMAIN defaults["box"] \cup DOMAIN Retained(NoProps)
    BY <2>1 DEF Merge
  <2> QED BY <2>2, <2>3, <2>4
<1>4. NodeOK(n)
  <2>1. n.children \in Seq(AllIds)
    <3>1. <<>> \in Seq(AllIds) BY EmptySeq
    <3> QED BY <1>2, <3>1
  <2>2. "rows" \notin DOMAIN n.props /\ "row_ids" \notin DOMAIN n.props BY <1>3
  <2>3. validateNormalized(n.props) BY <2>2 DEF validateNormalized
  <2>4. n.text \in Nat /\ n.type # "table"
    <3>1. n.text = 0 /\ n.type = "box" BY <1>2
    <3>2. 0 \in Nat /\ "box" # "table" OBVIOUS
    <3> QED BY <3>1, <3>2, Zenon
  <2> QED BY <1>2, <2>1, <2>2, <2>3, <2>4 DEF NodeOK
<1>5. /\ doc.nodes = [id \in {"root"} |-> n] /\ doc.revision = 0
      /\ doc = [revision |-> doc.revision, totalText |-> doc.totalText, nodes |-> doc.nodes]
  BY <1>1 DEF Init, NewDocument
<1>6. DOMAIN doc.nodes = {"root"} /\ doc.nodes["root"] = n BY <1>5
<1>7. DocOK(doc)
  <2>1. IsFiniteSet({"root"}) BY FS_Singleton
  <2>2. NodesOK(doc.nodes) BY <1>4, <1>5 DEF NodesOK
  <2> QED BY <1>5, <1>6, <2>1, <2>2 DEF DocOK, AllIds
<1>8. Structural(doc)
  <2>1. DOMAIN n.children = {}
    <3>1. DOMAIN <<>> = {} OBVIOUS
    <3>2. n.children = <<>> BY <1>2
    <3> QED BY <3>1, <3>2, Zenon
  <2>2. Kids(doc, "root") = {} /\ IsInjective(n.children)
    BY <1>6, <2>1 DEF Kids, ToSet, IsInjective
  <2>3. LocalTree(doc) BY <1>2, <1>6, <2>2 DEF LocalTree
  <2>4. Rooted(doc) BY <1>6 DEF Rooted
  <2>5. Texts(doc)
    <3>1. TextsOK(doc.nodes, {"root"}) BY <1>6, <1>7, TextsKnown
    <3>2. TextOf(doc.nodes, {"root"}) = doc.nodes["root"].text + TextOf(doc.nodes, {"root"} \ {"root"})
      BY <3>1, TextWithout
    <3>3. {"root"} \ {"root"} = {} OBVIOUS
    <3>4. TextOf(doc.nodes, {}) = 0
      <4>1. TextsOK(doc.nodes, {}) BY FS_EmptySet DEF TextsOK
      <4> QED BY <4>1, SumFacts DEF Sums
    <3>5. doc.nodes["root"].text = 0 BY <1>2, <1>6
    <3>6. TextOf(doc.nodes, {"root"}) = 0 + 0 BY <3>2, <3>3, <3>4, <3>5
    <3>7. doc.totalText = 0 BY DEF Init, NewDocument
    <3> QED BY <1>6, <3>6, <3>7 DEF Texts
  <2> QED BY <1>7, <2>3, <2>4, <2>5, StructuralMeans DEF Texts
<1>9. /\ state.focused = "" /\ state.inputs = <<>> /\ state.selections = <<>>
      /\ state.bindings = <<>> /\ state.renderGeneration = 0
      /\ state.publicationGeneration = 0
      /\ state = [focused |-> state.focused, inputs |-> state.inputs,
                  selections |-> state.selections, bindings |-> state.bindings,
                  dirtyRevision |-> state.dirtyRevision,
                  renderGeneration |-> state.renderGeneration,
                  publicationGeneration |-> state.publicationGeneration]
  BY DEF Init, NewState
<1>10. \A f : f = <<>> => DOMAIN f = {} /\ f = [x \in DOMAIN f |-> f[x]]
  BY EmptySeq
<1>11. StateOK(state)
  <2>1. /\ state.inputs = [x \in DOMAIN state.inputs |-> state.inputs[x]]
        /\ state.selections = [x \in DOMAIN state.selections |-> state.selections[x]]
    BY <1>9, <1>10
  <2>2. state.renderGeneration \in Nat /\ state.publicationGeneration \in Nat
    <3>1. state.renderGeneration = 0 /\ state.publicationGeneration = 0 BY <1>9
    <3>2. 0 \in Nat OBVIOUS
    <3> QED BY <3>1, <3>2, Zenon
  <2> QED BY <1>9, <2>1, <2>2 DEF StateOK
<1>12. ProjectionMatchesDocument
  <2>1. InputNodes(doc) = {} BY <1>2, <1>6 DEF InputNodes
  <2>2. SelectableTables(doc) = {} BY <1>2, <1>6 DEF SelectableTables
  <2>3. DOMAIN state.inputs = {} /\ DOMAIN state.selections = {} /\ DOMAIN state.bindings = {}
    BY <1>9, <1>10
  <2>4. BindingsMatch(state, doc) BY <1>2, <1>6, <2>3 DEF BindingsMatch
  <2>5. SelectionsMatch(state, doc) BY <2>2, <2>3 DEF SelectionsMatch
  <2>6. FocusMatches(state, doc) /\ InputsMatch(state, doc)
    BY <1>9, <2>1, <2>3 DEF FocusMatches, InputsMatch
  <2> QED BY <2>4, <2>5, <2>6 DEF ProjectionMatchesDocument
<1> QED BY <1>7, <1>8, <1>11, <1>12 DEF ContentInv, Init

\* Every step keeps it.
LEMMA StepFacts == ASSUME ContentInv, [Next]_vars PROVE ContentInv'
<1>1. CASE AgentStep
  <2>1. token' \in Nat BY <1>1, AgentFacts DEF ContentInv
  <2>2. DocOK(doc') /\ Structural(doc') /\ StateOK(state') /\ Matches(state', doc')
    BY <1>1, AgentFacts
  <2> QED BY <2>1, <2>2 DEF ContentInv, ProjectionMatchesDocument, Matches
<1>2. CASE TerminalStep
  <2>1. doc' = doc /\ token' = token /\ StateOK(state') /\ Matches(state', doc)
    BY <1>2, TerminalFacts
  <2>2. DocOK(doc) /\ Structural(doc) /\ token \in Nat BY DEF ContentInv
  <2> QED BY <2>1, <2>2 DEF ContentInv, ProjectionMatchesDocument, Matches
<1>3. CASE UNCHANGED vars
  <2>1. doc' = doc /\ state' = state /\ token' = token BY <1>3 DEF vars
  <2> QED BY <2>1 DEF ContentInv, ProjectionMatchesDocument
<1> QED BY <1>1, <1>2, <1>3 DEF Next

------------------------------------------------------------------------------
(* An upsert sent again                                                      *)

\* Taking out what insertChild has put in.
LEMMA RemoveInserted ==
  ASSUME NEW S, NEW b \in Seq(S), NEW id \in S, id \notin ToSet(b), NEW index
  PROVE  removeChild(insertChild(b, id, index), id) = b
<1> DEFINE N == Len(b)
<1>0. N \in Nat /\ DOMAIN b = 1..N /\ \A j \in 1..N : b[j] \in S BY LenProperties
<1>1. \A j \in 1..N : b[j] # id BY <1>0 DEF ToSet
<1>2. PICK out : out = insertChild(b, id, index) OBVIOUS
<1>3. \E i \in 1..(N + 1) : Inserted(out, S, b, id, i) BY <1>2, InsertPlace
<1>4. PICK i \in 1..(N + 1) :
        /\ out \in Seq(S) /\ Len(out) = N + 1
        /\ out[i] = id
        /\ \A j \in 1..(i - 1) : out[j] = b[j]
        /\ \A j \in (i + 1)..(N + 1) : out[j] = b[j - 1]
  BY <1>3 DEF Inserted
<1>5. PICK loop : RemovalLoop(loop, S, out, id) BY <1>4, RemoveChildLoop
<1>6. /\ loop[0] = <<>> /\ removeChild(out, id) = loop[N + 1]
      /\ \A k \in 1..(N + 1) :
           loop[k] = IF out[k] # id THEN Append(loop[k - 1], out[k]) ELSE loop[k - 1]
  BY <1>4, <1>5 DEF RemovalLoop
<1>7. ASSUME NEW k \in 1..N PROVE Append(SubSeq(b, 1, k - 1), b[k]) = SubSeq(b, 1, k)
  <2>1. SubSeq(b, 1, k) = SubSeq(b, 1, k - 1) \o <<b[k]>>
    <3>1. 1 \in 1..N /\ k \in 1..N BY <1>0
    <3> QED BY <3>1, SubSeqRecursiveSecond
  <2>2. SubSeq(b, 1, k - 1) \in Seq(S)
    <3>1. k - 1 \in Int /\ 1 \in Int /\ \A j \in 1..(k - 1) : b[j] \in S BY <1>0
    <3> QED BY <3>1, SubSeqProperties
  <2>3. b[k] \in S BY <1>0
  <2> QED BY <2>1, <2>2, <2>3, AppendIsConcat
<1> DEFINE T == {k \in Nat : loop[k] = SubSeq(b, 1, IF k < i THEN k ELSE k - 1)}
<1>8. 0 \in T
  <2>1. SubSeq(b, 1, 0) = <<>> BY SubSeqEmpty
  <2>2. (IF 0 < i THEN 0 ELSE 0 - 1) = 0 OBVIOUS
  <2> QED BY <1>6, <2>1, <2>2
<1>9. ASSUME NEW k \in 0..((N + 1) - 1), k \in T PROVE k + 1 \in T
  <2>0. k + 1 \in 1..(N + 1) /\ (k + 1) - 1 = k /\ k + 1 \in Nat BY <1>0
  <2>1. PICK s : s = loop[k] OBVIOUS
  <2>2. loop[k + 1] = IF out[k + 1] # id THEN Append(s, out[k + 1]) ELSE s
    BY <1>6, <2>0, <2>1
  <2>3. CASE k + 1 < i
    <3>1. s = SubSeq(b, 1, k) BY <1>9, <2>1, <2>3
    <3>2. k + 1 \in 1..(i - 1) /\ k + 1 \in 1..N BY <1>0, <2>3
    <3>3. out[k + 1] = b[k + 1] BY <1>4, <3>2
    <3>4. b[k + 1] # id BY <1>1, <3>2
    <3>5. loop[k + 1] = Append(s, b[k + 1]) BY <2>2, <3>3, <3>4
    <3>6. loop[k + 1] = SubSeq(b, 1, k + 1) BY <1>7, <2>0, <3>1, <3>2, <3>5
    <3> QED BY <2>0, <2>3, <3>6
  <2>4. CASE k + 1 = i
    <3>1. s = SubSeq(b, 1, k) BY <1>9, <2>1, <2>4
    <3>2. loop[k + 1] = s BY <1>4, <2>2, <2>4
    <3>3. loop[k + 1] = SubSeq(b, 1, (k + 1) - 1) BY <2>0, <3>1, <3>2
    <3> QED BY <2>0, <2>4, <3>3
  <2>5. CASE k + 1 > i
    <3>1. s = SubSeq(b, 1, k - 1) BY <1>9, <2>1, <2>5
    <3>2. k + 1 \in (i + 1)..(N + 1) /\ k \in 1..N BY <1>0, <2>5
    <3>3. out[k + 1] = b[k] BY <1>4, <2>0, <3>2
    <3>4. b[k] # id BY <1>1, <3>2
    <3>5. loop[k + 1] = Append(s, b[k]) BY <2>2, <3>3, <3>4
    <3>6. loop[k + 1] = SubSeq(b, 1, k) BY <1>7, <3>1, <3>2, <3>5
    <3>7. (IF k + 1 < i THEN k + 1 ELSE (k + 1) - 1) = k BY <2>5
    <3> QED BY <2>0, <3>6, <3>7
  <2> QED BY <1>0, <2>3, <2>4, <2>5
<1>10. \A k \in 0..(N + 1) : k \in T
  <2>1. N + 1 \in Nat BY <1>0
  <2> HIDE DEF T, N
  <2> QED BY <1>8, <1>9, <2>1, InductionUpTo
<1>11. loop[N + 1] = SubSeq(b, 1, N)
  <2>1. N + 1 \in T BY <1>0, <1>10
  <2>2. ~ (N + 1 < i) BY <1>0
  <2>3. (N + 1) - 1 = N BY <1>0
  <2>4. loop[N + 1] = SubSeq(b, 1, (N + 1) - 1) BY <2>1, <2>2, Zenon
  <2> QED BY <2>3, <2>4, Zenon
<1>12. SubSeq(b, 1, N) = b BY SubSeqFull
<1> QED BY <1>2, <1>6, <1>11, <1>12

\* What an upsert leaves behind: the node under its target with exactly what
\* the operation says, and where the operation says in the list of children.
LEMMA Upserted ==
  ASSUME NEW d, DocOK(d), LocalTree(d), Rooted(d), NEW op \in Operations,
         op.op = "upsert", UpsertOk(d, op), NEW e, e = Candidate(d, op)
  PROVE  LET n == e.nodes[op.id]
             t == TargetParent(d, op)
         IN /\ op.id \in DOMAIN e.nodes /\ n.type = op.type /\ n.parent = t
            /\ n.props = FullProps(op.type, op.props) /\ n.explicit = explicitPropKeys(op.props)
            /\ op.index # <<>> => ListedAt(e.nodes[t].children, op.id, op.index)
<1> DEFINE D == DOMAIN d.nodes
<1> DEFINE id == op.id
<1>0. PICK t : t = TargetParent(d, op) OBVIOUS
<1>1. PICK p, q : p = FullProps(op.type, op.props) /\ q = explicitPropKeys(op.props) OBVIOUS
<1>2. id \in AllIds BY OperationFacts
<1>3. CASE id \in D
  <2>1. PICK m : m = Relocated(d, op) OBVIOUS
  <2>2. Rearranged(m, d.nodes) BY <1>2, <2>1, RelocatedContent DEF DocOK
  <2>3. Placed(m, d, id, t) /\ (op.index # <<>> => ListedAt(m[t].children, id, op.index))
    BY <1>0, <1>2, <1>3, <2>1, RelocatedTree
  <2>4. DOMAIN m = D /\ m[id].parent = t BY <1>3, <2>3 DEF Placed
  <2>5. t # id /\ t \in D
    <3>1. t \in D /\ t \notin Subtree(d, id) BY <1>0, <1>3, TargetFacts
    <3>2. id \in Subtree(d, id) BY <1>3, HangsOn
    <3> QED BY <3>1, <3>2
  <2>6. PICK kept : kept = IF TypeChanged(d, op) THEN 0 ELSE m[id].text OBVIOUS
  <2>7. PICK total : total = d.totalText - (m[id].text - kept) OBVIOUS
  <2>8. PICK n : n = [m[id] EXCEPT !.type = op.type, !.props = p, !.explicit = q, !.text = kept]
    OBVIOUS
  <2>9. PICK nodes : nodes = [m EXCEPT ![id] = n] OBVIOUS
  <2>10. e = Replaced(d, op) BY <1>3 DEF Candidate
  <2>11. e = [d EXCEPT !.totalText = total, !.nodes = nodes]
    BY <1>1, <2>1, <2>6, <2>7, <2>8, <2>9, <2>10, Zenon DEF Replaced
  <2>12. e.nodes = nodes BY <2>11 DEF DocOK
  <2>13. n.type = op.type /\ n.parent = m[id].parent /\ n.props = p /\ n.explicit = q
    <3>1. PICK o : o = m[id] OBVIOUS
    <3>2. NodeOK(o) BY <1>3, <2>2, <3>1 DEF Rearranged, NodesOK
    <3>3. n = [type |-> op.type, parent |-> o.parent, children |-> o.children,
               props |-> p, explicit |-> q, text |-> kept]
      BY <2>8, <3>1, <3>2 DEF NodeOK
    <3> QED BY <3>1, <3>3
  <2>14. id \in DOMAIN nodes /\ nodes[id] = n /\ nodes[t] = m[t]
    BY <1>3, <2>4, <2>5, <2>9
  <2> QED BY <1>0, <1>1, <2>3, <2>4, <2>12, <2>13, <2>14
<1>4. CASE id \notin D
  <2>1. t \in D BY <1>0, <1>4 DEF UpsertOk
  <2>2. PICK new : new = Node(op.type, t, op.props) OBVIOUS
  <2>3. new.type = op.type /\ new.parent = t /\ new.props = p /\ new.explicit = q
    BY <1>1, <2>2 DEF Node
  <2>4. PICK F : F = [x \in DOMAIN d.nodes \cup {op.id} |->
           IF x = op.id THEN Node(op.type, t, op.props)
           ELSE IF x = t
           THEN [d.nodes[x] EXCEPT !.children = insertChild(@, op.id, op.index)]
           ELSE d.nodes[x]]
    OBVIOUS
  <2>5. e = Created(d, op) BY <1>4 DEF Candidate
  <2>6. e = [d EXCEPT !.nodes = F] BY <1>0, <2>4, <2>5, Zenon DEF Created
  <2>7. e.nodes = F BY <2>6 DEF DocOK
  <2>8. PICK s : s = d.nodes[t].children OBVIOUS
  <2>9. id \in DOMAIN F /\ F[id] = new BY <2>2, <2>4
  <2>10. F[t] = [d.nodes[t] EXCEPT !.children = insertChild(s, id, op.index)]
    BY <1>4, <2>1, <2>4, <2>8
  <2>11. F[t].children = insertChild(s, id, op.index)
    <3>1. PICK o, c : o = d.nodes[t] /\ c = insertChild(s, id, op.index) OBVIOUS
    <3>2. NodeOK(o) BY <2>1, <3>1 DEF DocOK, NodesOK
    <3>3. F[t] = [o EXCEPT !.children = c] BY <2>10, <3>1
    <3>4. F[t].children = c BY <3>2, <3>3 DEF NodeOK
    <3> QED BY <3>1, <3>4
  <2>12. ListedAt(F[t].children, id, op.index)
    <3>1. s \in Seq(AllIds) BY <2>1, <2>8, ChildList
    <3>2. id \notin ToSet(s) BY <1>4, <2>1, <2>8 DEF LocalTree, Kids
    <3> QED BY <2>11, <3>1, <3>2 DEF ListedAt
  <2> QED BY <1>0, <1>1, <2>3, <2>7, <2>9, <2>12
<1> QED BY <1>3, <1>4

\* On the document it has produced, the same upsert passes its guards and
\* makes the same nodes again.
LEMMA UpsertedAgain ==
  ASSUME NEW e, DocOK(e), LocalTree(e), Rooted(e), NEW op \in Operations,
         op.op = "upsert", op.id # "root", op.id \in DOMAIN e.nodes,
         e.nodes[op.id].type = op.type,
         e.nodes[op.id].props = FullProps(op.type, op.props),
         e.nodes[op.id].explicit = explicitPropKeys(op.props),
         op.parent # "" => e.nodes[op.id].parent = op.parent,
         op.index # <<>> => ListedAt(e.nodes[e.nodes[op.id].parent].children, op.id, op.index),
         NormalizeOk(op.type, op.props),
         validateTableLimits(Node(op.type, e.nodes[op.id].parent, op.props))
  PROVE  CandidateOk(e, op) /\ Candidate(e, op).nodes = e.nodes
<1> DEFINE id == op.id
<1>0. PICK n : n = e.nodes[id] OBVIOUS
<1>1. PICK t : t = n.parent OBVIOUS
<1>2. TargetParent(e, op) = t BY <1>0, <1>1 DEF TargetParent
<1>3. t \in DOMAIN e.nodes /\ id \in Kids(e, t) BY <1>0, <1>1, HasParent
<1>4. ~wouldCreateCycle(e, id, t)
  <2>1. t \notin Subtree(e, id) BY <1>0, <1>1, HangsOn
  <2>2. id \notin Lineage(e, t) BY <1>3, <2>1, HangsOn
  <2> QED BY <2>2 DEF wouldCreateCycle
<1>5. Container(e.nodes[t].type) BY <1>3 DEF LocalTree
<1>6. CandidateOk(e, op)
  <2>1. UpsertOk(e, op) BY <1>0, <1>1, <1>2, <1>3, <1>4, <1>5 DEF UpsertOk
  <2> QED BY <2>1 DEF CandidateOk
<1>7. Relocated(e, op) = e.nodes
  <2>1. CASE op.index = <<>> BY <1>0, <1>1, <1>2, <2>1 DEF Relocated
  <2>2. CASE op.index # <<>>
    <3>1. PICK s : s = e.nodes[t].children OBVIOUS
    <3>2. PICK b \in Seq(AllIds) : id \notin ToSet(b) /\ s = insertChild(b, id, op.index)
      BY <1>0, <1>1, <2>2, <3>1 DEF ListedAt
    <3>3. id \in AllIds BY OperationFacts
    <3>4. removeChild(s, id) = b BY <3>2, <3>3, RemoveInserted
    <3>5. insertChild(removeChild(s, id), id, op.index) = s BY <3>2, <3>4
    <3>6. Relocated(e, op) = [e.nodes EXCEPT ![t].children =
                                insertChild(removeChild(@, id), id, op.index)]
      BY <1>0, <1>1, <1>2, <2>2 DEF Relocated
    <3>7. Relocated(e, op) = [e.nodes EXCEPT ![t].children = s]
      BY <3>1, <3>5, <3>6
    <3>8. PICK o, nodes : o = e.nodes[t] /\ nodes = e.nodes OBVIOUS
    <3>9. [o EXCEPT !.children = s] = o
      <4>1. NodeOK(o) BY <1>3, <3>8 DEF DocOK, NodesOK
      <4> QED BY <3>1, <3>8, <4>1 DEF NodeOK
    <3>10. Relocated(e, op) = [nodes EXCEPT ![t] = o] BY <3>7, <3>8, <3>9
    <3>11. nodes = [x \in DOMAIN nodes |-> nodes[x]] BY <3>8 DEF DocOK, NodesOK
    <3>12. [nodes EXCEPT ![t] = o] = nodes BY <3>8, <3>11
    <3> QED BY <3>8, <3>10, <3>12
  <2> QED BY <2>1, <2>2
<1>8. Candidate(e, op).nodes = e.nodes
  <2>1. Candidate(e, op) = Replaced(e, op) BY DEF Candidate
  <2>2. ~TypeChanged(e, op) BY DEF TypeChanged
  <2>3. PICK p, q : p = FullProps(op.type, op.props) /\ q = explicitPropKeys(op.props) OBVIOUS
  <2>4. PICK new : new = [n EXCEPT !.type = op.type, !.props = p, !.explicit = q, !.text = n.text]
    OBVIOUS
  <2>5. new = n
    <3>1. NodeOK(n) BY <1>0 DEF DocOK, NodesOK
    <3>2. n.type = op.type /\ n.props = p /\ n.explicit = q BY <1>0, <2>3
    <3>3. new = [type |-> op.type, parent |-> n.parent, children |-> n.children,
                 props |-> p, explicit |-> q, text |-> n.text]
      BY <2>4, <3>1 DEF NodeOK
    <3> QED BY <3>1, <3>2, <3>3 DEF NodeOK
  <2>6. PICK nodes : nodes = [e.nodes EXCEPT ![id] = new] OBVIOUS
  <2>7. PICK total : total = e.totalText - (n.text - n.text) OBVIOUS
  <2>8. Replaced(e, op) = [e EXCEPT !.totalText = total, !.nodes = nodes]
    BY <1>0, <1>7, <2>2, <2>3, <2>4, <2>6, <2>7, Zenon DEF Replaced
  <2>9. Replaced(e, op).nodes = nodes BY <2>8 DEF DocOK
  <2>10. nodes = e.nodes
    <3>1. e.nodes = [x \in DOMAIN e.nodes |-> e.nodes[x]] BY DEF DocOK, NodesOK
    <3> QED BY <1>0, <2>5, <2>6, <3>1
  <2> QED BY <2>1, <2>9, <2>10
<1> QED BY <1>6, <1>8

\* Reducing an accepted upsert again is silent.
LEMMA ReducedAgain ==
  ASSUME NEW d, DocOK(d), Structural(d), NEW op \in Operations, op.op = "upsert",
         NEW once, once = Reduce(d, op), once.ok, NEW twice, twice = Reduce(once.doc, op)
  PROVE  twice.ok /\ ~twice.changed
<1>1. PICK c : c = Candidate(d, op) OBVIOUS
<1>2. CASE c.nodes = d.nodes
  <2>1. once.doc = d /\ once.changed = FALSE BY <1>1, <1>2 DEF Reduce
  <2> QED BY <2>1
<1>3. CASE c.nodes # d.nodes
  <2>1. PICK e : e = once.doc OBVIOUS
  <2>2. DocOK(e) /\ e.nodes = c.nodes BY <1>1, <2>1, ReduceFacts
  <2>3. Structural(e) BY <2>1, ReduceChecked
  <2>4. LocalTree(e) /\ Rooted(e) BY <2>2, <2>3, StructuralMeans
  <2>5. UpsertOk(d, op) BY <1>1 DEF Reduce, CandidateOk
  <2>6. LocalTree(d) /\ Rooted(d) BY StructuralMeans
  <2>7. PICK t : t = TargetParent(d, op) OBVIOUS
  <2>8. /\ op.id \in DOMAIN c.nodes /\ c.nodes[op.id].type = op.type
        /\ c.nodes[op.id].parent = t
        /\ c.nodes[op.id].props = FullProps(op.type, op.props)
        /\ c.nodes[op.id].explicit = explicitPropKeys(op.props)
        /\ op.index # <<>> => ListedAt(c.nodes[t].children, op.id, op.index)
    BY <1>1, <2>5, <2>6, <2>7, Upserted
  <2>9. op.parent # "" => t = op.parent BY <2>7 DEF TargetParent
  <2>10. /\ op.id # "root" /\ NormalizeOk(op.type, op.props)
         /\ validateTableLimits(Node(op.type, t, op.props))
    BY <2>5, <2>7 DEF UpsertOk
  <2>11. CandidateOk(e, op) /\ Candidate(e, op).nodes = e.nodes
    BY <2>2, <2>4, <2>8, <2>9, <2>10, UpsertedAgain
  <2> QED BY <2>1, <2>11 DEF Reduce
<1> QED BY <1>2, <1>3

------------------------------------------------------------------------------
(* Where the focus goes                                                      *)

\* s starts with the first focusable node of a subtree in tree preorder, and
\* is empty if there is none.
First(d, id, s) ==
  LET F == Subtree(d, id) \cap Focusable(d)
  IN /\ s = <<>> => F = {}
     /\ s # <<>> => Head(s) \in F /\ \A x \in F \ {Head(s)} : Before(d, Head(s), x)

\* A node's subtree is the node and the subtrees of its children.
LEMMA SubtreeSplits ==
  ASSUME NEW d, DocOK(d), LocalTree(d), Rooted(d), NEW id \in DOMAIN d.nodes
  PROVE  Subtree(d, id) = {id} \cup UNION {Subtree(d, c) : c \in Kids(d, id)}
<1> DEFINE D == DOMAIN d.nodes
<1> DEFINE U == {id} \cup UNION {Subtree(d, c) : c \in Kids(d, id)}
<1>1. IsFiniteSet(D) /\ \A x \in D : Kids(d, x) \subseteq D BY DEF DocOK, LocalTree
<1>2. /\ id \in Subtree(d, id) /\ ClosedUnder(Subtree(d, id), d)
      /\ \A C : id \in C /\ ClosedUnder(C, d) => Subtree(d, id) \subseteq C
  BY <1>1, SubtreeFacts
<1>3. ASSUME NEW c \in Kids(d, id)
      PROVE  /\ c \in Subtree(d, c) /\ ClosedUnder(Subtree(d, c), d)
             /\ Subtree(d, c) \subseteq Subtree(d, id)
  <2>1. c \in D BY <1>1
  <2>2. /\ c \in Subtree(d, c) /\ ClosedUnder(Subtree(d, c), d)
        /\ \A C : c \in C /\ ClosedUnder(C, d) => Subtree(d, c) \subseteq C
    BY <1>1, <2>1, SubtreeFacts
  <2>3. c \in Subtree(d, id) BY <1>2 DEF ClosedUnder
  <2> QED BY <1>2, <2>2, <2>3
<1>4. ClosedUnder(U, d)
  <2>1. ASSUME NEW x \in U \cap D, NEW y \in Kids(d, x) PROVE y \in U
    <3>1. CASE x = id BY <1>3, <2>1, <3>1
    <3>2. CASE x # id
      <4>1. PICK c \in Kids(d, id) : x \in Subtree(d, c) BY <3>2
      <4>2. y \in Subtree(d, c) BY <1>3, <2>1, <4>1 DEF ClosedUnder
      <4> QED BY <4>1, <4>2
    <3> QED BY <3>1, <3>2
  <2> QED BY <2>1 DEF ClosedUnder
<1>5. Subtree(d, id) \subseteq U BY <1>2, <1>4
<1>6. U \subseteq Subtree(d, id) BY <1>2, <1>3
<1> QED BY <1>5, <1>6

\* A visit that has the first focusable node of each child's subtree has that
\* of the node's own.
LEMMA VisitFirst ==
  ASSUME NEW d, DocOK(d), LocalTree(d), Rooted(d), NEW id \in DOMAIN d.nodes,
         NEW w \in Walks(d), \A c \in Kids(d, id) : First(d, c, w[c]),
         NEW out, out = Own(d, id) \o FlattenSeq(Below(d, id, w))
  PROVE  First(d, id, out)
<1> DEFINE D == DOMAIN d.nodes
<1> DEFINE F == Subtree(d, id) \cap Focusable(d)
<1>0. ChildrenExist(d) BY DEF LocalTree, ChildrenExist, Kids
<1>1. id \in Subtree(d, id) /\ Subtree(d, id) \subseteq D
      /\ \A x \in D : x \in Subtree(d, id) <=> id \in Lineage(d, x)
  BY HangsOn
<1>2. PICK S, seqs, rest, children :
        /\ S = Focusable(d) /\ seqs = Below(d, id, w) /\ rest = FlattenSeq(seqs)
        /\ children = d.nodes[id].children
  OBVIOUS
<1>3. /\ seqs \in Seq(Seq(S)) /\ Len(seqs) = Len(children) /\ children \in Seq(D)
      /\ \A i \in 1..Len(children) : seqs[i] = w[children[i]]
  <2>1. /\ Below(d, id, w) \in Seq(Seq(Focusable(d)))
        /\ Len(Below(d, id, w)) = Len(d.nodes[id].children)
        /\ d.nodes[id].children \in Seq(D)
        /\ \A i \in 1..Len(d.nodes[id].children) :
             Below(d, id, w)[i] = w[d.nodes[id].children[i]]
    BY <1>0, BelowOK
  <2> QED BY <1>2, <2>1, Zenon
<1>4. rest \in Seq(S) /\ HeadOf(rest, seqs, Len(seqs)) BY <1>2, <1>3, FlattenHead
<1>5. Len(children) \in Nat /\ DOMAIN children = 1..Len(children)
      /\ \A i \in 1..Len(children) : children[i] \in Kids(d, id) /\ children[i] \in D
  <2>1. Len(children) \in Nat /\ DOMAIN children = 1..Len(children) BY <1>3, LenProperties
  <2>2. Kids(d, id) = {children[i] : i \in DOMAIN children} BY <1>2 DEF Kids, ToSet
  <2>3. \A i \in 1..Len(children) : children[i] \in D BY <1>3
  <2> QED BY <2>1, <2>2, <2>3
<1>6. CASE focusable(d.nodes[id])
  <2>1. id # "root" BY <1>6 DEF LocalTree, focusable
  <2>2. Own(d, id) = <<id>> /\ id \in S BY <1>2, <1>6, <2>1 DEF Own, Focusable
  <2>3. out = <<id>> \o rest BY <1>2, <2>2
  <2>4. out # <<>> /\ Head(out) = id
    <3>0. PICK own : own = <<id>> OBVIOUS
    <3>1. own \in Seq(S) /\ own # <<>> /\ Len(own) = 1 /\ own[1] = id BY <2>2, <3>0
    <3>2. out = own \o rest BY <2>3, <3>0
    <3>3. out \in Seq(S) /\ out # <<>> BY <1>4, <3>1, <3>2, ConcatProperties, ConcatEqualIffEmpty
    <3>4. 1 \in 1..(Len(own) + Len(rest)) /\ 1 <= Len(own) BY <1>4, <3>1
    <3>5. out[1] = own[1] BY <1>4, <3>2, <3>4, ConcatProperties
    <3> QED BY <3>1, <3>3, <3>5
  <2>5. id \in F BY <1>1, <1>2, <2>2
  <2>6. ASSUME NEW x \in F \ {id} PROVE Before(d, id, x) BY <1>1, <2>6 DEF Before
  <2> QED BY <2>4, <2>5, <2>6 DEF First
<1>7. CASE ~focusable(d.nodes[id])
  <2>1. Own(d, id) = <<>> BY <1>7 DEF Own
  <2>2. out = rest BY <1>2, <1>4, <2>1, ConcatEmptySeq
  <2>3. id \notin F BY <1>7 DEF Focusable
  <2>4. \A x \in F : \E j \in 1..Len(children) : x \in Subtree(d, children[j]) \cap S
    <3> TAKE x \in F
    <3>1. x # id /\ x \in S BY <1>2, <2>3
    <3>2. PICK c \in Kids(d, id) : x \in Subtree(d, c) BY <3>1, SubtreeSplits
    <3>3. PICK j \in 1..Len(children) : children[j] = c BY <1>2, <1>5, <3>2 DEF Kids, ToSet
    <3> QED BY <3>1, <3>2, <3>3
  <2>5. \A j \in 1..Len(children) : Subtree(d, children[j]) \cap S \subseteq F
    BY <1>2, <1>5, SubtreeSplits
  <2>6. \A j \in 1..Len(children) : First(d, children[j], seqs[j]) BY <1>3, <1>5
  <2>7. CASE rest = <<>>
    <3>1. \A j \in 1..Len(children) : seqs[j] = <<>> BY <1>3, <1>4, <2>7 DEF HeadOf
    <3>2. \A j \in 1..Len(children) : Subtree(d, children[j]) \cap S = {}
      BY <1>2, <2>6, <3>1 DEF First
    <3>3. F = {} BY <2>4, <3>2
    <3> QED BY <2>2, <2>7, <3>3 DEF First
  <2>8. CASE rest # <<>>
    <3>1. PICK i \in 1..Len(children) :
            /\ seqs[i] # <<>> /\ Head(rest) = Head(seqs[i])
            /\ \A j \in 1..(i - 1) : seqs[j] = <<>>
      BY <1>3, <1>4, <2>8 DEF HeadOf
    <3>2. PICK h : h = Head(rest) OBVIOUS
    <3>3. /\ h \in Subtree(d, children[i]) \cap S
          /\ \A x \in (Subtree(d, children[i]) \cap S) \ {h} : Before(d, h, x)
      BY <1>2, <2>6, <3>1, <3>2 DEF First
    <3>4. h \in F BY <2>5, <3>3
    <3>5. ASSUME NEW x \in F \ {h} PROVE Before(d, h, x)
      <4>1. PICK j \in 1..Len(children) : x \in Subtree(d, children[j]) \cap S BY <2>4
      <4>2. CASE j = i BY <3>3, <3>5, <4>1, <4>2
      <4>3. CASE j < i
        <5>1. j \in 1..(i - 1) BY <4>3
        <5>2. seqs[j] = <<>> BY <3>1, <5>1
        <5>3. Subtree(d, children[j]) \cap S = {} BY <1>2, <2>6, <5>2 DEF First
        <5> QED BY <4>1, <5>3
      <4>4. CASE i < j
        <5>1. h \in D /\ x \in D BY <1>1, <3>4, <3>5
        <5>2. id \in Lineage(d, h) \cap Lineage(d, x) BY <1>1, <3>4, <3>5, <5>1
        <5>3. children[i] \in Lineage(d, h) BY <1>5, <3>3, <5>1, HangsOn
        <5>4. children[j] \in Lineage(d, x) BY <1>5, <4>1, <5>1, HangsOn
        <5> QED BY <1>2, <1>5, <4>4, <5>2, <5>3, <5>4 DEF Before
      <4>5. j = i \/ j < i \/ i < j BY <1>5
      <4> QED BY <4>2, <4>3, <4>4, <4>5
    <3> QED BY <2>2, <2>8, <3>2, <3>4, <3>5 DEF First
  <2> QED BY <2>7, <2>8
<1> QED BY <1>6, <1>7

\* One level down, the path to the root is longer by one.
LEMMA DeeperByOne ==
  ASSUME NEW d, DocOK(d), LocalTree(d), Rooted(d), NEW id \in DOMAIN d.nodes,
         NEW c \in Kids(d, id)
  PROVE  /\ Cardinality(Lineage(d, id)) \in Nat
         /\ Cardinality(Lineage(d, c)) = Cardinality(Lineage(d, id)) + 1
<1> DEFINE D == DOMAIN d.nodes
<1>1. c \in D /\ d.nodes[c].parent = id /\ IsFiniteSet(D) BY DEF LocalTree, DocOK
<1>2. \A e \in D : \A x \in D : x \in Subtree(d, e) <=> e \in Lineage(d, x) BY HangsOn
<1>3. Lineage(d, id) \subseteq D /\ Lineage(d, c) \subseteq D BY <1>1, LineageFacts
<1>4. c \notin Lineage(d, id)
  <2>1. c # "root"
    <3>1. CASE c = "root" 
      <4>1. d.nodes[c].parent = "" BY <3>1 DEF LocalTree
      <4>2. "" \notin D BY IdsAssumption DEF DocOK, AllIds
      <4> QED BY <1>1, <4>1, <4>2
    <3> QED BY <3>1
  <2>2. id \notin Subtree(d, c) BY <1>1, <2>1, HangsOn
  <2> QED BY <1>1, <1>2, <2>2
<1>5. Lineage(d, c) = Lineage(d, id) \cup {c}
  <2> DEFINE Up(C) == \A x \in C \cap D : d.nodes[x].parent \in D => d.nodes[x].parent \in C
  <2>1. /\ id \in Lineage(d, id) /\ Up(Lineage(d, id))
        /\ \A C : id \in C /\ Up(C) => Lineage(d, id) \subseteq C
    BY <1>1, LineageFacts
  <2>2. /\ c \in Lineage(d, c) /\ Up(Lineage(d, c))
        /\ \A C : c \in C /\ Up(C) => Lineage(d, c) \subseteq C
    BY <1>1, LineageFacts
  <2>3. Up(Lineage(d, id) \cup {c}) BY <1>1, <2>1
  <2>4. Lineage(d, c) \subseteq Lineage(d, id) \cup {c} BY <2>2, <2>3
  <2>5. id \in Lineage(d, c) BY <1>1, <2>2
  <2>6. Lineage(d, id) \subseteq Lineage(d, c) BY <2>1, <2>2, <2>5
  <2> QED BY <2>2, <2>4, <2>6
<1>6. IsFiniteSet(Lineage(d, id)) BY <1>1, <1>3, FS_Subset
<1> QED BY <1>4, <1>5, <1>6, FS_AddElement, FS_CardinalityType

\* The whole walk. A visit k levels deep is complete for the nodes with less
\* than k levels below them.
LEMMA WalkFirst ==
  ASSUME NEW d, DocOK(d), LocalTree(d), Rooted(d)
  PROVE  First(d, "root", FocusableIDs(d))
<1> DEFINE D == DOMAIN d.nodes
<1> DEFINE Depth(id) == Cardinality(Lineage(d, id))
<1>0. PICK N \in Nat : N = Cardinality(D) BY FS_CardinalityType DEF DocOK
<1>1. ChildrenExist(d) BY DEF LocalTree, ChildrenExist, Kids
<1>2. PICK r : FocusWalk(r, d) BY <1>1, FocusWalkExists
<1>3. /\ FocusableIDs(d) = r[N]["root"] /\ \A k \in 0..N : r[k] \in Walks(d)
      /\ \A k \in 1..N, id \in D : r[k][id] = Own(d, id) \o FlattenSeq(Below(d, id, r[k - 1]))
  BY <1>0, <1>2 DEF FocusWalk
<1>4. ASSUME NEW id \in D PROVE Depth(id) \in Nat /\ Depth(id) <= N /\ Depth(id) # 0
  <2>1. IsFiniteSet(D) /\ Lineage(d, id) \subseteq D /\ id \in Lineage(d, id)
    BY LineageFacts DEF DocOK
  <2>2. IsFiniteSet(Lineage(d, id)) /\ Depth(id) <= N BY <1>0, <2>1, FS_Subset
  <2> QED BY <2>1, <2>2, FS_CardinalityType, FS_EmptySet
<1> HIDE DEF Depth
<1> DEFINE T == {k \in 0..N : \A id \in D : N - Depth(id) < k => First(d, id, r[k][id])}
<1>5. 0 \in T BY <1>0, <1>4
<1>6. ASSUME NEW n \in 0..(N - 1), n \in T PROVE n + 1 \in T
  <2>1. n \in 0..N /\ n + 1 \in 1..N /\ n + 1 \in 0..N /\ (n + 1) - 1 = n BY <1>0
  <2>2. PICK w \in Walks(d) : w = r[n] BY <1>3, <2>1
  <2>3. ASSUME NEW id \in D, N - Depth(id) < n + 1 PROVE First(d, id, r[n + 1][id])
    <3>1. PICK out : out = r[n + 1][id] OBVIOUS
    <3>2. out = Own(d, id) \o FlattenSeq(Below(d, id, w)) BY <1>3, <2>1, <2>2, <3>1
    <3>3. ASSUME NEW c \in Kids(d, id) PROVE First(d, c, w[c])
      <4>1. c \in D BY DEF LocalTree
      <4>2. Depth(c) = Depth(id) + 1 BY DeeperByOne DEF Depth
      <4>3. N - Depth(c) < n BY <1>0, <1>4, <2>3, <4>2
      <4> QED BY <1>6, <2>2, <4>1, <4>3
    <3> QED BY <3>1, <3>2, <3>3, VisitFirst
  <2> QED BY <2>1, <2>3
<1>7. \A n \in 0..N : n \in T
  <2> HIDE DEF T
  <2> QED BY <1>0, <1>5, <1>6, InductionUpTo
<1>8. "root" \in D /\ N \in 0..N /\ N - Depth("root") < N
  <2>1. "root" \in D BY DEF LocalTree
  <2>2. PICK m \in Nat : m = Depth("root") /\ m # 0 BY <1>4, <2>1
  <2> QED BY <1>0, <2>1, <2>2
<1> QED BY <1>3, <1>7, <1>8

\* firstFocusable of a tree.
LEMMA FirstOfAll ==
  ASSUME NEW d, DocOK(d), Structural(d)
  PROVE  LET left == Focusable(d)
             new == firstFocusable(d)
         IN IF left = {} THEN new = ""
            ELSE new \in left /\ \A x \in left \ {new} : Before(d, new, x)
<1>1. LocalTree(d) /\ Rooted(d) BY StructuralMeans
<1>2. PICK ids : ids = FocusableIDs(d) OBVIOUS
<1>3. First(d, "root", ids) BY <1>1, <1>2, WalkFirst
<1>4. Subtree(d, "root") \cap Focusable(d) = Focusable(d) BY DEF Structural, Focusable
<1>5. CASE ids = <<>>
  <2>1. Focusable(d) = {} BY <1>3, <1>4, <1>5 DEF First
  <2> QED BY <1>2, <1>5, <2>1 DEF firstFocusable
<1>6. CASE ids # <<>>
  <2>1. firstFocusable(d) = Head(ids) BY <1>2, <1>6 DEF firstFocusable
  <2>2. Head(ids) \in Focusable(d) /\ \A x \in Focusable(d) \ {Head(ids)} : Before(d, Head(ids), x)
    BY <1>3, <1>4, <1>6 DEF First
  <2> QED BY <2>1, <2>2
<1> QED BY <1>5, <1>6

\* Text does not decide what can have the focus.
LEMMA TextKeepsFocusable ==
  ASSUME NEW d, DocOK(d), NEW op, TextOk(d, op)
  PROVE  Focusable(Extended(d, op)) = Focusable(d)
<1>0. op.id \in DOMAIN d.nodes /\ NodeOK(d.nodes[op.id]) BY DEF DocOK, NodesOK, TextOk
<1>1. PICK old : old = d.nodes[op.id] OBVIOUS
<1>2. PICK n : n = [old EXCEPT !.text = @ + op.text] OBVIOUS
<1>3. n.type = old.type /\ n.props = old.props BY <1>0, <1>1, <1>2 DEF NodeOK
<1>4. PICK nodes : nodes = [d.nodes EXCEPT ![op.id] = n] OBVIOUS
<1>5. PICK total : total = d.totalText + op.text OBVIOUS
<1>6. PICK e : e = Extended(d, op) OBVIOUS
<1>7. e = [d EXCEPT !.nodes = nodes, !.totalText = total]
  BY <1>1, <1>2, <1>4, <1>5, <1>6 DEF Extended, DocOK
<1>8. e.nodes = nodes BY <1>7 DEF DocOK
<1>9. DOMAIN e.nodes = DOMAIN d.nodes BY <1>4, <1>8
<1>10. ASSUME NEW x \in DOMAIN d.nodes PROVE focusable(e.nodes[x]) <=> focusable(d.nodes[x])
  <2>1. CASE x = op.id
    <3>1. e.nodes[x] = n BY <1>4, <1>8, <2>1
    <3>2. focusable(n) <=> focusable(old) BY <1>3, Zenon DEF focusable, propBool
    <3> QED BY <1>1, <2>1, <3>1, <3>2
  <2>2. CASE x # op.id BY <1>4, <1>8, <2>2
  <2> QED BY <2>1, <2>2
<1> QED BY <1>6, <1>9, <1>10 DEF Focusable

\* What a rejected operation leaves, or what Reconcile makes of the focus.
LEMMA FocusOutcome ==
  ASSUME ContentInv, NEW op \in Operations,
         NEW e, e = Outcome(op).doc, NEW q, q = Outcome(op).state
  PROVE  \/ q = state
         \/ /\ CandidateOk(doc, op) /\ e.nodes = Candidate(doc, op).nodes
            /\ ReconcileOk(e, op) /\ q.focused = FocusAfter(state, doc, e, op)
<1>1. CASE q = state BY <1>1
<1>2. CASE q # state
  <2>1. PICK r : r = Reduce(doc, op) OBVIOUS
  <2>2. r.ok /\ ReconcileOk(r.doc, op) /\ e = r.doc /\ q = Reconcile(state, doc, r, op)
    BY <1>2, <2>1 DEF Outcome
  <2>3. DocOK(doc) /\ Structural(doc) /\ StateOK(state) BY DEF ContentInv
  <2>4. CandidateOk(doc, op) /\ e.nodes = Candidate(doc, op).nodes
    BY <2>1, <2>2, <2>3, ReduceFacts
  <2>5. q.focused = FocusAfter(state, doc, e, op) BY <2>2, <2>3, ReconcileFacts
  <2> QED BY <2>2, <2>4, <2>5
<1> QED BY <1>1, <1>2

\* The focus goes from old to new by op, which made e of the document.
Moved(op, e, old, new) ==
  \/ op.op = "focus" /\ new = op.id
  \/ /\ old # ""
     /\ old \notin Focusable(e) \/ old \in Dropped(doc, op)
     /\ IF Focusable(e) = {} THEN new = ""
        ELSE new \in Focusable(e) /\ \A x \in Focusable(e) \ {new} : Before(e, new, x)

\* A moved focus has one of the causes.
LEMMA FocusCause ==
  ASSUME ContentInv, NEW op \in Operations,
         NEW e, e = Outcome(op).doc, NEW q, q = Outcome(op).state,
         NEW old, old = state.focused, NEW new, new = q.focused, old # new
  PROVE  Moved(op, e, old, new)
<1>1. /\ CandidateOk(doc, op) /\ e.nodes = Candidate(doc, op).nodes
      /\ ReconcileOk(e, op) /\ new = FocusAfter(state, doc, e, op)
  BY FocusOutcome
<1>2. DocOK(e) /\ Structural(e) BY OutcomeFacts
<1>3. "" \notin Focusable(e) BY <1>2, IdsAssumption DEF DocOK, AllIds, Focusable
<1>4. CASE op.op = "focus"
  <2>1. op.id \in Focusable(e) BY <1>1, <1>4 DEF ReconcileOk
  <2>2. new = op.id BY <1>1, <1>3, <1>4, <2>1 DEF FocusAfter
  <2> QED BY <1>4, <2>2 DEF Moved
<1>5. CASE op.op # "focus"
  <2>1. PICK wanted : wanted = IF old \in Dropped(doc, op) THEN "" ELSE old OBVIOUS
  <2>2. PICK kept : kept = IF wanted \in Focusable(e) THEN wanted ELSE "" OBVIOUS
  <2>3. new = IF old # "" /\ kept = "" /\ op.op \in {"remove", "props", "upsert"}
              THEN firstFocusable(e) ELSE kept
    BY <1>1, <1>5, <2>1, <2>2 DEF FocusAfter
  <2>4. old # ""
    <3>1. SUFFICES ASSUME old = "" PROVE FALSE OBVIOUS
    <3>2. wanted = "" /\ kept = "" BY <2>1, <2>2, <3>1
    <3> QED BY <2>3, <3>1, <3>2
  <2>5. old \notin Focusable(e) \/ old \in Dropped(doc, op)
    <3>1. SUFFICES ASSUME old \in Focusable(e), old \notin Dropped(doc, op) PROVE FALSE OBVIOUS
    <3>2. kept = old BY <2>1, <2>2, <3>1
    <3> QED BY <2>3, <2>4, <3>2
  <2>6. kept = "" BY <1>3, <2>1, <2>2, <2>5
  <2>7. op.op \in {"remove", "props", "upsert"}
    <3>1. SUFFICES ASSUME op.op \in {"text", "commit"} PROVE FALSE
      BY <1>5, OperationFacts
    <3>2. DocOK(doc) /\ old \in Focusable(doc)
      BY <2>4 DEF ContentInv, ProjectionMatchesDocument, FocusMatches
    <3>3. old \notin Dropped(doc, op) BY <3>1 DEF Dropped, Removed, TypeChanged
    <3>4. CASE op.op = "text"
      <4>1. TextOk(doc, op) /\ Candidate(doc, op) = Extended(doc, op)
        BY <1>1, <3>4 DEF CandidateOk, Candidate
      <4>2. Focusable(Extended(doc, op)) = Focusable(doc) BY <3>2, <4>1, TextKeepsFocusable
      <4>3. Focusable(e) = Focusable(Extended(doc, op)) BY <1>1, <4>1 DEF Focusable
      <4> QED BY <2>5, <3>2, <3>3, <4>2, <4>3
    <3>5. CASE op.op = "commit"
      <4>1. e.nodes = doc.nodes BY <1>1, <3>5 DEF Candidate
      <4>2. Focusable(e) = Focusable(doc) BY <4>1 DEF Focusable
      <4> QED BY <2>5, <3>2, <3>3, <4>2
    <3> QED BY <3>1, <3>4, <3>5
  <2>8. new = firstFocusable(e) BY <2>3, <2>4, <2>6, <2>7
  <2>9. IF Focusable(e) = {} THEN new = ""
        ELSE new \in Focusable(e) /\ \A x \in Focusable(e) \ {new} : Before(e, new, x)
    BY <1>2, <2>8, FirstOfAll
  <2> QED BY <2>4, <2>5, <2>9 DEF Moved
<1> QED BY <1>4, <1>5

------------------------------------------------------------------------------
(* Nodes keep to the schema of their type                                    *)

Typed(nodes) == \A id \in DOMAIN nodes : NodeTypeOK(nodes[id])

\* Defaults are allowed properties.
LEMMA DefaultsAllowed ==
  ASSUME NEW t \in NodeTypes
  PROVE  DOMAIN defaults[t] \subseteq allowedProps[t] \ {"force"}
<1>1. CASE t = "box" BY <1>1 DEF defaults, allowedProps, NodeTypes
<1>2. CASE t = "text" BY <1>2 DEF defaults, allowedProps, NodeTypes
<1>3. CASE t = "viewport" BY <1>3 DEF defaults, allowedProps, NodeTypes
<1>4. CASE t = "table" BY <1>4 DEF defaults, allowedProps, NodeTypes
<1>5. CASE t = "input" BY <1>5 DEF defaults, allowedProps, NodeTypes
<1>6. CASE t = "actions" BY <1>6 DEF defaults, allowedProps, NodeTypes
<1>7. CASE t = "progress" BY <1>7 DEF defaults, allowedProps, NodeTypes
<1> QED BY <1>1, <1>2, <1>3, <1>4, <1>5, <1>6, <1>7 DEF NodeTypes

\* NormalizeProps and MergeNormalized stay between defaults and allowedProps.
LEMMA PropsTyped ==
  ASSUME NEW t \in NodeTypes, NEW patch, Allowed(t, patch)
  PROVE  /\ LET p == FullProps(t, patch) IN
            /\ DOMAIN defaults[t] \subseteq DOMAIN p
            /\ DOMAIN p \subseteq allowedProps[t] \ {"force"}
            /\ explicitPropKeys(patch) \subseteq DOMAIN p
         /\ \A old : LET p == Merge(old, Retained(patch)) IN
              /\ DOMAIN old \subseteq DOMAIN p
              /\ DOMAIN old \subseteq allowedProps[t] \ {"force"}
                   => DOMAIN p \subseteq allowedProps[t] \ {"force"}
              /\ explicitPropKeys(patch) \subseteq DOMAIN p
<1>1. PICK ret : ret = Retained(patch) OBVIOUS
<1>2. DOMAIN ret = DOMAIN patch \ {"force"} BY <1>1 DEF Retained, Without
<1>3. DOMAIN ret \subseteq allowedProps[t] \ {"force"} BY <1>2 DEF Allowed
<1>4. \A old : DOMAIN Merge(old, ret) = DOMAIN old \cup DOMAIN ret BY DEF Merge
<1>5. explicitPropKeys(patch) = DOMAIN ret BY <1>1 DEF explicitPropKeys
<1>6. FullProps(t, patch) = Merge(defaults[t], ret) BY <1>1 DEF FullProps
<1>7. DOMAIN defaults[t] \subseteq allowedProps[t] \ {"force"} BY DefaultsAllowed
<1>8. PICK p : p = FullProps(t, patch) OBVIOUS
<1>9. DOMAIN p = DOMAIN defaults[t] \cup DOMAIN ret BY <1>4, <1>6, <1>8
<1>10. /\ DOMAIN defaults[t] \subseteq DOMAIN p
       /\ DOMAIN p \subseteq allowedProps[t] \ {"force"}
       /\ explicitPropKeys(patch) \subseteq DOMAIN p
  BY <1>3, <1>5, <1>7, <1>9
<1>11. ASSUME NEW old, NEW m, m = Merge(old, ret)
       PROVE  /\ DOMAIN old \subseteq DOMAIN m
              /\ DOMAIN old \subseteq allowedProps[t] \ {"force"}
                   => DOMAIN m \subseteq allowedProps[t] \ {"force"}
              /\ explicitPropKeys(patch) \subseteq DOMAIN m
  BY <1>3, <1>4, <1>5, <1>11
<1> QED BY <1>1, <1>8, <1>10, <1>11

\* Moving children leaves the schema of the nodes alone.
LEMMA RearrangedTyped ==
  ASSUME NEW m, NEW nodes, Rearranged(m, nodes), Typed(nodes)
  PROVE  Typed(m)
<1>1. DOMAIN m = DOMAIN nodes /\ \A id \in DOMAIN nodes : SameContent(m[id], nodes[id])
  BY DEF Rearranged
<1>2. ASSUME NEW id \in DOMAIN nodes PROVE NodeTypeOK(m[id])
  <2>1. PICK a, b : a = m[id] /\ b = nodes[id] OBVIOUS
  <2>2. NodeTypeOK(b) /\ SameContent(a, b) BY <1>1, <2>1 DEF Typed
  <2>3. NodeTypeOK(a) BY <2>2, Zenon DEF SameContent, NodeTypeOK
  <2> QED BY <2>1, <2>3
<1> QED BY <1>1, <1>2 DEF Typed

\* A node as its fields tell it.
LEMMA TypedByFields ==
  ASSUME NEW n, NEW t \in NodeTypes, NEW p, NEW q, NEW text \in 0..MaxTextBytesPerNode,
         n.type = t, n.props = p, n.explicit = q, n.text = text,
         DOMAIN defaults[t] \subseteq DOMAIN p, DOMAIN p \subseteq allowedProps[t] \ {"force"},
         q \subseteq DOMAIN p, t \notin {"text", "viewport"} => text = 0
  PROVE  NodeTypeOK(n)
BY Zenon DEF NodeTypeOK

\* Upserting a node that exists keeps to the schema.
LEMMA ReplacedTyped ==
  ASSUME NEW d, DocOK(d), Typed(d.nodes), NEW op \in Operations, op.op = "upsert",
         op.id \in DOMAIN d.nodes, UpsertOk(d, op)
  PROVE  Typed(Replaced(d, op).nodes)
<1>0. PICK moved : moved = Relocated(d, op) OBVIOUS
<1>1. Rearranged(moved, d.nodes) BY <1>0, OperationFacts, RelocatedContent DEF DocOK
<1>2. PICK kept : kept = IF TypeChanged(d, op) THEN 0 ELSE moved[op.id].text OBVIOUS
<1>3. PICK props, keys : props = FullProps(op.type, op.props) /\ keys = explicitPropKeys(op.props)
  OBVIOUS
<1>5. PICK total : total = d.totalText - (moved[op.id].text - kept) OBVIOUS
<1>6. PICK n : n = [moved[op.id] EXCEPT !.type = op.type, !.props = props,
                       !.explicit = keys, !.text = kept]
  OBVIOUS
<1>7. PICK nodes : nodes = [moved EXCEPT ![op.id] = n] OBVIOUS
<1>8. Replaced(d, op) = [d EXCEPT !.totalText = total, !.nodes = nodes]
  BY <1>0, <1>2, <1>3, <1>5, <1>6, <1>7, Zenon DEF Replaced
<1>9. Typed(moved) /\ DOMAIN moved = DOMAIN d.nodes BY <1>1, RearrangedTyped DEF Rearranged
<1>10. NodeTypeOK(n)
  <2>1. PICK old : old = moved[op.id] OBVIOUS
  <2>2. NodeOK(old) /\ NodeTypeOK(old) /\ old.type = d.nodes[op.id].type
    BY <1>1, <1>9, <2>1 DEF Rearranged, NodesOK, Typed, SameContent
  <2>3. n = [type |-> op.type, parent |-> old.parent, children |-> old.children,
             props |-> props, explicit |-> keys, text |-> kept]
    BY <1>6, <2>1, <2>2 DEF NodeOK
  <2>4. n.type = op.type /\ n.props = props /\ n.explicit = keys /\ n.text = kept BY <2>3
  <2>5. op.type \in NodeTypes /\ Allowed(op.type, op.props)
    BY OperationFacts DEF UpsertOk, NormalizeOk
  <2>6. /\ DOMAIN defaults[op.type] \subseteq DOMAIN props
        /\ DOMAIN props \subseteq allowedProps[op.type] \ {"force"} /\ keys \subseteq DOMAIN props
    BY <1>3, <2>5, PropsTyped
  <2>7. 0 \in 0..MaxTextBytesPerNode BY LimitsAssumption
  <2>8. kept \in 0..MaxTextBytesPerNode /\ (op.type \notin {"text", "viewport"} => kept = 0)
    <3>1. CASE TypeChanged(d, op)
      <4>1. kept = 0 BY <1>2, <3>1
      <4> QED BY <2>7, <4>1
    <3>2. CASE ~TypeChanged(d, op)
      <4>1. kept = old.text /\ op.type = old.type BY <1>2, <2>1, <2>2, <3>2 DEF TypeChanged
      <4> QED BY <2>2, <4>1 DEF NodeTypeOK
    <3> QED BY <3>1, <3>2
  <2> QED BY <2>4, <2>5, <2>6, <2>8, TypedByFields
<1>11. Typed(nodes) BY <1>7, <1>9, <1>10 DEF Typed
<1>12. PICK c : c = Replaced(d, op) OBVIOUS
<1>13. c.nodes = nodes BY <1>8, <1>12 DEF DocOK
<1> QED BY <1>11, <1>12, <1>13

\* Upserting a new node keeps to the schema.
LEMMA CreatedTyped ==
  ASSUME NEW d, DocOK(d), Typed(d.nodes), NEW op \in Operations, op.op = "upsert",
         op.id \notin DOMAIN d.nodes, UpsertOk(d, op)
  PROVE  Typed(Created(d, op).nodes)
<1>0. PICK t : t = TargetParent(d, op) OBVIOUS
<1>1. PICK new : new = Node(op.type, t, op.props) OBVIOUS
<1>2. NodeTypeOK(new)
  <2>1. PICK props, keys : props = FullProps(op.type, op.props) /\ keys = explicitPropKeys(op.props)
    OBVIOUS
  <2>2. new.type = op.type /\ new.props = props /\ new.explicit = keys /\ new.text = 0
    BY <1>1, <2>1 DEF Node
  <2>3. op.type \in NodeTypes /\ Allowed(op.type, op.props)
    BY OperationFacts DEF UpsertOk, NormalizeOk
  <2>4. /\ DOMAIN defaults[op.type] \subseteq DOMAIN props
        /\ DOMAIN props \subseteq allowedProps[op.type] \ {"force"} /\ keys \subseteq DOMAIN props
    BY <2>1, <2>3, PropsTyped
  <2>5. 0 \in 0..MaxTextBytesPerNode BY LimitsAssumption
  <2> QED BY <2>2, <2>3, <2>4, <2>5, TypedByFields
<1>3. t \in DOMAIN d.nodes BY <1>0 DEF UpsertOk
<1>4. PICK c : c = insertChild(d.nodes[t].children, op.id, op.index) OBVIOUS
<1>5. PICK k : k = [d.nodes EXCEPT ![t].children = c] OBVIOUS
<1>6. Rearranged(k, d.nodes)
  <2>1. c \in Seq(AllIds)
    BY <1>3, <1>4, OperationFacts, InsertChildFacts DEF DocOK, NodesOK, NodeOK
  <2> QED BY <1>5, <2>1, PlaceOne DEF DocOK
<1>7. Typed(k) /\ DOMAIN k = DOMAIN d.nodes BY <1>6, RearrangedTyped DEF Rearranged
<1>8. PICK raw : raw = [id \in DOMAIN d.nodes \cup {op.id} |->
           IF id = op.id THEN Node(op.type, t, op.props)
           ELSE IF id = t
           THEN [d.nodes[id] EXCEPT !.children = insertChild(@, op.id, op.index)]
           ELSE d.nodes[id]]
  OBVIOUS
<1>9. \A id \in DOMAIN d.nodes \ {op.id} :
        k[id] = IF id = t
                THEN [d.nodes[id] EXCEPT !.children = insertChild(@, op.id, op.index)]
                ELSE d.nodes[id]
  BY <1>4, <1>5
<1>10. raw = [id \in DOMAIN d.nodes \cup {op.id} |-> IF id = op.id THEN new ELSE k[id]]
  BY <1>1, <1>8, <1>9
<1>11. Typed(raw) BY <1>2, <1>7, <1>10 DEF Typed
<1>12. Created(d, op) = [d EXCEPT !.nodes = raw] BY <1>0, <1>8, Zenon DEF Created
<1>13. PICK e : e = Created(d, op) OBVIOUS
<1>14. e.nodes = raw BY <1>12, <1>13 DEF DocOK
<1> QED BY <1>11, <1>13, <1>14

\* Changing properties keeps to the schema.
LEMMA PatchedTyped ==
  ASSUME NEW d, DocOK(d), Typed(d.nodes), NEW op \in Operations, op.op = "props", PropsOk(d, op)
  PROVE  Typed(Patched(d, op).nodes)
<1>0. /\ op.id \in DOMAIN d.nodes /\ NodeOK(d.nodes[op.id]) /\ NodeTypeOK(d.nodes[op.id])
      /\ MergeOk(d.nodes[op.id], op.props)
  BY DEF DocOK, NodesOK, PropsOk, Typed
<1>1. PICK old : old = d.nodes[op.id] OBVIOUS
<1>2. PICK props, keys : props = Merge(old.props, Retained(op.props))
                         /\ keys = explicitPropKeys(op.props)
  OBVIOUS
<1>3. PICK n : n = [old EXCEPT !.props = props, !.explicit = @ \cup keys] OBVIOUS
<1>4. NodeTypeOK(n)
  <2>1. /\ old.type \in NodeTypes /\ DOMAIN defaults[old.type] \subseteq DOMAIN old.props
        /\ DOMAIN old.props \subseteq allowedProps[old.type] \ {"force"}
        /\ old.explicit \subseteq DOMAIN old.props /\ old.text \in 0..MaxTextBytesPerNode
        /\ (old.type \notin {"text", "viewport"} => old.text = 0)
    BY <1>0, <1>1, Zenon DEF NodeTypeOK
  <2>2. Allowed(old.type, op.props) BY <1>0, <1>1 DEF MergeOk
  <2>3. /\ DOMAIN old.props \subseteq DOMAIN props
        /\ DOMAIN props \subseteq allowedProps[old.type] \ {"force"}
        /\ keys \subseteq DOMAIN props
    BY <1>2, <2>1, <2>2, PropsTyped
  <2>4. PICK all : all = old.explicit \cup keys OBVIOUS
  <2>5. n.type = old.type /\ n.props = props /\ n.explicit = all /\ n.text = old.text
    BY <1>0, <1>1, <1>3, <2>4 DEF NodeOK
  <2>6. DOMAIN defaults[old.type] \subseteq DOMAIN props /\ all \subseteq DOMAIN props
    BY <2>1, <2>3, <2>4
  <2> QED BY <2>1, <2>3, <2>5, <2>6, TypedByFields
<1>5. PICK nodes : nodes = [d.nodes EXCEPT ![op.id] = n] OBVIOUS
<1>6. Patched(d, op) = [d EXCEPT !.nodes = nodes]
  <2>1. Patched(d, op) = [d EXCEPT !.nodes[op.id] = n]
    BY <1>1, <1>2, <1>3, Zenon DEF Patched
  <2> QED BY <1>5, <2>1 DEF DocOK
<1>7. Typed(nodes) BY <1>4, <1>5 DEF Typed
<1>8. PICK c : c = Patched(d, op) OBVIOUS
<1>9. c.nodes = nodes BY <1>6, <1>8 DEF DocOK
<1> QED BY <1>7, <1>8, <1>9

\* Appending text keeps to the schema and the limit of a node.
LEMMA ExtendedTyped ==
  ASSUME NEW d, DocOK(d), Typed(d.nodes), NEW op \in Operations, op.op = "text", TextOk(d, op)
  PROVE  Typed(Extended(d, op).nodes)
<1>0. op.id \in DOMAIN d.nodes /\ NodeOK(d.nodes[op.id]) /\ NodeTypeOK(d.nodes[op.id])
  BY DEF DocOK, NodesOK, TextOk, Typed
<1>1. PICK old : old = d.nodes[op.id] OBVIOUS
<1>2. PICK n : n = [old EXCEPT !.text = @ + op.text] OBVIOUS
<1>3. NodeTypeOK(n)
  <2>1. /\ old.type \in NodeTypes /\ DOMAIN defaults[old.type] \subseteq DOMAIN old.props
        /\ DOMAIN old.props \subseteq allowedProps[old.type] \ {"force"}
        /\ old.explicit \subseteq DOMAIN old.props /\ old.text \in 0..MaxTextBytesPerNode
    BY <1>0, <1>1, Zenon DEF NodeTypeOK
  <2>2. PICK text : text = old.text + op.text OBVIOUS
  <2>3. n.type = old.type /\ n.props = old.props /\ n.explicit = old.explicit /\ n.text = text
    BY <1>0, <1>1, <1>2, <2>2 DEF NodeOK
  <2>4. text \in 0..MaxTextBytesPerNode /\ old.type \in {"text", "viewport"}
    <3>1. op.text \in Nat /\ MaxTextBytesPerNode \in Nat BY OperationFacts, LimitsAssumption
    <3>2. old.type \in {"text", "viewport"} BY <1>1 DEF TextOk
    <3>3. op.text # 0 => text <= MaxTextBytesPerNode BY <1>1, <2>2 DEF TextOk
    <3>4. old.text \in 0..MaxTextBytesPerNode BY <2>1
    <3> QED BY <2>2, <3>1, <3>2, <3>3, <3>4
  <2> QED BY <2>1, <2>3, <2>4, TypedByFields
<1>4. PICK nodes : nodes = [d.nodes EXCEPT ![op.id] = n] OBVIOUS
<1>5. PICK total : total = d.totalText + op.text OBVIOUS
<1>6. PICK c : c = Extended(d, op) OBVIOUS
<1>7. c = [d EXCEPT !.nodes = nodes, !.totalText = total]
  BY <1>1, <1>2, <1>4, <1>5, <1>6 DEF Extended, DocOK
<1>8. c.nodes = nodes BY <1>7 DEF DocOK
<1>9. Typed(nodes) BY <1>3, <1>4 DEF Typed
<1> QED BY <1>6, <1>8, <1>9

\* Removing nodes leaves the others as they are.
LEMMA SweptTyped ==
  ASSUME NEW d, DocOK(d), Typed(d.nodes), NEW op, RemoveOk(d, op)
  PROVE  Typed(Swept(d, op).nodes)
<1>1. PICK parent : parent = d.nodes[op.id].parent OBVIOUS
<1>2. PICK b : b = removeChild(d.nodes[parent].children, op.id) OBVIOUS
<1>3. PICK k : k = [d.nodes EXCEPT ![parent].children = b] OBVIOUS
<1>4. Rearranged(k, d.nodes)
  <2>1. parent \in DOMAIN d.nodes => b \in Seq(AllIds)
    BY <1>2, RemoveChildFacts DEF DocOK, NodesOK, NodeOK
  <2> QED BY <1>3, <2>1, PlaceOne DEF DocOK
<1>5. PICK gone : gone = Subtree(d, op.id) OBVIOUS
<1>6. PICK nodes : nodes = Without(k, gone) OBVIOUS
<1>7. PICK total : total = d.totalText - RemovedText(d, op) OBVIOUS
<1>8. Swept(d, op) = [d EXCEPT !.totalText = total, !.nodes = nodes]
  BY <1>1, <1>2, <1>3, <1>5, <1>6, <1>7, Zenon DEF Swept
<1>9. Typed(k) BY <1>4, RearrangedTyped
<1>10. Typed(nodes) BY <1>6, <1>9 DEF Typed, Without
<1>11. PICK c : c = Swept(d, op) OBVIOUS
<1>12. c.nodes = nodes BY <1>8, <1>11 DEF DocOK
<1> QED BY <1>10, <1>11, <1>12

\* The candidate of an accepted operation keeps to the schema.
LEMMA CandidateTyped ==
  ASSUME NEW d, DocOK(d), Typed(d.nodes), NEW op \in Operations, CandidateOk(d, op)
  PROVE  Typed(Candidate(d, op).nodes)
<1>1. CASE op.op = "upsert"
  BY <1>1, ReplacedTyped, CreatedTyped DEF CandidateOk, Candidate
<1>2. CASE op.op = "props" BY <1>2, PatchedTyped DEF CandidateOk, Candidate
<1>3. CASE op.op = "text" BY <1>3, ExtendedTyped DEF CandidateOk, Candidate
<1>4. CASE op.op = "remove" BY <1>4, SweptTyped DEF CandidateOk, Candidate
<1>5. CASE op.op \in {"focus", "commit"}
  <2>1. Candidate(d, op) = d BY <1>5 DEF Candidate
  <2> QED BY <2>1
<1> QED BY <1>1, <1>2, <1>3, <1>4, <1>5, OperationFacts

\* Every step of the agent and of the terminal.
LEMMA TypeStep == ASSUME ContentInv, StateTypeOK, [Next]_vars PROVE StateTypeOK'
<1>0. DocOK(doc) /\ StateOK(state) /\ token \in Nat BY DEF ContentInv
<1>1. CASE AgentStep
  <2>1. PICK op \in Operations : Apply(op) BY <1>1 DEF AgentStep
  <2>2. PICK e, q : e = Outcome(op).doc /\ q = Outcome(op).state OBVIOUS
  <2>3. doc' = e /\ state' = q BY <2>1, <2>2 DEF Apply
  <2>4. Typed(e.nodes)
    <3>1. CASE e = doc BY <3>1 DEF StateTypeOK, Typed
    <3>2. CASE e # doc
      <4>1. Reduce(doc, op).ok /\ e = Reduce(doc, op).doc BY <2>2, <3>2 DEF Outcome
      <4>2. CandidateOk(doc, op) /\ e.nodes = Candidate(doc, op).nodes
        BY <1>0, <4>1, ReduceFacts
      <4>3. Typed(doc.nodes) BY DEF StateTypeOK, Typed
      <4> QED BY <1>0, <4>2, <4>3, CandidateTyped
    <3> QED BY <3>1, <3>2
  <2>5. /\ Advances(doc, state, doc', state') /\ DocOK(doc') /\ StateOK(state')
        /\ \/ token' = token + 1
           \/ token' = token /\ state'.publicationGeneration = state.publicationGeneration
    BY <1>1, AgentFacts
  <2>6. PICK r, s, u, v, w, x :
          /\ r = doc.revision /\ s = doc'.revision /\ u = state.publicationGeneration
          /\ v = state'.publicationGeneration /\ w = token /\ x = token'
    OBVIOUS
  <2>7. r \in Nat /\ s \in Nat /\ u \in Nat /\ v \in Nat /\ w \in Nat
    BY <1>0, <2>5, <2>6 DEF DocOK, StateOK
  <2>8. state.dirtyRevision = r /\ r <= u /\ u <= w BY <2>6 DEF StateTypeOK
  <2>9. \/ s = r /\ v = u /\ state'.dirtyRevision = state.dirtyRevision
        \/ s = r + 1 /\ v = u + 1 /\ state'.dirtyRevision = r + 1
        \/ s = r /\ v = u + 1 /\ state'.dirtyRevision = state.dirtyRevision
    BY <2>5, <2>6 DEF Advances
  <2>10. x = w + 1 \/ (x = w /\ v = u) BY <2>5, <2>6
  <2>11. state'.dirtyRevision = s /\ s <= v /\ v <= x BY <2>7, <2>8, <2>9, <2>10
  <2> QED BY <2>3, <2>4, <2>6, <2>11 DEF StateTypeOK, Typed
<1>2. CASE TerminalStep
  <2>1. doc' = doc /\ token' = token /\ Redraws(state, state') BY <1>2, TerminalFacts
  <2>2. /\ state'.dirtyRevision = state.dirtyRevision
        /\ state'.publicationGeneration = state.publicationGeneration
    BY <2>1 DEF Redraws
  <2> QED BY <2>1, <2>2 DEF StateTypeOK
<1>3. CASE UNCHANGED vars
  <2>1. doc' = doc /\ state' = state /\ token' = token BY <1>3 DEF vars
  <2> QED BY <2>1 DEF StateTypeOK
<1> QED BY <1>1, <1>2, <1>3 DEF Next

------------------------------------------------------------------------------
(* Theorems                                                                  *)

\* The invariant holds of every reachable content.
LEMMA ContentInvariant == Spec => []ContentInv
<1>1. Init => ContentInv BY InitFacts
<1>2. ContentInv /\ [Next]_vars => ContentInv' BY StepFacts
<1> QED BY <1>1, <1>2, PTL DEF Spec

\* Type correctness: every node has the properties its type requires and only
\* those its type allows, without the one-shot force, and no more text than
\* its limit; the revision, the dirty revision, the publication generation and
\* the token never get out of step.
THEOREM StateTypeCorrect == Spec => []StateTypeOK
<1>1. Init => StateTypeOK
  <2> SUFFICES ASSUME Init PROVE StateTypeOK OBVIOUS
  <2>1. PICK n : n = Node("box", "", NoProps) OBVIOUS
  <2>2. doc.nodes = [id \in {"root"} |-> n] /\ doc.revision = 0
    BY <2>1 DEF Init, NewDocument
  <2>3. state.dirtyRevision = 0 /\ state.publicationGeneration = 0 /\ token = 0
    BY DEF Init, NewState
  <2>4. NodeTypeOK(n)
    <3>1. PICK props, keys : props = FullProps("box", NoProps) /\ keys = explicitPropKeys(NoProps)
      OBVIOUS
    <3>2. n.type = "box" /\ n.props = props /\ n.explicit = keys /\ n.text = 0
      BY <2>1, <3>1 DEF Node
    <3>3. "box" \in NodeTypes /\ Allowed("box", NoProps)
      <4>1. DOMAIN NoProps = {} BY EmptySeq DEF NoProps
      <4> QED BY <4>1 DEF Allowed, NodeTypes
    <3>4. /\ DOMAIN defaults["box"] \subseteq DOMAIN props
          /\ DOMAIN props \subseteq allowedProps["box"] \ {"force"} /\ keys \subseteq DOMAIN props
      BY <3>1, <3>3, PropsTyped
    <3>5. 0 \in 0..MaxTextBytesPerNode BY LimitsAssumption
    <3> QED BY <3>2, <3>3, <3>4, <3>5, TypedByFields
  <2>5. \A id \in DOMAIN doc.nodes : NodeTypeOK(doc.nodes[id]) BY <2>2, <2>4
  <2> QED BY <2>2, <2>3, <2>5 DEF StateTypeOK
<1>2. ContentInv /\ StateTypeOK /\ [Next]_vars => StateTypeOK' BY TypeStep
<1> QED BY <1>1, <1>2, ContentInvariant, PTL DEF Spec

\* The reducer keeps the tree by itself, for every vocabulary, limit and size
\* of tree: the candidate of every operation its guards accept, whatever was
\* created, moved, retyped or removed before, is connected to the root, without
\* a cycle, with each child listed once by its parent and under a container,
\* and its total of text is the sum over its nodes. The non-recoverable errors
\* of validateInvariants never occur.
THEOREM TreeKept == Spec => []ReducerKeepsTree
<1>1. ContentInv => ReducerKeepsTree
  <2>1. ContentInv => DocOK(doc) /\ Structural(doc) BY DEF ContentInv
  <2> QED BY <2>1, CandidateTree DEF ReducerKeepsTree
<1> QED BY <1>1, ContentInvariant, PTL

\* An upsert is idempotent: on the document it has produced it is accepted
\* again and changes nothing, so the revision does not move. Reduce compares
\* the candidate's nodes with the document's; insertChild after removeChild puts
\* the node back in the same place.
THEOREM UpsertsIdempotent == Spec => []UpsertIdempotent
<1>1. ContentInv => UpsertIdempotent
  <2> SUFFICES ASSUME ContentInv, NEW op \in Upserts, NEW once, once = Reduce(doc, op), once.ok
               PROVE  Reduce(once.doc, op).ok /\ ~Reduce(once.doc, op).changed
    BY DEF UpsertIdempotent
  <2>1. op \in Operations /\ op.op = "upsert" BY DEF Operations, Upserts
  <2>2. DocOK(doc) /\ Structural(doc) BY DEF ContentInv
  <2>3. PICK twice : twice = Reduce(once.doc, op) OBVIOUS
  <2>4. twice.ok /\ ~twice.changed BY <2>1, <2>2, <2>3, ReducedAgain
  <2> QED BY <2>3, <2>4
<1> QED BY <1>1, ContentInvariant, PTL

\* For every vocabulary of the agent and every limit, the projection speaks of
\* the current document: Reconcile, run before Apply returns, and the setters
\* of an attached terminal never leave an input without its value, a selection
\* on a row that is gone or under an old identity, a key bound to another
\* node's action, or the focus on a node that cannot have it.
THEOREM ProjectionMatches == Spec => []ProjectionMatchesDocument
<1>1. ContentInv => ProjectionMatchesDocument BY DEF ContentInv
<1> QED BY <1>1, ContentInvariant, PTL

\* The agent takes the focus away only by asking for it or by taking its node
\* away, and Reconcile then gives it to the first focusable node in tree
\* preorder; the focus is lost only when no focusable node is left. The order
\* is told from the paths to the root alone, so the theorem is also the
\* correctness of the walk of FocusableIDs.
THEOREM FocusMoves == Spec => []FocusMovesForCause
<1>1. ContentInv => FocusMovesForCause
  <2> SUFFICES ASSUME ContentInv, NEW op \in Operations,
                      NEW e, e = Outcome(op).doc, NEW q, q = Outcome(op).state,
                      NEW old, old = state.focused, NEW new, new = q.focused, old # new
               PROVE  Moved(op, e, old, new)
    BY DEF FocusMovesForCause, Moved
  <2> QED BY FocusCause
<1> QED BY <1>1, ContentInvariant, PTL

\* No operation of the agent overwrites what the user typed in a node that
\* stays an input, unless it carries force for that very node.
THEOREM InputSurvives == Spec => []UserInputSurvives
<1>1. ContentInv => UserInputSurvives
  <2> SUFFICES ASSUME ContentInv, NEW op \in Operations,
                      NEW id \in InputNodes(doc) \cap InputNodes(Outcome(op).doc),
                      Outcome(op).state.inputs[id] # state.inputs[id]
               PROVE  op.id = id /\ Forces(op)
    BY DEF UserInputSurvives
  <2>1. PICK e, q : e = Outcome(op).doc /\ q = Outcome(op).state OBVIOUS
  <2>2. Keeps(op, e, q) BY <2>1, OutcomeFacts
  <2> QED BY <2>1, <2>2 DEF Keeps
<1> QED BY <1>1, ContentInvariant, PTL

\* However the agent reorders, inserts and removes rows, the selection stays
\* on the row with the selected identity while the table has one.
THEOREM SelectionFollows == Spec => []SelectionFollowsRow
<1>1. ContentInv => SelectionFollowsRow
  <2> SUFFICES ASSUME ContentInv, NEW op \in Operations,
                      NEW id \in DOMAIN state.selections
                                   \cap DOMAIN Outcome(op).state.selections,
                      state.selections[id].rowID \in ToSet(RowIDs(Outcome(op).doc.nodes[id]))
               PROVE  Outcome(op).state.selections[id].rowID = state.selections[id].rowID
    BY DEF SelectionFollowsRow
  <2>1. PICK e, q : e = Outcome(op).doc /\ q = Outcome(op).state OBVIOUS
  <2>2. Keeps(op, e, q) BY <2>1, OutcomeFacts
  <2> QED BY <2>1, <2>2 DEF Keeps
<1> QED BY <1>1, ContentInvariant, PTL

\* The reducer and the projection drive the counters as the publication
\* barrier assumes: a new revision exactly for a new document, one new token
\* for each thing the agent changes or commits, a redraw alone for the user.
THEOREM VersionsRefined == Spec => VersionsImplemented
<1>1. Init => Versions!Init
  <2> SUFFICES ASSUME Init PROVE Versions!Init OBVIOUS
  <2>1. doc.revision = 0 /\ token = 0 BY DEF Init, NewDocument
  <2>2. /\ state.dirtyRevision = 0 /\ state.renderGeneration = 0
        /\ state.publicationGeneration = 0
    BY DEF Init, NewState
  <2> QED BY <2>1, <2>2 DEF Versions!Init
<1>2. ContentInv /\ [Next]_vars => [Versions!Next]_(Versions!vars)
  <2> SUFFICES ASSUME ContentInv, [Next]_vars PROVE [Versions!Next]_(Versions!vars)
    OBVIOUS
  <2>1. CASE AgentStep
    <3>0. state.publicationGeneration \in Nat BY DEF ContentInv, StateOK
    <3>1. /\ Advances(doc, state, doc', state')
          /\ \/ token' = token + 1
             \/ token' = token /\ state'.publicationGeneration = state.publicationGeneration
      BY <2>1, AgentFacts
    <3>2. CASE doc' = doc /\ state' = state
      <4>1. CASE token' = token + 1
        <5>1. Versions!CommitQueued BY <3>2, <4>1 DEF Versions!CommitQueued
        <5> QED BY <5>1 DEF Versions!Next
      <4>2. CASE token' = token BY <3>2, <4>2 DEF Versions!vars
      <4> QED BY <3>1, <4>1, <4>2
    <3>3. CASE /\ doc'.nodes # doc.nodes
               /\ doc'.revision = doc.revision + 1 /\ state'.dirtyRevision = doc.revision + 1
               /\ state'.renderGeneration = state.renderGeneration + 1
               /\ state'.publicationGeneration = state.publicationGeneration + 1
      <4>1. token' = token + 1 BY <3>0, <3>1, <3>3
      <4>2. Versions!DocumentChanged
        BY <3>3, <4>1 DEF Versions!DocumentChanged, Versions!NewFrame
      <4> QED BY <4>2 DEF Versions!Next
    <3>4. CASE /\ doc' = doc /\ state'.dirtyRevision = state.dirtyRevision
               /\ \/ state'.focused # state.focused \/ state'.inputs # state.inputs
                  \/ state'.selections # state.selections \/ state'.bindings # state.bindings
               /\ state'.renderGeneration = state.renderGeneration + 1
               /\ state'.publicationGeneration = state.publicationGeneration + 1
      <4>1. token' = token + 1 BY <3>0, <3>1, <3>4
      <4>2. Versions!InteractionChanged
        BY <3>4, <4>1 DEF Versions!InteractionChanged, Versions!NewFrame
      <4> QED BY <4>2 DEF Versions!Next
    <3> QED BY <3>1, <3>2, <3>3, <3>4 DEF Advances
  <2>2. CASE TerminalStep
    <3>1. doc' = doc /\ token' = token /\ Redraws(state, state')
      BY <2>2, TerminalFacts
    <3>2. CASE state' = state BY <3>1, <3>2 DEF Versions!vars
    <3>3. CASE state' # state
      <4>1. Versions!ChangedLocally
        BY <3>1, <3>3 DEF Versions!ChangedLocally, Redraws
      <4> QED BY <4>1 DEF Versions!Next
    <3> QED BY <3>2, <3>3
  <2>3. CASE UNCHANGED vars BY <2>3 DEF vars, Versions!vars
  <2> QED BY <2>1, <2>2, <2>3 DEF Next
<1> QED BY <1>1, <1>2, ContentInvariant, PTL DEF Spec, VersionsImplemented, Versions!Spec

====
