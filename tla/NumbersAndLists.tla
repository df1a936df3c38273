--------------------------- MODULE NumbersAndLists ---------------------------
(***************************************************************************)
(* Lemmas about sets of numbers, finite sets and sequences that the proofs *)
(* of several components need.                                             *)
(***************************************************************************)
EXTENDS SequencesExt, SequenceTheorems, FiniteSetTheorems, WellFoundedInduction, TLAPS

-----------------------------------------------------------------------------
(***************************************************************************)
(* Numbers.                                                                *)
(***************************************************************************)

\* R is the order of the natural numbers.
LEMMA MinUnder ==
  ASSUME NEW R, IsWellFoundedOn(R, Nat), \A x, y \in Nat : y < x => <<y, x>> \in R,
         NEW T \in SUBSET Nat, T # {}
  PROVE  \E x \in T : \A y \in T : x <= y
<1>1. PICK x \in T : \A y \in T : <<y, x>> \notin R
  BY WFMin
<1>2. \A y \in T : x \in Nat /\ y \in Nat /\ ~(y < x)
  BY <1>1
<1>3. \A y \in T : x <= y
  BY <1>2
<1>4. QED
  BY <1>3

\* A set of natural numbers has a least one ...
LEMMA Least ==
  ASSUME NEW T \in SUBSET Nat, T # {}
  PROVE  \E x \in T : \A y \in T : x <= y
<1>1. \A x, y \in Nat : y < x => <<y, x>> \in OpToRel(<, Nat)
  BY DEF OpToRel
<1>2. QED
  BY <1>1, MinUnder, NatLessThanWellFounded

\* ... and, if it is bounded, a greatest.
LEMMA Greatest ==
  ASSUME NEW T \in SUBSET Nat, T # {}, NEW n \in Nat, \A t \in T : t <= n
  PROVE  \E x \in T : \A y \in T : y <= x
<1> DEFINE U == {n - t : t \in T}
<1>1. \A t \in T : n - t \in Nat
  OBVIOUS
<1>2. U \in SUBSET Nat /\ U # {}
  BY <1>1
<1>3. PICK u \in U : \A v \in U : u <= v
  <2> HIDE DEF U
  <2>1. QED
    BY <1>2, Least
<1>4. PICK x \in T : u = n - x
  OBVIOUS
<1>5. \A y \in T : n - x <= n - y
  BY <1>3, <1>4
<1>6. QED
  BY <1>5

\* A finite set of natural numbers has a greatest element.
LEMMA FiniteGreatest ==
  ASSUME NEW S \in SUBSET Nat, IsFiniteSet(S), S # {}
  PROVE  \E x \in S : \A y \in S : y <= x
<1> DEFINE Bad(T) == IsFiniteSet(T) /\ T # {} /\ ~\E x \in T : \A y \in T : y <= x
           Sizes == {n \in Nat : \E T \in SUBSET S : Bad(T) /\ Cardinality(T) = n}
<1>1. SUFFICES ASSUME Bad(S) PROVE FALSE
  OBVIOUS
<1>2. Sizes # {}
  <2>1. S \in SUBSET S /\ Cardinality(S) \in Nat
    BY FS_CardinalityType
  <2>2. Cardinality(S) \in Sizes
    BY <1>1, <2>1
  <2>3. QED
    BY <2>2
<1>3. PICK n \in Sizes : \A m \in Sizes : n <= m
  <2>1. Sizes \in SUBSET Nat
    OBVIOUS
  <2> HIDE DEF Sizes
  <2>2. QED
    BY <1>2, <2>1, Least
<1>4. PICK T \in SUBSET S : Bad(T) /\ Cardinality(T) = n
  OBVIOUS
<1>5. PICK a \in T : TRUE
  BY <1>4
<1>6. IsFiniteSet(T \ {a}) /\ Cardinality(T \ {a}) = n - 1
  BY <1>4, <1>5, FS_RemoveElement
<1>7. ~Bad(T \ {a})
  <2>1. n \in Nat /\ n - 1 \in Nat /\ ~(n <= n - 1)
    BY <1>6, FS_CardinalityType
  <2>2. SUFFICES ASSUME Bad(T \ {a}) PROVE n - 1 \in Sizes
    BY <1>3, <2>1
  <2>3. T \ {a} \in SUBSET S
    OBVIOUS
  <2>4. QED
    BY <1>6, <2>1, <2>2, <2>3
<1>8. CASE T \ {a} = {}
  <2>1. a \in Nat /\ \A y \in T : y = a
    BY <1>8, <1>5
  <2>2. QED
    BY <1>4, <1>5, <2>1
<1>9. CASE T \ {a} # {}
  <2>1. PICK b \in T \ {a} : \A y \in T \ {a} : y <= b
    BY <1>6, <1>7, <1>9
  <2>2. a \in Nat /\ b \in Nat /\ T \subseteq Nat
    OBVIOUS
  <2>3. \E x \in T : \A y \in T : y <= x
    BY <1>5, <2>1, <2>2
  <2>4. QED
    BY <1>4, <2>3
<1>10. QED
  BY <1>8, <1>9

LEMMA MaxOfFinite ==
  ASSUME NEW S \in SUBSET Nat, IsFiniteSet(S), S # {}
  PROVE  Max(S) \in S /\ \A y \in S : y <= Max(S)
<1>1. PICK x \in S : \A y \in S : y <= x
  BY FiniteGreatest
<1>2. \A y \in S : x >= y
  BY <1>1
<1>3. Max(S) \in S /\ \A y \in S : Max(S) >= y
  BY <1>2 DEF Max
<1>4. QED
  BY <1>3

LEMMA MaxOfTwo ==
  ASSUME NEW a \in Nat, NEW b \in Nat
  PROVE  Max({a, b}) = IF a >= b THEN a ELSE b
<1> DEFINE S == {a, b}
<1>1. \E x \in S : \A y \in S : x >= y
  OBVIOUS
<1>2. Max(S) \in S /\ \A y \in S : Max(S) >= y
  BY <1>1 DEF Max
<1>3. QED
  BY <1>2

LEMMA MinOfTwo ==
  ASSUME NEW a \in Nat, NEW b \in Nat
  PROVE  Min({a, b}) = IF a <= b THEN a ELSE b
<1> DEFINE S == {a, b}
<1>1. \E x \in S : \A y \in S : x <= y
  OBVIOUS
<1>2. Min(S) \in S /\ \A y \in S : Min(S) <= y
  BY <1>1 DEF Min
<1>3. QED
  BY <1>2

-----------------------------------------------------------------------------
(***************************************************************************)
(* Sequences without repetition.                                           *)
(***************************************************************************)

LEMMA AppendOnce ==
  ASSUME NEW S, NEW q \in Seq(S), NEW x \in S
  PROVE  /\ Append(q, x) \in Seq(S) /\ Append(q, x) # <<>>
         /\ ToSet(Append(q, x)) = ToSet(q) \cup {x}
         /\ IsInjective(q) /\ x \notin ToSet(q) => IsInjective(Append(q, x))
  BY DEF ToSet, IsInjective

LEMMA TailOnce ==
  ASSUME NEW S, NEW q \in Seq(S), q # <<>>
  PROVE  /\ Tail(q) \in Seq(S) /\ Head(q) \in ToSet(q) /\ Head(q) \in S
         /\ ToSet(q) = ToSet(Tail(q)) \cup {Head(q)}
         /\ IsInjective(q) => IsInjective(Tail(q)) /\ Head(q) \notin ToSet(Tail(q))
<1>1. /\ Len(q) \in Nat \ {0} /\ DOMAIN q = 1..Len(q) /\ Head(q) = q[1]
      /\ Tail(q) \in Seq(S) /\ DOMAIN Tail(q) = 1..(Len(q) - 1)
      /\ \A i \in 1..(Len(q) - 1) : Tail(q)[i] = q[i + 1]
  OBVIOUS
<1>2. \A i \in 2..Len(q) : i - 1 \in 1..(Len(q) - 1) /\ (i - 1) + 1 = i
  BY <1>1
<1>3. \A i \in 1..(Len(q) - 1) : i + 1 \in 2..Len(q)
  BY <1>1
<1>4. ToSet(Tail(q)) = {q[i] : i \in 2..Len(q)}
  <2>1. \A x \in ToSet(Tail(q)) : \E i \in 2..Len(q) : x = q[i]
    BY <1>1, <1>3 DEF ToSet
  <2>2. ASSUME NEW i \in 2..Len(q) PROVE q[i] \in ToSet(Tail(q))
    <3>1. i - 1 \in DOMAIN Tail(q) /\ Tail(q)[i - 1] = q[i]
      BY <1>1, <1>2
    <3>2. QED
      BY <3>1 DEF ToSet
  <2>3. QED
    BY <2>1, <2>2
<1>5. ToSet(q) = ToSet(Tail(q)) \cup {Head(q)}
  <2>1. \A x : x \in ToSet(q) <=> \E i \in 1..Len(q) : x = q[i]
    BY <1>1 DEF ToSet
  <2>2. 1..Len(q) = {1} \cup 2..Len(q)
    BY <1>1
  <2>3. \A x : (\E i \in 1..Len(q) : x = q[i]) <=> x = q[1] \/ \E i \in 2..Len(q) : x = q[i]
    BY <2>2
  <2>4. QED
    BY <1>1, <1>4, <2>1, <2>3
<1>6. IsInjective(q) => Head(q) \notin ToSet(Tail(q))
  BY <1>1, <1>4 DEF IsInjective
<1>7. IsInjective(q) => IsInjective(Tail(q))
  BY <1>1, <1>3 DEF IsInjective
<1>8. QED
  BY <1>1, <1>5, <1>6, <1>7

LEMMA RemoveAtElements ==
  ASSUME NEW S, NEW q \in Seq(S), NEW i \in DOMAIN q
  PROVE  /\ RemoveAt(q, i) \in Seq(S) /\ DOMAIN RemoveAt(q, i) = 1..(Len(q) - 1)
         /\ \A j \in 1..(Len(q) - 1) : RemoveAt(q, i)[j] = q[IF j < i THEN j ELSE j + 1]
<1> DEFINE before == SubSeq(q, 1, i-1)
           after  == SubSeq(q, i+1, Len(q))
<1>1. Len(q) \in Nat /\ DOMAIN q = 1..Len(q) /\ i \in 1..Len(q)
  OBVIOUS
<1>2. /\ before \in Seq(S) /\ Len(before) = i - 1
      /\ \A j \in 1..(i - 1) : before[j] = q[j]
  BY <1>1, SubSeqProperties
<1>3. /\ after \in Seq(S) /\ Len(after) = Len(q) - i
      /\ \A j \in 1..(Len(q) - i) : after[j] = q[j + i]
  BY <1>1, SubSeqProperties
<1>4. RemoveAt(q, i) = before \o after
  BY DEF RemoveAt
<1> HIDE DEF before, after
<1>5. /\ before \o after \in Seq(S) /\ Len(before \o after) = Len(q) - 1
      /\ \A j \in 1..(Len(q) - 1) : (before \o after)[j] =
            IF j <= i - 1 THEN before[j] ELSE after[j - (i - 1)]
  <2>1. /\ before \o after \in Seq(S) /\ Len(before \o after) = Len(before) + Len(after)
        /\ \A j \in 1..(Len(before) + Len(after)) : (before \o after)[j] =
              IF j <= Len(before) THEN before[j] ELSE after[j - Len(before)]
    BY <1>2, <1>3, ConcatProperties
  <2>2. Len(before) = i - 1 /\ Len(before) + Len(after) = Len(q) - 1
    BY <1>1, <1>2, <1>3
  <2>3. QED
    BY <2>1, <2>2
<1>6. ASSUME NEW j \in 1..(Len(q) - 1)
      PROVE  (before \o after)[j] = q[IF j < i THEN j ELSE j + 1]
  <2>1. CASE j < i
    BY <1>1, <1>2, <1>5, <2>1
  <2>2. CASE ~(j < i)
    <3>1. j - (i - 1) \in 1..(Len(q) - i) /\ (j - (i - 1)) + i = j + 1 /\ ~(j <= i - 1)
      BY <1>1, <2>2
    <3>2. QED
      BY <1>3, <1>5, <2>2, <3>1
  <2>3. QED
    BY <2>1, <2>2
<1>7. DOMAIN (before \o after) = 1..Len(before \o after)
  BY <1>5, LenProperties
<1>8. QED
  BY <1>4, <1>5, <1>6, <1>7

LEMMA RemoveAtOnce ==
  ASSUME NEW S, NEW q \in Seq(S), NEW i \in DOMAIN q, IsInjective(q)
  PROVE  /\ RemoveAt(q, i) \in Seq(S) /\ IsInjective(RemoveAt(q, i))
         /\ ToSet(RemoveAt(q, i)) = ToSet(q) \ {q[i]}
<1> DEFINE r == RemoveAt(q, i)
           at(j) == IF j < i THEN j ELSE j + 1
<1>1. Len(q) \in Nat /\ DOMAIN q = 1..Len(q) /\ i \in 1..Len(q)
  OBVIOUS
<1>2. r \in Seq(S) /\ DOMAIN r = 1..(Len(q) - 1) /\ \A j \in DOMAIN r : r[j] = q[at(j)]
  BY RemoveAtElements
<1> HIDE DEF r
<1>3. \A j, k \in DOMAIN r : at(j) \in DOMAIN q \ {i} /\ (at(j) = at(k) => j = k)
  BY <1>1, <1>2
<1>4. \A k \in DOMAIN q \ {i} : \E j \in DOMAIN r : at(j) = k
  <2> TAKE k \in DOMAIN q \ {i}
  <2>1. CASE k < i
    <3>1. k \in DOMAIN r /\ at(k) = k
      BY <1>1, <1>2, <2>1
    <3>2. QED
      BY <3>1
  <2>2. CASE k > i
    <3>1. k - 1 \in DOMAIN r /\ at(k - 1) = k
      BY <1>1, <1>2, <2>2
    <3>2. QED
      BY <3>1
  <2>3. QED
    BY <1>1, <2>1, <2>2
<1> HIDE DEF at
<1>5. \A j, k \in DOMAIN r : r[j] = r[k] => j = k
  BY <1>2, <1>3 DEF IsInjective
<1>6. ToSet(r) \subseteq ToSet(q) \ {q[i]}
  BY <1>2, <1>3 DEF ToSet, IsInjective
<1>7. ToSet(q) \ {q[i]} \subseteq ToSet(r)
  BY <1>2, <1>4 DEF ToSet
<1>8. QED
  BY <1>2, <1>5, <1>6, <1>7 DEF IsInjective, r

-----------------------------------------------------------------------------
(***************************************************************************)
(* Prefixes.  m elements at the head of a list are those it keeps when     *)
(* something is appended behind them, and those it had when some of them   *)
(* are taken off and held in front of it.                                  *)
(***************************************************************************)

LEMMA PrefixProperties ==
  ASSUME NEW S, NEW s \in Seq(S), NEW m \in 0..Len(s)
  PROVE  /\ SubSeq(s, 1, m) \in Seq(S) /\ Len(SubSeq(s, 1, m)) = m
         /\ \A i \in 1..m : SubSeq(s, 1, m)[i] = s[i]
<1>1. Len(s) \in Nat /\ m \in Int /\ 1 \in Int
  OBVIOUS
<1>2. \A i \in 1..m : s[i] \in S
  BY <1>1, ElementOfSeq
<1>3. /\ SubSeq(s, 1, m) \in Seq(S)
      /\ Len(SubSeq(s, 1, m)) = IF 1 <= m THEN m - 1 + 1 ELSE 0
      /\ \A i \in 1..m - 1 + 1 : SubSeq(s, 1, m)[i] = s[1 + i - 1]
  BY <1>1, <1>2, SubSeqProperties
<1>4. QED
  BY <1>1, <1>3

LEMMA PrefixOfConcat ==
  ASSUME NEW S, NEW s \in Seq(S), NEW u \in Seq(S), NEW m \in 0..Len(s)
  PROVE  SubSeq(s \o u, 1, m) = SubSeq(s, 1, m)
<1>1. /\ s \o u \in Seq(S) /\ Len(s \o u) = Len(s) + Len(u)
      /\ \A i \in 1..Len(s) + Len(u) : (s \o u)[i] = IF i <= Len(s) THEN s[i] ELSE u[i - Len(s)]
  BY ConcatProperties
<1>2. m \in 0..Len(s \o u) /\ \A i \in 1..m : i \in 1..Len(s) + Len(u) /\ i <= Len(s)
  BY <1>1
<1> DEFINE p == SubSeq(s \o u, 1, m)
           q == SubSeq(s, 1, m)
<1>3. p \in Seq(S) /\ Len(p) = m /\ \A i \in 1..m : p[i] = (s \o u)[i]
  BY <1>1, <1>2, PrefixProperties
<1>4. q \in Seq(S) /\ Len(q) = m /\ \A i \in 1..m : q[i] = s[i]
  BY PrefixProperties
<1>5. \A i \in 1..m : (s \o u)[i] = s[i]
  BY <1>1, <1>2
<1> HIDE DEF p, q
<1>6. p = q
  BY <1>3, <1>4, <1>5, SeqEqual
<1>7. QED
  BY <1>6 DEF p, q

\* The rest of a concatenation after its first part.
LEMMA RestOfConcat ==
  ASSUME NEW S, NEW s \in Seq(S), NEW u \in Seq(S)
  PROVE  SubSeq(s \o u, Len(s) + 1, Len(s \o u)) = u
<1> DEFINE r == SubSeq(s \o u, Len(s) + 1, Len(s \o u))
<1>1. /\ s \o u \in Seq(S) /\ Len(s \o u) = Len(s) + Len(u)
      /\ \A i \in 1..Len(s) + Len(u) : (s \o u)[i] = IF i <= Len(s) THEN s[i] ELSE u[i - Len(s)]
  BY ConcatProperties
<1>2. Len(s) \in Nat /\ Len(u) \in Nat
  OBVIOUS
<1>3. \A i \in Len(s) + 1..Len(s \o u) : (s \o u)[i] \in S
  BY <1>1, <1>2, ElementOfSeq
<1>4. /\ r \in Seq(S)
      /\ Len(r) = IF Len(s) + 1 <= Len(s \o u) THEN Len(s \o u) - (Len(s) + 1) + 1 ELSE 0
      /\ \A i \in 1..Len(s \o u) - (Len(s) + 1) + 1 : r[i] = (s \o u)[(Len(s) + 1) + i - 1]
  BY <1>1, <1>2, <1>3, SubSeqProperties
<1> HIDE DEF r
<1>5. Len(r) = Len(u)
  BY <1>1, <1>2, <1>4
<1>6. ASSUME NEW i \in 1..Len(u) PROVE r[i] = u[i]
  <2>1. /\ i \in 1..Len(s \o u) - (Len(s) + 1) + 1
        /\ (Len(s) + 1) + i - 1 = Len(s) + i /\ Len(s) + i \in 1..Len(s) + Len(u)
        /\ ~(Len(s) + i <= Len(s)) /\ (Len(s) + i) - Len(s) = i
    BY <1>1, <1>2
  <2>2. r[i] = (s \o u)[Len(s) + i]
    BY <1>4, <2>1
  <2>3. (s \o u)[Len(s) + i] = u[i]
    BY <1>1, <2>1
  <2>4. QED
    BY <2>2, <2>3
<1>7. r = u
  BY <1>4, <1>5, <1>6, SeqEqual
<1>8. QED
  BY <1>7 DEF r

\* The last element behind the others.
LEMMA LastElement ==
  ASSUME NEW S, NEW s \in Seq(S), s # <<>>
  PROVE  SubSeq(s, 1, Len(s) - 1) \o <<s[Len(s)]>> = s
<1>1. Len(s) \in 1..Len(s) /\ 1 \in 1..Len(s)
  BY EmptySeq
<1>2. SubSeq(s, 1, Len(s)) = SubSeq(s, 1, Len(s) - 1) \o <<s[Len(s)]>>
  BY <1>1, SubSeqRecursiveSecond
<1>3. QED
  BY <1>2, SubSeqFull

\* k elements off the head of a list, in front of what is left of its first m.
LEMMA SplitPrefix ==
  ASSUME NEW S, NEW s \in Seq(S), NEW m \in 1..Len(s), NEW k \in 1..m
  PROVE  /\ SubSeq(s, k + 1, Len(s)) \in Seq(S)
         /\ Len(SubSeq(s, k + 1, Len(s))) = Len(s) - k
         /\ SubSeq(s, 1, k) \o SubSeq(SubSeq(s, k + 1, Len(s)), 1, m - k) = SubSeq(s, 1, m)
<1> DEFINE r == SubSeq(s, k + 1, Len(s))
           p == SubSeq(s, k + 1, m)
           q == SubSeq(r, 1, m - k)
<1>1. Len(s) \in Nat /\ m \in Nat /\ k \in Nat /\ k <= m /\ m <= Len(s)
  OBVIOUS
<1>2. \A i \in k + 1..Len(s) : s[i] \in S
  BY <1>1, ElementOfSeq
<1>3. /\ r \in Seq(S)
      /\ Len(r) = IF k + 1 <= Len(s) THEN Len(s) - (k + 1) + 1 ELSE 0
      /\ \A i \in 1..Len(s) - (k + 1) + 1 : r[i] = s[(k + 1) + i - 1]
  BY <1>1, <1>2, SubSeqProperties
<1>4. \A i \in k + 1..m : s[i] \in S
  BY <1>1, <1>2
<1>5. /\ p \in Seq(S)
      /\ Len(p) = IF k + 1 <= m THEN m - (k + 1) + 1 ELSE 0
      /\ \A i \in 1..m - (k + 1) + 1 : p[i] = s[(k + 1) + i - 1]
  BY <1>1, <1>4, SubSeqProperties
<1>6. Len(r) = Len(s) - k /\ m - k \in 0..Len(r)
  <2> HIDE DEF r
  <2>1. QED
    BY <1>1, <1>3
<1>7. q \in Seq(S) /\ Len(q) = m - k /\ \A i \in 1..m - k : q[i] = r[i]
  <2> HIDE DEF r
  <2>1. QED
    BY <1>3, <1>6, PrefixProperties
<1>8. q = p
  <2> HIDE DEF q, p, r
  <2>1. Len(p) = m - k
    BY <1>1, <1>5
  <2>2. ASSUME NEW i \in 1..m - k PROVE q[i] = p[i]
    <3>1. i \in 1..Len(s) - (k + 1) + 1 /\ i \in 1..m - (k + 1) + 1
      BY <1>1
    <3>2. QED
      BY <1>3, <1>5, <1>7, <3>1
  <2>3. QED
    BY <1>5, <1>7, <2>1, <2>2, SeqEqual
<1>9. SubSeq(s, 1, k) \o p = SubSeq(s, 1, m)
  <2>1. 1 \in 1..Len(s) + 1 /\ k \in 1 - 1..Len(s) /\ m \in k..Len(s)
    BY <1>1
  <2>2. QED
    BY <2>1, ConcatAdjacentSubSeq
<1>10. QED
  BY <1>3, <1>6, <1>8, <1>9

\* The first occurrence of e is the one RemoveFirst takes out.
LEMMA RemoveFirstAt ==
  ASSUME NEW S, NEW s \in Seq(S), NEW i \in DOMAIN s, NEW e,
         s[i] = e, \A j \in 1..(i - 1) : s[j] # e
  PROVE  RemoveFirst(s, e) = RemoveAt(s, i)
<1> DEFINE I == {j \in 1..Len(s) : s[j] = e}
<1>1. Len(s) \in Nat /\ i \in 1..Len(s)
  OBVIOUS
<1>2. i \in I /\ \A j \in I : j \in Nat /\ i <= j
  BY <1>1
<1>3. Min(I) = i
  <2> HIDE DEF I
  <2>1. Min(I) \in I /\ \A j \in I : Min(I) <= j
    BY <1>2 DEF Min
  <2>2. QED
    BY <1>2, <2>1
<1>4. SelectInSeq(s, LAMBDA v : v = e) = i
  BY <1>2, <1>3 DEF SelectInSeq
<1>5. QED
  BY <1>1, <1>4 DEF RemoveFirst

\* An element in front of a list.
LEMMA HeadAndRest ==
  ASSUME NEW S, NEW h \in Seq(S), Len(h) = 1, NEW r \in Seq(S)
  PROVE  h \o r # <<>> /\ Tail(h \o r) = r /\ <<Head(h \o r)>> = h
<1>1. /\ h \o r \in Seq(S) /\ Len(h \o r) = Len(h) + Len(r)
      /\ \A i \in 1..Len(h) + Len(r) : (h \o r)[i] = IF i <= Len(h) THEN h[i] ELSE r[i - Len(h)]
  BY ConcatProperties
<1>2. Len(r) \in Nat /\ 1 \in 1..Len(h) + Len(r) /\ 1 <= Len(h)
  OBVIOUS
<1>3. h \o r # <<>>
  BY <1>1, <1>2, EmptySeq
<1>4. Tail(h \o r) = SubSeq(h \o r, 2, Len(h \o r))
  BY <1>1, <1>3, TailIsSubSeq
<1>5. SubSeq(h \o r, 2, Len(h \o r)) = r
  <2>1. Len(h) + 1 = 2
    OBVIOUS
  <2>2. QED
    BY <2>1, RestOfConcat
<1>6. (h \o r)[1] = h[1]
  BY <1>1, <1>2
<1>7. Head(h \o r) = (h \o r)[1]
  BY <1>1, <1>3
<1>8. <<h[1]>> = h
  OBVIOUS
<1>9. QED
  BY <1>3, <1>4, <1>5, <1>6, <1>7, <1>8
=============================================================================
