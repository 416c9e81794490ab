---------------------------- MODULE IndexLemmas -----------------------------
(***************************************************************************)
(* Facts about the least and the greatest of a set of numbers, and about   *)
(* the last place of a sequence that holds an element of a set: what it    *)
(* means that a later option of a command line wins.                       *)
(***************************************************************************)
EXTENDS Integers, Sequences, SequencesExt, SequenceTheorems, WellFoundedInduction, TLAPS

\* A set of natural numbers has a least member: induction, for sets instead of predicates.
LEMMA SmallestNat ==
  ASSUME NEW T \in SUBSET Nat, T # {}
  PROVE  \E x \in T : \A y \in T : x <= y
<1> DEFINE R == OpToRel(<, Nat)
<1>1. IsWellFoundedOn(R, Nat)
  BY NatLessThanWellFounded
<1>2. \A x, y \in Nat : x < y => <<x, y>> \in R
  BY DEF OpToRel
<1> HIDE DEF R
<1>3. PICK x \in T : \A y \in T : ~(<<y, x>> \in R)
  BY <1>1, WFMin
<1>4. \A y \in T : x \in Nat /\ y \in Nat /\ ~(y < x)
  BY <1>2, <1>3
<1> QED
  BY <1>4

\* Min gives it.
LEMMA MinOf ==
  ASSUME NEW T \in SUBSET Nat, T # {}
  PROVE  Min(T) \in T /\ \A y \in T : Min(T) <= y
BY SmallestNat DEF Min

\* Max gives the greatest member of a bounded set.
LEMMA MaxOf ==
  ASSUME NEW T \in SUBSET Nat, T # {}, NEW n \in Nat, \A x \in T : x <= n
  PROVE  Max(T) \in T /\ \A y \in T : y <= Max(T)
<1> DEFINE U == {n - x : x \in T}
<1>1. PICK z \in U : \A y \in U : z <= y
  <2>1. \A x \in T : n - x \in Nat
    OBVIOUS
  <2>2. U \in SUBSET Nat /\ U # {}
    BY <2>1, Zenon
  <2> HIDE DEF U
  <2> QED
    BY <2>2, SmallestNat
<1>2. PICK x \in T : z = n - x
  BY <1>1
<1>3. \A y \in T : y <= x
  BY <1>1, <1>2
<1> QED
  BY <1>3 DEF Max

\* A member above all others is the greatest.
LEMMA MaxIs ==
  ASSUME NEW T \in SUBSET Nat, NEW m \in T, \A x \in T : x <= m
  PROVE  Max(T) = m
<1>1. \A x \in T : (\A y \in T : y <= x) => x = m
  OBVIOUS
<1> QED
  BY <1>1 DEF Max

\* A sequence that goes up over some places takes the greatest of them to the greatest of
\* its values there.
LEMMA GreatestMoved ==
  ASSUME NEW s \in Seq(Nat), NEW A \in SUBSET DOMAIN s, NEW B, B = {s[n] : n \in A},
         \A m, n \in A : m < n => s[m] < s[n]
  PROVE  /\ A = {} <=> B = {}
         /\ A # {} => Max(A) \in A /\ s[Max(A)] = Max(B)
<1>1. A = {} <=> B = {}
  OBVIOUS
<1>2. ASSUME A # {}
      PROVE  Max(A) \in A /\ s[Max(A)] = Max(B)
  <2>1. A \in SUBSET Nat /\ Len(s) \in Nat /\ \A n \in A : n <= Len(s) /\ s[n] \in Nat
    OBVIOUS
  <2>2. Max(A) \in A /\ \A n \in A : n <= Max(A)
    BY <1>2, <2>1, MaxOf
  <2> DEFINE m == Max(A)
  <2> HIDE DEF m
  <2>3. m \in A /\ \A n \in A : n = m \/ n < m
    BY <2>1, <2>2 DEF m
  <2>4. B \in SUBSET Nat /\ s[m] \in B
    BY <2>1, <2>3
  <2>5. \A x \in B : x <= s[m]
    <3> SUFFICES ASSUME NEW n \in A
                 PROVE  s[n] <= s[m]
      OBVIOUS
    <3>1. n = m \/ s[n] < s[m]
      BY <2>3
    <3> QED
      BY <2>1, <2>3, <3>1
  <2>6. Max(B) = s[m]
    BY <2>4, <2>5, MaxIs
  <2> QED
    BY <2>3, <2>6 DEF m
<1> QED
  BY <1>1, <1>2

-----------------------------------------------------------------------------
\* The places of s that hold a member of S.
Where(s, S) == {k \in DOMAIN s : s[k] \in S}
Latest(s, S) == s[Max(Where(s, S))]

\* The last of them is one of them.
LEMMA LastWhere ==
  ASSUME NEW T, NEW s \in Seq(T), NEW S, Where(s, S) # {}
  PROVE  /\ Max(Where(s, S)) \in 1..Len(s)
         /\ \A k \in Where(s, S) : k <= Max(Where(s, S))
         /\ Latest(s, S) \in S
<1>1. /\ Where(s, S) \in SUBSET Nat /\ Len(s) \in Nat
      /\ \A k \in Where(s, S) : k \in 1..Len(s) /\ s[k] \in S /\ k <= Len(s)
  BY DEF Where
<1> QED
  BY <1>1, MaxOf DEF Latest

\* An element added at the end is the last member of every set it is in, and
\* changes nothing for the others.
LEMMA LatestAppended ==
  ASSUME NEW T, NEW s \in Seq(T), NEW a \in T, NEW S
  PROVE  /\ a \in S => Where(Append(s, a), S) # {} /\ Latest(Append(s, a), S) = a
         /\ a \notin S => /\ Where(Append(s, a), S) = Where(s, S)
                          /\ Where(s, S) # {} => Latest(Append(s, a), S) = Latest(s, S)
<1> DEFINE u == Append(s, a)
<1>1. /\ u \in Seq(T) /\ Len(u) = Len(s) + 1 /\ u[Len(s) + 1] = a
      /\ DOMAIN u = 1..(Len(s) + 1) /\ DOMAIN s = 1..Len(s) /\ Len(s) \in Nat
      /\ \A k \in 1..Len(s) : u[k] = s[k]
  BY AppendProperties
<1> HIDE DEF u
<1>2. CASE a \in S
  <2>1. Where(u, S) \in SUBSET Nat /\ Len(s) + 1 \in Where(u, S)
    BY <1>1, <1>2 DEF Where
  <2>2. \A k \in Where(u, S) : k <= Len(s) + 1
    BY <1>1 DEF Where
  <2>3. Max(Where(u, S)) = Len(s) + 1
    BY <2>1, <2>2, MaxIs
  <2>4. Where(u, S) # {} /\ Latest(u, S) = a
    BY <1>1, <2>1, <2>3 DEF Latest
  <2> QED
    BY <1>2, <2>4 DEF u
<1>3. CASE a \notin S
  <2>1. Where(u, S) = Where(s, S)
    BY <1>1, <1>3 DEF Where
  <2>2. Where(s, S) # {} => Latest(u, S) = Latest(s, S)
    BY <1>1, <2>1, LastWhere DEF Latest
  <2> QED
    BY <1>3, <2>1, <2>2 DEF u
<1> QED
  BY <1>2, <1>3
=============================================================================
