--------------------- MODULE PreferredAllocationProofs ---------------------
(***************************************************************************)
(* What selectPreferredDevices answers, for any number of devices and NUMA *)
(* nodes and for every request.                                            *)
(*                                                                         *)
(* The answer is the beginning of a sequence: the required devices, the    *)
(* near ones, the far ones.  That sequence has every available device, and *)
(* has it once.                                                            *)
(***************************************************************************)
EXTENDS PreferredAllocation, FiniteSetTheorems, SequenceTheorems, TLAPS

(***************************************************************************)
(* Sequences of distinct elements.                                         *)
(***************************************************************************)
Distinct(s) == \A i, j \in 1..Len(s) : s[i] = s[j] => i = j

LEMMA ElementsAre ==
    ASSUME NEW V, NEW s \in Seq(V)
    PROVE  /\ ToSet(s) = {s[n] : n \in 1..Len(s)}
           /\ ToSet(s) \subseteq V
           /\ Len(s) \in Nat
BY LenProperties, ElementOfSeq DEF ToSet

\* A sequence of distinct elements is as long as they are many.
LEMMA DistinctAreCounted ==
    ASSUME NEW V, NEW s \in Seq(V), Distinct(s)
    PROVE  IsFiniteSet(ToSet(s)) /\ Cardinality(ToSet(s)) = Len(s)
<1>1. s \in [1..Len(s) -> ToSet(s)] /\ Len(s) \in Nat /\ DOMAIN s = 1..Len(s)
  BY LenProperties DEF ToSet
<1>2. s \in Injection(1..Len(s), ToSet(s))
  BY <1>1 DEF Distinct, Injection, IsInjective
<1>3. s \in Surjection(1..Len(s), ToSet(s))
  BY <1>1 DEF ToSet, Surjection
<1>4. ExistsBijection(1..Len(s), ToSet(s))
  BY <1>2, <1>3 DEF ExistsBijection, Bijection
<1> QED
  BY <1>1, <1>4, FS_CountingElements, FS_NatBijection

\* Two of them that have nothing in common, one after the other.
LEMMA TogetherDistinct ==
    ASSUME NEW V, NEW s \in Seq(V), NEW t \in Seq(V),
           Distinct(s), Distinct(t), ToSet(s) \cap ToSet(t) = {}
    PROVE  /\ s \o t \in Seq(V) /\ Distinct(s \o t)
           /\ ToSet(s \o t) = ToSet(s) \cup ToSet(t)
           /\ \A i \in 1..Len(s) : i \in 1..Len(s \o t) /\ (s \o t)[i] = s[i]
           /\ \A i, j \in 1..Len(s \o t) :
                  (s \o t)[i] \in ToSet(s) /\ (s \o t)[j] \in ToSet(t) => i < j
<1>1. /\ s \o t \in Seq(V) /\ Len(s \o t) = Len(s) + Len(t)
      /\ Len(s) \in Nat /\ Len(t) \in Nat
      /\ \A i \in 1..Len(s) + Len(t) : (s \o t)[i] = IF i <= Len(s) THEN s[i] ELSE t[i - Len(s)]
  BY ConcatProperties, LenProperties
<1>2. /\ ToSet(s) = {s[n] : n \in 1..Len(s)}
      /\ ToSet(t) = {t[n] : n \in 1..Len(t)}
      /\ ToSet(s \o t) = {(s \o t)[n] : n \in 1..Len(s \o t)}
  BY <1>1, ElementsAre
<1>3. ASSUME NEW i \in 1..Len(s \o t), NEW j \in 1..Len(s \o t), (s \o t)[i] = (s \o t)[j]
      PROVE  i = j
  <2>1. CASE i <= Len(s) /\ j <= Len(s)
    BY <1>1, <1>3, <2>1 DEF Distinct
  <2>2. CASE i > Len(s) /\ j > Len(s)
    <3>1. i - Len(s) \in 1..Len(t) /\ j - Len(s) \in 1..Len(t)
      BY <1>1, <2>2
    <3>2. t[i - Len(s)] = t[j - Len(s)]
      BY <1>1, <1>3, <2>2
    <3>3. i - Len(s) = j - Len(s)
      BY <3>1, <3>2 DEF Distinct
    <3> QED
      BY <1>1, <3>3
  <2>3. CASE i <= Len(s) /\ j > Len(s)
    <3>1. j - Len(s) \in 1..Len(t) /\ i \in 1..Len(s) /\ s[i] = t[j - Len(s)]
      BY <1>1, <1>3, <2>3
    <3> QED
      BY <1>2, <3>1
  <2>4. CASE i > Len(s) /\ j <= Len(s)
    <3>1. i - Len(s) \in 1..Len(t) /\ j \in 1..Len(s) /\ s[j] = t[i - Len(s)]
      BY <1>1, <1>3, <2>4
    <3> QED
      BY <1>2, <3>1
  <2> QED
    BY <1>1, <2>1, <2>2, <2>3, <2>4
<1>4. ToSet(s \o t) \subseteq ToSet(s) \cup ToSet(t)
  <2> SUFFICES ASSUME NEW i \in 1..Len(s \o t)
               PROVE  (s \o t)[i] \in ToSet(s) \cup ToSet(t)
    BY <1>2
  <2>1. CASE i <= Len(s)
    BY <1>1, <1>2, <2>1
  <2>2. CASE i > Len(s)
    <3>1. i - Len(s) \in 1..Len(t) /\ (s \o t)[i] = t[i - Len(s)]
      BY <1>1, <2>2
    <3> QED
      BY <1>2, <3>1
  <2> QED
    BY <1>1, <2>1, <2>2
<1>5. ToSet(s) \subseteq ToSet(s \o t)
  <2> SUFFICES ASSUME NEW i \in 1..Len(s) PROVE s[i] \in ToSet(s \o t)
    BY <1>2
  <2>1. i \in 1..Len(s \o t) /\ (s \o t)[i] = s[i]
    BY <1>1
  <2> QED
    BY <1>2, <2>1
<1>6. ToSet(t) \subseteq ToSet(s \o t)
  <2> SUFFICES ASSUME NEW i \in 1..Len(t) PROVE t[i] \in ToSet(s \o t)
    BY <1>2
  <2>1. i + Len(s) \in 1..Len(s \o t) /\ (s \o t)[i + Len(s)] = t[i]
    BY <1>1
  <2> QED
    BY <1>2, <2>1
<1>7. ASSUME NEW i \in 1..Len(s \o t), NEW j \in 1..Len(s \o t),
             (s \o t)[i] \in ToSet(s), (s \o t)[j] \in ToSet(t)
      PROVE  i < j
  <2>1. ASSUME i > Len(s) PROVE FALSE
    <3>1. i - Len(s) \in 1..Len(t) /\ (s \o t)[i] = t[i - Len(s)]
      BY <1>1, <2>1
    <3> QED
      BY <1>2, <1>7, <3>1
  <2>2. ASSUME j <= Len(s) PROVE FALSE
    <3>1. j \in 1..Len(s) /\ (s \o t)[j] = s[j]
      BY <1>1, <2>2
    <3> QED
      BY <1>2, <1>7, <3>1
  <2> QED
    BY <1>1, <2>1, <2>2
<1>8. \A i \in 1..Len(s) : i \in 1..Len(s \o t) /\ (s \o t)[i] = s[i]
  BY <1>1
<1> QED
  BY <1>1, <1>3, <1>4, <1>5, <1>6, <1>7, <1>8 DEF Distinct

\* Its beginning.
LEMMA FirstsAre ==
    ASSUME NEW V, NEW s \in Seq(V), NEW n \in Nat
    PROVE  /\ Firsts(s, n) \in Seq(V)
           /\ Len(Firsts(s, n)) = IF Len(s) < n THEN Len(s) ELSE n
           /\ \A i \in 1..Len(Firsts(s, n)) : i \in 1..Len(s) /\ Firsts(s, n)[i] = s[i]
           /\ Distinct(s) => Distinct(Firsts(s, n))
           /\ ToSet(Firsts(s, n)) \subseteq ToSet(s)
           /\ \A i \in 1..Len(s) : i <= n => s[i] \in ToSet(Firsts(s, n))
           /\ Distinct(s) => \A i \in 1..Len(s) : s[i] \in ToSet(Firsts(s, n)) => i <= n
<1> DEFINE m == IF Len(s) < n THEN Len(s) ELSE n
<1>1. m \in Nat /\ Len(s) \in Nat /\ m <= Len(s) /\ Firsts(s, n) = SubSeq(s, 1, m)
  BY LenProperties DEF Firsts
<1> HIDE DEF m
<1>2. \A i \in 1..m : s[i] \in V
  BY <1>1, ElementOfSeq
<1>3. /\ SubSeq(s, 1, m) \in Seq(V)
      /\ Len(SubSeq(s, 1, m)) = IF 1 <= m THEN m - 1 + 1 ELSE 0
      /\ \A i \in 1..(m - 1 + 1) : SubSeq(s, 1, m)[i] = s[1 + i - 1]
  BY <1>1, <1>2, SubSeqProperties
<1>4. Len(SubSeq(s, 1, m)) = m
  BY <1>1, <1>3
<1>5. \A i \in 1..m : i \in 1..Len(s) /\ SubSeq(s, 1, m)[i] = s[i]
  BY <1>1, <1>3
<1>6. /\ ToSet(s) = {s[i] : i \in 1..Len(s)}
      /\ ToSet(Firsts(s, n)) = {Firsts(s, n)[i] : i \in 1..Len(Firsts(s, n))}
  <2>1. Firsts(s, n) \in Seq(V)
    BY <1>1, <1>3
  <2> QED
    BY <2>1, ElementsAre
<1>7. ToSet(Firsts(s, n)) \subseteq ToSet(s)
  BY <1>1, <1>4, <1>5, <1>6
<1>8. m <= n /\ \A i \in 1..Len(s) : i <= n => i \in 1..m
  BY <1>1 DEF m
<1>9. ASSUME NEW i \in 1..Len(s), i <= n PROVE s[i] \in ToSet(Firsts(s, n))
  <2>1. i \in 1..m /\ Firsts(s, n)[i] = s[i]
    BY <1>1, <1>5, <1>8, <1>9
  <2> QED
    BY <1>1, <1>4, <1>6, <2>1
<1>10. ASSUME Distinct(s), NEW i \in 1..Len(s), s[i] \in ToSet(Firsts(s, n)) PROVE i <= n
  <2>1. PICK j \in 1..m : s[i] = s[j]
    BY <1>1, <1>4, <1>5, <1>6, <1>10
  <2>2. j = i
    BY <1>5, <1>10, <2>1 DEF Distinct
  <2> QED
    BY <1>1, <1>8, <2>2
<1>11. /\ Firsts(s, n) \in Seq(V)
       /\ Len(Firsts(s, n)) = IF Len(s) < n THEN Len(s) ELSE n
  BY <1>1, <1>3, <1>4 DEF m
<1>12. Distinct(s) => Distinct(Firsts(s, n))
  BY <1>1, <1>4, <1>5 DEF Distinct
<1>13. \A i \in 1..Len(Firsts(s, n)) : i \in 1..Len(s) /\ Firsts(s, n)[i] = s[i]
  BY <1>1, <1>4, <1>5
<1> QED
  BY <1>7, <1>9, <1>10, <1>11, <1>12, <1>13

(***************************************************************************)
(* What a loop keeps.                                                      *)
(***************************************************************************)
\* Of finitely many places there is exactly one that k - 1 of them are before.
LEMMA PlaceOfRank ==
    ASSUME NEW N \in Nat, NEW I \in SUBSET (1..N)
    PROVE  /\ IsFiniteSet(I) /\ Cardinality(I) \in Nat
           /\ \A k \in 1..Cardinality(I) :
                  \E n \in I : Cardinality({m \in I : m < n}) = k - 1
           /\ \A n \in I : Cardinality({m \in I : m < n}) + 1 \in 1..Cardinality(I)
           /\ \A n, p \in I :
                  Cardinality({m \in I : m < n}) = Cardinality({m \in I : m < p}) => n = p
<1> DEFINE before(n) == {m \in I : m < n}
           rank == [n \in I |-> Cardinality(before(n))]
<1>1. IsFiniteSet(I) /\ Cardinality(I) \in Nat
  <2>1. IsFiniteSet(1..N)
    BY FS_Interval
  <2> QED
    BY <2>1, FS_Subset, FS_CardinalityType
<1>2. ASSUME NEW n \in I
      PROVE  /\ IsFiniteSet(before(n)) /\ Cardinality(before(n)) \in Nat
             /\ Cardinality(before(n)) <= Cardinality(I) - 1
  <2>1. before(n) \in SUBSET (I \ {n})
    OBVIOUS
  <2>2. IsFiniteSet(I \ {n}) /\ Cardinality(I \ {n}) = Cardinality(I) - 1
    BY <1>1, FS_RemoveElement
  <2> HIDE DEF before
  <2> QED
    BY <2>1, <2>2, FS_Subset, FS_CardinalityType
<1>3. ASSUME NEW n \in I, NEW p \in I, n < p
      PROVE  Cardinality(before(n)) < Cardinality(before(p))
  <2>1. n \notin before(n) /\ before(n) \cup {n} \in SUBSET before(p)
    <3>1. \A m \in I : m \in Int
      OBVIOUS
    <3>2. \A m \in before(n) : m \in I /\ m < p
      BY <1>3, <3>1
    <3>3. n \notin before(n)
      BY <3>1
    <3> QED
      BY <1>3, <3>2, <3>3
  <2> HIDE DEF before
  <2>2. Cardinality(before(n) \cup {n}) = Cardinality(before(n)) + 1
    BY <1>2, <2>1, FS_AddElement
  <2>3. Cardinality(before(n) \cup {n}) <= Cardinality(before(p))
    BY <1>2, <2>1, FS_Subset
  <2> QED
    BY <1>2, <2>2, <2>3
<1>4. ASSUME NEW n \in I, NEW p \in I, Cardinality(before(n)) = Cardinality(before(p))
      PROVE  n = p
  <2> HIDE DEF before
  <2>1. ~(n < p) /\ ~(p < n)
    BY <1>2, <1>3, <1>4
  <2> QED
    BY <2>1
<1>5. ASSUME NEW k \in 1..Cardinality(I)
      PROVE  \E n \in I : Cardinality(before(n)) = k - 1
  <2> DEFINE T == 0..(Cardinality(I) - 1)
  <2> HIDE DEF before
  <2>1. rank \in [I -> T] /\ \A n, p \in I : rank[n] = rank[p] => n = p
    BY <1>1, <1>2, <1>4
  <2>2. rank \in Injection(I, T)
    BY <2>1 DEF Injection, IsInjective
  <2>3. IsFiniteSet(T) /\ Cardinality(T) = Cardinality(I)
    <3>1. Cardinality(I) - 1 \in Int /\ 0 <= Cardinality(I) - 1
      BY <1>1
    <3> QED
      BY <1>1, <3>1, FS_Interval
  <2>4. rank \in Surjection(I, T)
    BY <2>2, <2>3, FS_Injection
  <2>5. k - 1 \in T
    BY <1>1
  <2> QED
    BY <2>4, <2>5 DEF Surjection
<1>6. ASSUME NEW n \in I PROVE Cardinality(before(n)) + 1 \in 1..Cardinality(I)
  <2> HIDE DEF before
  <2> QED
    BY <1>1, <1>2
<1> QED
  BY <1>1, <1>4, <1>5, <1>6

\* The loop keeps what is in S, once where s has it once.
LEMMA KeptAre ==
    ASSUME NEW V, NEW s \in Seq(V), NEW S, Distinct(s)
    PROVE  /\ Kept(s, S) \in Seq(V) /\ Distinct(Kept(s, S))
           /\ ToSet(Kept(s, S)) = ToSet(s) \cap S
<1> DEFINE I == {n \in 1..Len(s) : s[n] \in S}
           before(n) == {m \in I : m < n}
           place(k) == CHOOSE n \in I : Cardinality(before(n)) = k - 1
<1>1. /\ ToSet(s) = {s[n] : n \in 1..Len(s)}
      /\ Len(s) \in Nat /\ \A n \in 1..Len(s) : s[n] \in V
  BY ElementsAre, ElementOfSeq
<1>2. I \in SUBSET (1..Len(s))
  OBVIOUS
<1>3. Kept(s, S) = [k \in 1..Cardinality(I) |-> s[place(k)]]
  BY DEF Kept
<1>4. \A n \in I : n \in 1..Len(s) /\ s[n] \in S
  OBVIOUS
<1>5. \A n \in 1..Len(s) : s[n] \in S => n \in I
  OBVIOUS
<1> HIDE DEF I
<1>6. /\ Cardinality(I) \in Nat
      /\ \A k \in 1..Cardinality(I) : \E n \in I : Cardinality(before(n)) = k - 1
      /\ \A n \in I : Cardinality(before(n)) + 1 \in 1..Cardinality(I)
      /\ \A n, p \in I : Cardinality(before(n)) = Cardinality(before(p)) => n = p
  BY <1>1, <1>2, PlaceOfRank
<1> HIDE DEF before
<1>7. ASSUME NEW k \in 1..Cardinality(I)
      PROVE  place(k) \in I /\ Cardinality(before(place(k))) = k - 1
  BY <1>6
<1> HIDE DEF place
<1>8. Kept(s, S) \in Seq(V) /\ Len(Kept(s, S)) = Cardinality(I)
  <2>1. Kept(s, S) \in [1..Cardinality(I) -> V]
    BY <1>1, <1>3, <1>4, <1>7
  <2> QED
    BY <1>6, <2>1, SeqDef, LenProperties
<1>9. \A k \in 1..Cardinality(I) : Kept(s, S)[k] = s[place(k)]
  BY <1>3
<1>10. Distinct(Kept(s, S))
  <2> SUFFICES ASSUME NEW k \in 1..Cardinality(I), NEW l \in 1..Cardinality(I),
                      s[place(k)] = s[place(l)]
               PROVE  k = l
    BY <1>8, <1>9 DEF Distinct
  <2>1. place(k) = place(l)
    BY <1>4, <1>7 DEF Distinct
  <2>2. k - 1 = l - 1
    BY <1>7, <2>1
  <2> QED
    BY <1>6, <2>2
<1>11. ToSet(Kept(s, S)) = {s[place(k)] : k \in 1..Cardinality(I)}
  BY <1>8, <1>9, ElementsAre
<1>12. ToSet(Kept(s, S)) \subseteq ToSet(s) \cap S
  BY <1>1, <1>4, <1>7, <1>11
<1>13. ASSUME NEW n \in I PROVE s[n] \in ToSet(Kept(s, S))
  <2> DEFINE k == Cardinality(before(n)) + 1
  <2>1. k \in 1..Cardinality(I)
    BY <1>6
  <2>2. Cardinality(before(n)) = k - 1 /\ place(k) = n
    <3>1. Cardinality(before(n)) = k - 1
      <4>1. Cardinality(before(n)) \in Int
        <5>1. IsFiniteSet(I)
          BY <1>1, <1>2, PlaceOfRank
        <5> QED
          BY <5>1, FS_Subset, FS_CardinalityType DEF before
      <4> QED
        BY <4>1
    <3> QED
      BY <1>6, <1>7, <2>1, <3>1
  <2> QED
    BY <1>11, <2>1, <2>2
<1> QED
  BY <1>1, <1>5, <1>8, <1>10, <1>12, <1>13

(***************************************************************************)
(* Requests and answers.                                                   *)
(***************************************************************************)
\* The kubelet asks with distinct ids, the required ones among the available.
IsRequest ==
    /\ asked.available \in Seq(Devices) /\ Distinct(asked.available)
    /\ asked.must \in Seq(Devices) /\ Distinct(asked.must)
    /\ Must \subseteq Available
    /\ asked.count \in Int

AnswerInv ==
    /\ IsRequest
    /\ Answered => answer = SelectPreferredDevices(asked.available, asked.must, asked.count)

LEMMA SequencesAre ==
    ASSUME NEW S, IsFiniteSet(S), NEW s \in Sequences(S)
    PROVE  s \in Seq(S) /\ Distinct(s)
<1>1. PICK T \in SUBSET S : s \in SetToSeqs(T)
  BY DEF Sequences
<1>2. IsFiniteSet(T) /\ Cardinality(T) \in Nat
  BY FS_Subset, FS_CardinalityType
<1>3. /\ s \in [1..Cardinality(T) -> T]
      /\ \A i, j \in 1..Cardinality(T) : i # j => s[i] # s[j]
  BY <1>1 DEF SetToSeqs
<1>4. s \in Seq(T) /\ Len(s) = Cardinality(T)
  BY <1>2, <1>3, SeqDef, LenProperties
<1> QED
  BY <1>3, <1>4, SeqMonotonic DEF Distinct

LEMMA InitAnswer == Init => AnswerInv
<1> SUFFICES ASSUME Init PROVE AnswerInv
  OBVIOUS
<1>1. PICK available \in Sequences(Devices) : \E must \in Sequences(ToSet(available)) :
          \E count \in -1..(Cardinality(Devices) + 1) :
              asked = [available |-> available, must |-> must, count |-> count]
  BY DEF Init
<1>2. PICK must \in Sequences(ToSet(available)), count \in -1..(Cardinality(Devices) + 1) :
          asked = [available |-> available, must |-> must, count |-> count]
  BY <1>1
<1>3. available \in Seq(Devices) /\ Distinct(available) /\ ToSet(available) \subseteq Devices
  BY SequencesAre, PreferredDevicesAssumption, ElementsAre
<1>4. IsFiniteSet(ToSet(available))
  BY <1>3, DistinctAreCounted
<1>5. must \in Seq(ToSet(available)) /\ Distinct(must)
  BY <1>4, SequencesAre
<1>6. must \in Seq(Devices) /\ ToSet(must) \subseteq ToSet(available)
  BY <1>3, <1>5, SeqMonotonic, ElementsAre
<1>7. asked.available = available /\ asked.must = must /\ asked.count \in Int
  <2>1. Cardinality(Devices) \in Int
    BY PreferredDevicesAssumption, FS_CardinalityType
  <2>2. count \in Int
    BY <2>1
  <2> QED
    BY <1>2, <2>2
<1> QED
  BY <1>3, <1>5, <1>6, <1>7 DEF Init, AnswerInv, IsRequest, Must, Available, Answered

\* Every answer is that of selectPreferredDevices to a request.
LEMMA AnswerInvariant == Spec => []AnswerInv
<1>1. AnswerInv /\ [Next]_vars => AnswerInv'
  BY DEF AnswerInv, IsRequest, Must, Available, Answered, Next, GetPreferredAllocation, vars,
     SelectPreferredDevices, NearThenFar, Near, PreferredNode, FirstNode, Node, Known
<1> QED
  BY <1>1, InitAnswer, PTL DEF Spec

\* What is near, and what is far, of the devices that are not required.
NearRest == (Available \ Must) \cap Near(asked.available, asked.must)
FarRest == (Available \ Must) \ NearRest

\* The required devices, the near ones and the far ones: all there are, and each once.
Ordered == asked.must \o NearThenFar(asked.available, asked.must)

LEMMA OrderedHasAll ==
    ASSUME IsRequest
    PROVE  /\ Ordered \in Seq(Devices) /\ Distinct(Ordered)
           /\ ToSet(Ordered) = Available
           /\ \A i \in 1..Len(asked.must) :
                  i \in 1..Len(Ordered) /\ Ordered[i] = asked.must[i]
           /\ \A i, j \in 1..Len(Ordered) :
                  Ordered[i] \in Must \cup NearRest /\ Ordered[j] \in FarRest => i < j
<1> DEFINE near == Kept(asked.available, NearRest)
           far == Kept(asked.available, FarRest)
<1>1. NearThenFar(asked.available, asked.must) = near \o far
  BY DEF NearThenFar, NearRest, FarRest, Available, Must
<1>2. /\ near \in Seq(Devices) /\ Distinct(near) /\ ToSet(near) = NearRest
      /\ far \in Seq(Devices) /\ Distinct(far) /\ ToSet(far) = FarRest
  <2>1. NearRest = Available \cap NearRest /\ FarRest = Available \cap FarRest
    BY DEF NearRest, FarRest
  <2> DEFINE available == asked.available
  <2>2. available \in Seq(Devices) /\ Distinct(available) /\ ToSet(available) = Available
    BY DEF IsRequest, Available
  <2> HIDE DEF available
  <2>3. \A S : /\ Kept(available, S) \in Seq(Devices) /\ Distinct(Kept(available, S))
              /\ ToSet(Kept(available, S)) = Available \cap S
    BY <2>2, KeptAre
  <2> QED
    BY <2>1, <2>3 DEF available
<1> HIDE DEF near, far
<1>3. NearRest \cap FarRest = {} /\ Must \cap (NearRest \cup FarRest) = {}
      /\ Must \cup NearRest \cup FarRest = Available
  BY DEF NearRest, FarRest, IsRequest
<1>4. asked.must \in Seq(Devices) /\ Distinct(asked.must) /\ ToSet(asked.must) = Must
  BY DEF IsRequest, Must
<1> DEFINE must == asked.must
           head == must \o near
<1> HIDE DEF must
<1>5. /\ must \in Seq(Devices) /\ Distinct(must) /\ ToSet(must) = Must
      /\ Ordered = must \o (near \o far)
  BY <1>1, <1>4 DEF Ordered, must
<1>6. /\ head \in Seq(Devices) /\ Distinct(head) /\ ToSet(head) = Must \cup NearRest
      /\ \A i \in 1..Len(must) : i \in 1..Len(head) /\ head[i] = must[i]
  <2>1. ToSet(must) \cap ToSet(near) = {}
    BY <1>2, <1>3, <1>5
  <2> QED
    BY <1>2, <1>5, <2>1, TogetherDistinct
<1>7. Ordered = head \o far
  BY <1>2, <1>5, ConcatAssociative
<1> HIDE DEF head
<1>8. /\ head \o far \in Seq(Devices) /\ Distinct(head \o far)
      /\ ToSet(head \o far) = ToSet(head) \cup ToSet(far)
      /\ \A i \in 1..Len(head) : i \in 1..Len(head \o far) /\ (head \o far)[i] = head[i]
      /\ \A i, j \in 1..Len(head \o far) :
            (head \o far)[i] \in ToSet(head) /\ (head \o far)[j] \in ToSet(far) => i < j
  <2>1. ToSet(head) \cap ToSet(far) = {}
    BY <1>2, <1>3, <1>6
  <2> QED
    BY <1>2, <1>6, <2>1, TogetherDistinct
<1>9. \A i \in 1..Len(must) : i \in 1..Len(Ordered) /\ Ordered[i] = must[i]
  BY <1>6, <1>7, <1>8
<1>10. ToSet(Ordered) = Available
  BY <1>2, <1>3, <1>6, <1>7, <1>8
<1> QED
  BY <1>2, <1>6, <1>7, <1>8, <1>9, <1>10 DEF must

(***************************************************************************)
(* What is answered.                                                       *)
(***************************************************************************)
\* The answer is the beginning of such a sequence: of the available devices in shared
\* mode, of the ordered ones otherwise.
LEMMA AnswerIsBeginning ==
    ASSUME AnswerInv, Answered
    PROVE  \/ asked.count <= 0 /\ answer = <<>>
           \/ /\ asked.count \in Nat \ {0}
              /\ \/ Mode = "shared" /\ answer = Firsts(asked.available, asked.count)
                 \/ Mode # "shared" /\ answer = Firsts(Ordered, asked.count)
BY DEF AnswerInv, IsRequest, SelectPreferredDevices, Ordered

\* The answer has as many distinct available devices as asked for, or all of them.
THEOREM RequestIsAnswered == Spec => []AnswersTheRequest
<1>1. AnswerInv => AnswersTheRequest
  <2> SUFFICES ASSUME AnswerInv, Answered PROVE AnswersTheRequest
    BY DEF AnswersTheRequest
  <2>1. IsRequest /\ asked.available \in Seq(Devices) /\ Distinct(asked.available)
    BY DEF AnswerInv, IsRequest
  <2>2. IsFiniteSet(Available) /\ Cardinality(Available) = Len(asked.available)
        /\ Len(asked.available) \in Nat
    BY <2>1, DistinctAreCounted, LenProperties DEF Available
  <2>3. CASE asked.count <= 0 /\ answer = <<>>
    <3>1. Len(answer) = 0 /\ Chosen = {}
      BY <2>3 DEF Chosen, ToSet
    <3> QED
      BY <2>3, <3>1, FS_EmptySet DEF AnswersTheRequest
  <2>4. ASSUME NEW s \in Seq(Devices), Distinct(s), ToSet(s) = Available,
               asked.count \in Nat \ {0}, answer = Firsts(s, asked.count)
        PROVE  AnswersTheRequest
    <3> DEFINE n == asked.count
    <3>1. n \in Nat /\ n > 0
      BY <2>4
    <3> HIDE DEF n
    <3>2. /\ Firsts(s, n) \in Seq(Devices) /\ Distinct(Firsts(s, n))
          /\ Len(Firsts(s, n)) = IF Len(s) < n THEN Len(s) ELSE n
          /\ ToSet(Firsts(s, n)) \subseteq ToSet(s)
      BY <2>4, <3>1, FirstsAre
    <3>3. Len(Firsts(s, n)) = Cardinality(ToSet(Firsts(s, n)))
      BY <3>2, DistinctAreCounted
    <3>4. Len(s) = Cardinality(Available) /\ Len(s) \in Nat
      BY <2>4, DistinctAreCounted, LenProperties
    <3>5. answer = Firsts(s, n)
      BY <2>4 DEF n
    <3>6. Chosen \subseteq Available /\ Len(answer) = Cardinality(Chosen)
      BY <2>4, <3>2, <3>3, <3>5 DEF Chosen
    <3>7. Len(answer) = IF n < Cardinality(Available) THEN n ELSE Cardinality(Available)
      BY <3>1, <3>2, <3>4, <3>5
    <3>8. ~(n <= 0)
      BY <3>1
    <3> QED
      BY <3>6, <3>7, <3>8 DEF AnswersTheRequest, n
  <2> QED
    BY <2>1, <2>3, <2>4, AnswerIsBeginning, OrderedHasAll DEF Available
<1> QED
  BY <1>1, AnswerInvariant, PTL

\* In exclusive mode the required devices are in the answer, unless they are too many.
THEOREM RequiredAreIncluded ==
    ASSUME Mode = "exclusive" PROVE Spec => []MustIncludeIsKept
<1>1. AnswerInv => MustIncludeIsKept
  <2> SUFFICES ASSUME AnswerInv, Answered, Len(asked.must) <= asked.count,
                      NEW id \in Must
               PROVE  id \in Chosen
    BY DEF MustIncludeIsKept
  <2> DEFINE must == asked.must
             count == asked.count
  <2>1. /\ IsRequest
        /\ must \in Seq(Devices) /\ Must = ToSet(must)
    BY DEF AnswerInv, IsRequest, Must
  <2>2. Len(must) <= count /\ count \in Int
    BY DEF AnswerInv, IsRequest
  <2>3. \/ count \in Nat \ {0} /\ answer = Firsts(Ordered, count)
        \/ count <= 0
    BY AnswerIsBeginning
  <2> HIDE DEF must, count
  <2>4. PICK i \in 1..Len(must) : id = must[i]
    BY <2>1, ElementsAre
  <2>5. Len(must) \in Nat /\ i <= count
    BY <2>1, <2>2, <2>4, LenProperties
  <2>6. count \in Nat /\ answer = Firsts(Ordered, count)
    BY <2>2, <2>3, <2>4, <2>5
  <2>7. Ordered \in Seq(Devices) /\ i \in 1..Len(Ordered) /\ Ordered[i] = id
    BY <2>1, <2>4, OrderedHasAll DEF must
  <2>8. Ordered[i] \in ToSet(Firsts(Ordered, count))
    BY <2>5, <2>6, <2>7, FirstsAre
  <2> QED
    BY <2>6, <2>7, <2>8 DEF Chosen
<1> QED
  BY <1>1, AnswerInvariant, PTL

\* The first of some places.
LEMMA LeastPlace ==
    ASSUME NEW N \in Nat, NEW I \in SUBSET (1..N), I # {}
    PROVE  \E n \in I : \A m \in I : n <= m
<1>1. IsFiniteSet(I) /\ Cardinality(I) \in Nat
      /\ \A k \in 1..Cardinality(I) : \E n \in I : Cardinality({m \in I : m < n}) = k - 1
  BY PlaceOfRank
<1>2. 1 \in 1..Cardinality(I)
  <2>1. Cardinality(I) # 0
    BY <1>1, FS_EmptySet
  <2> QED
    BY <1>1, <2>1
<1>3. PICK n \in I : Cardinality({m \in I : m < n}) = 0
  BY <1>1, <1>2
<1>4. {m \in I : m < n} = {}
  <2>1. IsFiniteSet({m \in I : m < n})
    BY <1>1, FS_Subset
  <2> QED
    BY <1>3, <2>1, FS_EmptySet
<1>5. \A m \in I : m \in Int
  OBVIOUS
<1> QED
  BY <1>4, <1>5

LEMMA LeastIsMin ==
    ASSUME NEW I \in SUBSET Nat, NEW n \in I, \A m \in I : n <= m
    PROVE  Min(I) = n
<1>1. \A k \in I : (\A m \in I : k <= m) => k = n
  OBVIOUS
<1> QED
  BY <1>1 DEF Min

\* What comes after a device that has a node does not count.
LEMMA FirstNodeIsFirst ==
    ASSUME NEW V, NEW s \in Seq(V), NEW t \in Seq(V), \E id \in ToSet(s) : Known(id)
    PROVE  FirstNode(s \o t) = FirstNode(s)
<1> DEFINE I == {n \in 1..Len(s) : Known(s[n])}
           J == {n \in 1..Len(s \o t) : Known((s \o t)[n])}
<1>1. /\ Len(s \o t) = Len(s) + Len(t) /\ Len(s) \in Nat /\ Len(t) \in Nat
      /\ \A i \in 1..Len(s) + Len(t) : (s \o t)[i] = IF i <= Len(s) THEN s[i] ELSE t[i - Len(s)]
  BY ConcatProperties, LenProperties
<1>2. I # {}
  BY ElementsAre
<1>3. PICK n \in I : \A m \in I : n <= m
  <2>1. I \in SUBSET (1..Len(s))
    OBVIOUS
  <2> HIDE DEF I
  <2> QED
    BY <1>1, <1>2, <2>1, LeastPlace
<1>4. n \in J /\ (s \o t)[n] = s[n]
  BY <1>1
<1>5. \A m \in J : n <= m
  <2> SUFFICES ASSUME NEW m \in J PROVE n <= m
    OBVIOUS
  <2>1. CASE m <= Len(s)
    BY <1>1, <1>3, <2>1
  <2>2. CASE m > Len(s)
    BY <1>1, <2>2
  <2> QED
    BY <1>1, <2>1, <2>2
<1>6. I \in SUBSET Nat /\ J \in SUBSET Nat
  BY <1>1
<1>7. /\ FirstNode(s) = IF I = {} THEN NoNode ELSE Node(s[Min(I)])
      /\ FirstNode(s \o t) = IF J = {} THEN NoNode ELSE Node((s \o t)[Min(J)])
  BY DEF FirstNode
<1> HIDE DEF I, J
<1>8. Min(I) = n /\ Min(J) = n
  BY <1>3, <1>4, <1>5, <1>6, LeastIsMin
<1> QED
  BY <1>2, <1>4, <1>7, <1>8

\* In exclusive mode no device of another node is in the answer while one is left of the
\* node of the first required device that has one.
THEOREM NearComesFirst ==
    ASSUME Mode = "exclusive" PROVE Spec => []NearIsPreferred
<1>1. AnswerInv => NearIsPreferred
  <2> SUFFICES ASSUME AnswerInv, Answered, \E id \in Must : Known(id),
                      NEW id \in Chosen \ Must, NEW other \in Available \ Chosen,
                      Node(other) = FirstNode(asked.must), Node(id) # FirstNode(asked.must)
               PROVE  FALSE
    BY DEF NearIsPreferred
  <2>1. IsRequest
    BY DEF AnswerInv
  <2>2. PreferredNode(asked.available, asked.must) = FirstNode(asked.must)
    <3> DEFINE must == asked.must
               available == asked.available
    <3>1. must \in Seq(Devices) /\ available \in Seq(Devices) /\ ToSet(must) = Must
      BY <2>1 DEF IsRequest, Must
    <3> HIDE DEF must, available
    <3>2. FirstNode(must \o available) = FirstNode(must)
      BY <3>1, FirstNodeIsFirst
    <3> QED
      BY <3>2 DEF PreferredNode, must, available
  <2>3. Ordered \in Seq(Devices) /\ Distinct(Ordered) /\ ToSet(Ordered) = Available
    BY <2>1, OrderedHasAll
  <2> DEFINE n == asked.count
  <2>4. n \in Nat /\ answer = Firsts(Ordered, n)
    <3>1. answer # <<>>
      BY DEF Chosen, ToSet
    <3> QED
      BY <3>1, AnswerIsBeginning
  <2> HIDE DEF n
  <2>5. id \in Available
    BY <2>3, <2>4, FirstsAre DEF Chosen
  <2>6. id \in FarRest
    BY <2>2, <2>5 DEF FarRest, NearRest, Near
  <2>7. other \in Must \cup NearRest
    BY <2>2 DEF NearRest, Near, Available
  <2>8. PICK p \in 1..Len(Ordered) : Ordered[p] = id
    BY <2>3, <2>5, ElementsAre
  <2>9. PICK q \in 1..Len(Ordered) : Ordered[q] = other
    BY <2>3, ElementsAre
  <2>10. q < p
    BY <2>1, <2>6, <2>7, <2>8, <2>9, OrderedHasAll
  <2>11. p <= n
    BY <2>3, <2>4, <2>8, FirstsAre DEF Chosen
  <2>12. q <= n
    BY <2>4, <2>10, <2>11
  <2> QED
    BY <2>3, <2>4, <2>9, <2>12, FirstsAre DEF Chosen
<1> QED
  BY <1>1, AnswerInvariant, PTL
=============================================================================
