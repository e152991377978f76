------------------------------ MODULE Ops_proofs ------------------------------
(***************************************************************************)
(* The facts about the operators several models share.  A queue out of     *)
(* which elements are taken holds the other ones, in their old order; and  *)
(* what each method of the lease authority returns and leaves alone, for   *)
(* any lease.                                                              *)
(***************************************************************************)
EXTENDS QueueOps, LeaseOps, FiniteSetTheorems, FunctionTheorems, TLAPS

-------------------------------------------------------------------------------
(* Queues *)

\* Entries that grow from the front of a queue to its back.
Increasing(s) == \A i, j \in DOMAIN s : i < j => s[i] < s[j]

\* Entries that all differ.
Distinct(s) == \A i, j \in DOMAIN s : s[i] = s[j] => i = j

\* The positions of a sequence are finitely many, and so are the ones that survive
\* an erase.
LEMMA KeptFinite ==
    ASSUME NEW S, NEW s \in Seq(S), NEW X
    PROVE  /\ Len(s) \in Nat /\ DOMAIN s = 1..Len(s)
           /\ Kept(s, X) \subseteq 1..Len(s)
           /\ IsFiniteSet(Kept(s, X))
           /\ Cardinality(Kept(s, X)) \in Nat
<1>1. Len(s) \in Nat /\ DOMAIN s = 1..Len(s)
  OBVIOUS
<1>2. Kept(s, X) \subseteq 1..Len(s)
  BY <1>1 DEF Kept
<1>3. IsFiniteSet(1..Len(s))
  BY <1>1, FS_Interval
<1>4. IsFiniteSet(Kept(s, X))
  BY <1>2, <1>3, FS_Subset
<1>5. QED
  BY <1>1, <1>2, <1>4, FS_CardinalityType

\* Ranks are positions of the shorter sequence and grow with the position.
LEMMA RankGrows ==
    ASSUME NEW S, NEW s \in Seq(S), NEW X
    PROVE  /\ \A i \in Kept(s, X) : Rank(s, X, i) \in 1..Cardinality(Kept(s, X))
           /\ \A i, j \in Kept(s, X) : i < j => Rank(s, X, i) < Rank(s, X, j)
<1> DEFINE K == Kept(s, X)
           Upto(i) == {j \in K : j <= i}
<1>1. K \subseteq Nat /\ IsFiniteSet(K) /\ Cardinality(K) \in Nat
  BY KeptFinite
<1>2. \A i : /\ IsFiniteSet(Upto(i))
             /\ Cardinality(Upto(i)) \in Nat
             /\ Cardinality(Upto(i)) <= Cardinality(K)
  <2> TAKE i
  <2>1. Upto(i) \in SUBSET K
    OBVIOUS
  <2> QED
    BY <2>1, <1>1, FS_Subset, FS_CardinalityType
<1>3. ASSUME NEW i \in K PROVE Rank(s, X, i) \in 1..Cardinality(K)
  <2>1. i \in Upto(i)
    BY <1>1
  <2>2. Cardinality(Upto(i)) # 0
    BY <2>1, <1>2, FS_EmptySet
  <2> QED
    BY <2>2, <1>1, <1>2, SMTT(30) DEF Rank
<1>4. ASSUME NEW i \in K, NEW j \in K, i < j
      PROVE  Rank(s, X, i) < Rank(s, X, j)
  <2>1. Upto(i) \in SUBSET Upto(j)
    BY <1>1, <1>4
  <2>2. j \in Upto(j) /\ j \notin Upto(i)
    BY <1>1, <1>4
  <2>3. Cardinality(Upto(i)) <= Cardinality(Upto(j))
    BY <2>1, <1>2, FS_Subset
  <2>4. Cardinality(Upto(i)) # Cardinality(Upto(j))
    BY <2>1, <2>2, <1>2, FS_Subset
  <2>5. Cardinality(Upto(i)) \in Nat /\ Cardinality(Upto(j)) \in Nat
    BY <1>2
  <2>6. Cardinality(Upto(i)) < Cardinality(Upto(j))
    BY <2>3, <2>4, <2>5
  <2> QED
    BY <2>6 DEF Rank
<1>5. QED
  BY <1>3, <1>4

\* Every position of the shorter sequence is the rank of a survivor.
LEMMA RankCovers ==
    ASSUME NEW S, NEW s \in Seq(S), NEW X,
           NEW n \in 1..Cardinality(Kept(s, X))
    PROVE  \E i \in Kept(s, X) : Rank(s, X, i) = n
<1> DEFINE K == Kept(s, X)
           N == 1..Cardinality(K)
           r == [i \in K |-> Rank(s, X, i)]
<1>1. K \subseteq Nat /\ IsFiniteSet(K) /\ Cardinality(K) \in Nat
  BY KeptFinite
<1>2. IsFiniteSet(N) /\ Cardinality(N) = Cardinality(K)
  <2>1. 1 \in Int /\ Cardinality(K) \in Int
    BY <1>1
  <2>2. IsFiniteSet(N)
    BY <2>1, FS_Interval
  <2>3. Cardinality(N) = IF 1 > Cardinality(K) THEN 0 ELSE Cardinality(K) - 1 + 1
    BY <2>1, FS_Interval
  <2> QED
    BY <2>2, <2>3, <1>1
<1>3. r \in [K -> N]
  BY RankGrows
<1>4. \A i, j \in K : r[i] = r[j] => i = j
  <2> SUFFICES ASSUME NEW i \in K, NEW j \in K, r[i] = r[j], i # j PROVE FALSE
    OBVIOUS
  <2>0. i \in Nat /\ j \in Nat
    BY <1>1
  <2>1. i < j \/ j < i
    BY <2>0
  <2>2. Rank(s, X, i) < Rank(s, X, j) \/ Rank(s, X, j) < Rank(s, X, i)
    BY <2>1, RankGrows
  <2>3. Rank(s, X, i) \in N /\ Rank(s, X, j) \in N
    BY RankGrows
  <2> QED
    BY <2>2, <2>3, <1>1
<1>5. r \in Injection(K, N)
  BY <1>3, <1>4 DEF Injection, IsInjective
<1>6. r \in Surjection(K, N)
  BY <1>5, <1>2, FS_Injection
<1>7. \E i \in K : r[i] = n
  BY <1>6 DEF Surjection
<1>8. QED
  BY <1>7

\* What an erase leaves: a queue of the same kind, whose elements sit at increasing
\* positions of the old one, exactly the ones not taken out.
LEMMA WithoutIs ==
    ASSUME NEW S, NEW s \in Seq(S), NEW X
    PROVE  /\ Without(s, X) \in Seq(S)
           /\ Elements(Without(s, X)) = Elements(s) \ X
           /\ Len(Without(s, X)) <= Len(s)
           /\ \E f \in [DOMAIN Without(s, X) -> DOMAIN s] :
                 /\ \A n \in DOMAIN Without(s, X) : Without(s, X)[n] = s[f[n]]
                 /\ \A m, n \in DOMAIN Without(s, X) : m < n => f[m] < f[n]
<1> DEFINE K == Kept(s, X)
           C == Cardinality(K)
           w == Without(s, X)
<1>1. /\ Len(s) \in Nat /\ DOMAIN s = 1..Len(s)
      /\ K \subseteq 1..Len(s) /\ C \in Nat
  BY KeptFinite
<1>2. \E at \in [1..C -> K] :
         /\ \A n \in 1..C : Rank(s, X, at[n]) = n
         /\ w = [n \in 1..C |-> s[at[n]]]
  <2> DEFINE a == [n \in 1..C |-> CHOOSE i \in K : Rank(s, X, i) = n]
  <2>1. \A n \in 1..C : a[n] \in K /\ Rank(s, X, a[n]) = n
    <3> TAKE n \in 1..C
    <3>1. \E i \in K : Rank(s, X, i) = n
      BY RankCovers
    <3> QED
      BY <3>1
  <2>2. a \in [1..C -> K]
    BY <2>1
  <2>3. w = [n \in 1..C |-> s[a[n]]]
    BY DEF Without
  <2> QED
    BY <2>1, <2>2, <2>3
<1>3. PICK at \in [1..C -> K] :
         /\ \A n \in 1..C : Rank(s, X, at[n]) = n
         /\ w = [n \in 1..C |-> s[at[n]]]
  BY <1>2
<1> HIDE DEF K, C, w
<1>4. \A n \in 1..C : at[n] \in K /\ at[n] \in 1..Len(s) /\ at[n] \in Nat
  <2> TAKE n \in 1..C
  <2>1. at[n] \in K
    BY <1>3
  <2>2. at[n] \in 1..Len(s)
    BY <2>1, <1>1
  <2> QED
    BY <2>1, <2>2, <1>1
<1>5. \A n \in 1..C : s[at[n]] \in S /\ s[at[n]] \notin X
  BY <1>1, <1>4 DEF K, Kept
<1>6. w \in Seq(S)
  BY <1>1, <1>3, <1>5
<1>7. \A m, n \in 1..C : m < n => at[m] < at[n]
  <2> SUFFICES ASSUME NEW m \in 1..C, NEW n \in 1..C, m < n, ~(at[m] < at[n])
               PROVE  FALSE
    OBVIOUS
  <2>1. at[n] < at[m] \/ at[n] = at[m]
    BY <1>4
  <2>2. CASE at[n] < at[m]
    <3>1. Rank(s, X, at[n]) < Rank(s, X, at[m])
      BY <2>2, <1>4, RankGrows DEF K
    <3> QED
      BY <3>1, <1>3, <1>1
  <2>3. CASE at[n] = at[m]
    <3>1. m = n
      BY <2>3, <1>3
    <3> QED
      BY <3>1, <1>1
  <2> QED
    BY <2>1, <2>2, <2>3
<1>8. Elements(w) = Elements(s) \ X
  <2>1. ASSUME NEW x \in Elements(w) PROVE x \in Elements(s) \ X
    BY <1>1, <1>3, <1>4, <1>5 DEF Elements
  <2>2. ASSUME NEW x \in Elements(s) \ X PROVE x \in Elements(w)
    <3>1. PICK i \in K : x = s[i]
      BY DEF Elements, K, Kept
    <3> DEFINE n == Rank(s, X, i)
    <3>2. n \in 1..C
      BY RankGrows DEF K, C
    <3>3. at[n] \in K /\ Rank(s, X, at[n]) = n
      BY <3>2, <1>3, <1>4
    <3>4. n \in Nat /\ ~(n < n)
      BY <3>2, <1>1
    <3>5. ~(i < at[n]) /\ ~(at[n] < i)
      BY <3>3, <3>4, RankGrows DEF K
    <3>6. at[n] = i
      BY <3>2, <3>5, <1>1, <1>4
    <3> QED
      BY <3>1, <3>2, <3>6, <1>3 DEF Elements
  <2> QED
    BY <2>1, <2>2
<1>9. Len(w) <= Len(s)
  <2>1. Len(w) = C
    BY <1>1, <1>3, <1>6
  <2>2. IsFiniteSet(1..Len(s)) /\ Cardinality(1..Len(s)) = Len(s)
    <3>1. 1 \in Int /\ Len(s) \in Int
      BY <1>1
    <3>2. /\ IsFiniteSet(1..Len(s))
          /\ Cardinality(1..Len(s)) = IF 1 > Len(s) THEN 0 ELSE Len(s) - 1 + 1
      BY <3>1, FS_Interval
    <3> QED
      BY <3>2, <1>1
  <2>3. C <= Cardinality(1..Len(s))
    BY <2>2, <1>1, FS_Subset DEF C
  <2> QED
    BY <2>1, <2>2, <2>3
<1>10. at \in [DOMAIN w -> DOMAIN s] /\ DOMAIN w = 1..C
  BY <1>1, <1>3, <1>4
<1> QED
  BY <1>3, <1>6, <1>7, <1>8, <1>9, <1>10, ZenonT(60) DEF w

\* A queue whose entries grow keeps growing through an erase.
LEMMA WithoutIncreasing ==
    ASSUME NEW S \in SUBSET Nat, NEW s \in Seq(S), NEW X, Increasing(s)
    PROVE  Increasing(Without(s, X))
<1>1. PICK f \in [DOMAIN Without(s, X) -> DOMAIN s] :
         /\ \A n \in DOMAIN Without(s, X) : Without(s, X)[n] = s[f[n]]
         /\ \A m, n \in DOMAIN Without(s, X) : m < n => f[m] < f[n]
  BY WithoutIs
<1> QED
  BY <1>1, SMTT(30) DEF Increasing

\* push_back adds one element, and keeps a queue growing when it is a larger one.
LEMMA AppendIs ==
    ASSUME NEW S, NEW s \in Seq(S), NEW x \in S
    PROVE  /\ Append(s, x) \in Seq(S)
           /\ Elements(Append(s, x)) = Elements(s) \cup {x}
           /\ (Increasing(s) /\ \A y \in Elements(s) : y < x) => Increasing(Append(s, x))
<1>1. /\ Len(s) \in Nat /\ DOMAIN s = 1..Len(s)
      /\ Append(s, x) \in Seq(S) /\ DOMAIN Append(s, x) = 1..(Len(s) + 1)
      /\ \A i \in 1..Len(s) : Append(s, x)[i] = s[i]
      /\ Append(s, x)[Len(s) + 1] = x
  OBVIOUS
<1>2. Elements(Append(s, x)) = Elements(s) \cup {x}
  <2>1. ASSUME NEW y \in Elements(Append(s, x)) PROVE y \in Elements(s) \cup {x}
    BY <1>1 DEF Elements
  <2>2. ASSUME NEW y \in Elements(s) \cup {x} PROVE y \in Elements(Append(s, x))
    BY <1>1 DEF Elements
  <2> QED
    BY <2>1, <2>2
<1>3. ASSUME Increasing(s), \A y \in Elements(s) : y < x
      PROVE  Increasing(Append(s, x))
  BY <1>1, <1>3 DEF Increasing, Elements
<1> QED
  BY <1>1, <1>2, <1>3

\* pop_front takes the first element out; in a growing queue it was the smallest.
LEMMA TailIs ==
    ASSUME NEW S, NEW s \in Seq(S), s # <<>>
    PROVE  /\ Head(s) \in S /\ Head(s) \in Elements(s)
           /\ Tail(s) \in Seq(S)
           /\ Elements(s) = Elements(Tail(s)) \cup {Head(s)}
           /\ Increasing(s) => /\ Increasing(Tail(s))
                               /\ \A y \in Elements(Tail(s)) : Head(s) < y
<1>1. /\ Len(s) \in Nat \ {0} /\ DOMAIN s = 1..Len(s)
      /\ Head(s) = s[1]
      /\ Tail(s) \in Seq(S) /\ DOMAIN Tail(s) = 1..(Len(s) - 1)
      /\ \A i \in 1..(Len(s) - 1) : Tail(s)[i] = s[i + 1]
  OBVIOUS
<1>2. Head(s) \in S /\ Head(s) \in Elements(s)
  BY <1>1 DEF Elements
<1>3. Elements(s) = Elements(Tail(s)) \cup {Head(s)}
  <2>1. ASSUME NEW y \in Elements(s), y # Head(s) PROVE y \in Elements(Tail(s))
    <3>1. PICK i \in 1..Len(s) : y = s[i]
      BY <1>1 DEF Elements
    <3>2. i - 1 \in 1..(Len(s) - 1) /\ Tail(s)[i - 1] = y
      BY <3>1, <2>1, <1>1
    <3> QED
      BY <3>2, <1>1 DEF Elements
  <2>2. ASSUME NEW y \in Elements(Tail(s)) PROVE y \in Elements(s)
    <3>1. PICK i \in 1..(Len(s) - 1) : y = s[i + 1]
      BY <1>1 DEF Elements
    <3>2. i + 1 \in 1..Len(s)
      BY <1>1
    <3> QED
      BY <3>1, <3>2, <1>1 DEF Elements
  <2> QED
    BY <2>1, <2>2, <1>2
<1>4. ASSUME Increasing(s)
      PROVE  Increasing(Tail(s)) /\ \A y \in Elements(Tail(s)) : Head(s) < y
  <2>1. \A i \in 1..(Len(s) - 1) : i + 1 \in 1..Len(s) /\ 1 \in 1..Len(s) /\ 1 < i + 1
    BY <1>1
  <2>2. \A y \in Elements(Tail(s)) : Head(s) < y
    BY <2>1, <1>1, <1>4 DEF Increasing, Elements
  <2>3. Increasing(Tail(s))
    <3> SUFFICES ASSUME NEW i \in 1..(Len(s) - 1), NEW j \in 1..(Len(s) - 1), i < j
                 PROVE  Tail(s)[i] < Tail(s)[j]
      BY <1>1 DEF Increasing
    <3>1. i + 1 \in 1..Len(s) /\ j + 1 \in 1..Len(s) /\ i + 1 < j + 1
      BY <1>1
    <3> QED
      BY <3>1, <1>1, <1>4 DEF Increasing
  <2> QED
    BY <2>2, <2>3
<1> QED
  BY <1>1, <1>2, <1>3, <1>4

\* An empty queue has no elements, and a queue has only elements of its kind.
LEMMA ElementsOf ==
    ASSUME NEW S, NEW s \in Seq(S)
    PROVE  /\ Elements(s) \subseteq S
           /\ Elements(s) = {} <=> s = <<>>
<1>1. Len(s) \in Nat /\ DOMAIN s = 1..Len(s) /\ \A i \in 1..Len(s) : s[i] \in S
  OBVIOUS
<1>2. s = <<>> <=> Len(s) = 0
  OBVIOUS
<1>3. ASSUME Len(s) # 0 PROVE Elements(s) # {}
  <2>1. 1 \in DOMAIN s
    BY <1>1, <1>3
  <2> QED
    BY <2>1 DEF Elements
<1>4. ASSUME Len(s) = 0 PROVE Elements(s) = {}
  BY <1>1, <1>4 DEF Elements
<1> QED
  BY <1>1, <1>2, <1>3, <1>4 DEF Elements

\* Several elements at once, as a reply cut into records is queued.
LEMMA ConcatIs ==
    ASSUME NEW S, NEW s \in Seq(S), NEW t \in Seq(S)
    PROVE  s \o t \in Seq(S) /\ Elements(s \o t) = Elements(s) \cup Elements(t)
<1>1. /\ Len(s) \in Nat /\ Len(t) \in Nat /\ DOMAIN s = 1..Len(s) /\ DOMAIN t = 1..Len(t)
      /\ s \o t \in Seq(S) /\ DOMAIN (s \o t) = 1..(Len(s) + Len(t))
      /\ \A i \in 1..(Len(s) + Len(t)) :
            (s \o t)[i] = IF i <= Len(s) THEN s[i] ELSE t[i - Len(s)]
  OBVIOUS
<1>2. ASSUME NEW x \in Elements(s \o t) PROVE x \in Elements(s) \cup Elements(t)
  <2>1. PICK i \in 1..(Len(s) + Len(t)) : x = (s \o t)[i]
    BY <1>1 DEF Elements
  <2>2. CASE i <= Len(s)
    <3>1. i \in 1..Len(s) /\ x = s[i]
      BY <2>1, <2>2, <1>1
    <3> QED
      BY <3>1, <1>1 DEF Elements
  <2>3. CASE ~(i <= Len(s))
    <3>1. i - Len(s) \in 1..Len(t) /\ x = t[i - Len(s)]
      BY <2>1, <2>3, <1>1
    <3> QED
      BY <3>1, <1>1 DEF Elements
  <2> QED
    BY <2>2, <2>3
<1>3. ASSUME NEW x \in Elements(s) PROVE x \in Elements(s \o t)
  <2>1. PICK i \in 1..Len(s) : x = s[i]
    BY <1>1 DEF Elements
  <2>2. i \in 1..(Len(s) + Len(t)) /\ (s \o t)[i] = x
    BY <2>1, <1>1
  <2> QED
    BY <2>2, <1>1 DEF Elements
<1>4. ASSUME NEW x \in Elements(t) PROVE x \in Elements(s \o t)
  <2>1. PICK i \in 1..Len(t) : x = t[i]
    BY <1>1 DEF Elements
  <2>2. i + Len(s) \in 1..(Len(s) + Len(t)) /\ (s \o t)[i + Len(s)] = x
    BY <2>1, <1>1
  <2> QED
    BY <2>2, <1>1 DEF Elements
<1> QED
  BY <1>1, <1>2, <1>3, <1>4

\* A queue without repetitions stays one.
LEMMA DistinctKept ==
    ASSUME NEW S, NEW s \in Seq(S), Distinct(s)
    PROVE  /\ \A X : Distinct(Without(s, X))
           /\ \A x \in S : x \notin Elements(s) => Distinct(Append(s, x))
           /\ s # <<>> => Distinct(Tail(s)) /\ Head(s) \notin Elements(Tail(s))
<1>1. Len(s) \in Nat /\ DOMAIN s = 1..Len(s)
  OBVIOUS
<1>2. ASSUME NEW X PROVE Distinct(Without(s, X))
  <2>1. PICK f \in [DOMAIN Without(s, X) -> DOMAIN s] :
           /\ \A n \in DOMAIN Without(s, X) : Without(s, X)[n] = s[f[n]]
           /\ \A m, n \in DOMAIN Without(s, X) : m < n => f[m] < f[n]
    BY WithoutIs
  <2>2. PICK w \in Seq(S) : w = Without(s, X)
    BY WithoutIs
  <2>3. DOMAIN w \subseteq Nat
    OBVIOUS
  <2>4. ASSUME NEW m \in DOMAIN w, NEW n \in DOMAIN w, w[m] = w[n] PROVE m = n
    <3>1. f[m] \in Nat /\ f[n] \in Nat /\ f[m] = f[n]
      BY <2>1, <2>2, <2>4, <1>1 DEF Distinct
    <3> QED
      BY <3>1, <2>1, <2>2, <2>3, SMTT(30)
  <2> QED
    BY <2>2, <2>4 DEF Distinct
<1>3. ASSUME NEW x \in S, x \notin Elements(s) PROVE Distinct(Append(s, x))
  <2>1. /\ DOMAIN Append(s, x) = 1..(Len(s) + 1)
        /\ \A i \in 1..Len(s) : Append(s, x)[i] = s[i] /\ s[i] # x
        /\ Append(s, x)[Len(s) + 1] = x
    BY <1>1, <1>3 DEF Elements
  <2> QED
    BY <2>1, <1>1 DEF Distinct
<1>4. ASSUME s # <<>> PROVE Distinct(Tail(s)) /\ Head(s) \notin Elements(Tail(s))
  <2>1. /\ Head(s) = s[1] /\ DOMAIN Tail(s) = 1..(Len(s) - 1) /\ Len(s) # 0
        /\ \A i \in 1..(Len(s) - 1) : Tail(s)[i] = s[i + 1]
    BY <1>1, <1>4
  <2>2. \A i \in 1..(Len(s) - 1) : i + 1 \in DOMAIN s /\ i + 1 # 1 /\ 1 \in DOMAIN s
    BY <2>1, <1>1
  <2>3. Distinct(Tail(s))
    BY <2>1, <2>2 DEF Distinct
  <2> QED
    BY <2>1, <2>2, <2>3 DEF Distinct, Elements
<1> QED
  BY <1>2, <1>3, <1>4

-------------------------------------------------------------------------------
(* Leases *)

\* What is true of every lease between two calls: an owner is recorded exactly
\* while the lease is not free, a held lease names a device, and an attach id
\* is in use that the counter has passed; a free lease names nothing.
LeaseOK(l) ==
    /\ l \in Lease
    /\ l.state = "Free" <=> l.owner = NoPeer
    /\ l.state # "Free" => l.uid \in Uids
    /\ l.state = "Free" => l.attachId = 0
    /\ l.attachId < l.nextAttachId

\* The types of a lease's fields, spelled out, and of the values set in them.
LEMMA FieldTypes ==
  ASSUME NEW l \in Lease
  PROVE  /\ l.state \in LeaseStates /\ l.owner \in Peers \cup {NoPeer}
         /\ l.uid \in Uids \cup {NoUid}
         /\ l.attachId \in Nat /\ l.leaseEpoch \in Nat
         /\ l.silence \in 0..LeaseExporter /\ l.token \in Nat /\ l.minted \in Nat
         /\ l.nextAttachId \in Nat \ {0} /\ l.nextAttachId + 1 \in Nat \ {0}
         /\ l.leaseEpoch + 1 \in Nat /\ l.minted + 1 \in Nat
         /\ 0 \in 0..LeaseExporter /\ 0 \in Nat
         /\ "Free" \in LeaseStates /\ "Leased" \in LeaseStates
<1>1. 0 \in 0..LeaseExporter
  BY LeaseOpsAssumption
<1>2. "Free" \in LeaseStates /\ "Leased" \in LeaseStates
  BY DEF LeaseStates
<1>3. l.nextAttachId \in Nat \ {0} /\ l.leaseEpoch \in Nat /\ l.minted \in Nat
  BY DEF Lease
<1>. QED  BY <1>1, <1>2, <1>3 DEF Lease

\* A new authority is free and sound.
LEMMA InitLeaseOK == LeaseOK(InitLease) /\ InitLease.state = "Free"
  BY LeaseOpsAssumption DEF LeaseOK, Lease, LeaseStates, InitLease

\* heard changes neither whose the lease is nor whether there is one.
LEMMA HeardOK ==
  ASSUME NEW l, LeaseOK(l), NEW p
  PROVE  /\ LeaseOK(Heard(l, p))
         /\ Heard(l, p).state = "Free" <=> l.state = "Free"
         /\ l.state = "Leased" => Heard(l, p).state = "Leased"
         /\ Heard(l, p).owner = l.owner
         /\ Heard(l, p).uid = l.uid
         /\ Heard(l, p).attachId = l.attachId
         /\ Heard(l, p).nextAttachId = l.nextAttachId
         /\ Heard(l, p).token = l.token
         /\ Heard(l, p).minted = l.minted
<1>. DEFINE h == Heard(l, p)
<1>1. CASE l.owner = p
  <2>1. h = [l EXCEPT !.silence = 0,
                      !.state = IF l.state = "Quarantined" THEN "Leased" ELSE l.state]
    BY <1>1 DEF Heard, IsOwner
  <2>2. h \in Lease
    BY <2>1, FieldTypes DEF LeaseOK, Lease
  <2>3. /\ h.state = IF l.state = "Quarantined" THEN "Leased" ELSE l.state
        /\ h.owner = l.owner /\ h.uid = l.uid
        /\ h.attachId = l.attachId /\ h.nextAttachId = l.nextAttachId
        /\ h.token = l.token /\ h.minted = l.minted
    BY <2>1 DEF LeaseOK, Lease
  <2>. QED  BY <2>2, <2>3 DEF LeaseOK
<1>2. CASE l.owner # p
  BY <1>2 DEF Heard, IsOwner
<1>. QED  BY <1>1, <1>2

\* quarantine keeps the lease where it is, and leaves none merely Leased.
LEMMA QuarantineOK ==
  ASSUME NEW l, LeaseOK(l)
  PROVE  /\ LeaseOK(Quarantine(l))
         /\ Quarantine(l).state = "Free" <=> l.state = "Free"
         /\ Quarantine(l).owner = l.owner
         /\ Quarantine(l).uid = l.uid
         /\ Quarantine(l).attachId = l.attachId
         /\ Quarantine(l).nextAttachId = l.nextAttachId
         /\ Quarantine(l).token = l.token
         /\ Quarantine(l).minted = l.minted
  BY LeaseOpsAssumption DEF LeaseOK, Lease, LeaseStates, Quarantine

\* A tick changes no more than the silence.
LEMMA AgedOK ==
  ASSUME NEW l, LeaseOK(l)
  PROVE  /\ LeaseOK(Aged(l))
         /\ Aged(l).state = l.state
         /\ Aged(l).owner = l.owner
         /\ Aged(l).uid = l.uid
         /\ Aged(l).attachId = l.attachId
         /\ Aged(l).nextAttachId = l.nextAttachId
         /\ Aged(l).token = l.token
         /\ Aged(l).minted = l.minted
  BY LeaseOpsAssumption DEF LeaseOK, Lease, LeaseStates, Aged

\* grant hands the device to the peer under an attach id never used before.
LEMMA GrantOK ==
  ASSUME NEW l, LeaseOK(l), NEW p \in Peers, NEW u \in Uids
  PROVE  /\ LeaseOK(Grant(l, p, u))
         /\ Grant(l, p, u).state = "Leased"
         /\ Grant(l, p, u).owner = p
         /\ Grant(l, p, u).uid = u
         /\ Grant(l, p, u).attachId = l.nextAttachId
         /\ Grant(l, p, u).nextAttachId = l.nextAttachId + 1
         /\ Grant(l, p, u).token = l.minted + 1
         /\ Grant(l, p, u).minted = l.minted + 1
<1>. DEFINE g == Grant(l, p, u)
<1>1. g = [l EXCEPT !.state = "Leased", !.owner = p, !.uid = u,
                    !.attachId = l.nextAttachId,
                    !.nextAttachId = l.nextAttachId + 1,
                    !.leaseEpoch = l.leaseEpoch + 1, !.silence = 0,
                    !.minted = l.minted + 1, !.token = l.minted + 1]
  BY DEF LeaseOK, Lease, Grant, MintToken
<1>2. g \in Lease
  BY <1>1, FieldTypes, ZenonT(60) DEF LeaseOK, Lease
<1>3. /\ g.state = "Leased" /\ g.owner = p /\ g.uid = u
      /\ g.attachId = l.nextAttachId /\ g.nextAttachId = l.nextAttachId + 1
      /\ g.token = l.minted + 1 /\ g.minted = l.minted + 1
  BY <1>1 DEF LeaseOK, Lease
<1>4. l.nextAttachId \in Nat
  BY DEF LeaseOK, Lease
<1>. QED  BY <1>2, <1>3, <1>4, LeaseOpsAssumption DEF LeaseOK

\* `_s = Snapshot{}` frees the lease and keeps the attach id counter.
LEMMA ResetOK ==
  ASSUME NEW l, LeaseOK(l)
  PROVE  /\ LeaseOK(Reset(l))
         /\ Reset(l).state = "Free"
         /\ Reset(l).owner = NoPeer
         /\ Reset(l).attachId = 0
         /\ Reset(l).nextAttachId = l.nextAttachId
         /\ Reset(l).token = 0
         /\ Reset(l).minted = l.minted
<1>. DEFINE r == Reset(l)
<1>1. r = [InitLease EXCEPT !.minted = l.minted, !.nextAttachId = l.nextAttachId]
  BY DEF Reset
<1>2. InitLease \in Lease
  BY InitLeaseOK DEF LeaseOK
<1>3. r \in Lease
  BY <1>1, <1>2, FieldTypes DEF LeaseOK, Lease
<1>4. /\ r.state = InitLease.state /\ r.owner = InitLease.owner
      /\ r.attachId = InitLease.attachId /\ r.nextAttachId = l.nextAttachId
      /\ r.token = InitLease.token /\ r.minted = l.minted
  BY <1>1, <1>2 DEF Lease
<1>5. /\ InitLease.state = "Free" /\ InitLease.owner = NoPeer
      /\ InitLease.attachId = 0 /\ InitLease.token = 0
  BY DEF InitLease
<1>6. l.nextAttachId \in Nat \ {0}
  BY DEF LeaseOK, Lease
<1>. QED  BY <1>3, <1>4, <1>5, <1>6 DEF LeaseOK

\* A successful recovery keeps the owner and the device, under a new attach id.
LEMMA RecoveredOK ==
  ASSUME NEW l, LeaseOK(l), l.state # "Free"
  PROVE  /\ LeaseOK(Recovered(l))
         /\ Recovered(l).state = "Leased"
         /\ Recovered(l).owner = l.owner
         /\ Recovered(l).attachId = l.nextAttachId
         /\ Recovered(l).nextAttachId = l.nextAttachId + 1
         /\ Recovered(l).token = l.minted + 1
         /\ Recovered(l).minted = l.minted + 1
<1>. DEFINE g == Recovered(l)
<1>1. g = [l EXCEPT !.state = "Leased",
                    !.attachId = l.nextAttachId,
                    !.nextAttachId = l.nextAttachId + 1,
                    !.leaseEpoch = l.leaseEpoch + 1, !.silence = 0,
                    !.minted = l.minted + 1, !.token = l.minted + 1]
  BY DEF LeaseOK, Lease, Recovered, MintToken
<1>2. g \in Lease
  BY <1>1, FieldTypes, ZenonT(60) DEF LeaseOK, Lease
<1>3. /\ g.state = "Leased" /\ g.owner = l.owner /\ g.uid = l.uid
      /\ g.attachId = l.nextAttachId /\ g.nextAttachId = l.nextAttachId + 1
      /\ g.token = l.minted + 1 /\ g.minted = l.minted + 1
  BY <1>1 DEF LeaseOK, Lease
<1>4. l.nextAttachId \in Nat
  BY DEF LeaseOK, Lease
<1>. QED  BY <1>2, <1>3, <1>4 DEF LeaseOK

===============================================================================
