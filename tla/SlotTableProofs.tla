-------------------------- MODULE SlotTableProofs --------------------------
(***************************************************************************)
(* What the proofs about the slot table and about the connector that uses  *)
(* it rest on.                                                             *)
(***************************************************************************)
EXTENDS SlotTable, FiniteSets, FiniteSetTheorems, WellFoundedInduction, TLAPS

\* A nonempty set of numbers has a least one: this is what stands for
\* induction in the proofs about the table.
LEMMA Least ==
  ASSUME NEW T, T \subseteq Nat, T # {}
  PROVE  \E x \in T : \A y \in T : x <= y
  <1> DEFINE R == OpToRel(<, Nat)
  <1>1. \A x, y \in Nat : <<y, x>> \in R <=> y < x
    BY DEF OpToRel
  <1>2. IsWellFoundedOn(R, Nat)
    BY NatLessThanWellFounded
  <1> HIDE DEF R
  <1>3. PICK x \in T : \A y \in T : ~(<<y, x>> \in R)
    BY <1>2, WFMin
  <1>4. \A y \in T : ~(y < x)
    BY <1>1, <1>3
  <1> QED
    BY <1>4

\* Where the last server takes the place of the first: what is left.
LEMMA SwapDrop ==
  ASSUME NEW S, NEW h \in Seq(S), h # <<>>
  PROVE  LET t == Front([h EXCEPT ![1] = Last(h)]) IN
         /\ t \in Seq(S) /\ Len(t) = Len(h) - 1
         /\ \A i \in 1 .. Len(t) : t[i] = IF i = 1 THEN h[Len(h)] ELSE h[i]
  <1> DEFINE n == Len(h)
             g == [h EXCEPT ![1] = Last(h)]
             t == Front(g)
  <1>1. n \in Nat /\ n >= 1 /\ DOMAIN h = 1 .. n /\ \A i \in 1 .. n : h[i] \in S
    OBVIOUS
  <1>2. Last(h) = h[n] /\ h[n] \in S
    BY <1>1 DEF Last
  <1>3. g \in Seq(S) /\ Len(g) = n /\ \A i \in 1 .. n : g[i] = IF i = 1 THEN h[n] ELSE h[i]
    BY <1>1, <1>2
  <1> HIDE DEF g
  <1>4. t = SubSeq(g, 1, n - 1)
    BY <1>3 DEF Front
  <1>5. t \in Seq(S) /\ Len(t) = n - 1 /\ \A i \in 1 .. (n - 1) : t[i] = g[i]
    BY <1>1, <1>3, <1>4
  <1>6. \A i \in 1 .. Len(t) : t[i] = IF i = 1 THEN h[n] ELSE h[i]
    <2> HIDE DEF t
    <2>1. \A i \in 1 .. (n - 1) : i \in 1 .. n
      BY <1>1
    <2> QED
      BY <1>3, <1>5, <2>1
  <1> QED
    BY <1>5, <1>6 DEF g

LEMMA RemoveType ==
  ASSUME NEW S, NEW table \in [Slots -> Seq(S)], NEW k
  PROVE  remove_connection_key(table, k) \in [Slots -> Seq(S)]
  <1>1. ASSUME NEW s \in Slots PROVE remove_connection_key(table, k)[s] \in Seq(S)
    <2>1. table[s] # <<>> => Front([table[s] EXCEPT ![1] = Last(table[s])]) \in Seq(S)
      BY SwapDrop
    <2> QED
      BY <2>1 DEF remove_connection_key
  <1> QED
    BY <1>1 DEF remove_connection_key

\* The master of a slot is one of the servers.
LEMMA MasterType ==
  ASSUME NEW S, NEW table \in [Slots -> Seq(S)], Seed \in S, NEW i, NEW r \in Slots
  PROVE  get_slot_master(table, i, r) \in S
  BY DEF get_slot_master

\* The least number of a set.
LEMMA MinIn ==
  ASSUME NEW T, T \subseteq Nat, T # {}
  PROVE  Min(T) \in T
  BY Least DEF Min

=============================================================================
