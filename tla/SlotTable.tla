----------------------------- MODULE SlotTable -----------------------------
(***************************************************************************)
(* The slot table of the cluster client (happ_cluster.cpp, slots_) as a    *)
(* value: for each slot its servers, the master first.                     *)
(***************************************************************************)
EXTENDS Integers, SequencesExt

CONSTANTS
  SlotCount,          \* HIREDIS_HAPP_SLOT_NUMBER
  Seed                \* conf_.init_connection

ASSUME SlotTableAssumption == SlotCount \in Nat \ {0}

Slots   == 0 .. SlotCount - 1
Cleared == [s \in Slots |-> <<>>]

\* Mutant: the last server is dropped without the swap.
remove_no_swap(table, k) ==
  [s \in Slots |-> IF table[s] # <<>> /\ Head(table[s]) = k THEN Front(table[s]) ELSE table[s]]

\* remove_connection_key: where k is the master, the last server takes its
\* place.
remove_connection_key(table, k) ==
  [s \in Slots |->
     LET hosts == table[s] IN
     IF hosts # <<>> /\ Head(hosts) = k
     THEN Front([hosts EXCEPT ![1] = Last(hosts)]) ELSE hosts]

\* get_slot_master: the master of slot i (-1: any), else that of the slot r
\* drawn at random, else the seed.
get_slot_master(table, i, r) ==
  IF i \in Slots /\ table[i] # <<>> THEN Head(table[i])
  ELSE IF table[r] # <<>> THEN Head(table[r]) ELSE Seed

=============================================================================
