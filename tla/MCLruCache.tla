----------------------------- MODULE MCLruCache -----------------------------
(* Small instances of LruCache for TLC. *)
EXTENDS LruCache, TLC

SlotPlayerSymmetry == Permutations(Slots) \cup Permutations(Players)

(* Pages are numbers here, so that the hash function is a remainder.        *)
MCPages2 == 0..1
MCPages3 == 0..2
MCTwoBuckets == [p \in MCPages3 |-> p % 2]
MCTwoBuckets2 == [p \in MCPages2 |-> p % 2]

ZeroedMasks == {{}}
GarbageMasks == SUBSET Sectors
=============================================================================
