---------------------------- MODULE MCAlruCache ----------------------------
(* Small instances of AlruCache for TLC. *)
EXTENDS AlruCache, TLC

MCPages2 == 0..1
MCPages3 == 0..2
MCHash2 == [p \in MCPages2 |-> 0]
MCHash3 == [p \in MCPages3 |-> p % 2]

(* Pages 0 and 2 on the first pair, page 1 on the second.                    *)
MCPairs2 == [p \in MCPages2 |-> p]
MCPairs3 == [p \in MCPages3 |-> p % 2]

SlotPlayerSymmetry == Permutations(Slots) \cup Permutations(Players)
ZeroedMasks == {{}}
=============================================================================
