------------------------------- MODULE DlList -------------------------------
(***************************************************************************)
(* The doubly linked lists of src/common/dllist.c, seen as sequences of    *)
(* distinct elements whose first element is the list head.  An element is  *)
(* on a list at most once, so removal by node is removal by value.         *)
(***************************************************************************)
EXTENDS Integers, Sequences

(* The elements of a list. *)
Elements(list) == {list[i] : i \in 1..Len(list)}

(* No element is on the list twice: what makes removal by node well defined. *)
NoDuplicates(list) == \A i, j \in 1..Len(list) : list[i] = list[j] => i = j

(* x is on the list, and nearer to its head than y, which is on it too.      *)
Before(list, x, y) ==
  \E i, j \in 1..Len(list) : i < j /\ list[i] = x /\ list[j] = y

(* dl_list_add_node_to_head *)
AddToHead(list, node) ==
  [i \in 1..(Len(list) + 1) |-> IF i = 1 THEN node ELSE list[i - 1]]

(* dl_list_remove_node: everything behind the node moves up by one. *)
RemoveNode(list, node) ==
  LET at == CHOOSE i \in 1..Len(list) : list[i] = node
  IN  [i \in 1..(Len(list) - 1) |-> IF i < at THEN list[i] ELSE list[i + 1]]

(* The remove-then-add pair that makes a page the most recently used one. *)
MoveToHead(list, node) == AddToHead(RemoveNode(list, node), node)

=============================================================================
