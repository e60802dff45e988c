--------------------------- MODULE PageIoService ----------------------------
(***************************************************************************)
(* What the cache expects of the RAID while start_urio is set: a page I/O  *)
(* that was submitted has its callback run exactly once, with the number   *)
(* of the page it was submitted for, some time later and in any order.     *)
(* The cache never has two of them under way for one page (OneIoPerPage    *)
(* of LruCache), so a page is due once or not at all.                      *)
(***************************************************************************)
EXTENDS Naturals

CONSTANT Pages
VARIABLE due   \* per page: callbacks the disks owe

Init == due = [p \in Pages |-> 0]

Submit(p) == due[p] = 0 /\ due' = [due EXCEPT ![p] = 1]

RunCallback(p) == due[p] = 1 /\ due' = [due EXCEPT ![p] = 0]

Next == \E p \in Pages : Submit(p) \/ RunCallback(p)

Safety == Init /\ [][Next]_due

Spec == Safety /\ \A p \in Pages : WF_due(RunCallback(p))

=============================================================================
