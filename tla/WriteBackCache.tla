--------------------------- MODULE WriteBackCache ---------------------------
(***************************************************************************)
(* What a write-back cache promises, page by page, without lists, hash     *)
(* table, reference counts, threads or waits: at most Capacity pages, at   *)
(* most one I/O per page, no user write into a page under I/O, a page that *)
(* holds unsaved writes stays until a write of the whole page has saved    *)
(* them all, and only a clean page at rest makes room for another.         *)
(***************************************************************************)
EXTENDS FiniteSets, Naturals

CONSTANTS Pages, Sectors, Capacity

VARIABLES
  status,   \* per page: absent from the cache, clean or dirty
  io,       \* per page: the I/O under way, if any
  unsaved   \* per page: sectors written by the user and not yet on disk

vars == <<status, io, unsaved>>

Init ==
  /\ status = [p \in Pages |-> "absent"]
  /\ io = [p \in Pages |-> "none"]
  /\ unsaved = [p \in Pages |-> {}]

AtRest(p) == io[p] = "none"
Cached(st) == {p \in Pages : st[p] # "absent"}

(* The user writes sectors of a page: of a cached one in place, of another   *)
(* without reading it first.                                                 *)
UserWrite(p, mask) ==
  /\ AtRest(p)
  /\ status' = [status EXCEPT ![p] = "dirty"]
  /\ Cardinality(Cached(status')) <= Capacity
  /\ unsaved' = [unsaved EXCEPT ![p] = @ \cup mask]
  /\ UNCHANGED io

(* A page is read into the cache, in the place of a clean one if need be.    *)
Fetch(p, replaced) ==
  /\ status[p] = "absent"
  /\ \A q \in replaced : status[q] = "clean" /\ AtRest(q)
  /\ status' = [q \in Pages |-> IF q = p THEN "clean"
                                ELSE IF q \in replaced THEN "absent" ELSE status[q]]
  /\ Cardinality(Cached(status')) <= Capacity
  /\ io' = [io EXCEPT ![p] = "read"]
  /\ UNCHANGED unsaved

(* What is missing of a dirty page is read, for the user or to destage it.   *)
Complement(p) ==
  /\ status[p] = "dirty" /\ AtRest(p)
  /\ io' = [io EXCEPT ![p] = "read"]
  /\ UNCHANGED <<status, unsaved>>

FinishRead(p) ==
  /\ io[p] = "read"
  /\ io' = [io EXCEPT ![p] = "none"]
  /\ UNCHANGED <<status, unsaved>>

Destage(p) ==
  /\ status[p] = "dirty" /\ AtRest(p)
  /\ io' = [io EXCEPT ![p] = "write"]
  /\ UNCHANGED <<status, unsaved>>

(* The whole page is on disk.  It stays in the cache if someone uses it, and *)
(* is then still reckoned dirty.                                             *)
FinishDestage(p) ==
  /\ io[p] = "write"
  /\ io' = [io EXCEPT ![p] = "none"]
  /\ unsaved' = [unsaved EXCEPT ![p] = {}]
  /\ status' \in {status, [status EXCEPT ![p] = "absent"]}

Next ==
  \E p \in Pages :
    \/ \E mask \in SUBSET Sectors : UserWrite(p, mask)
    \/ \E replaced \in {{}} \cup {{q} : q \in Pages} : Fetch(p, replaced)
    \/ Complement(p) \/ FinishRead(p)
    \/ Destage(p) \/ FinishDestage(p)

Spec == Init /\ [][Next]_vars

=============================================================================
