----------------------------- MODULE Raid10Data -----------------------------
(***************************************************************************)
(* What the page I/Os of Raid10Io do to the two copies of a page.  The     *)
(* program moves no file data of its own, so the data of a page is the     *)
(* number of the write that put it there: the writes handed over are       *)
(* numbered per page, and a disk copy has the number of the write that was *)
(* carried out on it last.                                                 *)
(***************************************************************************)
EXTENDS Raid10Io

CONSTANT MaxWrites   \* bound: writes of one page

ASSUME MaxWritesAssumption == MaxWrites \in Nat

VARIABLES
  version,   \* per page: the number of its last write
  payload,   \* per disk and str_disk_io: the write it carries, 0 for a read
  copy       \* per disk and page: the write on the disk

data     == <<version, payload, copy>>
dataVars == <<vars, data>>

DataInit ==
  /\ Init
  /\ version = [p \in Pages |-> 0]
  /\ payload = [d \in Disks |-> [id \in DiskIos |-> 0]]
  /\ copy = [d \in Disks |-> [p \in Pages |-> 0]]

(* The str_disk_io that handle_uio takes of disk d carries write number v.   *)
Carries(d, v) ==
  /\ payload' = [payload EXCEPT ![d][free_disk_io_list[d][1]] = v]
  /\ UNCHANGED copy

DataRequest(c) ==
  /\ handle_cache_request(c)
  /\ client'[c].rw = "write" => version[client'[c].page] < MaxWrites
  /\ UNCHANGED data

DataQueueRead(c) ==
  /\ QueueRead(c)
  /\ Carries(ReadDisk(client[c].page, SpareDisk), 0)
  /\ UNCHANGED version

DataQueueWrite(c) ==
  LET p == client[c].page IN
  /\ QueueWrite(c)
  /\ version' = [version EXCEPT ![p] = @ + 1]
  /\ Carries(DiskOf(p), version'[p])

(* The mirror gets the page as the cache has it by then.                     *)
DataQueueMirrorWrite(c) ==
  LET p == client[c].page IN
  /\ QueueMirrorWrite(c)
  /\ Carries(MirrorOf(p), version[p])
  /\ UNCHANGED version

DataDiskDone(d, id) ==
  /\ DiskDone(d, id)
  /\ \E io \in kernel[d] :
       /\ io.id = id
       /\ copy' = IF payload[d][id] = 0 THEN copy
                  ELSE [copy EXCEPT ![d][PageOf(d, io)] = payload[d][id]]
  /\ UNCHANGED <<version, payload>>

DataNext ==
  \/ \E c \in Clients : \/ DataRequest(c) \/ DataQueueRead(c)
                        \/ DataQueueWrite(c) \/ DataQueueMirrorWrite(c)
  \/ \E d \in Disks : CompletionThread(d) /\ UNCHANGED data
  \/ \E d \in Disks, id \in DiskIos : DataDiskDone(d, id)
  \/ ClearStartUrio /\ UNCHANGED data

DataSpec == DataInit /\ [][DataNext]_dataVars

DataFairSpec ==
  /\ DataSpec
  /\ \A d \in Disks : /\ WF_dataVars(CompletionThread(d) /\ UNCHANGED data)
                       /\ SF_dataVars(ReadLatency(d) /\ UNCHANGED data)
  /\ \A d \in Disks, id \in DiskIos : WF_dataVars(DataDiskDone(d, id))

-----------------------------------------------------------------------------
(* Properties.                                                               *)

(* The callback of a page write tells the cache that the page is on a disk:  *)
(* while none is owed, the first copy holds the last write.                  *)
CalledBackMeansOnDisk ==
  \A p \in Pages : due[p] = 0 => copy[DiskOf(p)][p] = version[p]

(* With no I/O of the page left, both disks of the pair hold the same page   *)
(* ("RAID10 layout", raid10.c:471).                                          *)
MirrorsAgree ==
  \A p \in Pages :
    /\ \A d \in {DiskOf(p), MirrorOf(p)} : \A io \in Busy(d) : PageOf(d, io) # p
    /\ \A c \in Clients : client[c].pc = "second" => client[c].page # p
    => copy[DiskOf(p)][p] = copy[MirrorOf(p)][p]

=============================================================================
