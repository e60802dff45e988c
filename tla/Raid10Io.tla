------------------------------ MODULE Raid10Io ------------------------------
(***************************************************************************)
(* The asynchronous user I/O path of src/raids/raid10.c while start_urio   *)
(* is set: handle_cache_request_raid10 splits a page request into disk     *)
(* I/Os, handle_uio_raid10 takes a str_disk_io and submits, and the        *)
(* completion thread of each disk (do_uio_callback_raid10) harvests        *)
(* events, runs the callbacks, records the latency and returns the         *)
(* str_disk_io.  The clients are the threads of the cache.                 *)
(*                                                                         *)
(* uio_mutex[d] is taken by handle_uio_raid10, one action, and by the      *)
(* return of a str_disk_io, which takes the sio_mutex of the pair inside   *)
(* it: that one is split where the latency window is read and written.     *)
(* The wait for a free str_disk_io is a timed wait in a loop, an action    *)
(* enabled when there is one.                                              *)
(***************************************************************************)
EXTENDS Raid10Layout, DlList, FiniteSets

CONSTANTS
  Clients,           \* threads that call handle_cache_request
  Pages,             \* page numbers
  SpareDisk,         \* spare_disk
  MaxAioPerDisk,     \* MAXAIOPERDISK
  Latencies,         \* latencies an I/O may show
  LatencyArraySize,  \* LATENCY_ARRAY_SIZE
  NoPage, NoIo       \* "no value" markers

ASSUME Raid10IoAssumption ==
  /\ Pages \subseteq Nat /\ NoPage \notin Pages
  /\ SpareDisk \in Disks
  /\ MaxAioPerDisk \in Nat \ {0} /\ LatencyArraySize \in Nat \ {0}
  /\ Latencies \subseteq Nat

DiskIos == 1..MaxAioPerDisk
MirrorPairs == 0..((RaidDisks \div 2) - 1)

VARIABLES
  client,             \* where each client is in handle_cache_request_raid10
  free_disk_io_list,  \* per disk
  uio_cnt,            \* per disk
  kernel,             \* per disk: submitted, not yet carried out
  events,             \* per disk: carried out, not yet harvested
  batch,              \* per disk: harvested by io_getevents, in the for loop
  called,             \* per disk: the event whose callback has just returned
  recording,          \* per disk: where its thread is in the latency update
  lc,                 \* per mirror pair: the latency window
  start_urio,
  due                 \* ghost, per page: I/Os handed over whose tracked
                      \* callback has not run

vars == <<client, free_disk_io_list, uio_cnt, kernel, events, batch, called, recording,
          lc, start_urio, due>>

(* A disk I/O: its str_disk_io, where it goes, the function in piocb->data.  *)
IoRecords == [id : DiskIos, offset : Nat, cb : {"callback", "callback2"}]

ASSUME NoIoAssumption == NoIo \notin IoRecords

NotRecording == [pc |-> "no", latency |-> 0, new_avg_lat |-> 0]

IdleClient == [pc |-> "idle", page |-> NoPage, rw |-> "read"]

Init ==
  /\ client = [c \in Clients |-> IdleClient]
  /\ free_disk_io_list = [d \in Disks |-> [i \in DiskIos |-> MaxAioPerDisk + 1 - i]]
  /\ uio_cnt = [d \in Disks |-> 0]
  /\ kernel = [d \in Disks |-> {}]
  /\ events = [d \in Disks |-> {}]
  /\ batch = [d \in Disks |-> {}]
  /\ called = [d \in Disks |-> NoIo]
  /\ recording = [d \in Disks |-> NotRecording]
  /\ lc = [m \in MirrorPairs |->
             [lat |-> [i \in 0..(LatencyArraySize - 1) |-> 0], next |-> 0, avg_lat |-> 0]]
  /\ start_urio = TRUE
  /\ due = [p \in Pages |-> 0]

-----------------------------------------------------------------------------
Busy(d) == kernel[d] \cup events[d] \cup batch[d]

(* The page an I/O belongs to, as its callback computes it.                  *)
PageOf(d, io) == io_to_page(io.offset, d)

(* The thread of disk d has not locked uio_mutex[d]; no thread of its pair   *)
(* has locked sio_mutex[d/2].                                                *)
UioMutexFree(d) == recording[d].pc = "no"
SioMutexFree(d) ==
  \A e \in Disks : e \div 2 = d \div 2 => recording[e].pc # "update"

(* A client asks for a page I/O; the cache has none under way for that page. *)
handle_cache_request(c) ==
  /\ client[c].pc = "idle" /\ start_urio
  /\ \E p \in Pages, rw \in {"read", "write"} :
       /\ due[p] = 0
       /\ \A other \in Clients : client[other].pc = "first" => client[other].page # p
       /\ client' = [client EXCEPT ![c] = [pc |-> "first", page |-> p, rw |-> rw]]
  /\ UNCHANGED <<free_disk_io_list, uio_cnt, kernel, events, batch, called, recording, lc,
                 start_urio, due>>

(* handle_uio_raid10: take a str_disk_io of the disk and submit.             *)
handle_uio(d, offset, cb) ==
  LET id == free_disk_io_list[d][1] IN
  /\ UioMutexFree(d) /\ free_disk_io_list[d] # <<>>
  /\ free_disk_io_list' = [free_disk_io_list EXCEPT ![d] = RemoveNode(@, id)]
  /\ kernel' = [kernel EXCEPT ![d] = @ \cup {[id |-> id, offset |-> offset, cb |-> cb]}]
  /\ uio_cnt' = [uio_cnt EXCEPT ![d] = @ + 1]

(* A read goes to one copy; a write to the first copy with the tracked       *)
(* callback, then to the mirror with the one that does nothing.              *)
QueueRead(c) ==
  LET p == client[c].page IN
  /\ client[c].pc = "first" /\ client[c].rw = "read"
  /\ handle_uio(ReadDisk(p, SpareDisk), OffsetOf(p), "callback")
  /\ due' = [due EXCEPT ![p] = @ + 1]
  /\ client' = [client EXCEPT ![c] = IdleClient]
  /\ UNCHANGED <<events, batch, called, recording, lc, start_urio>>

QueueWrite(c) ==
  LET p == client[c].page IN
  /\ client[c].pc = "first" /\ client[c].rw = "write"
  /\ handle_uio(DiskOf(p), OffsetOf(p), "callback")
  /\ due' = [due EXCEPT ![p] = @ + 1]
  /\ client' = [client EXCEPT ![c].pc = "second"]
  /\ UNCHANGED <<events, batch, called, recording, lc, start_urio>>

(* Mutant: the mirror write has the tracked callback too.                    *)
QueueMirrorWriteTracked(c) ==
  LET p == client[c].page IN
  /\ client[c].pc = "second"
  /\ handle_uio(MirrorOf(p), OffsetOf(p), "callback")
  /\ client' = [client EXCEPT ![c] = IdleClient]
  /\ UNCHANGED <<events, batch, called, recording, lc, start_urio, due>>

QueueMirrorWrite(c) ==
  LET p == client[c].page IN
  /\ client[c].pc = "second"
  /\ handle_uio(MirrorOf(p), OffsetOf(p), "callback2")
  /\ client' = [client EXCEPT ![c] = IdleClient]
  /\ UNCHANGED <<events, batch, called, recording, lc, start_urio, due>>

-----------------------------------------------------------------------------
(* The disk carries out what it was given, in any order.                     *)
DiskDone(d, id) ==
  /\ \E io \in kernel[d] :
       /\ io.id = id
       /\ kernel' = [kernel EXCEPT ![d] = @ \ {io}]
       /\ events' = [events EXCEPT ![d] = @ \cup {io}]
  /\ UNCHANGED <<client, free_disk_io_list, uio_cnt, batch, called, recording, lc,
                 start_urio, due>>

(* io_getevents returns at least one event and all there are.                *)
Harvest(d) ==
  /\ batch[d] = {} /\ uio_cnt[d] > 0 /\ events[d] # {}
  /\ batch' = [batch EXCEPT ![d] = events[d]]
  /\ events' = [events EXCEPT ![d] = {}]
  /\ UNCHANGED <<client, free_disk_io_list, uio_cnt, kernel, called, recording, lc,
                 start_urio, due>>

(* pcb(offset, length, disk) *)
RunCallback(d) ==
  /\ called[d] = NoIo
  /\ \E io \in batch[d] :
       /\ called' = [called EXCEPT ![d] = io]
       /\ due' = IF io.cb = "callback" THEN [due EXCEPT ![PageOf(d, io)] = @ - 1]
                                       ELSE due
  /\ UNCHANGED <<client, free_disk_io_list, uio_cnt, kernel, events, batch, recording, lc,
                 start_urio>>

(* With uio_mutex[d] locked, and while start_urio is set, the thread goes on *)
(* to the latency window of the pair.                                        *)
LockDiskIo(d) ==
  /\ called[d] # NoIo /\ UioMutexFree(d) /\ start_urio
  /\ recording' = [recording EXCEPT ![d].pc = "wait"]
  /\ UNCHANGED <<client, free_disk_io_list, uio_cnt, kernel, events, batch, called, lc,
                 start_urio, due>>

(* Mutant: without sio_mutex.                                                *)
ReadLatencyUnlocked(d) ==
  LET w == lc[d \div 2] IN
  /\ recording[d].pc = "wait"
  /\ \E latency \in Latencies :
       recording' = [recording EXCEPT
         ![d] = [pc |-> "update", latency |-> latency,
                 new_avg_lat |-> w.avg_lat + latency - w.lat[w.next]]]
  /\ UNCHANGED <<client, free_disk_io_list, uio_cnt, kernel, events, batch, called, lc,
                 start_urio, due>>

(* Under sio_mutex: the window of the last latencies is to lose its oldest,  *)
(* and new_avg_lat is the sum without that one and with the new one.         *)
ReadLatency(d) ==
  LET w == lc[d \div 2] IN
  /\ recording[d].pc = "wait" /\ SioMutexFree(d)
  /\ \E latency \in Latencies :
       recording' = [recording EXCEPT
         ![d] = [pc |-> "update", latency |-> latency,
                 new_avg_lat |-> w.avg_lat + latency - w.lat[w.next]]]
  /\ UNCHANGED <<client, free_disk_io_list, uio_cnt, kernel, events, batch, called, lc,
                 start_urio, due>>

(* What is stored in the window w before sio_mutex is unlocked.              *)
RecordLatency(w, new) ==
  [lat |-> [w.lat EXCEPT ![w.next] = new.latency],
   next |-> (w.next + 1) % LatencyArraySize,
   avg_lat |-> new.new_avg_lat]

LatencyRecorded(d) ==
  \/ /\ recording[d].pc = "update"
     /\ lc' = [lc EXCEPT ![d \div 2] = RecordLatency(@, recording[d])]
  \/ UioMutexFree(d) /\ ~start_urio /\ UNCHANGED lc

(* Mutants: uio_cnt keeps the I/O; the event is taken for the next one.      *)
ReturnDiskIoKeepsCount(d) ==
  /\ called[d] # NoIo /\ LatencyRecorded(d)
  /\ free_disk_io_list' = [free_disk_io_list EXCEPT ![d] = AddToHead(@, called[d].id)]
  /\ batch' = [batch EXCEPT ![d] = @ \ {called[d]}]
  /\ called' = [called EXCEPT ![d] = NoIo]
  /\ recording' = [recording EXCEPT ![d] = NotRecording]
  /\ UNCHANGED <<client, uio_cnt, kernel, events, start_urio, due>>

ReturnDiskIoForgetsEvent(d) ==
  /\ called[d] # NoIo /\ LatencyRecorded(d)
  /\ free_disk_io_list' = [free_disk_io_list EXCEPT ![d] = AddToHead(@, called[d].id)]
  /\ uio_cnt' = [uio_cnt EXCEPT ![d] = @ - 1]
  /\ batch' = [batch EXCEPT ![d] = @ \ {called[d]}]
  /\ recording' = [recording EXCEPT ![d] = NotRecording]
  /\ UNCHANGED <<client, called, kernel, events, start_urio, due>>

(* The str_disk_io goes back to the free list, and uio_mutex is unlocked.    *)
ReturnDiskIo(d) ==
  /\ called[d] # NoIo /\ LatencyRecorded(d)
  /\ free_disk_io_list' = [free_disk_io_list EXCEPT ![d] = AddToHead(@, called[d].id)]
  /\ uio_cnt' = [uio_cnt EXCEPT ![d] = @ - 1]
  /\ batch' = [batch EXCEPT ![d] = @ \ {called[d]}]
  /\ called' = [called EXCEPT ![d] = NoIo]
  /\ recording' = [recording EXCEPT ![d] = NotRecording]
  /\ UNCHANGED <<client, kernel, events, start_urio, due>>

(* The trace or the rebuild clears start_urio: no more requests come here.   *)
ClearStartUrio ==
  /\ start_urio
  /\ start_urio' = FALSE
  /\ UNCHANGED <<client, free_disk_io_list, uio_cnt, kernel, events, batch, called,
                 recording, lc, due>>

CompletionThread(d) ==
  \/ Harvest(d) \/ RunCallback(d)
  \/ LockDiskIo(d) \/ ReadLatency(d) \/ ReturnDiskIo(d)

Next ==
  \/ \E c \in Clients : \/ handle_cache_request(c) \/ QueueRead(c)
                        \/ QueueWrite(c) \/ QueueMirrorWrite(c)
  \/ \E d \in Disks : CompletionThread(d)
  \/ \E d \in Disks, id \in DiskIos : DiskDone(d, id)
  \/ ClearStartUrio

(* The completion threads run, and get sio_mutex though the other thread of  *)
(* the pair takes it again and again; a disk finishes what it was given.     *)
Fairness ==
  /\ \A d \in Disks : WF_vars(CompletionThread(d)) /\ SF_vars(ReadLatency(d))
  /\ \A d \in Disks, id \in DiskIos : WF_vars(DiskDone(d, id))

Spec == Init /\ [][Next]_vars /\ Fairness

-----------------------------------------------------------------------------
(* Every variable keeps its type.                                            *)
TypeOK ==
  /\ client \in [Clients -> [pc : {"idle", "first", "second"},
                             page : Pages \cup {NoPage}, rw : {"read", "write"}]]
  /\ \A d \in Disks :
       /\ \A i \in 1..Len(free_disk_io_list[d]) : free_disk_io_list[d][i] \in DiskIos
       /\ uio_cnt[d] \in 0..MaxAioPerDisk
       /\ \A io \in Busy(d) : io.id \in DiskIos /\ io.offset \in Nat
       /\ called[d] \in batch[d] \cup {NoIo}
       /\ recording[d].pc = "no" \/ called[d] # NoIo
  /\ recording \in [Disks -> [pc : {"no", "wait", "update"},
                              latency : Latencies \cup {0}, new_avg_lat : Int]]
  /\ start_urio \in BOOLEAN
  /\ due \in [Pages -> Int]

(* Each str_disk_io of a disk is on its free list or in exactly one I/O, and *)
(* uio_cnt counts the I/Os: an iocb is never reused while the kernel or the  *)
(* harvest loop still has it, and io_submit never finds the context full.    *)
DiskIosAccounted ==
  \A d \in Disks :
    LET free == Elements(free_disk_io_list[d])
        used == {io.id : io \in Busy(d)}
    IN  /\ NoDuplicates(free_disk_io_list[d])
        /\ free \cup used = DiskIos /\ free \cap used = {}
        /\ Cardinality(Busy(d)) = Cardinality(used)
        /\ kernel[d] \cap events[d] = {} /\ batch[d] \cap (kernel[d] \cup events[d]) = {}
        /\ uio_cnt[d] = Cardinality(used)

(* What a disk is given lies on the pair that holds the page, so the         *)
(* callback finds the page number it was issued for.                         *)
IosOnTheirPair ==
  \A d \in Disks : \A io \in Busy(d) :
    LET p == PageOf(d, io)
    IN  p \in Pages /\ d \in {DiskOf(p), MirrorOf(p)} /\ io.offset = OffsetOf(p)

(* The window holds what avg_lat claims to sum, although the threads of both *)
(* disks of a pair read it, compute a new sum and store it.                  *)
AvgLatIsWindowSum ==
  \A m \in MirrorPairs :
    LET sum[n \in 0..LatencyArraySize] ==
          IF n = 0 THEN 0 ELSE sum[n - 1] + lc[m].lat[n - 1]
    IN  lc[m].avg_lat = sum[LatencyArraySize]

(* The disks keep the promise the cache is built on.                         *)
Service == INSTANCE PageIoService WITH due <- due
CallbacksOnce == Service!Spec

=============================================================================
