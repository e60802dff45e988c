--------------------------- MODULE Raid10IoProofs ---------------------------
(***************************************************************************)
(* Proofs about the address arithmetic of the array (module Raid10Layout)  *)
(* and its asynchronous user I/O (module Raid10Io), for any number of      *)
(* disks, pages, clients and str_disk_io per disk.                         *)
(*                                                                         *)
(* IosOnTheirPair follows from PlacesKnown, which says of each I/O that it *)
(* was issued for some page, through the round trip of the address         *)
(* arithmetic.  DiskIosAccounted needs DiskOK, per disk: that no two I/Os  *)
(* have one str_disk_io, and that the harvest loop returns one it has.     *)
(* The callbacks need OwedOnce: who owes the callback of a page.  The      *)
(* latency sum is an induction over the window.  Where the data is         *)
(* (Raid10Data) rests on all of that.                                      *)
(***************************************************************************)
EXTENDS Raid10Data, DlListProofs, FiniteSetTheorems

-----------------------------------------------------------------------------
(* The address arithmetic is right for every page size, strip size, even     *)
(* number of disks and page number.  The argument is the uniqueness of       *)
(* quotient and remainder, used three times: for the strip number over the   *)
(* pairs of disks, for the byte offset inside a strip, and for the page      *)
(* inside the volume.                                                        *)

(* An even number of disks is a number of pairs. *)
LEMMA Pairs == \E m \in Nat \ {0} : RaidDisks = 2 * m
<1> DEFINE m == RaidDisks \div 2
<1>1. m \in Nat /\ RaidDisks = (2 * m) + (RaidDisks % 2)
  BY DivMod, LayoutAssumption
<1>2. m # 0 /\ RaidDisks = 2 * m
  BY <1>1, LayoutAssumption
<1> QED BY <1>1, <1>2

(* Distributivity, stated once: the provers do not look for it.              *)
LEMMA DoubleRow ==
  ASSUME NEW m \in Nat, NEW row \in Nat, NEW pair \in Nat
  PROVE  ((m * row) + pair) * 2 = ((2 * m) * row) + (2 * pair)
<1>1. (2 * m) * row = 2 * (m * row)
  BY Z3
<1>2. m * row \in Nat
  BY Z3
<1> QED BY <1>1, <1>2

(* The strip with number q (of a single copy) is on pair q % m, in row       *)
(* q \div m.                                                                 *)
LEMMA StripPlace ==
  ASSUME NEW q \in Nat, NEW m \in Nat \ {0}
  PROVE  /\ (q * 2) % (2 * m) = 2 * (q % m)
         /\ (q * 2) \div (2 * m) = q \div m
<1>1. PICK row \in Nat, pair \in 0..(m - 1) :
        row = q \div m /\ pair = q % m /\ q = (m * row) + pair
  BY DivMod
<1>2. q * 2 = ((2 * m) * row) + (2 * pair)
  <2>1. ((m * row) + pair) * 2 = ((2 * m) * row) + (2 * pair)
    BY DoubleRow
  <2>2. q * 2 = ((m * row) + pair) * 2
    BY <1>1
  <2> QED BY <2>1, <2>2, Zenon
<1>3. 2 * m \in Nat \ {0} /\ 2 * pair \in 0..((2 * m) - 1)
  OBVIOUS
<1>4. (q * 2) \div (2 * m) = row /\ (q * 2) % (2 * m) = 2 * pair
  <2> DEFINE b == 2 * m
             r == 2 * pair
  <2>1. b \in Nat \ {0} /\ r \in 0..(b - 1) /\ q * 2 = (b * row) + r
    BY <1>2, <1>3
  <2> HIDE DEF b, r
  <2>2. (q * 2) \div b = row /\ (q * 2) % b = r
    BY <2>1, DivModUnique
  <2> QED BY <2>2 DEF b, r
<1> QED BY <1>1, <1>4

(* Every page lies on two different disks of the array (the disk numbers     *)
(* index arrays of raid_disks elements), the two of one mirror pair, the one *)
(* written first having the even number.                                     *)
THEOREM DisksInArray ==
  ASSUME NEW page \in Nat
  PROVE  /\ DiskOf(page) \in Disks /\ MirrorOf(page) \in Disks
         /\ DiskOf(page) % 2 = 0 /\ MirrorOf(page) # DiskOf(page)
         /\ DiskOf(page) \div 2 = MirrorOf(page) \div 2
<1> DEFINE q == (page * PageSize) \div StripSize
<1>1. PICK m \in Nat \ {0} : RaidDisks = 2 * m
  BY Pairs
<1>2. q \in Nat
  BY DivMod, LayoutAssumption
<1>3. DiskOf(page) = 2 * (q % m) /\ q % m \in 0..(m - 1)
  BY <1>1, <1>2, StripPlace, DivMod DEF DiskOf, StripOf
<1>4. PICK n \in 0..(m - 1) : DiskOf(page) = 2 * n
  BY <1>3
<1>5. DiskOf(page) \in Disks /\ MirrorOf(page) \in Disks
  BY <1>1, <1>4 DEF MirrorOf, Disks
<1>6. /\ DiskOf(page) % 2 = 0 /\ MirrorOf(page) # DiskOf(page)
      /\ DiskOf(page) \div 2 = n /\ MirrorOf(page) \div 2 = n
  BY <1>1, <1>4 DEF MirrorOf
<1> QED BY <1>5, <1>6

(* What a callback computes from the offset and the disk of the finished I/O *)
(* is the page the I/O was issued for, whichever copy it was on; so no two   *)
(* pages share a place on a disk.                                            *)
THEOREM PageRoundTrip ==
  ASSUME NEW page \in Nat
  PROVE  /\ io_to_page(OffsetOf(page), DiskOf(page)) = page
         /\ io_to_page(OffsetOf(page), MirrorOf(page)) = page
<1>1. PICK m \in Nat \ {0} : RaidDisks = 2 * m
  BY Pairs
<1>2. PICK a \in Nat : a = page * PageSize
  BY LayoutAssumption
<1>3. PICK q \in Nat, r \in 0..(StripSize - 1) :
        q = a \div StripSize /\ r = a % StripSize /\ a = (StripSize * q) + r
  BY DivMod, LayoutAssumption
<1>4. PICK row \in Nat, pair \in 0..(m - 1) :
        row = q \div m /\ pair = q % m /\ q = (m * row) + pair
  BY DivMod
<1>5. StripOf(page) = q * 2
  BY <1>2, <1>3 DEF StripOf
<1>6. DiskOf(page) = 2 * pair /\ MirrorOf(page) = (2 * pair) + 1
  BY <1>1, <1>4, <1>5, StripPlace DEF DiskOf, MirrorOf
<1>7. OffsetOf(page) = (StripSize * row) + r
  <2>1. StripOf(page) \div RaidDisks = row
    BY <1>1, <1>4, <1>5, StripPlace
  <2>2. row * StripSize = StripSize * row
    BY LayoutAssumption
  <2> QED BY <1>2, <1>3, <2>1, <2>2 DEF OffsetOf
<1>8. PICK base \in Nat : base = StripSize * row
  BY LayoutAssumption, Z3
<1>9. OffsetOf(page) % StripSize = r
  BY <1>7, DivModUnique, LayoutAssumption
<1>10. ((OffsetOf(page) - (OffsetOf(page) % StripSize)) * RaidDisks) \div 2 = base * m
  <2>1. OffsetOf(page) - (OffsetOf(page) % StripSize) = base
    BY <1>7, <1>8, <1>9
  <2>2. PICK c \in Nat : c = base * m
    BY Z3
  <2>3. base * RaidDisks = 2 * c
    BY <1>1, <2>2, Z3
  <2> QED BY <2>1, <2>2, <2>3
<1>11. (2 * pair) \div 2 = pair /\ ((2 * pair) + 1) \div 2 = pair
  OBVIOUS
<1>12. (base * m) + r + (pair * StripSize) = a
  <2>1. StripSize * ((m * row) + pair) = ((StripSize * row) * m) + (pair * StripSize)
    BY LayoutAssumption, Z3
  <2>2. a = ((base * m) + (pair * StripSize)) + r
    BY <1>3, <1>4, <1>8, <2>1
  <2>3. PICK c \in Nat, d \in Nat : c = base * m /\ d = pair * StripSize
    BY LayoutAssumption, Z3
  <2> QED BY <2>2, <2>3
<1>13. a \div PageSize = page
  <2>1. a = (PageSize * page) + 0 /\ 0 \in 0..(PageSize - 1)
    BY <1>2, LayoutAssumption
  <2> QED BY <2>1, DivModUnique, LayoutAssumption
<1> QED BY <1>6, <1>9, <1>10, <1>11, <1>12, <1>13 DEF io_to_page

(* The pair page_to_disk_raid10 reports (the index of a per-pair stack and   *)
(* latency record) is the pair whose disks hold the page.                    *)
THEOREM PairOfPage ==
  ASSUME NEW page \in Nat
  PROVE  /\ DiskOf(page) = 2 * page_to_disk(page)
         /\ page_to_disk(page) \in 0..((RaidDisks \div 2) - 1)
<1> DEFINE q == (page * PageSize) \div StripSize
<1>1. PICK m \in Nat \ {0} : RaidDisks = 2 * m
  BY Pairs
<1>2. q \in Nat
  BY DivMod, LayoutAssumption
<1>3. DiskOf(page) = 2 * (q % m) /\ q % m \in 0..(m - 1)
  BY <1>1, <1>2, StripPlace, DivMod DEF DiskOf, StripOf
<1>4. page_to_disk(page) = q % m /\ RaidDisks \div 2 = m
  BY <1>1, <1>3 DEF page_to_disk, DiskOf
<1> QED BY <1>3, <1>4

-----------------------------------------------------------------------------
(* Where the I/Os go.                                                        *)

(* The thread of disk d goes on to the latency window.                       *)
LEMMA LatencyStepsKeep ==
  ASSUME NEW d, LockDiskIo(d) \/ ReadLatency(d)
  PROVE  UNCHANGED <<client, free_disk_io_list, uio_cnt, kernel, events, batch, called, lc,
                     start_urio, due>>
BY DEF LockDiskIo, ReadLatency

ClientsOK ==
  \A c \in Clients : client[c].pc # "idle" => client[c].page \in Pages

QueuesOK ==
  /\ kernel = [d \in Disks |-> kernel[d]]
  /\ events = [d \in Disks |-> events[d]]
  /\ batch = [d \in Disks |-> batch[d]]
  /\ client = [c \in Clients |-> client[c]]

OnPairOfItsPage(d, io) ==
  \E p \in Pages : d \in {DiskOf(p), MirrorOf(p)} /\ io.offset = OffsetOf(p)

PlacesKnown == \A d \in Disks : \A io \in Busy(d) : OnPairOfItsPage(d, io)

PlaceInv == ClientsOK /\ QueuesOK /\ PlacesKnown

(* A client that hands an I/O of its page to a disk of the page's pair.      *)
LEMMA HandedToPair ==
  ASSUME PlaceInv, NEW p \in Pages, NEW e \in Disks, e \in {DiskOf(p), MirrorOf(p)},
         NEW cb, handle_uio(e, OffsetOf(p), cb), UNCHANGED <<events, batch>>
  PROVE  PlacesKnown' /\ kernel' = [d \in Disks |-> kernel'[d]]
<1> DEFINE new == [id |-> free_disk_io_list[e][1], offset |-> OffsetOf(p), cb |-> cb]
<1>1. kernel' = [kernel EXCEPT ![e] = @ \cup {new}]
  BY DEF handle_uio
<1>2. OnPairOfItsPage(e, new)
  BY DEF OnPairOfItsPage
<1> HIDE DEF new
<1>3. kernel' = [d \in Disks |-> kernel'[d]]
      /\ \A d \in Disks : kernel'[d] \subseteq kernel[d] \cup (IF d = e THEN {new} ELSE {})
  BY <1>1 DEF PlaceInv, QueuesOK
<1>4. PlacesKnown'
  <2> SUFFICES ASSUME NEW d \in Disks, NEW io \in Busy(d)'
               PROVE  OnPairOfItsPage(d, io)
    BY DEF PlacesKnown, OnPairOfItsPage
  <2>1. io \in Busy(d) \/ (d = e /\ io = new)
    BY <1>3 DEF Busy
  <2> QED BY <1>2, <2>1 DEF PlaceInv, PlacesKnown
<1> QED BY <1>3, <1>4

(* Steps that only move I/Os along, or drop them.                            *)
LEMMA PlacesMoved ==
  ASSUME PlaceInv, \A d \in Disks : Busy(d)' \subseteq Busy(d)
  PROVE  PlacesKnown'
BY DEF PlaceInv, PlacesKnown, OnPairOfItsPage

(* The pages are numbers, so the layout theorems speak of them.              *)
LEMMA PairInArray ==
  ASSUME NEW p \in Pages
  PROVE  /\ DiskOf(p) \in Disks /\ MirrorOf(p) \in Disks
         /\ ReadDisk(p, SpareDisk) \in {DiskOf(p), MirrorOf(p)}
<1>1. p \in Nat
  BY Raid10IoAssumption
<1>2. DiskOf(p) \in Disks /\ MirrorOf(p) \in Disks
  BY <1>1, DisksInArray
<1>3. ReadDisk(p, SpareDisk) \in {DiskOf(p), MirrorOf(p)}
  BY DEF ReadDisk
<1> QED BY <1>2, <1>3

(* Initially no disk has an I/O.                                             *)
LEMMA PlaceInvInit == Init => PlaceInv
BY DEF Init, PlaceInv, ClientsOK, QueuesOK, PlacesKnown, Busy, IdleClient

(* Every step keeps the places known.                                        *)
LEMMA PlaceInvNext == PlaceInv /\ [Next]_vars => PlaceInv'
<1> SUFFICES ASSUME PlaceInv, [Next]_vars PROVE PlaceInv'
  OBVIOUS
<1> USE DEF PlaceInv
<1>1. ASSUME NEW c \in Clients, handle_cache_request(c) PROVE PlaceInv'
  <2>1. UNCHANGED <<kernel, events, batch>>
    BY <1>1 DEF handle_cache_request
  <2>2. PICK p \in Pages, rw \in {"read", "write"} :
          client' = [client EXCEPT ![c] = [pc |-> "first", page |-> p, rw |-> rw]]
    BY <1>1 DEF handle_cache_request
  <2>3. ClientsOK' /\ QueuesOK'
    BY <2>1, <2>2 DEF ClientsOK, QueuesOK
  <2> QED BY <2>1, <2>3, PlacesMoved DEF Busy
<1>2. ASSUME NEW c \in Clients, QueueRead(c) PROVE PlaceInv'
  <2> DEFINE p == client[c].page
  <2>1. p \in Pages
    BY <1>2 DEF QueueRead, ClientsOK
  <2>2. PlacesKnown' /\ kernel' = [d \in Disks |-> kernel'[d]]
    <3>1. ReadDisk(p, SpareDisk) \in Disks /\ ReadDisk(p, SpareDisk) \in {DiskOf(p), MirrorOf(p)}
      BY <2>1, PairInArray
    <3> QED BY <1>2, <2>1, <3>1, HandedToPair DEF QueueRead
  <2>3. ClientsOK' /\ QueuesOK'
    BY <1>2, <2>2 DEF QueueRead, ClientsOK, QueuesOK, IdleClient
  <2> QED BY <2>2, <2>3
<1>3. ASSUME NEW c \in Clients, QueueWrite(c) PROVE PlaceInv'
  <2> DEFINE p == client[c].page
  <2>1. p \in Pages
    BY <1>3 DEF QueueWrite, ClientsOK
  <2>2. PlacesKnown' /\ kernel' = [d \in Disks |-> kernel'[d]]
    BY <1>3, <2>1, PairInArray, HandedToPair DEF QueueWrite
  <2>3. ClientsOK' /\ QueuesOK'
    BY <1>3, <2>1, <2>2 DEF QueueWrite, ClientsOK, QueuesOK
  <2> QED BY <2>2, <2>3
<1>4. ASSUME NEW c \in Clients, QueueMirrorWrite(c) PROVE PlaceInv'
  <2> DEFINE p == client[c].page
  <2>1. p \in Pages
    BY <1>4 DEF QueueMirrorWrite, ClientsOK
  <2>2. PlacesKnown' /\ kernel' = [d \in Disks |-> kernel'[d]]
    BY <1>4, <2>1, PairInArray, HandedToPair DEF QueueMirrorWrite
  <2>3. ClientsOK' /\ QueuesOK'
    BY <1>4, <2>2 DEF QueueMirrorWrite, ClientsOK, QueuesOK, IdleClient
  <2> QED BY <2>2, <2>3
<1>5. ASSUME NEW d \in Disks, NEW id \in DiskIos, DiskDone(d, id) PROVE PlaceInv'
  <2>1. ClientsOK' /\ QueuesOK'
    BY <1>5 DEF DiskDone, ClientsOK, QueuesOK
  <2>2. \A e \in Disks : Busy(e)' \subseteq Busy(e)
    BY <1>5 DEF DiskDone, Busy, QueuesOK
  <2> QED BY <2>1, <2>2, PlacesMoved
<1>6. ASSUME NEW d \in Disks, Harvest(d) PROVE PlaceInv'
  <2>1. ClientsOK' /\ QueuesOK'
    BY <1>6 DEF Harvest, ClientsOK, QueuesOK
  <2>2. \A e \in Disks : Busy(e)' \subseteq Busy(e)
    BY <1>6 DEF Harvest, Busy, QueuesOK
  <2> QED BY <2>1, <2>2, PlacesMoved
<1>7. ASSUME NEW d \in Disks, ReturnDiskIo(d) PROVE PlaceInv'
  <2>1. UNCHANGED <<client, kernel, events>> /\ batch' = [batch EXCEPT ![d] = @ \ {called[d]}]
    BY <1>7 DEF ReturnDiskIo
  <2>2. ClientsOK' /\ QueuesOK'
    BY <2>1 DEF ClientsOK, QueuesOK
  <2>3. \A e \in Disks : Busy(e)' \subseteq Busy(e)
    BY <2>1 DEF Busy, QueuesOK
  <2> QED BY <2>2, <2>3, PlacesMoved
<1>8. ASSUME UNCHANGED <<client, kernel, events, batch>> PROVE PlaceInv'
  <2>1. ClientsOK' /\ QueuesOK'
    BY <1>8 DEF ClientsOK, QueuesOK
  <2>2. \A e \in Disks : Busy(e)' \subseteq Busy(e)
    BY <1>8 DEF Busy
  <2> QED BY <2>1, <2>2, PlacesMoved
<1>9. ASSUME NEW d \in Disks, RunCallback(d) PROVE PlaceInv'
  BY <1>8, <1>9 DEF RunCallback
<1>10. CASE ClearStartUrio
  BY <1>8, <1>10 DEF ClearStartUrio
<1>11. CASE UNCHANGED vars
  BY <1>8, <1>11 DEF vars
<1>12. ASSUME NEW d \in Disks, LockDiskIo(d) \/ ReadLatency(d) PROVE PlaceInv'
  BY <1>8, <1>12, LatencyStepsKeep
<1> HIDE DEF PlaceInv
<1> QED BY <1>1, <1>2, <1>3, <1>4, <1>5, <1>6, <1>7, <1>9, <1>10, <1>11, <1>12
        DEF Next, CompletionThread

(* An I/O that was issued for a page is found to be for that page.           *)
LEMMA PageFound == PlaceInv => IosOnTheirPair
<1> SUFFICES ASSUME PlaceInv, NEW d \in Disks, NEW io \in Busy(d)
             PROVE  LET q == PageOf(d, io)
                    IN  q \in Pages /\ d \in {DiskOf(q), MirrorOf(q)} /\ io.offset = OffsetOf(q)
  BY DEF IosOnTheirPair
<1>1. PICK p \in Pages : d \in {DiskOf(p), MirrorOf(p)} /\ io.offset = OffsetOf(p)
  BY DEF PlaceInv, PlacesKnown, OnPairOfItsPage
<1>2. p \in Nat
  BY Raid10IoAssumption
<1>3. io_to_page(OffsetOf(p), d) = p
  BY <1>1, <1>2, PageRoundTrip
<1> QED BY <1>1, <1>3 DEF PageOf

(* Every I/O a disk has belongs to a page of its pair, and the callback      *)
(* computes that page from the I/O's offset and the disk.                    *)
THEOREM CallbackPageRight == Spec => []IosOnTheirPair
<1>1. Spec => []PlaceInv
  BY PlaceInvInit, PlaceInvNext, PTL DEF Spec
<1> QED BY <1>1, PageFound, PTL

-----------------------------------------------------------------------------
(* The str_disk_io.                                                          *)

Ids(busy) == {io.id : io \in busy}

(* The books of one disk: its free list, its I/Os, its counter.              *)
Account(free, busy, n) ==
  /\ free \in Seq(DiskIos) /\ NoDuplicates(free)
  /\ Elements(free) \cup Ids(busy) = DiskIos
  /\ Elements(free) \cap Ids(busy) = {}
  /\ \A x, y \in busy : x.id = y.id => x = y
  /\ IsFiniteSet(busy) /\ n = Cardinality(busy)
  /\ n = Cardinality(Ids(busy))

StagesApart(d) ==
  /\ kernel[d] \cap events[d] = {} /\ batch[d] \cap (kernel[d] \cup events[d]) = {}
  /\ called[d] \in batch[d] \cup {NoIo}

BooksAreFunctions ==
  /\ free_disk_io_list = [d \in Disks |-> free_disk_io_list[d]]
  /\ uio_cnt = [d \in Disks |-> uio_cnt[d]]
  /\ called = [d \in Disks |-> called[d]]
  /\ kernel = [d \in Disks |-> kernel[d]]
  /\ events = [d \in Disks |-> events[d]]
  /\ batch = [d \in Disks |-> batch[d]]

DiskOK(d) == Account(free_disk_io_list[d], Busy(d), uio_cnt[d]) /\ StagesApart(d)

BooksOK == BooksAreFunctions /\ \A d \in Disks : DiskOK(d)

(* The str_disk_io of a disk are finitely many.                              *)
LEMMA DiskIosFinite == IsFiniteSet(DiskIos) /\ Cardinality(DiskIos) = MaxAioPerDisk
<1>1. MaxAioPerDisk \in Nat /\ MaxAioPerDisk # 0
  BY Raid10IoAssumption
<1> QED BY <1>1, FS_Interval DEF DiskIos

(* The I/Os in the books have ids of the disk, finitely many.                *)
LEMMA IdsFinite ==
  ASSUME NEW free, NEW busy, NEW n, Account(free, busy, n)
  PROVE  /\ IsFiniteSet(Ids(busy)) /\ n \in 0..MaxAioPerDisk
         /\ Ids(busy) \subseteq DiskIos
<1>1. Ids(busy) \subseteq DiskIos
  BY DEF Account
<1>2. IsFiniteSet(Ids(busy)) /\ Cardinality(Ids(busy)) <= MaxAioPerDisk
  BY <1>1, DiskIosFinite, FS_Subset
<1>3. n \in Nat
  BY FS_CardinalityType DEF Account
<1>4. n <= MaxAioPerDisk
  BY <1>2 DEF Account
<1>5. MaxAioPerDisk \in Nat
  BY Raid10IoAssumption
<1> QED BY <1>1, <1>2, <1>3, <1>4, <1>5

(* Taking the first free one for a new I/O.                                  *)
LEMMA AccountTake ==
  ASSUME NEW free, NEW busy, NEW n, Account(free, busy, n), free # <<>>,
         NEW io, io.id = free[1]
  PROVE  io \notin busy /\ Account(RemoveNode(free, free[1]), busy \cup {io}, n + 1)
<1>1. free \in Seq(DiskIos) /\ NoDuplicates(free)
  BY DEF Account
<1>2. free[1] \in DiskIos /\ free[1] \in Elements(free)
  BY <1>1, HeadType
<1>3. /\ RemoveNode(free, free[1]) \in Seq(DiskIos)
      /\ NoDuplicates(RemoveNode(free, free[1]))
      /\ Elements(RemoveNode(free, free[1])) = Elements(free) \ {free[1]}
  BY <1>1, <1>2, RemoveNodeExact
<1>4. free[1] \notin Ids(busy)
  BY <1>2 DEF Account
<1>5. io \notin busy
  BY <1>4 DEF Ids
<1>6. Ids(busy \cup {io}) = Ids(busy) \cup {free[1]}
  BY DEF Ids
<1>7. \A x, y \in busy \cup {io} : x.id = y.id => x = y
  <2>1. \A x \in busy : x.id # io.id
    BY <1>4 DEF Ids
  <2> QED BY <2>1 DEF Account
<1>8. IsFiniteSet(busy \cup {io}) /\ Cardinality(busy \cup {io}) = n + 1
  BY <1>5, FS_AddElement DEF Account
<1>9. Cardinality(Ids(busy \cup {io})) = n + 1
  <2>1. IsFiniteSet(Ids(busy)) /\ n = Cardinality(Ids(busy))
    BY IdsFinite DEF Account
  <2> QED BY <1>4, <1>6, <2>1, FS_AddElement
<1>10. /\ Elements(free) \cup Ids(busy) = DiskIos
       /\ Elements(free) \cap Ids(busy) = {}
  BY DEF Account
<1> QED BY <1>2, <1>3, <1>4, <1>5, <1>6, <1>7, <1>8, <1>9, <1>10 DEF Account

(* Returning the one of an I/O that is done.                                 *)
LEMMA AccountReturn ==
  ASSUME NEW free, NEW busy, NEW n, Account(free, busy, n), NEW io \in busy
  PROVE  Account(AddToHead(free, io.id), busy \ {io}, n - 1)
<1>1. io.id \in Ids(busy)
  BY DEF Ids
<1>2. io.id \in DiskIos /\ io.id \notin Elements(free)
  BY <1>1 DEF Account
<1>3. /\ AddToHead(free, io.id) \in Seq(DiskIos)
      /\ NoDuplicates(AddToHead(free, io.id))
      /\ Elements(AddToHead(free, io.id)) = Elements(free) \cup {io.id}
  BY <1>2, AddToHeadExact DEF Account
<1>4. Ids(busy \ {io}) = Ids(busy) \ {io.id}
  <2>1. \A x \in busy \ {io} : x.id # io.id
    BY DEF Account
  <2> QED BY <2>1 DEF Ids
<1>5. IsFiniteSet(busy \ {io}) /\ Cardinality(busy \ {io}) = n - 1
  BY FS_RemoveElement DEF Account
<1>6. Cardinality(Ids(busy \ {io})) = n - 1
  <2>1. IsFiniteSet(Ids(busy)) /\ n = Cardinality(Ids(busy))
    BY IdsFinite DEF Account
  <2> QED BY <1>1, <1>4, <2>1, FS_RemoveElement
<1>7. /\ Elements(free) \cup Ids(busy) = DiskIos
      /\ Elements(free) \cap Ids(busy) = {}
      /\ \A x, y \in busy \ {io} : x.id = y.id => x = y
  BY DEF Account
<1>8. /\ Elements(AddToHead(free, io.id)) \cup Ids(busy \ {io}) = DiskIos
      /\ Elements(AddToHead(free, io.id)) \cap Ids(busy \ {io}) = {}
  BY <1>1, <1>2, <1>3, <1>4, <1>7
<1> QED BY <1>3, <1>5, <1>6, <1>7, <1>8 DEF Account

(* At the start every str_disk_io is free.                                   *)
LEMMA BooksOKInit == Init => BooksOK
<1> SUFFICES ASSUME Init PROVE BooksOK
  OBVIOUS
<1>1. BooksAreFunctions
  BY DEF Init, BooksAreFunctions
<1> DEFINE free == [i \in DiskIos |-> MaxAioPerDisk + 1 - i]
<1>2. MaxAioPerDisk \in Nat /\ MaxAioPerDisk # 0
  BY Raid10IoAssumption
<1>3. free \in Seq(DiskIos) /\ Len(free) = MaxAioPerDisk
  <2>1. \A i \in DiskIos : MaxAioPerDisk + 1 - i \in DiskIos
    BY <1>2 DEF DiskIos
  <2> QED BY <1>2, <2>1 DEF DiskIos
<1>4. NoDuplicates(free)
  <2>1. \A i, j \in DiskIos : free[i] = free[j] => i = j
    BY <1>2 DEF DiskIos
  <2> HIDE DEF free
  <2> QED BY <1>3, <2>1 DEF NoDuplicates, DiskIos
<1>5. Elements(free) = DiskIos
  <2>1. \A i \in DiskIos : free[i] \in DiskIos
    BY <1>2 DEF DiskIos
  <2>2. \A x \in DiskIos : MaxAioPerDisk + 1 - x \in DiskIos
                           /\ free[MaxAioPerDisk + 1 - x] = x
    BY <1>2 DEF DiskIos
  <2> HIDE DEF free
  <2> QED BY <1>3, <2>1, <2>2 DEF Elements, DiskIos
<1>6. \A d \in Disks : free_disk_io_list[d] = free /\ Busy(d) = {} /\ uio_cnt[d] = 0
  BY DEF Init, Busy
<1> HIDE DEF free
<1>7. Ids({}) = {}
  BY DEF Ids
<1>8. Account(free, {}, 0)
  BY <1>3, <1>4, <1>5, <1>7, FS_EmptySet DEF Account
<1>9. \A d \in Disks : StagesApart(d)
  BY DEF Init, StagesApart
<1> QED BY <1>1, <1>6, <1>8, <1>9 DEF BooksOK, DiskOK

(* handle_uio_raid10 keeps the books.                                        *)
LEMMA BooksKeptByHandleUio ==
  ASSUME BooksOK, NEW e \in Disks, NEW offset, NEW cb, handle_uio(e, offset, cb),
         UNCHANGED <<events, batch, called>>
  PROVE  BooksOK'
<1> DEFINE id == free_disk_io_list[e][1]
           new == [id |-> id, offset |-> offset, cb |-> cb]
<1>1. /\ free_disk_io_list[e] # <<>>
      /\ free_disk_io_list' = [free_disk_io_list EXCEPT ![e] = RemoveNode(@, id)]
      /\ kernel' = [kernel EXCEPT ![e] = @ \cup {new}]
      /\ uio_cnt' = [uio_cnt EXCEPT ![e] = @ + 1]
  BY DEF handle_uio
<1>2. new.id = id
  OBVIOUS
<1>3. BooksAreFunctions'
  BY <1>1 DEF BooksOK, BooksAreFunctions
<1>4. ASSUME NEW d \in Disks, d # e PROVE DiskOK(d)'
  <2>1. /\ free_disk_io_list'[d] = free_disk_io_list[d] /\ kernel'[d] = kernel[d]
        /\ uio_cnt'[d] = uio_cnt[d]
    BY <1>1, <1>4 DEF BooksOK, BooksAreFunctions
  <2>2. Busy(d)' = Busy(d)
    BY <2>1 DEF Busy
  <2> QED BY <1>4, <2>1, <2>2 DEF BooksOK, DiskOK, StagesApart
<1>5. DiskOK(e)'
  <2>1. Account(free_disk_io_list[e], Busy(e), uio_cnt[e]) /\ StagesApart(e)
    BY DEF BooksOK, DiskOK
  <2>2. /\ free_disk_io_list'[e] = RemoveNode(free_disk_io_list[e], id)
        /\ kernel'[e] = kernel[e] \cup {new} /\ uio_cnt'[e] = uio_cnt[e] + 1
    BY <1>1 DEF BooksOK, BooksAreFunctions
  <2> HIDE DEF new
  <2>3. new \notin Busy(e)
        /\ Account(RemoveNode(free_disk_io_list[e], id), Busy(e) \cup {new}, uio_cnt[e] + 1)
    BY <1>1, <1>2, <2>1, AccountTake
  <2>4. Busy(e)' = Busy(e) \cup {new}
    BY <2>2 DEF Busy
  <2>5. StagesApart(e)'
    BY <2>1, <2>2, <2>3 DEF StagesApart, Busy
  <2> QED BY <2>2, <2>3, <2>4, <2>5 DEF DiskOK
<1> QED BY <1>3, <1>4, <1>5 DEF BooksOK

(* Every step keeps the books.                                               *)
LEMMA BooksOKNext == PlaceInv /\ BooksOK /\ [Next]_vars => BooksOK'
<1> SUFFICES ASSUME PlaceInv, BooksOK, [Next]_vars PROVE BooksOK'
  OBVIOUS
<1>1. ASSUME NEW c \in Clients, QueueRead(c) \/ QueueWrite(c) \/ QueueMirrorWrite(c)
      PROVE  BooksOK'
  <2> DEFINE p == client[c].page
  <2>1. p \in Pages
    BY <1>1 DEF QueueRead, QueueWrite, QueueMirrorWrite, PlaceInv, ClientsOK
  <2>2. ReadDisk(p, SpareDisk) \in Disks /\ DiskOf(p) \in Disks /\ MirrorOf(p) \in Disks
    BY <2>1, PairInArray
  <2>3. UNCHANGED <<events, batch, called>>
    BY <1>1 DEF QueueRead, QueueWrite, QueueMirrorWrite
  <2>4. \E e \in Disks, cb \in {"callback", "callback2"} : handle_uio(e, OffsetOf(p), cb)
    BY <1>1, <2>2 DEF QueueRead, QueueWrite, QueueMirrorWrite
  <2> HIDE DEF p
  <2> QED BY <2>3, <2>4, BooksKeptByHandleUio
<1>2. ASSUME UNCHANGED <<free_disk_io_list, uio_cnt>>, BooksAreFunctions',
             \A d \in Disks : Busy(d)' = Busy(d) /\ StagesApart(d)'
      PROVE  BooksOK'
  <2> SUFFICES ASSUME NEW d \in Disks PROVE DiskOK(d)'
    BY <1>2 DEF BooksOK
  <2>1. Account(free_disk_io_list[d], Busy(d), uio_cnt[d])
    BY DEF BooksOK, DiskOK
  <2> QED BY <1>2, <2>1 DEF DiskOK
<1>3. ASSUME NEW d \in Disks, NEW id \in DiskIos, DiskDone(d, id) PROVE BooksOK'
  <2>1. PICK io \in kernel[d] : /\ kernel' = [kernel EXCEPT ![d] = @ \ {io}]
                                /\ events' = [events EXCEPT ![d] = @ \cup {io}]
    BY <1>3 DEF DiskDone
  <2>2. UNCHANGED <<free_disk_io_list, uio_cnt, batch, called>>
    BY <1>3 DEF DiskDone
  <2>3. BooksAreFunctions'
    BY <2>1, <2>2 DEF BooksOK, BooksAreFunctions
  <2>4. ASSUME NEW e \in Disks PROVE Busy(e)' = Busy(e) /\ StagesApart(e)'
    <3>1. StagesApart(e)
      BY DEF BooksOK, DiskOK
    <3>2. /\ kernel'[e] = IF e = d THEN kernel[e] \ {io} ELSE kernel[e]
          /\ events'[e] = IF e = d THEN events[e] \cup {io} ELSE events[e]
      BY <2>1 DEF BooksOK, BooksAreFunctions
    <3>3. Busy(e)' = Busy(e)
      BY <2>1, <2>2, <3>2 DEF Busy
    <3>4. StagesApart(e)'
      BY <2>1, <2>2, <3>1, <3>2 DEF StagesApart
    <3> QED BY <3>3, <3>4
  <2> QED BY <1>2, <2>2, <2>3, <2>4
<1>4. ASSUME NEW d \in Disks, Harvest(d) PROVE BooksOK'
  <2>1. BooksAreFunctions'
    BY <1>4 DEF Harvest, BooksOK, BooksAreFunctions
  <2>2. ASSUME NEW e \in Disks PROVE Busy(e)' = Busy(e) /\ StagesApart(e)'
    <3>1. StagesApart(e)
      BY DEF BooksOK, DiskOK
    <3>2. /\ kernel'[e] = kernel[e] /\ called'[e] = called[e]
          /\ events'[e] = IF e = d THEN {} ELSE events[e]
          /\ batch'[e] = IF e = d THEN events[e] ELSE batch[e]
          /\ e = d => batch[e] = {}
      BY <1>4 DEF Harvest, BooksOK, BooksAreFunctions
    <3>3. Busy(e)' = Busy(e)
      BY <3>2 DEF Busy
    <3>4. StagesApart(e)'
      BY <3>1, <3>2 DEF StagesApart
    <3> QED BY <3>3, <3>4
  <2> QED BY <1>2, <1>4, <2>1, <2>2 DEF Harvest
<1>5. ASSUME NEW d \in Disks, RunCallback(d) PROVE BooksOK'
  <2>1. PICK io \in batch[d] : called' = [called EXCEPT ![d] = io]
    BY <1>5 DEF RunCallback
  <2>2. UNCHANGED <<free_disk_io_list, uio_cnt, kernel, events, batch>>
    BY <1>5 DEF RunCallback
  <2>3. BooksAreFunctions'
    BY <2>1, <2>2 DEF BooksOK, BooksAreFunctions
  <2>4. ASSUME NEW e \in Disks PROVE Busy(e)' = Busy(e) /\ StagesApart(e)'
    <3>1. StagesApart(e)
      BY DEF BooksOK, DiskOK
    <3>2. called'[e] = IF e = d THEN io ELSE called[e]
      BY <2>1 DEF BooksOK, BooksAreFunctions
    <3> QED BY <2>1, <2>2, <3>1, <3>2 DEF StagesApart, Busy
  <2> QED BY <1>2, <2>2, <2>3, <2>4
<1>6. ASSUME NEW d \in Disks, ReturnDiskIo(d) PROVE BooksOK'
  <2> DEFINE io == called[d]
  <2>1. /\ io # NoIo
        /\ free_disk_io_list' = [free_disk_io_list EXCEPT ![d] = AddToHead(@, io.id)]
        /\ uio_cnt' = [uio_cnt EXCEPT ![d] = @ - 1]
        /\ batch' = [batch EXCEPT ![d] = @ \ {io}]
        /\ called' = [called EXCEPT ![d] = NoIo]
        /\ UNCHANGED <<kernel, events>>
    BY <1>6 DEF ReturnDiskIo
  <2>2. BooksAreFunctions'
    BY <2>1 DEF BooksOK, BooksAreFunctions
  <2>3. ASSUME NEW e \in Disks, e # d PROVE DiskOK(e)'
    <3>1. /\ free_disk_io_list'[e] = free_disk_io_list[e] /\ batch'[e] = batch[e]
          /\ uio_cnt'[e] = uio_cnt[e] /\ called'[e] = called[e]
      BY <2>1, <2>3 DEF BooksOK, BooksAreFunctions
    <3>2. Busy(e)' = Busy(e)
      BY <2>1, <3>1 DEF Busy
    <3> QED BY <2>1, <2>3, <3>1, <3>2 DEF BooksOK, DiskOK, StagesApart
  <2>4. DiskOK(d)'
    <3>1. Account(free_disk_io_list[d], Busy(d), uio_cnt[d]) /\ StagesApart(d)
      BY DEF BooksOK, DiskOK
    <3>2. /\ free_disk_io_list'[d] = AddToHead(free_disk_io_list[d], io.id)
          /\ batch'[d] = batch[d] \ {io} /\ uio_cnt'[d] = uio_cnt[d] - 1
          /\ called'[d] = NoIo
      BY <2>1 DEF BooksOK, BooksAreFunctions
    <3>3. io \in batch[d] /\ io \in Busy(d)
      BY <2>1, <3>1 DEF StagesApart, Busy
    <3>4. Busy(d)' = Busy(d) \ {io}
      BY <2>1, <3>1, <3>2, <3>3 DEF Busy, StagesApart
    <3>5. StagesApart(d)'
      BY <2>1, <3>1, <3>2 DEF StagesApart
    <3> HIDE DEF io
    <3>6. Account(AddToHead(free_disk_io_list[d], io.id), Busy(d) \ {io}, uio_cnt[d] - 1)
      BY <3>1, <3>3, AccountReturn
    <3> QED BY <3>2, <3>4, <3>5, <3>6 DEF DiskOK
  <2> QED BY <2>2, <2>3, <2>4 DEF BooksOK
<1>7. ASSUME UNCHANGED <<free_disk_io_list, uio_cnt, kernel, events, batch, called>>
      PROVE  BooksOK'
  <2>1. BooksAreFunctions'
    BY <1>7 DEF BooksOK, BooksAreFunctions
  <2>2. ASSUME NEW e \in Disks PROVE Busy(e)' = Busy(e) /\ StagesApart(e)'
    BY <1>7 DEF BooksOK, DiskOK, StagesApart, Busy
  <2> QED BY <1>2, <1>7, <2>1, <2>2
<1>8. ASSUME NEW c \in Clients, handle_cache_request(c) PROVE BooksOK'
  BY <1>7, <1>8 DEF handle_cache_request
<1>9. CASE ClearStartUrio
  BY <1>7, <1>9 DEF ClearStartUrio
<1>10. CASE UNCHANGED vars
  BY <1>7, <1>10 DEF vars
<1>11. ASSUME NEW d \in Disks, LockDiskIo(d) \/ ReadLatency(d) PROVE BooksOK'
  BY <1>7, <1>11, LatencyStepsKeep
<1> QED BY <1>1, <1>3, <1>4, <1>5, <1>6, <1>8, <1>9, <1>10, <1>11 DEF Next, CompletionThread

(* A str_disk_io is free or in one I/O, never in two, and uio_cnt counts the *)
(* I/Os of the disk: what handle_uio_raid10 relies on when it reuses an iocb *)
(* and the recovery thread when it finds uio_cnt zero.                       *)
THEOREM DiskIosNeverLost == Spec => []DiskIosAccounted
<1>1. Spec => [](PlaceInv /\ BooksOK)
  BY PlaceInvInit, PlaceInvNext, BooksOKInit, BooksOKNext, PTL DEF Spec
<1>2. BooksOK => DiskIosAccounted
  BY DEF BooksOK, DiskOK, Account, StagesApart, Ids, DiskIosAccounted
<1> QED BY <1>1, <1>2, PTL

-----------------------------------------------------------------------------
(* Types.                                                                    *)

ClientType ==
  client \in [Clients -> [pc : {"idle", "first", "second"},
                          page : Pages \cup {NoPage}, rw : {"read", "write"}]]

IosTyped == \A d \in Disks : Busy(d) \subseteq IoRecords

TypeInv ==
  /\ ClientType /\ IosTyped
  /\ start_urio \in BOOLEAN
  /\ due \in [Pages -> Int]

(* Offsets on a disk are numbers.                                            *)
LEMMA OffsetNat == ASSUME NEW p \in Pages PROVE OffsetOf(p) \in Nat
<1>1. p \in Nat
  BY Raid10IoAssumption
<1>2. PageSize \in Nat /\ StripSize \in Nat \ {0} /\ RaidDisks \in Nat \ {0}
  BY LayoutAssumption
<1> DEFINE a == p * PageSize
<1>3. a \in Nat
  BY <1>1, <1>2, Z3
<1> HIDE DEF a
<1>4. a \div StripSize \in Nat /\ a % StripSize \in 0..(StripSize - 1)
  BY <1>2, <1>3, DivMod
<1>5. (a \div StripSize) * 2 \in Nat
  BY <1>4
<1>6. ((a \div StripSize) * 2) \div RaidDisks \in Nat
  BY <1>2, <1>5, DivMod
<1>7. (((a \div StripSize) * 2) \div RaidDisks) * StripSize \in Nat
  BY <1>2, <1>6, Z3
<1>8. a % StripSize \in Nat
  BY <1>2, <1>4
<1>9. (((a \div StripSize) * 2) \div RaidDisks) * StripSize + (a % StripSize) \in Nat
  BY <1>7, <1>8
<1> QED BY <1>9 DEF OffsetOf, StripOf, a

(* The I/O that handle_uio_raid10 submits, and where it is then.             *)
LEMMA Submitted ==
  ASSUME PlaceInv, BooksOK, NEW p \in Pages, NEW e \in Disks,
         NEW cb \in {"callback", "callback2"}, handle_uio(e, OffsetOf(p), cb),
         UNCHANGED <<events, batch>>
  PROVE  \E io \in IoRecords :
           /\ io = [id |-> free_disk_io_list[e][1], offset |-> OffsetOf(p), cb |-> cb]
           /\ io \notin Busy(e)
           /\ \A x \in Busy(e) : x.id # io.id
           /\ \A d \in Disks :
                /\ kernel'[d] = kernel[d] \cup (IF d = e THEN {io} ELSE {})
                /\ Busy(d)' = Busy(d) \cup (IF d = e THEN {io} ELSE {})
<1> DEFINE io == [id |-> free_disk_io_list[e][1], offset |-> OffsetOf(p), cb |-> cb]
<1>1. /\ free_disk_io_list[e] # <<>>
      /\ kernel' = [kernel EXCEPT ![e] = @ \cup {io}]
  BY DEF handle_uio
<1>2. Account(free_disk_io_list[e], Busy(e), uio_cnt[e])
  BY DEF BooksOK, DiskOK
<1>3. free_disk_io_list[e][1] \in DiskIos /\ free_disk_io_list[e][1] \in Elements(free_disk_io_list[e])
  BY <1>1, <1>2, HeadType DEF Account
<1>4. io \in IoRecords /\ io.id = free_disk_io_list[e][1]
  BY <1>3, OffsetNat DEF IoRecords
<1> HIDE DEF io
<1>5. io.id \notin Ids(Busy(e))
  BY <1>2, <1>3, <1>4 DEF Account
<1>6. \A x \in Busy(e) : x.id # io.id
  BY <1>5 DEF Ids
<1>7. \A d \in Disks : kernel'[d] = kernel[d] \cup (IF d = e THEN {io} ELSE {})
  BY <1>1 DEF BooksOK, BooksAreFunctions
<1>8. \A d \in Disks : Busy(d)' = Busy(d) \cup (IF d = e THEN {io} ELSE {})
  BY <1>7 DEF Busy
<1> QED BY <1>4, <1>6, <1>7, <1>8 DEF io

(* Initially everything has its type.                                        *)
LEMMA TypeInvInit == Init => TypeInv
BY DEF Init, TypeInv, ClientType, IosTyped, Busy, IdleClient

(* Every step keeps the types.                                               *)
LEMMA TypeInvNext == PlaceInv /\ BooksOK /\ TypeInv /\ [Next]_vars => TypeInv'
<1> SUFFICES ASSUME PlaceInv, BooksOK, TypeInv, [Next]_vars PROVE TypeInv'
  OBVIOUS
<1> IdleClient \in [pc : {"idle", "first", "second"}, page : Pages \cup {NoPage},
                    rw : {"read", "write"}]
  BY DEF IdleClient
<1>1. ASSUME NEW p \in Pages, NEW e \in Disks, NEW cb \in {"callback", "callback2"},
             handle_uio(e, OffsetOf(p), cb), UNCHANGED <<events, batch>>
      PROVE  IosTyped'
  BY <1>1, Submitted DEF TypeInv, IosTyped
<1>2. ASSUME \A d \in Disks : Busy(d)' \subseteq Busy(d) PROVE IosTyped'
  BY <1>2 DEF TypeInv, IosTyped
<1>3. ASSUME NEW c \in Clients, handle_cache_request(c) PROVE TypeInv'
  <2>1. PICK p \in Pages, rw \in {"read", "write"} :
          client' = [client EXCEPT ![c] = [pc |-> "first", page |-> p, rw |-> rw]]
    BY <1>3 DEF handle_cache_request
  <2>2. ClientType'
    BY <2>1 DEF TypeInv, ClientType
  <2>3. IosTyped'
    BY <1>2, <1>3 DEF handle_cache_request, Busy
  <2> QED BY <1>3, <2>2, <2>3 DEF handle_cache_request, TypeInv
<1>4. ASSUME NEW c \in Clients, QueueRead(c) \/ QueueWrite(c) \/ QueueMirrorWrite(c)
      PROVE  TypeInv'
  <2> DEFINE p == client[c].page
  <2>1. p \in Pages
    BY <1>4 DEF QueueRead, QueueWrite, QueueMirrorWrite, PlaceInv, ClientsOK
  <2>2. ReadDisk(p, SpareDisk) \in Disks /\ DiskOf(p) \in Disks /\ MirrorOf(p) \in Disks
    BY <2>1, PairInArray
  <2>3. UNCHANGED <<events, batch>>
    BY <1>4 DEF QueueRead, QueueWrite, QueueMirrorWrite
  <2>4. \E e \in Disks, cb \in {"callback", "callback2"} : handle_uio(e, OffsetOf(p), cb)
    BY <1>4, <2>2 DEF QueueRead, QueueWrite, QueueMirrorWrite
  <2>5. client' = [client EXCEPT ![c] = IdleClient] \/ client' = [client EXCEPT ![c].pc = "second"]
    BY <1>4 DEF QueueRead, QueueWrite, QueueMirrorWrite
  <2>6. ClientType'
    BY <2>5 DEF TypeInv, ClientType
  <2>7. due' = [due EXCEPT ![p] = @ + 1] \/ due' = due
    BY <1>4 DEF QueueRead, QueueWrite, QueueMirrorWrite
  <2>8. start_urio' = start_urio
    BY <1>4 DEF QueueRead, QueueWrite, QueueMirrorWrite
  <2> HIDE DEF p
  <2>9. IosTyped'
    BY <1>1, <2>1, <2>3, <2>4
  <2>10. (due \in [Pages -> Int])'
    <3>1. due \in [Pages -> Int] /\ due[p] + 1 \in Int
      BY <2>1 DEF TypeInv
    <3> QED BY <2>1, <2>7, <3>1
  <2> QED BY <2>6, <2>8, <2>9, <2>10 DEF TypeInv
<1>5. ASSUME NEW d \in Disks, NEW id \in DiskIos, DiskDone(d, id) PROVE TypeInv'
  <2>1. \A e \in Disks : Busy(e)' \subseteq Busy(e)
    BY <1>5 DEF DiskDone, Busy, PlaceInv, QueuesOK
  <2> QED BY <1>2, <1>5, <2>1 DEF DiskDone, TypeInv, ClientType
<1>6. ASSUME NEW d \in Disks, Harvest(d) PROVE TypeInv'
  <2>1. \A e \in Disks : Busy(e)' \subseteq Busy(e)
    BY <1>6 DEF Harvest, Busy, PlaceInv, QueuesOK
  <2> QED BY <1>2, <1>6, <2>1 DEF Harvest, TypeInv, ClientType
<1>7. ASSUME NEW d \in Disks, RunCallback(d) PROVE TypeInv'
  <2>1. \A e \in Disks : Busy(e)' \subseteq Busy(e)
    BY <1>7 DEF RunCallback, Busy
  <2>2. (due \in [Pages -> Int])'
    <3>1. PICK io \in batch[d] :
            due' = IF io.cb = "callback" THEN [due EXCEPT ![PageOf(d, io)] = @ - 1] ELSE due
      BY <1>7 DEF RunCallback
    <3> DEFINE q == PageOf(d, io)
    <3>2. q \in Pages
      BY PageFound DEF IosOnTheirPair, Busy
    <3>3. due \in [Pages -> Int] /\ due[q] - 1 \in Int
      BY <3>2 DEF TypeInv
    <3>4. due' = due \/ due' = [due EXCEPT ![q] = @ - 1]
      BY <3>1
    <3> HIDE DEF q
    <3> QED BY <3>2, <3>3, <3>4
  <2> QED BY <1>2, <1>7, <2>1, <2>2 DEF RunCallback, TypeInv, ClientType
<1>8. ASSUME NEW d \in Disks, ReturnDiskIo(d) PROVE TypeInv'
  <2>1. UNCHANGED <<client, kernel, events, start_urio, due>>
        /\ batch' = [batch EXCEPT ![d] = @ \ {called[d]}]
    BY <1>8 DEF ReturnDiskIo
  <2>2. \A e \in Disks : Busy(e)' \subseteq Busy(e)
    BY <2>1 DEF Busy, PlaceInv, QueuesOK
  <2> QED BY <1>2, <2>1, <2>2 DEF TypeInv, ClientType
<1>9. ASSUME UNCHANGED <<client, kernel, events, batch, due>>, start_urio' \in BOOLEAN
      PROVE TypeInv'
  <2>1. \A e \in Disks : Busy(e)' \subseteq Busy(e)
    BY <1>9 DEF Busy
  <2> QED BY <1>2, <1>9, <2>1 DEF TypeInv, ClientType
<1>10. CASE ClearStartUrio
  BY <1>9, <1>10 DEF ClearStartUrio
<1>11. CASE UNCHANGED vars
  BY <1>9, <1>11 DEF vars, TypeInv
<1>12. ASSUME NEW d \in Disks, LockDiskIo(d) \/ ReadLatency(d) PROVE TypeInv'
  BY <1>9, <1>12, LatencyStepsKeep DEF TypeInv
<1> QED BY <1>3, <1>4, <1>5, <1>6, <1>7, <1>8, <1>10, <1>11, <1>12 DEF Next, CompletionThread

-----------------------------------------------------------------------------
(* The callbacks.                                                            *)

(* The I/Os of disk d whose tracked callback has not run.                    *)
OwedAt(d) == {io \in Busy(d) : io.cb = "callback" /\ io # called[d]}

OwedOnce ==
  \A p \in Pages :
    /\ due[p] \in {0, 1}
    /\ due[p] = 1 <=> \E d \in Disks : \E io \in OwedAt(d) : PageOf(d, io) = p
    /\ \A d, e \in Disks : \A io \in OwedAt(d), jo \in OwedAt(e) :
         PageOf(d, io) = p /\ PageOf(e, jo) = p => d = e /\ io = jo

(* One client at a time is about to hand over the first I/O of a page.       *)
FirstAlone ==
  \A c \in Clients : client[c].pc = "first" =>
    /\ due[client[c].page] = 0
    /\ \A o \in Clients : o # c /\ client[o].pc = "first" => client[o].page # client[c].page

DueInv == OwedOnce /\ FirstAlone

RaidInv == PlaceInv /\ BooksOK /\ TypeInv /\ DueInv

(* Nothing is owed at the start.                                             *)
LEMMA DueInvInit == Init => DueInv
BY DEF Init, DueInv, OwedOnce, FirstAlone, OwedAt, Busy, IdleClient

(* Steps that change nothing of what is owed.                                *)
LEMMA DueKept ==
  ASSUME RaidInv, UNCHANGED due, \A d \in Disks : OwedAt(d)' = OwedAt(d),
         \A c \in Clients : client'[c].pc = "first" => client'[c] = client[c]
  PROVE  DueInv'
<1>1. OwedOnce'
  BY DEF RaidInv, DueInv, OwedOnce
<1>2. FirstAlone'
  BY DEF RaidInv, DueInv, FirstAlone
<1> QED BY <1>1, <1>2 DEF DueInv

(* Handing over an I/O with the tracked callback.                            *)
LEMMA DueTaken ==
  ASSUME RaidInv, NEW c \in Clients, client[c].pc = "first",
         NEW e \in Disks, e \in {DiskOf(client[c].page), MirrorOf(client[c].page)},
         handle_uio(e, OffsetOf(client[c].page), "callback"),
         UNCHANGED <<events, batch, called>>,
         due' = [due EXCEPT ![client[c].page] = @ + 1],
         \A o \in Clients : client'[o].pc = "first" => o # c /\ client'[o] = client[o]
  PROVE  DueInv'
<1>1. client[c].page \in Pages
  BY DEF RaidInv, PlaceInv, ClientsOK
<1>2. PICK p \in Pages : p = client[c].page
  BY <1>1
<1>3. due \in [Pages -> Int] /\ due[p] = 0
  BY <1>2 DEF RaidInv, TypeInv, DueInv, FirstAlone
<1>4. PICK io \in IoRecords :
        /\ io = [id |-> free_disk_io_list[e][1], offset |-> OffsetOf(p), cb |-> "callback"]
        /\ io \notin Busy(e)
        /\ \A d \in Disks : Busy(d)' = Busy(d) \cup (IF d = e THEN {io} ELSE {})
  BY <1>2, Submitted DEF RaidInv
<1>5. io.cb = "callback" /\ io # called[e]
  <2>1. called[e] \in batch[e] \cup {NoIo}
    BY DEF RaidInv, BooksOK, DiskOK, StagesApart
  <2> QED BY <1>4, <2>1, NoIoAssumption DEF Busy
<1>6. PageOf(e, io) = p
  <2>1. io_to_page(OffsetOf(p), e) = p
    BY <1>2, PageRoundTrip, Raid10IoAssumption
  <2> QED BY <1>4, <2>1 DEF PageOf
<1>7. \A d \in Disks : OwedAt(d)' = OwedAt(d) \cup (IF d = e THEN {io} ELSE {})
  BY <1>4, <1>5 DEF OwedAt
<1>8. \A q \in Pages : due'[q] = IF q = p THEN 1 ELSE due[q]
  BY <1>2, <1>3
<1>9. \A d \in Disks : \A x \in OwedAt(d) : PageOf(d, x) # p
  BY <1>3 DEF RaidInv, DueInv, OwedOnce
<1>10. OwedOnce'
  <2> SUFFICES ASSUME NEW q \in Pages
               PROVE  /\ due'[q] \in {0, 1}
                      /\ due'[q] = 1 <=> \E d \in Disks : \E x \in OwedAt(d)' : PageOf(d, x) = q
                      /\ \A d, f \in Disks : \A x \in OwedAt(d)', y \in OwedAt(f)' :
                           PageOf(d, x) = q /\ PageOf(f, y) = q => d = f /\ x = y
    BY DEF OwedOnce, PageOf
  <2>1. CASE q = p
    BY <1>6, <1>7, <1>8, <1>9, <2>1
  <2>2. CASE q # p
    <3>1. /\ due'[q] = due[q]
          /\ \A d \in Disks : \A x : PageOf(d, x) = q => (x \in OwedAt(d)' <=> x \in OwedAt(d))
      BY <1>6, <1>7, <1>8, <2>2
    <3> QED BY <3>1 DEF RaidInv, DueInv, OwedOnce
  <2> QED BY <2>1, <2>2
<1>11. FirstAlone'
  <2> SUFFICES ASSUME NEW o \in Clients, client'[o].pc = "first"
               PROVE  /\ due'[client'[o].page] = 0
                      /\ \A f \in Clients : f # o /\ client'[f].pc = "first"
                                             => client'[f].page # client'[o].page
    BY DEF FirstAlone
  <2>1. o # c /\ client'[o] = client[o] /\ client[o].pc = "first"
    OBVIOUS
  <2>2. client[o].page # p /\ due[client[o].page] = 0 /\ client[o].page \in Pages
    BY <1>2, <2>1 DEF RaidInv, DueInv, FirstAlone, PlaceInv, ClientsOK
  <2>3. due'[client'[o].page] = 0
    BY <1>8, <2>1, <2>2
  <2> QED BY <2>1, <2>3 DEF RaidInv, DueInv, FirstAlone
<1> QED BY <1>10, <1>11 DEF DueInv

(* Every step keeps what is owed.                                            *)
LEMMA DueInvNext == RaidInv /\ [Next]_vars => DueInv'
<1> SUFFICES ASSUME RaidInv, [Next]_vars PROVE DueInv'
  OBVIOUS
<1> USE DEF RaidInv
<1>1. ASSUME NEW c \in Clients, handle_cache_request(c) PROVE DueInv'
  <2>1. PICK p \in Pages, rw \in {"read", "write"} :
          /\ due[p] = 0
          /\ \A other \in Clients : client[other].pc = "first" => client[other].page # p
          /\ client' = [client EXCEPT ![c] = [pc |-> "first", page |-> p, rw |-> rw]]
    BY <1>1 DEF handle_cache_request
  <2>2. UNCHANGED <<kernel, events, batch, called, due>>
    BY <1>1 DEF handle_cache_request
  <2>3. OwedOnce'
    BY <2>2 DEF DueInv, OwedOnce, OwedAt, Busy
  <2>4. \A o \in Clients : client'[o] = IF o = c THEN [pc |-> "first", page |-> p, rw |-> rw]
                                                 ELSE client[o]
    BY <2>1 DEF TypeInv, ClientType
  <2>5. FirstAlone'
    BY <2>1, <2>2, <2>4 DEF DueInv, FirstAlone
  <2> QED BY <2>3, <2>5 DEF DueInv
<1>2. ASSUME NEW c \in Clients, QueueRead(c) PROVE DueInv'
  <2>1. client[c].page \in Pages
    BY <1>2 DEF QueueRead, PlaceInv, ClientsOK
  <2>2. /\ ReadDisk(client[c].page, SpareDisk) \in Disks
        /\ ReadDisk(client[c].page, SpareDisk) \in {DiskOf(client[c].page), MirrorOf(client[c].page)}
    BY <2>1, PairInArray
  <2>3. \A o \in Clients : client'[o] = IF o = c THEN IdleClient ELSE client[o]
    BY <1>2 DEF QueueRead, TypeInv, ClientType
  <2>4. IdleClient.pc = "idle"
    BY DEF IdleClient
  <2>5. \A o \in Clients : client'[o].pc = "first" => o # c /\ client'[o] = client[o]
    BY <2>3, <2>4
  <2> QED BY <1>2, <2>2, <2>5, DueTaken DEF QueueRead
<1>3. ASSUME NEW c \in Clients, QueueWrite(c) PROVE DueInv'
  <2>1. client[c].page \in Pages
    BY <1>3 DEF QueueWrite, PlaceInv, ClientsOK
  <2>2. DiskOf(client[c].page) \in Disks
    BY <2>1, PairInArray
  <2>3. \A o \in Clients : client'[o] = IF o = c THEN [client[c] EXCEPT !.pc = "second"] ELSE client[o]
    BY <1>3 DEF QueueWrite, TypeInv, ClientType
  <2>4. client'[c].pc = "second"
    BY <2>3 DEF TypeInv, ClientType
  <2>5. \A o \in Clients : client'[o].pc = "first" => o # c /\ client'[o] = client[o]
    BY <2>3, <2>4
  <2> QED BY <1>3, <2>2, <2>5, DueTaken DEF QueueWrite
<1>4. ASSUME NEW c \in Clients, QueueMirrorWrite(c) PROVE DueInv'
  <2>1. PICK p \in Pages : p = client[c].page
    BY <1>4 DEF QueueMirrorWrite, PlaceInv, ClientsOK
  <2>2. MirrorOf(p) \in Disks /\ handle_uio(MirrorOf(p), OffsetOf(p), "callback2")
        /\ UNCHANGED <<events, batch, called, due>>
    BY <1>4, <2>1, PairInArray DEF QueueMirrorWrite
  <2>3. PICK io \in IoRecords :
          /\ io = [id |-> free_disk_io_list[MirrorOf(p)][1], offset |-> OffsetOf(p),
                   cb |-> "callback2"]
          /\ \A d \in Disks : Busy(d)' = Busy(d) \cup (IF d = MirrorOf(p) THEN {io} ELSE {})
    BY <2>2, Submitted
  <2>4. \A d \in Disks : OwedAt(d)' = OwedAt(d)
    BY <2>2, <2>3 DEF OwedAt
  <2>5. \A o \in Clients : client'[o] = IF o = c THEN IdleClient ELSE client[o]
    BY <1>4 DEF QueueMirrorWrite, TypeInv, ClientType
  <2>6. IdleClient.pc = "idle"
    BY DEF IdleClient
  <2> QED BY <2>2, <2>4, <2>5, <2>6, DueKept
<1>5. ASSUME NEW d \in Disks, NEW id \in DiskIos, DiskDone(d, id) PROVE DueInv'
  <2>1. \A e \in Disks : Busy(e)' = Busy(e)
    BY <1>5 DEF DiskDone, Busy, BooksOK, BooksAreFunctions
  <2>2. \A e \in Disks : OwedAt(e)' = OwedAt(e)
    BY <1>5, <2>1 DEF DiskDone, OwedAt
  <2> QED BY <1>5, <2>2, DueKept DEF DiskDone
<1>6. ASSUME NEW d \in Disks, Harvest(d) PROVE DueInv'
  <2>1. \A e \in Disks : Busy(e)' = Busy(e)
    <3>1. \A e \in Disks : /\ kernel'[e] = kernel[e]
                           /\ events'[e] \cup batch'[e] = events[e] \cup batch[e]
      BY <1>6 DEF Harvest, BooksOK, BooksAreFunctions
    <3> QED BY <3>1 DEF Busy
  <2>2. \A e \in Disks : OwedAt(e)' = OwedAt(e)
    BY <1>6, <2>1 DEF Harvest, OwedAt
  <2> QED BY <1>6, <2>2, DueKept DEF Harvest
<1>7. ASSUME NEW d \in Disks, RunCallback(d) PROVE DueInv'
  <2>1. PICK io \in batch[d] :
          /\ called' = [called EXCEPT ![d] = io]
          /\ due' = IF io.cb = "callback" THEN [due EXCEPT ![PageOf(d, io)] = @ - 1] ELSE due
    BY <1>7 DEF RunCallback
  <2>2. called[d] = NoIo /\ UNCHANGED <<client, kernel, events, batch>>
    BY <1>7 DEF RunCallback
  <2>3. io \in Busy(d) /\ io # NoIo
    BY NoIoAssumption DEF Busy, TypeInv, IosTyped
  <2>4. \A e \in Disks : Busy(e)' = Busy(e) /\ called'[e] = IF e = d THEN io ELSE called[e]
    BY <2>1, <2>2 DEF Busy, BooksOK, BooksAreFunctions
  <2>5. \A e \in Disks : OwedAt(e)' = IF e = d THEN OwedAt(e) \ {io} ELSE OwedAt(e)
    <3>1. \A x \in Busy(d) : x # NoIo
      BY NoIoAssumption DEF TypeInv, IosTyped
    <3> QED BY <2>2, <2>4, <3>1 DEF OwedAt
  <2>6. CASE io.cb = "callback"
    <3>1. PICK p \in Pages : p = PageOf(d, io)
      BY <2>3, PageFound DEF IosOnTheirPair
    <3>2. io \in OwedAt(d)
      BY <2>2, <2>3, <2>6 DEF OwedAt
    <3>3. due[p] = 1
      BY <3>1, <3>2 DEF DueInv, OwedOnce
    <3>4. \A q \in Pages : due'[q] = IF q = p THEN 0 ELSE due[q]
      BY <2>1, <2>6, <3>1, <3>3 DEF TypeInv
    <3>5. ASSUME NEW q \in Pages
          PROVE  /\ due'[q] \in {0, 1}
                 /\ due'[q] = 1 <=> \E e \in Disks : \E x \in OwedAt(e)' : PageOf(e, x) = q
                 /\ \A e, f \in Disks : \A x \in OwedAt(e)', y \in OwedAt(f)' :
                      PageOf(e, x) = q /\ PageOf(f, y) = q => e = f /\ x = y
      <4>1. CASE q = p
        <5>1. \A e \in Disks : \A x \in OwedAt(e) : PageOf(e, x) = p => e = d /\ x = io
          BY <3>1, <3>2 DEF DueInv, OwedOnce
        <5> QED BY <2>5, <3>4, <4>1, <5>1
      <4>2. CASE q # p
        <5>1. /\ due'[q] = due[q]
              /\ \A e \in Disks : \A x : PageOf(e, x) = q => (x \in OwedAt(e)' <=> x \in OwedAt(e))
          BY <2>5, <3>1, <3>4, <4>2
        <5> QED BY <5>1 DEF DueInv, OwedOnce
      <4> QED BY <4>1, <4>2
    <3>6. OwedOnce'
      BY <3>5 DEF OwedOnce, PageOf
    <3>7. FirstAlone'
      BY <2>2, <3>4 DEF DueInv, FirstAlone, PlaceInv, ClientsOK
    <3> QED BY <3>6, <3>7 DEF DueInv
  <2>7. CASE io.cb # "callback"
    <3>1. \A e \in Disks : OwedAt(e)' = OwedAt(e)
      BY <2>5, <2>7 DEF OwedAt
    <3> QED BY <2>1, <2>2, <2>7, <3>1, DueKept
  <2> QED BY <2>6, <2>7
<1>8. ASSUME NEW d \in Disks, ReturnDiskIo(d) PROVE DueInv'
  <2>1. /\ called[d] # NoIo
        /\ batch' = [batch EXCEPT ![d] = @ \ {called[d]}]
        /\ called' = [called EXCEPT ![d] = NoIo]
        /\ UNCHANGED <<client, kernel, events, due>>
    BY <1>8 DEF ReturnDiskIo
  <2>2. /\ called[d] \in batch[d]
        /\ called[d] \notin kernel[d] /\ called[d] \notin events[d]
    BY <2>1 DEF BooksOK, DiskOK, StagesApart
  <2>3. \A e \in Disks : /\ Busy(e)' = IF e = d THEN Busy(e) \ {called[d]} ELSE Busy(e)
                         /\ called'[e] = IF e = d THEN NoIo ELSE called[e]
    BY <2>1, <2>2 DEF Busy, BooksOK, BooksAreFunctions
  <2>4. \A e \in Disks : OwedAt(e)' = OwedAt(e)
    <3>1. \A x \in Busy(d) : x # NoIo
      BY NoIoAssumption DEF TypeInv, IosTyped
    <3> QED BY <2>3, <3>1 DEF OwedAt
  <2> QED BY <2>1, <2>4, DueKept
<1>9. ASSUME UNCHANGED <<client, kernel, events, batch, called, due>> PROVE DueInv'
  <2>1. \A e \in Disks : OwedAt(e)' = OwedAt(e)
    BY <1>9 DEF OwedAt, Busy
  <2> QED BY <1>9, <2>1, DueKept
<1>10. CASE ClearStartUrio
  BY <1>9, <1>10 DEF ClearStartUrio
<1>11. CASE UNCHANGED vars
  BY <1>9, <1>11 DEF vars
<1>12. ASSUME NEW d \in Disks, LockDiskIo(d) \/ ReadLatency(d) PROVE DueInv'
  BY <1>9, <1>12, LatencyStepsKeep
<1> HIDE DEF RaidInv
<1> QED BY <1>1, <1>2, <1>3, <1>4, <1>5, <1>6, <1>7, <1>8, <1>10, <1>11, <1>12
        DEF Next, CompletionThread

(* What holds throughout the user I/O of the array.                          *)
LEMMA RaidInvHolds == Init /\ [][Next]_vars => []RaidInv
<1>1. Init => RaidInv
  BY PlaceInvInit, BooksOKInit, TypeInvInit, DueInvInit DEF RaidInv
<1>2. RaidInv /\ [Next]_vars => RaidInv'
  BY PlaceInvNext, BooksOKNext, TypeInvNext, DueInvNext DEF RaidInv
<1> QED BY <1>1, <1>2, PTL

-----------------------------------------------------------------------------
(* The latency window.                                                       *)

(* f[k] is the sum of the first k entries of the window.                     *)
IsSumUpTo(f, lat, n) == f = [k \in 0..n |-> IF k = 0 THEN 0 ELSE f[k - 1] + lat[k - 1]]

WindowSum(lat) ==
  LET sum[n \in 0..LatencyArraySize] == IF n = 0 THEN 0 ELSE sum[n - 1] + lat[n - 1]
  IN  sum[LatencyArraySize]

(* The sums exist for any window, of whatever length.                        *)
LEMMA SumExists == ASSUME NEW lat, NEW n \in Nat PROVE \E f : IsSumUpTo(f, lat, n)
<1> DEFINE T == {m \in Nat : \E f : IsSumUpTo(f, lat, m)}
<1>1. 0 \in T
  <2>1. IsSumUpTo([k \in 0..0 |-> 0], lat, 0)
    BY DEF IsSumUpTo
  <2> QED BY <2>1
<1>2. ASSUME NEW m \in 0..(n - 1), m \in T PROVE m + 1 \in T
  <2>1. PICK f : IsSumUpTo(f, lat, m)
    BY <1>2
  <2> DEFINE g == [k \in 0..(m + 1) |-> IF k = m + 1 THEN f[m] + lat[m] ELSE f[k]]
  <2>2. ASSUME NEW k \in 0..(m + 1) PROVE g[k] = IF k = 0 THEN 0 ELSE g[k - 1] + lat[k - 1]
    BY <2>1 DEF IsSumUpTo
  <2>3. IsSumUpTo(g, lat, m + 1)
    BY <2>2 DEF IsSumUpTo
  <2> QED BY <2>3
<1> HIDE DEF T
<1>3. n \in T
  BY <1>1, <1>2, InductionUpTo
<1> QED BY <1>3 DEF T

(* So the window's sum is what its definition by recursion says.             *)
LEMMA WindowSumIsSum ==
  ASSUME NEW lat
  PROVE  \E f : IsSumUpTo(f, lat, LatencyArraySize) /\ WindowSum(lat) = f[LatencyArraySize]
<1> DEFINE f == CHOOSE g : IsSumUpTo(g, lat, LatencyArraySize)
<1>1. LatencyArraySize \in Nat
  BY Raid10IoAssumption
<1>2. IsSumUpTo(f, lat, LatencyArraySize)
  BY <1>1, SumExists
<1>3. WindowSum(lat) = f[LatencyArraySize]
  BY DEF WindowSum, IsSumUpTo
<1> QED BY <1>2, <1>3

(* A window of zeros sums to zero.                                           *)
LEMMA ZeroWindow == WindowSum([i \in 0..(LatencyArraySize - 1) |-> 0]) = 0
<1> DEFINE lat == [i \in 0..(LatencyArraySize - 1) |-> 0]
<1>1. LatencyArraySize \in Nat
  BY Raid10IoAssumption
<1>2. PICK f : IsSumUpTo(f, lat, LatencyArraySize) /\ WindowSum(lat) = f[LatencyArraySize]
  BY WindowSumIsSum
<1> DEFINE T == {n \in 0..LatencyArraySize : f[n] = 0}
<1>3. 0 \in T
  BY <1>1, <1>2 DEF IsSumUpTo
<1>4. ASSUME NEW n \in 0..(LatencyArraySize - 1), n \in T PROVE n + 1 \in T
  BY <1>1, <1>2, <1>4 DEF IsSumUpTo
<1> HIDE DEF T
<1>5. LatencyArraySize \in 0..LatencyArraySize
  BY <1>1
<1>6. LatencyArraySize \in T
  BY <1>1, <1>3, <1>4, <1>5, InductionUpTo
<1> QED BY <1>2, <1>6 DEF T

(* Overwriting one entry changes the sum by the difference.                  *)
LEMMA OverwrittenWindow ==
  ASSUME NEW lat \in [0..(LatencyArraySize - 1) -> Int], NEW i \in 0..(LatencyArraySize - 1),
         NEW v \in Int
  PROVE  WindowSum([lat EXCEPT ![i] = v]) = WindowSum(lat) + v - lat[i]
<1> DEFINE new == [lat EXCEPT ![i] = v]
<1>1. LatencyArraySize \in Nat
  BY Raid10IoAssumption
<1>2. PICK f : IsSumUpTo(f, lat, LatencyArraySize) /\ WindowSum(lat) = f[LatencyArraySize]
  BY WindowSumIsSum
<1>3. PICK g : IsSumUpTo(g, new, LatencyArraySize) /\ WindowSum(new) = g[LatencyArraySize]
  BY WindowSumIsSum
<1> DEFINE T == {n \in 0..LatencyArraySize :
                   f[n] \in Int /\ g[n] = IF i < n THEN f[n] + v - lat[i] ELSE f[n]}
<1>4. 0 \in T
  BY <1>1, <1>2, <1>3 DEF IsSumUpTo
<1>5. ASSUME NEW n \in 0..(LatencyArraySize - 1), n \in T PROVE n + 1 \in T
  <2>1. n + 1 \in 0..LatencyArraySize /\ (n + 1) - 1 = n /\ n + 1 # 0
    BY <1>1
  <2>2. f[n + 1] = f[n] + lat[n] /\ g[n + 1] = g[n] + new[n]
    BY <1>2, <1>3, <2>1 DEF IsSumUpTo
  <2>3. new[n] = IF n = i THEN v ELSE lat[n]
    OBVIOUS
  <2>4. lat[n] \in Int /\ lat[i] \in Int
    OBVIOUS
  <2>5. f[n] \in Int /\ g[n] = IF i < n THEN f[n] + v - lat[i] ELSE f[n]
    BY <1>5
  <2> QED BY <1>1, <2>1, <2>2, <2>3, <2>4, <2>5
<1> HIDE DEF T, new
<1>6. LatencyArraySize \in T
  <2>1. LatencyArraySize \in 0..LatencyArraySize
    BY <1>1
  <2> QED BY <1>1, <1>4, <1>5, <2>1, InductionUpTo
<1>7. i < LatencyArraySize
  BY <1>1
<1>8. WindowSum(new) = WindowSum(lat) + v - lat[i]
  BY <1>2, <1>3, <1>6, <1>7 DEF T
<1> QED BY <1>8 DEF new

WindowOK(w) ==
  /\ w.lat \in [0..(LatencyArraySize - 1) -> Int]
  /\ w.next \in 0..(LatencyArraySize - 1)
  /\ w.avg_lat \in Int /\ w.avg_lat = WindowSum(w.lat)

(* What a thread under sio_mutex is about to store is still the sum it read. *)
UpdateOK(new, w) ==
  new.latency \in Latencies /\ new.new_avg_lat = w.avg_lat + new.latency - w.lat[w.next]

RecordingType ==
  recording \in [Disks -> [pc : {"no", "wait", "update"},
                           latency : Latencies \cup {0}, new_avg_lat : Int]]

OneUpdate ==
  \A d, e \in Disks :
    recording[d].pc = "update" /\ recording[e].pc = "update" /\ d \div 2 = e \div 2 => d = e

WindowInv ==
  /\ lc = [m \in MirrorPairs |-> lc[m]] /\ \A m \in MirrorPairs : WindowOK(lc[m])
  /\ RecordingType /\ OneUpdate
  /\ \A d \in Disks : recording[d].pc = "update" => UpdateOK(recording[d], lc[d \div 2])

(* A disk belongs to a pair of the array.                                    *)
LEMMA PairOfDisk == ASSUME NEW d \in Disks PROVE d \div 2 \in MirrorPairs
<1>1. PICK m \in Nat \ {0} : RaidDisks = 2 * m
  BY Pairs
<1>2. d \in Nat /\ d < 2 * m
  BY <1>1 DEF Disks
<1>3. d \div 2 \in Nat /\ d \div 2 < m
  BY <1>1, <1>2
<1>4. RaidDisks \div 2 = m
  BY <1>1
<1> QED BY <1>1, <1>3, <1>4 DEF MirrorPairs

(* Recording a latency keeps a window.                                       *)
LEMMA WindowRecorded ==
  ASSUME NEW w, WindowOK(w), NEW new, UpdateOK(new, w)
  PROVE  WindowOK(RecordLatency(w, new))
<1>1. new.latency \in Int /\ LatencyArraySize \in Nat \ {0}
  <2>1. PICK latency \in Latencies : new.latency = latency
    BY DEF UpdateOK
  <2>2. latency \in Int /\ LatencyArraySize \in Nat \ {0}
    BY Raid10IoAssumption
  <2> QED BY <2>1, <2>2
<1>2. (w.next + 1) % LatencyArraySize \in 0..(LatencyArraySize - 1)
  <2>1. w.next + 1 \in Nat
    BY <1>1 DEF WindowOK
  <2> QED BY <1>1, <2>1, DivMod
<1>3. w.lat[w.next] \in Int
  BY DEF WindowOK
<1>4. WindowSum([w.lat EXCEPT ![w.next] = new.latency])
        = WindowSum(w.lat) + new.latency - w.lat[w.next]
  BY <1>1, OverwrittenWindow DEF WindowOK
<1> DEFINE r == RecordLatency(w, new)
<1>5. /\ r.lat = [w.lat EXCEPT ![w.next] = new.latency]
      /\ r.next = (w.next + 1) % LatencyArraySize
      /\ r.avg_lat = w.avg_lat + new.latency - w.lat[w.next]
  BY DEF RecordLatency, UpdateOK
<1>6. r.lat \in [0..(LatencyArraySize - 1) -> Int]
  BY <1>1, <1>5 DEF WindowOK
<1>7. r.avg_lat \in Int /\ r.avg_lat = WindowSum(r.lat)
  BY <1>1, <1>3, <1>4, <1>5 DEF WindowOK
<1> HIDE DEF r
<1>8. WindowOK(r)
  BY <1>2, <1>5, <1>6, <1>7 DEF WindowOK
<1> QED BY <1>8 DEF r

(* Every step keeps the windows.                                             *)
LEMMA WindowInvNext == WindowInv /\ [Next]_vars => WindowInv'
<1> SUFFICES ASSUME WindowInv, [Next]_vars PROVE WindowInv'
  OBVIOUS
<1>1. ASSUME lc' = [m \in MirrorPairs |-> lc'[m]], \A m \in MirrorPairs : WindowOK(lc'[m]),
             RecordingType', OneUpdate',
             \A d \in Disks : recording'[d].pc = "update" => UpdateOK(recording'[d], lc'[d \div 2])
      PROVE  WindowInv'
  <2>1. (\A m \in MirrorPairs : WindowOK(lc[m]))'
    BY <1>1 DEF WindowOK, WindowSum
  <2>2. (\A d \in Disks : recording[d].pc = "update" => UpdateOK(recording[d], lc[d \div 2]))'
    BY <1>1 DEF UpdateOK
  <2>3. (lc = [m \in MirrorPairs |-> lc[m]])'
    BY <1>1
  <2> QED BY <1>1, <2>1, <2>2, <2>3 DEF WindowInv
<1>2. CASE UNCHANGED <<lc, recording>>
  <2>1. RecordingType' /\ OneUpdate'
    BY <1>2 DEF WindowInv, RecordingType, OneUpdate
  <2>2. lc' = lc /\ recording' = recording
    BY <1>2
  <2>3. /\ lc = [m \in MirrorPairs |-> lc[m]] /\ \A m \in MirrorPairs : WindowOK(lc[m])
        /\ \A d \in Disks : recording[d].pc = "update" => UpdateOK(recording[d], lc[d \div 2])
    BY DEF WindowInv
  <2> QED BY <1>1, <2>1, <2>2, <2>3
<1>3. ASSUME NEW d \in Disks, LockDiskIo(d) PROVE WindowInv'
  <2>1. UNCHANGED lc /\ recording' = [recording EXCEPT ![d].pc = "wait"]
    BY <1>3 DEF LockDiskIo
  <2>2. RecordingType'
    BY <2>1 DEF WindowInv, RecordingType
  <2>3. \A e \in Disks : recording'[e].pc = "update" => e # d /\ recording'[e] = recording[e]
    BY <2>1 DEF WindowInv, RecordingType
  <2>4. OneUpdate'
    BY <2>3 DEF WindowInv, OneUpdate
  <2>5. lc' = lc
    BY <2>1
  <2>6. /\ lc = [m \in MirrorPairs |-> lc[m]] /\ \A m \in MirrorPairs : WindowOK(lc[m])
        /\ \A e \in Disks : recording[e].pc = "update" => UpdateOK(recording[e], lc[e \div 2])
    BY DEF WindowInv
  <2> QED BY <1>1, <2>2, <2>3, <2>4, <2>5, <2>6
<1>4. ASSUME NEW d \in Disks, ReadLatency(d) PROVE WindowInv'
  <2> DEFINE w == lc[d \div 2]
  <2>1. PICK latency \in Latencies :
          recording' = [recording EXCEPT
            ![d] = [pc |-> "update", latency |-> latency,
                    new_avg_lat |-> w.avg_lat + latency - w.lat[w.next]]]
    BY <1>4 DEF ReadLatency
  <2>2. UNCHANGED lc /\ SioMutexFree(d)
    BY <1>4 DEF ReadLatency
  <2>3. w.avg_lat + latency - w.lat[w.next] \in Int
    <3>1. w.avg_lat \in Int /\ w.lat[w.next] \in Int
      BY PairOfDisk DEF WindowInv, WindowOK
    <3>2. latency \in Int
      BY Raid10IoAssumption
    <3> HIDE DEF w
    <3> QED BY <3>1, <3>2
  <2>4. RecordingType'
    BY <2>1, <2>3 DEF WindowInv, RecordingType
  <2>5. \A e \in Disks : recording'[e] = IF e = d
          THEN [pc |-> "update", latency |-> latency,
                new_avg_lat |-> w.avg_lat + latency - w.lat[w.next]]
          ELSE recording[e]
    BY <2>1 DEF WindowInv, RecordingType
  <2>6. OneUpdate'
    BY <2>2, <2>5 DEF WindowInv, OneUpdate, SioMutexFree
  <2>7. ASSUME NEW e \in Disks, recording'[e].pc = "update"
        PROVE  UpdateOK(recording'[e], lc[e \div 2])
    <3>1. CASE e = d
      BY <2>5, <3>1 DEF UpdateOK
    <3>2. CASE e # d
      BY <2>5, <2>7, <3>2 DEF WindowInv
    <3> QED BY <3>1, <3>2
  <2>8. lc = [m \in MirrorPairs |-> lc[m]] /\ \A m \in MirrorPairs : WindowOK(lc[m])
    BY DEF WindowInv
  <2>9. lc' = lc
    BY <2>2
  <2> HIDE DEF w
  <2> QED BY <1>1, <2>4, <2>6, <2>7, <2>8, <2>9
<1>5. ASSUME NEW d \in Disks, ReturnDiskIo(d) PROVE WindowInv'
  <2>1. recording' = [recording EXCEPT ![d] = NotRecording]
    BY <1>5 DEF ReturnDiskIo
  <2>2. \A e \in Disks : recording'[e] = IF e = d THEN NotRecording ELSE recording[e]
    BY <2>1 DEF WindowInv, RecordingType
  <2>3. RecordingType'
    BY <2>1 DEF WindowInv, RecordingType, NotRecording
  <2>4. \A e \in Disks : recording'[e].pc = "update" => e # d /\ recording'[e] = recording[e]
    BY <2>2 DEF NotRecording
  <2>5. OneUpdate'
    BY <2>4 DEF WindowInv, OneUpdate
  <2>6. CASE UNCHANGED lc
    <3>1. lc' = lc
      BY <2>6
    <3>2. /\ lc = [m \in MirrorPairs |-> lc[m]] /\ \A m \in MirrorPairs : WindowOK(lc[m])
          /\ \A e \in Disks : recording[e].pc = "update" => UpdateOK(recording[e], lc[e \div 2])
      BY DEF WindowInv
    <3> QED BY <1>1, <2>3, <2>4, <2>5, <3>1, <3>2
  <2>7. CASE /\ recording[d].pc = "update"
             /\ lc' = [lc EXCEPT ![d \div 2] = RecordLatency(@, recording[d])]
    <3>1. /\ lc' = [m \in MirrorPairs |-> lc'[m]]
          /\ \A m \in MirrorPairs :
               lc'[m] = IF m = d \div 2 THEN RecordLatency(lc[m], recording[d]) ELSE lc[m]
      BY <2>7 DEF WindowInv
    <3>2. ASSUME NEW m \in MirrorPairs PROVE WindowOK(lc'[m])
      <4>1. CASE m = d \div 2
        BY <2>7, <3>1, <4>1, WindowRecorded DEF WindowInv
      <4>2. CASE m # d \div 2
        BY <3>1, <4>2 DEF WindowInv
      <4> QED BY <4>1, <4>2
    <3>3. ASSUME NEW e \in Disks, recording'[e].pc = "update"
          PROVE  UpdateOK(recording'[e], lc'[e \div 2])
      <4>1. e # d /\ recording'[e] = recording[e]
        BY <2>4, <3>3
      <4>2. e \div 2 # d \div 2
        BY <2>7, <3>3, <4>1 DEF WindowInv, OneUpdate
      <4>3. lc'[e \div 2] = lc[e \div 2]
        BY <3>1, <4>2, PairOfDisk
      <4> QED BY <3>3, <4>1, <4>3 DEF WindowInv
    <3>4. /\ lc' = [m \in MirrorPairs |-> lc'[m]] /\ \A m \in MirrorPairs : WindowOK(lc'[m])
          /\ \A e \in Disks : recording'[e].pc = "update" => UpdateOK(recording'[e], lc'[e \div 2])
      BY <3>1, <3>2, <3>3
    <3> QED BY <1>1, <2>3, <2>5, <3>4
  <2> QED BY <1>5, <2>6, <2>7 DEF ReturnDiskIo, LatencyRecorded
<1>6. ASSUME NEW c \in Clients,
             handle_cache_request(c) \/ QueueRead(c) \/ QueueWrite(c) \/ QueueMirrorWrite(c)
      PROVE  UNCHANGED <<lc, recording>>
  BY <1>6 DEF handle_cache_request, QueueRead, QueueWrite, QueueMirrorWrite
<1>7. ASSUME NEW d \in Disks, Harvest(d) \/ RunCallback(d) PROVE UNCHANGED <<lc, recording>>
  BY <1>7 DEF Harvest, RunCallback
<1>8. ASSUME NEW d \in Disks, NEW id \in DiskIos, DiskDone(d, id)
      PROVE  UNCHANGED <<lc, recording>>
  BY <1>8 DEF DiskDone
<1>9. ClearStartUrio \/ UNCHANGED vars => UNCHANGED <<lc, recording>>
  BY DEF ClearStartUrio, vars
<1> QED BY <1>2, <1>3, <1>4, <1>5, <1>6, <1>7, <1>8, <1>9 DEF Next, CompletionThread

LEMMA WindowInvInit == Init => WindowInv
<1> SUFFICES ASSUME Init PROVE WindowInv
  OBVIOUS
<1> DEFINE w == [lat |-> [i \in 0..(LatencyArraySize - 1) |-> 0], next |-> 0, avg_lat |-> 0]
<1>1. WindowOK(w)
  BY ZeroWindow, Raid10IoAssumption DEF WindowOK
<1>2. lc = [m \in MirrorPairs |-> w] /\ recording = [d \in Disks |-> NotRecording]
  BY DEF Init
<1> HIDE DEF w
<1>3. lc = [m \in MirrorPairs |-> lc[m]] /\ \A m \in MirrorPairs : WindowOK(lc[m])
  BY <1>1, <1>2
<1>4. RecordingType /\ \A d \in Disks : recording[d].pc # "update"
  BY <1>2 DEF RecordingType, NotRecording
<1> QED BY <1>3, <1>4 DEF WindowInv, OneUpdate

(* avg_lat, which the cache compares pairs by, is the sum of the latencies   *)
(* in the pair's window, although each I/O only adds to it and subtracts,    *)
(* and the threads of the two disks of a pair do so from values they read    *)
(* before: sio_mutex keeps the other from storing in between.                *)
THEOREM LatencySumExact == Spec => []AvgLatIsWindowSum
<1>1. Spec => []WindowInv
  BY WindowInvInit, WindowInvNext, PTL DEF Spec
<1>2. WindowInv => AvgLatIsWindowSum
  BY DEF WindowInv, WindowOK, WindowSum, AvgLatIsWindowSum
<1> QED BY <1>1, <1>2, PTL

-----------------------------------------------------------------------------
(* All variables.                                                            *)

(* A thread that has locked uio_mutex holds an event.                        *)
HoldsEvent == \A d \in Disks : recording[d].pc = "no" \/ called[d] # NoIo

LEMMA HoldsEventNext == RaidInv /\ WindowInv /\ HoldsEvent /\ [Next]_vars => HoldsEvent'
<1> SUFFICES ASSUME RaidInv, WindowInv, HoldsEvent, [Next]_vars PROVE HoldsEvent'
  OBVIOUS
<1>1. called = [d \in Disks |-> called[d]] /\ RecordingType
  BY DEF RaidInv, BooksOK, BooksAreFunctions, WindowInv
<1>2. CASE UNCHANGED <<called, recording>>
  BY <1>2 DEF HoldsEvent
<1>3. ASSUME NEW d \in Disks, RunCallback(d) PROVE HoldsEvent'
  <2>1. /\ called[d] = NoIo /\ UNCHANGED recording
        /\ \E io : called' = [called EXCEPT ![d] = io]
    BY <1>3 DEF RunCallback
  <2> QED BY <1>1, <2>1 DEF HoldsEvent
<1>4. ASSUME NEW d \in Disks, LockDiskIo(d) \/ ReadLatency(d) PROVE HoldsEvent'
  <2>1. called' = called /\ called[d] # NoIo
    BY <1>4, LatencyStepsKeep DEF HoldsEvent, LockDiskIo, ReadLatency
  <2>2. \A e \in Disks : e # d => recording'[e] = recording[e]
    BY <1>1, <1>4 DEF LockDiskIo, ReadLatency, RecordingType
  <2> QED BY <2>1, <2>2 DEF HoldsEvent
<1>5. ASSUME NEW d \in Disks, ReturnDiskIo(d) PROVE HoldsEvent'
  <2>1. /\ called' = [called EXCEPT ![d] = NoIo]
        /\ recording' = [recording EXCEPT ![d] = NotRecording]
    BY <1>5 DEF ReturnDiskIo
  <2> QED BY <1>1, <2>1 DEF HoldsEvent, RecordingType, NotRecording
<1>6. ASSUME NEW c \in Clients,
             handle_cache_request(c) \/ QueueRead(c) \/ QueueWrite(c) \/ QueueMirrorWrite(c)
      PROVE  UNCHANGED <<called, recording>>
  BY <1>6 DEF handle_cache_request, QueueRead, QueueWrite, QueueMirrorWrite
<1>7. ASSUME NEW d \in Disks, Harvest(d) PROVE UNCHANGED <<called, recording>>
  BY <1>7 DEF Harvest
<1>8. ASSUME NEW d \in Disks, NEW id \in DiskIos, DiskDone(d, id)
      PROVE  UNCHANGED <<called, recording>>
  BY <1>8 DEF DiskDone
<1>9. ClearStartUrio \/ UNCHANGED vars => UNCHANGED <<called, recording>>
  BY DEF ClearStartUrio, vars
<1> QED BY <1>2, <1>3, <1>4, <1>5, <1>6, <1>7, <1>8, <1>9 DEF Next, CompletionThread

(* Every variable of the user I/O keeps its type.                            *)
THEOREM UserIoTypeCorrect == Spec => []TypeOK
<1>1. Spec => [](RaidInv /\ WindowInv /\ HoldsEvent)
  <2>1. Init => HoldsEvent
    BY DEF Init, HoldsEvent, NotRecording
  <2>2. Init /\ [][Next]_vars => []WindowInv
    BY WindowInvInit, WindowInvNext, PTL
  <2> QED BY <2>1, <2>2, RaidInvHolds, HoldsEventNext, PTL DEF Spec
<1>2. RaidInv /\ WindowInv /\ HoldsEvent => TypeOK
  <2> SUFFICES ASSUME PlaceInv, BooksOK, TypeInv, WindowInv, HoldsEvent PROVE TypeOK
    BY DEF RaidInv
  <2>1. ASSUME NEW d \in Disks
        PROVE  /\ \A i \in 1..Len(free_disk_io_list[d]) : free_disk_io_list[d][i] \in DiskIos
               /\ uio_cnt[d] \in 0..MaxAioPerDisk
               /\ \A io \in Busy(d) : io.id \in DiskIos /\ io.offset \in Nat
               /\ called[d] \in batch[d] \cup {NoIo}
    <3>1. Account(free_disk_io_list[d], Busy(d), uio_cnt[d]) /\ StagesApart(d)
      BY DEF BooksOK, DiskOK
    <3>2. uio_cnt[d] \in 0..MaxAioPerDisk
      BY <3>1, IdsFinite
    <3>3. free_disk_io_list[d] \in Seq(DiskIos)
      BY <3>1 DEF Account
    <3>4. \A io \in Busy(d) : io.id \in DiskIos /\ io.offset \in Nat
      BY DEF TypeInv, IosTyped, IoRecords
    <3> QED BY <3>1, <3>2, <3>3, <3>4 DEF StagesApart
  <2> QED BY <2>1 DEF TypeOK, TypeInv, ClientType, HoldsEvent, WindowInv, RecordingType
<1> QED BY <1>1, <1>2, PTL

-----------------------------------------------------------------------------
(* The promise to the cache: the step of the refinement of PageIoService.    *)

(* A step hands over a page I/O of a page that is due nothing, runs the      *)
(* callback of one that is due one, or is none of the cache's business.      *)
LEMMA ServiceStep == RaidInv /\ [Next]_vars => [Service!Next]_due
<1> SUFFICES ASSUME RaidInv, [Next]_vars PROVE [Service!Next]_due
  OBVIOUS
<1>1. ASSUME NEW c \in Clients, QueueRead(c) \/ QueueWrite(c) PROVE Service!Next
  <2>1. PICK p \in Pages : p = client[c].page
    BY <1>1 DEF RaidInv, PlaceInv, ClientsOK, QueueRead, QueueWrite
  <2>2. due[p] = 0
    BY <1>1, <2>1 DEF RaidInv, DueInv, FirstAlone, QueueRead, QueueWrite
  <2>3. due' = [due EXCEPT ![p] = 1]
    <3>1. due' = [due EXCEPT ![p] = @ + 1]
      BY <1>1, <2>1 DEF QueueRead, QueueWrite
    <3> QED BY <2>2, <3>1
  <2> QED BY <2>2, <2>3 DEF Service!Next, Service!Submit
<1>2. ASSUME NEW d \in Disks, RunCallback(d) PROVE [Service!Next]_due
  <2>1. PICK io \in batch[d] :
          due' = IF io.cb = "callback" THEN [due EXCEPT ![PageOf(d, io)] = @ - 1] ELSE due
    BY <1>2 DEF RunCallback
  <2>2. CASE io.cb = "callback"
    <3>1. PICK p \in Pages : p = PageOf(d, io)
      BY PageFound DEF RaidInv, IosOnTheirPair, Busy
    <3>2. io \in OwedAt(d)
      <4>1. called[d] = NoIo /\ io \in Busy(d)
        BY <1>2 DEF RunCallback, Busy
      <4>2. io # NoIo
        BY <4>1, NoIoAssumption DEF RaidInv, TypeInv, IosTyped
      <4> QED BY <2>2, <4>1, <4>2 DEF OwedAt
    <3>3. due[p] = 1
      BY <3>1, <3>2 DEF RaidInv, DueInv, OwedOnce
    <3>4. due' = [due EXCEPT ![p] = 0]
      BY <2>1, <2>2, <3>1, <3>3
    <3> QED BY <3>3, <3>4 DEF Service!Next, Service!RunCallback
  <2> QED BY <2>1, <2>2
<1>3. ASSUME NEW c \in Clients, handle_cache_request(c) \/ QueueMirrorWrite(c)
      PROVE  UNCHANGED due
  BY <1>3 DEF handle_cache_request, QueueMirrorWrite
<1>4. ASSUME NEW d \in Disks, Harvest(d) \/ LockDiskIo(d) \/ ReadLatency(d) \/ ReturnDiskIo(d)
      PROVE  UNCHANGED due
  BY <1>4, LatencyStepsKeep DEF Harvest, ReturnDiskIo
<1>5. ASSUME NEW d \in Disks, NEW id \in DiskIos, DiskDone(d, id) PROVE UNCHANGED due
  BY <1>5 DEF DiskDone
<1>6. ClearStartUrio => UNCHANGED due
  BY DEF ClearStartUrio
<1>7. UNCHANGED vars => UNCHANGED due
  BY DEF vars
<1> QED BY <1>1, <1>2, <1>3, <1>4, <1>5, <1>6, <1>7 DEF Next, CompletionThread

(* The array keeps the safety part of what the cache expects of it: the      *)
(* callback of a page I/O runs once, for the page it was submitted for, and  *)
(* only after it was submitted.                                              *)
THEOREM CallbackAtMostOnce == Spec => Service!Safety
<1>1. Init => Service!Init
  BY DEF Init, Service!Init
<1>2. Spec => []RaidInv
  BY RaidInvHolds, PTL DEF Spec
<1> QED BY <1>1, <1>2, ServiceStep, PTL DEF Spec, Service!Safety

-----------------------------------------------------------------------------
(* The copies of a page (module Raid10Data).                                 *)

DataType ==
  /\ version \in [Pages -> Nat]
  /\ payload \in [Disks -> [DiskIos -> Nat]]
  /\ copy \in [Disks -> [Pages -> Nat]]

(* The I/Os of page p that disk d has not carried out.                       *)
Waiting(d, p) == {io \in kernel[d] : PageOf(d, io) = p}

(* What waits for the first copy of a page has the tracked callback, and is  *)
(* a read or the page's last write; and the copy is that write unless it     *)
(* waits.                                                                    *)
FirstCopyOK(p) ==
  LET d == DiskOf(p) IN
  /\ \A io \in Waiting(d, p) : io.cb = "callback" /\ payload[d][io.id] \in {0, version[p]}
  /\ copy[d][p] = version[p] \/ \E io \in Waiting(d, p) : payload[d][io.id] # 0

CopiesInv == DataType /\ \A p \in Pages : FirstCopyOK(p)

(* Initially nothing is written.                                             *)
LEMMA CopiesInvInit == DataInit => CopiesInv
<1> SUFFICES ASSUME DataInit PROVE CopiesInv
  OBVIOUS
<1>1. DataType
  BY DEF DataInit, DataType
<1>2. \A p \in Pages : DiskOf(p) \in Disks
  BY PairInArray
<1>3. \A p \in Pages : FirstCopyOK(p)
  BY <1>2 DEF DataInit, Init, FirstCopyOK, Waiting
<1> QED BY <1>1, <1>3 DEF CopiesInv

(* A step that leaves alone what concerns the first copy of a page.          *)
LEMMA FirstCopyKept ==
  ASSUME CopiesInv, NEW p \in Pages,
         Waiting(DiskOf(p), p)' = Waiting(DiskOf(p), p),
         \A io \in Waiting(DiskOf(p), p) :
           payload'[DiskOf(p)][io.id] = payload[DiskOf(p)][io.id],
         version'[p] = version[p], copy'[DiskOf(p)][p] = copy[DiskOf(p)][p]
  PROVE  FirstCopyOK(p)'
<1>1. FirstCopyOK(p)
  BY DEF CopiesInv
<1>2. DiskOf(p)' = DiskOf(p)
  BY DEF DiskOf, StripOf
<1> QED BY <1>1, <1>2 DEF FirstCopyOK

(* What handing write v of page p to disk e does to the I/Os that wait for   *)
(* the first copies.                                                         *)
LEMMA HandedOver ==
  ASSUME RaidInv, CopiesInv, NEW p \in Pages, NEW e \in Disks, e \in {DiskOf(p), MirrorOf(p)},
         NEW cb \in {"callback", "callback2"}, handle_uio(e, OffsetOf(p), cb),
         UNCHANGED <<events, batch>>, NEW v \in Nat, Carries(e, v)
  PROVE  \E io \in IoRecords :
           /\ io.cb = cb /\ payload'[e][io.id] = v
           /\ \A q \in Pages :
                /\ Waiting(DiskOf(q), q)' = Waiting(DiskOf(q), q)
                     \cup (IF q = p /\ e = DiskOf(p) THEN {io} ELSE {})
                /\ \A x \in Waiting(DiskOf(q), q) :
                     payload'[DiskOf(q)][x.id] = payload[DiskOf(q)][x.id]
           /\ payload' \in [Disks -> [DiskIos -> Nat]] /\ UNCHANGED copy
<1>1. PICK io \in IoRecords :
        /\ io = [id |-> free_disk_io_list[e][1], offset |-> OffsetOf(p), cb |-> cb]
        /\ \A x \in Busy(e) : x.id # io.id
        /\ \A d \in Disks : kernel'[d] = kernel[d] \cup (IF d = e THEN {io} ELSE {})
  BY Submitted DEF RaidInv
<1>2. io.cb = cb /\ io.id \in DiskIos /\ io.id = free_disk_io_list[e][1]
      /\ io.offset = OffsetOf(p)
  BY <1>1 DEF IoRecords
<1>3. payload \in [Disks -> [DiskIos -> Nat]]
      /\ payload' = [payload EXCEPT ![e][io.id] = v] /\ UNCHANGED copy
  BY <1>2 DEF Carries, CopiesInv, DataType
<1>4. payload' \in [Disks -> [DiskIos -> Nat]] /\ payload'[e][io.id] = v
      /\ \A d \in Disks, i \in DiskIos :
           d # e \/ i # io.id => payload'[d][i] = payload[d][i]
  BY <1>2, <1>3
<1>5. PageOf(e, io) = p
  <2>1. io_to_page(OffsetOf(p), e) = p
    BY PageRoundTrip, Raid10IoAssumption
  <2> QED BY <1>2, <2>1 DEF PageOf
<1>6. ASSUME NEW q \in Pages
      PROVE  /\ Waiting(DiskOf(q), q)' = Waiting(DiskOf(q), q)
                  \cup (IF q = p /\ e = DiskOf(p) THEN {io} ELSE {})
             /\ \A x \in Waiting(DiskOf(q), q) :
                  payload'[DiskOf(q)][x.id] = payload[DiskOf(q)][x.id]
  <2>1. PICK d \in Disks : d = DiskOf(q)
    BY PairInArray
  <2>2. Waiting(d, q)' = Waiting(d, q) \cup (IF q = p /\ e = d THEN {io} ELSE {})
    BY <1>1, <1>5 DEF Waiting, PageOf
  <2>3. \A x \in Waiting(d, q) : x.id \in DiskIos /\ (d # e \/ x.id # io.id)
    BY <1>1 DEF Waiting, Busy, RaidInv, TypeInv, IosTyped, IoRecords
  <2>4. \A x \in Waiting(d, q) : payload'[d][x.id] = payload[d][x.id]
    BY <1>4, <2>3
  <2>5. DiskOf(q)' = DiskOf(q)
    BY DEF DiskOf, StripOf
  <2> QED BY <2>1, <2>2, <2>4, <2>5
<1> QED BY <1>2, <1>3, <1>4, <1>6

(* The disk of the first copy is not that of the mirror.                     *)
LEMMA MirrorApart == ASSUME NEW p \in Pages PROVE DiskOf(p) # MirrorOf(p)
<1>1. DiskOf(p) \in Int
  BY PairInArray DEF Disks
<1> QED BY <1>1 DEF MirrorOf

(* While no callback of a page is owed, nothing waits for its first copy.    *)
LEMMA NothingWaits ==
  ASSUME RaidInv, CopiesInv, NEW p \in Pages, due[p] = 0
  PROVE  Waiting(DiskOf(p), p) = {}
<1> SUFFICES ASSUME NEW io \in Waiting(DiskOf(p), p) PROVE FALSE
  OBVIOUS
<1>1. DiskOf(p) \in Disks
  BY PairInArray
<1>2. io.cb = "callback"
  BY DEF CopiesInv, FirstCopyOK
<1>3. io \in kernel[DiskOf(p)] /\ io \in Busy(DiskOf(p)) /\ PageOf(DiskOf(p), io) = p
  BY DEF Waiting, Busy
<1>4. io # called[DiskOf(p)]
  <2>1. io # NoIo
    BY <1>1, <1>3, NoIoAssumption DEF RaidInv, TypeInv, IosTyped
  <2>2. StagesApart(DiskOf(p))
    BY <1>1 DEF RaidInv, BooksOK, DiskOK
  <2> QED BY <1>3, <2>1, <2>2 DEF StagesApart
<1>5. io \in OwedAt(DiskOf(p))
  BY <1>2, <1>3, <1>4 DEF OwedAt
<1>6. due[p] = 1
  BY <1>1, <1>3, <1>5 DEF RaidInv, DueInv, OwedOnce
<1> QED BY <1>6

(* Every step keeps the first copies.                                        *)
LEMMA CopiesInvNext == RaidInv /\ CopiesInv /\ [DataNext]_dataVars => CopiesInv'
<1> SUFFICES ASSUME RaidInv, CopiesInv, [DataNext]_dataVars PROVE CopiesInv'
  OBVIOUS
<1>1. ASSUME UNCHANGED <<kernel, data>> PROVE CopiesInv'
  <2>1. DataType'
    BY <1>1 DEF data, CopiesInv, DataType
  <2>2. \A p \in Pages : Waiting(DiskOf(p), p)' = Waiting(DiskOf(p), p)
    BY <1>1 DEF Waiting, PageOf, DiskOf, StripOf
  <2>3. \A p \in Pages : FirstCopyOK(p)'
    BY <1>1, <2>2, FirstCopyKept DEF data
  <2> QED BY <2>1, <2>3 DEF CopiesInv
<1>2. ASSUME NEW c \in Clients, DataQueueRead(c) PROVE CopiesInv'
  <2>1. PICK p \in Pages : p = client[c].page
    BY <1>2 DEF DataQueueRead, QueueRead, RaidInv, PlaceInv, ClientsOK
  <2>2. PICK e \in Disks : e = ReadDisk(p, SpareDisk) /\ e \in {DiskOf(p), MirrorOf(p)}
    BY PairInArray
  <2>3. /\ handle_uio(e, OffsetOf(p), "callback") /\ Carries(e, 0)
        /\ UNCHANGED <<events, batch, version>>
    BY <1>2, <2>1, <2>2 DEF DataQueueRead, QueueRead
  <2>4. PICK io \in IoRecords :
          /\ io.cb = "callback" /\ payload'[e][io.id] = 0
          /\ \A q \in Pages :
               /\ Waiting(DiskOf(q), q)' = Waiting(DiskOf(q), q)
                    \cup (IF q = p /\ e = DiskOf(p) THEN {io} ELSE {})
               /\ \A x \in Waiting(DiskOf(q), q) :
                    payload'[DiskOf(q)][x.id] = payload[DiskOf(q)][x.id]
          /\ payload' \in [Disks -> [DiskIos -> Nat]] /\ UNCHANGED copy
    BY <2>2, <2>3, HandedOver
  <2>5. DataType'
    BY <2>3, <2>4 DEF CopiesInv, DataType
  <2>6. ASSUME NEW q \in Pages PROVE FirstCopyOK(q)'
    <3>1. CASE q = p /\ e = DiskOf(p)
      <4>1. FirstCopyOK(p) /\ DiskOf(p)' = DiskOf(p)
        BY DEF CopiesInv, DiskOf, StripOf
      <4>2. Waiting(DiskOf(p), p)' = Waiting(DiskOf(p), p) \cup {io}
        BY <2>4, <3>1
      <4>3. \A x \in Waiting(DiskOf(p), p) :
              payload'[DiskOf(p)][x.id] = payload[DiskOf(p)][x.id]
        BY <2>4
      <4>4. io.cb = "callback" /\ payload'[DiskOf(p)][io.id] = 0 /\ UNCHANGED <<copy, version>>
        BY <2>3, <2>4, <3>1
      <4> QED BY <3>1, <4>1, <4>2, <4>3, <4>4 DEF FirstCopyOK
    <3>2. CASE ~(q = p /\ e = DiskOf(p))
      BY <2>3, <2>4, <3>2, FirstCopyKept
    <3> QED BY <3>1, <3>2
  <2> QED BY <2>5, <2>6 DEF CopiesInv
<1>3. ASSUME NEW c \in Clients, DataQueueWrite(c) PROVE CopiesInv'
  <2>1. PICK p \in Pages : p = client[c].page
    BY <1>3 DEF DataQueueWrite, QueueWrite, RaidInv, PlaceInv, ClientsOK
  <2>2. PICK e \in Disks : e = DiskOf(p)
    BY PairInArray
  <2>3. PICK v \in Nat : v = version[p] + 1 /\ v # 0
    BY DEF CopiesInv, DataType
  <2>4. /\ version' = [version EXCEPT ![p] = v] /\ version' \in [Pages -> Nat]
        /\ version'[p] = v /\ \A q \in Pages : q # p => version'[q] = version[q]
    BY <1>3, <2>1, <2>3 DEF DataQueueWrite, CopiesInv, DataType
  <2>5. /\ handle_uio(e, OffsetOf(p), "callback") /\ Carries(e, v)
        /\ UNCHANGED <<events, batch>>
    BY <1>3, <2>1, <2>2, <2>4 DEF DataQueueWrite, QueueWrite
  <2>6. PICK io \in IoRecords :
          /\ io.cb = "callback" /\ payload'[e][io.id] = v
          /\ \A q \in Pages :
               /\ Waiting(DiskOf(q), q)' = Waiting(DiskOf(q), q)
                    \cup (IF q = p /\ e = DiskOf(p) THEN {io} ELSE {})
               /\ \A x \in Waiting(DiskOf(q), q) :
                    payload'[DiskOf(q)][x.id] = payload[DiskOf(q)][x.id]
          /\ payload' \in [Disks -> [DiskIos -> Nat]] /\ UNCHANGED copy
    BY <2>2, <2>5, HandedOver
  <2>7. Waiting(DiskOf(p), p) = {}
    <3>1. due[p] = 0
      BY <1>3, <2>1 DEF DataQueueWrite, QueueWrite, RaidInv, DueInv, FirstAlone
    <3> QED BY <3>1, NothingWaits
  <2>8. DataType'
    BY <2>4, <2>6 DEF CopiesInv, DataType
  <2>9. ASSUME NEW q \in Pages PROVE FirstCopyOK(q)'
    <3>1. CASE q = p
      <4>1. Waiting(DiskOf(p), p)' = {io} /\ DiskOf(p)' = DiskOf(p)
        BY <2>2, <2>6, <2>7 DEF DiskOf, StripOf
      <4>2. io.cb = "callback" /\ payload'[DiskOf(p)][io.id] = v /\ version'[p] = v /\ v # 0
        BY <2>2, <2>3, <2>4, <2>6
      <4> QED BY <3>1, <4>1, <4>2 DEF FirstCopyOK
    <3>2. CASE q # p
      BY <2>4, <2>6, <3>2, FirstCopyKept
    <3> QED BY <3>1, <3>2
  <2> QED BY <2>8, <2>9 DEF CopiesInv
<1>4. ASSUME NEW c \in Clients, DataQueueMirrorWrite(c) PROVE CopiesInv'
  <2>1. PICK p \in Pages : p = client[c].page
    BY <1>4 DEF DataQueueMirrorWrite, QueueMirrorWrite, RaidInv, PlaceInv, ClientsOK
  <2>2. PICK e \in Disks : e = MirrorOf(p) /\ e # DiskOf(p)
    BY PairInArray, MirrorApart
  <2>3. PICK v \in Nat : v = version[p]
    BY DEF CopiesInv, DataType
  <2>4. /\ handle_uio(e, OffsetOf(p), "callback2") /\ Carries(e, v)
        /\ UNCHANGED <<events, batch, version>>
    BY <1>4, <2>1, <2>2, <2>3 DEF DataQueueMirrorWrite, QueueMirrorWrite
  <2>5. /\ \A q \in Pages :
             /\ Waiting(DiskOf(q), q)' = Waiting(DiskOf(q), q)
             /\ \A x \in Waiting(DiskOf(q), q) :
                  payload'[DiskOf(q)][x.id] = payload[DiskOf(q)][x.id]
        /\ payload' \in [Disks -> [DiskIos -> Nat]] /\ UNCHANGED copy
    <3>1. PICK io \in IoRecords :
            /\ \A q \in Pages :
                 /\ Waiting(DiskOf(q), q)' = Waiting(DiskOf(q), q)
                      \cup (IF q = p /\ e = DiskOf(p) THEN {io} ELSE {})
                 /\ \A x \in Waiting(DiskOf(q), q) :
                      payload'[DiskOf(q)][x.id] = payload[DiskOf(q)][x.id]
            /\ payload' \in [Disks -> [DiskIos -> Nat]] /\ UNCHANGED copy
      BY <2>2, <2>4, HandedOver
    <3> QED BY <2>2, <3>1
  <2>6. DataType'
    BY <2>4, <2>5 DEF CopiesInv, DataType
  <2>7. \A q \in Pages : FirstCopyOK(q)'
    BY <2>4, <2>5, FirstCopyKept
  <2> QED BY <2>6, <2>7 DEF CopiesInv
<1>5. ASSUME NEW d \in Disks, NEW id \in DiskIos, DataDiskDone(d, id) PROVE CopiesInv'
  <2>1. PICK io \in kernel[d] : /\ io.id = id /\ kernel' = [kernel EXCEPT ![d] = @ \ {io}]
    BY <1>5 DEF DataDiskDone, DiskDone
  <2>2. PICK jo \in kernel[d] :
          /\ jo.id = id
          /\ copy' = IF payload[d][id] = 0 THEN copy
                     ELSE [copy EXCEPT ![d][PageOf(d, jo)] = payload[d][id]]
    BY <1>5 DEF DataDiskDone
  <2>3. io = jo
    <3>1. \A x, y \in Busy(d) : x.id = y.id => x = y
      BY DEF RaidInv, BooksOK, DiskOK, Account
    <3> QED BY <2>1, <2>2, <3>1 DEF Busy
  <2>4. PICK p \in Pages : p = PageOf(d, io)
    BY PageFound DEF RaidInv, IosOnTheirPair, Busy
  <2>5. UNCHANGED <<version, payload>>
    BY <1>5 DEF DataDiskDone
  <2>6. PICK v \in Nat : v = payload[d][id]
    BY DEF CopiesInv, DataType
  <2>7. copy' = IF v = 0 THEN copy ELSE [copy EXCEPT ![d][p] = v]
    BY <2>2, <2>3, <2>4, <2>6
  <2>8. /\ copy' \in [Disks -> [Pages -> Nat]]
        /\ \A f \in Disks, q \in Pages :
             copy'[f][q] = IF f = d /\ q = p /\ v # 0 THEN v ELSE copy[f][q]
    BY <2>7 DEF CopiesInv, DataType
  <2>9. DataType'
    BY <2>5, <2>8 DEF CopiesInv, DataType
  <2>10. \A f \in Disks : kernel'[f] = IF f = d THEN kernel[f] \ {io} ELSE kernel[f]
    BY <2>1 DEF RaidInv, BooksOK, BooksAreFunctions
  <2>11. ASSUME NEW q \in Pages PROVE FirstCopyOK(q)'
    <3>1. PICK f \in Disks : f = DiskOf(q) /\ f = DiskOf(q)'
      BY PairInArray DEF DiskOf, StripOf
    <3>2. CASE f = d /\ q = p
      <4>1. Waiting(d, p)' = Waiting(d, p) \ {io} /\ io \in Waiting(d, p)
        BY <2>4, <2>10 DEF Waiting, PageOf
      <4>2. FirstCopyOK(p)
        BY DEF CopiesInv
      <4>3. v \in {0, version[p]}
        BY <2>1, <2>6, <3>1, <3>2, <4>1, <4>2 DEF FirstCopyOK
      <4>4. copy'[d][p] = version[p] \/ \E x \in Waiting(d, p)' : payload[d][x.id] # 0
        <5>1. CASE v # 0
          BY <2>8, <4>3, <5>1
        <5>2. CASE v = 0
          <6>1. copy'[d][p] = copy[d][p] /\ payload[d][io.id] = 0
            BY <2>1, <2>6, <2>8, <5>2
          <6>2. copy[d][p] = version[p] \/ \E x \in Waiting(d, p) : payload[d][x.id] # 0
            BY <3>1, <3>2, <4>2 DEF FirstCopyOK
          <6> QED BY <4>1, <6>1, <6>2
        <5> QED BY <5>1, <5>2
      <4>5. \A x \in Waiting(d, p)' : x.cb = "callback" /\ payload[d][x.id] \in {0, version[p]}
        BY <3>1, <3>2, <4>1, <4>2 DEF FirstCopyOK
      <4> QED BY <2>5, <3>1, <3>2, <4>4, <4>5 DEF FirstCopyOK
    <3>3. CASE ~(f = d /\ q = p)
      <4>1. Waiting(f, q)' = Waiting(f, q)
        BY <2>4, <2>10, <3>3 DEF Waiting, PageOf
      <4>2. copy'[f][q] = copy[f][q]
        BY <2>8, <3>3
      <4>3. Waiting(DiskOf(q), q)' = Waiting(DiskOf(q), q)
        BY <3>1, <4>1
      <4> QED BY <2>5, <3>1, <4>2, <4>3, FirstCopyKept
    <3> QED BY <3>2, <3>3
  <2> QED BY <2>9, <2>11 DEF CopiesInv
<1>6. ASSUME NEW c \in Clients, DataRequest(c) PROVE CopiesInv'
  BY <1>1, <1>6 DEF DataRequest, handle_cache_request
<1>7. ASSUME NEW d \in Disks, CompletionThread(d), UNCHANGED data PROVE CopiesInv'
  <2>1. CASE LockDiskIo(d) \/ ReadLatency(d)
    BY <1>1, <1>7, <2>1, LatencyStepsKeep
  <2>2. CASE Harvest(d) \/ RunCallback(d) \/ ReturnDiskIo(d)
    BY <1>1, <1>7, <2>2 DEF Harvest, RunCallback, ReturnDiskIo
  <2> QED BY <1>7, <2>1, <2>2 DEF CompletionThread
<1>8. CASE ClearStartUrio /\ UNCHANGED data
  BY <1>1, <1>8 DEF ClearStartUrio
<1>9. CASE UNCHANGED dataVars
  BY <1>1, <1>9 DEF dataVars, vars
<1> QED BY <1>2, <1>3, <1>4, <1>5, <1>6, <1>7, <1>8, <1>9 DEF DataNext

(* A step of the data module is a step of the I/O module.                    *)
LEMMA DataStepIsStep == [DataNext]_dataVars => [Next]_vars
BY DEF DataNext, dataVars, Next, DataRequest, DataQueueRead, DataQueueWrite,
       DataQueueMirrorWrite, DataDiskDone

(* When the callback of a page write has run, the page is on its first disk: *)
(* the callback is that of the write to the first copy, and no other write   *)
(* of the page is handed over before it.                                     *)
THEOREM CalledBackOnDisk == DataSpec => []CalledBackMeansOnDisk
<1>1. DataSpec => []RaidInv
  <2>1. DataInit => Init
    BY DEF DataInit
  <2> QED BY <2>1, DataStepIsStep, RaidInvHolds, PTL DEF DataSpec
<1>2. DataSpec => [](RaidInv /\ CopiesInv)
  BY <1>1, CopiesInvInit, CopiesInvNext, PTL DEF DataSpec
<1>3. RaidInv /\ CopiesInv => CalledBackMeansOnDisk
  <2> SUFFICES ASSUME RaidInv, CopiesInv, NEW p \in Pages, due[p] = 0
               PROVE  copy[DiskOf(p)][p] = version[p]
    BY DEF CalledBackMeansOnDisk
  <2>1. Waiting(DiskOf(p), p) = {}
    BY NothingWaits
  <2>2. FirstCopyOK(p)
    BY DEF CopiesInv
  <2> QED BY <2>1, <2>2 DEF FirstCopyOK
<1> QED BY <1>2, <1>3, PTL
=============================================================================
