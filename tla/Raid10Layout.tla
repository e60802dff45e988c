---------------------------- MODULE Raid10Layout ----------------------------
(***************************************************************************)
(* Where RAID10 puts a cache page, and how a completion callback gets the  *)
(* page number back: the address arithmetic of                             *)
(* handle_cache_request_raid10, io_to_page_raid10 and page_to_disk_raid10. *)
(* Disks 2i and 2i+1 mirror each other; strips go round robin over the     *)
(* pairs.                                                                  *)
(***************************************************************************)
EXTENDS Integers

CONSTANTS
  PageSize,    \* page_size
  StripSize,   \* strip_size
  RaidDisks    \* raid_disks

ASSUME LayoutAssumption ==
  /\ PageSize \in Nat \ {0}
  /\ StripSize \in Nat \ {0}
  /\ RaidDisks \in Nat \ {0}
  /\ (RaidDisks % 2) = 0

Disks == 0..(RaidDisks - 1)

(* handle_cache_request_raid10: strip, disk, mirror_disk, offset *)
StripOf(page) == ((page * PageSize) \div StripSize) * 2
DiskOf(page) == StripOf(page) % RaidDisks
MirrorOf(page) == DiskOf(page) + 1
OffsetOf(page) ==
  (StripOf(page) \div RaidDisks) * StripSize + ((page * PageSize) % StripSize)

(* Mutant: the disk, not its pair.                                           *)
io_to_page_by_disk(offset, disk) ==
  (((offset - (offset % StripSize)) * RaidDisks) \div 2
     + (offset % StripSize) + disk * StripSize) \div PageSize

(* io_to_page_raid10 *)
io_to_page(offset, disk) ==
  (((offset - (offset % StripSize)) * RaidDisks) \div 2
     + (offset % StripSize) + (disk \div 2) * StripSize) \div PageSize

(* page_to_disk_raid10: the mirror pair, numbered by its first disk *)
page_to_disk(page) == (StripOf(page) % RaidDisks) \div 2

(* The disk a read of the page goes to, for the spare disk given: a third of *)
(* the reads of the degraded pair to the spare, half and half elsewhere.     *)
ReadDisk(page, spare) ==
  IF DiskOf(page) = spare THEN (IF page % 3 = 0 THEN DiskOf(page) ELSE MirrorOf(page))
  ELSE IF MirrorOf(page) = spare THEN (IF page % 3 = 0 THEN MirrorOf(page) ELSE DiskOf(page))
  ELSE IF page % 2 = 0 THEN DiskOf(page) ELSE MirrorOf(page)

=============================================================================
