------------------------------ MODULE Slicing -------------------------------
(***************************************************************************)
(* lru_replace (and alru_replace, line for line the same): how a trace     *)
(* record is cut into page pieces, and how generate_bm turns the sectors   *)
(* of a piece into the bits of a mask of several machine words.            *)
(***************************************************************************)
EXTENDS Integers

CONSTANTS
  SectorSize,   \* SECTOR_SIZE
  WordSectors,  \* SECTORS_PER_BM_LONG, the bits of an unsigned long
  PageSize,     \* page_size in bytes
  MaxOffset,    \* bound on the offset of a record
  MaxLength     \* bound on its length

ASSUME SlicingAssumption ==
  /\ SectorSize \in Nat \ {0} /\ WordSectors \in Nat \ {0}
  /\ PageSize \in Nat \ {0}
  /\ PageSize % (SectorSize * WordSectors) = 0   \* 64 KiB is two words
  /\ MaxOffset \in Nat /\ MaxLength \in Nat \ {0}

VARIABLES
  offset, length,  \* the record
  page,            \* the loop variable of lru_replace
  mask,            \* the mask of the piece just passed to do_lru_replacepage
  touched          \* ghost: sectors of the volume the pieces so far name

vars == <<offset, length, page, mask, touched>>

Bits == 0..(WordSectors - 1)
Words == 0..(PageSize \div (SectorSize * WordSectors) - 1)
LastPage == (offset + length - 1) \div PageSize
PageSectors == PageSize \div SectorSize

(* Mutant: the sector behind the last byte.                                  *)
EndSectorOffByOne(p) == IF p < LastPage THEN PageSectors - 1
                        ELSE ((offset + length) % PageSize) \div SectorSize

(* The first and last sector of the piece of page p.                         *)
StartSector(p) == IF p = offset \div PageSize THEN (offset % PageSize) \div SectorSize ELSE 0
EndSector(p) == IF p < LastPage THEN PageSectors - 1
                ELSE ((offset + length - 1) % PageSize) \div SectorSize

(* ~0 >> n clears the first n bits, ~0 << (WordSectors - n - 1) those behind *)
(* bit n; bit 0 is the most significant one.                                 *)
ShiftRight(n) == {b \in Bits : b >= n}
ShiftLeftFrom(n) == {b \in Bits : b <= n}

(* Mutant: every word ends where the last one does.                          *)
generate_bm_short_words(s, e) ==
  LET start(i) == IF i = s \div WordSectors THEN s % WordSectors ELSE 0
  IN  UNION {{<<i, b>> : b \in ShiftRight(start(i)) \cap ShiftLeftFrom(e % WordSectors)} :
               i \in (s \div WordSectors)..(e \div WordSectors)}

(* generate_bm: the mask as a set of <<word, bit>> pairs.                    *)
generate_bm(s, e) ==
  LET start(i) == IF i = s \div WordSectors THEN s % WordSectors ELSE 0
      end(i) == IF i < e \div WordSectors THEN WordSectors - 1 ELSE e % WordSectors
  IN  UNION {{<<i, b>> : b \in ShiftRight(start(i)) \cap ShiftLeftFrom(end(i))} :
               i \in (s \div WordSectors)..(e \div WordSectors)}

Init ==
  /\ offset \in 0..MaxOffset /\ length \in 1..MaxLength
  /\ page = offset \div PageSize
  /\ mask = {}
  /\ touched = {}

(* One turn of the loop of lru_replace.                                      *)
SlicePage ==
  /\ page <= LastPage
  /\ mask' = generate_bm(StartSector(page), EndSector(page))
  /\ touched' = touched \cup {page * PageSectors + m[1] * WordSectors + m[2] : m \in mask'}
  /\ page' = page + 1
  /\ UNCHANGED <<offset, length>>

Next == SlicePage
Spec == Init /\ [][Next]_vars

-----------------------------------------------------------------------------
(* The pieces together name exactly the sectors the record's bytes lie in.   *)
SlicesCoverRequest ==
  page > LastPage =>
    touched = (offset \div SectorSize)..((offset + length - 1) \div SectorSize)

(* A piece is never empty, one contiguous run of sectors, and within the     *)
(* words the cache compares and merges (i < page_size / BYTES_PER_BM_LONG).  *)
PiecesAreRuns ==
  page > offset \div PageSize =>
    /\ mask # {} /\ \A m \in mask : m[1] \in Words
    /\ \E s, e \in 0..(PageSectors - 1) :
         {m[1] * WordSectors + m[2] : m \in mask} = s..e

=============================================================================
