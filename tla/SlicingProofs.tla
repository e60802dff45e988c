---------------------------- MODULE SlicingProofs ----------------------------
(***************************************************************************)
(* Cutting records into pieces (module Slicing) is right for every sector, *)
(* word and page size, and for every record.                               *)
(*                                                                         *)
(* generate_bm marks exactly the sectors from s to e (BitmapExact): a      *)
(* sector is one bit of one word.  A byte's sector is the sector in its    *)
(* page beyond the sectors of the pages before it (SectorOfByte).  So the  *)
(* pieces up to a page name the sectors of the record below that page,     *)
(* which is the invariant of the loop.                                     *)
(***************************************************************************)
EXTENDS Slicing, DlListProofs

-----------------------------------------------------------------------------
(* A page is a whole number of words, a word a whole number of sectors.      *)
LEMMA Sizes ==
  /\ PageSectors \in Nat \ {0} /\ PageSize = SectorSize * PageSectors
  /\ \E n \in Nat \ {0} : PageSectors = WordSectors * n /\ Words = 0..(n - 1)
<1>1. PICK w \in Nat \ {0} : w = SectorSize * WordSectors
  BY SlicingAssumption, Z3
<1>2. PICK n \in Nat : n = PageSize \div w /\ PageSize = w * n
  <2>1. PageSize \in Nat /\ PageSize % w = 0
    BY <1>1, SlicingAssumption
  <2> QED BY <2>1, DivMod
<1>3. n # 0
  <2>1. w * 0 = 0
    OBVIOUS
  <2> QED BY <1>2, <2>1, SlicingAssumption
<1>4. PICK k \in Nat \ {0} : k = WordSectors * n
  BY <1>2, <1>3, SlicingAssumption, Z3
<1>5. PageSize = SectorSize * k
  <2>1. PICK h \in Nat, g \in Nat \ {0}, v \in Nat \ {0} : h = n /\ g = SectorSize /\ v = WordSectors
    BY <1>2, SlicingAssumption
  <2>2. (g * v) * h = g * (v * h)
    BY Z3
  <2> QED BY <1>1, <1>2, <1>4, <2>1, <2>2
<1>6. PageSize \div SectorSize = k
  <2>1. PageSize = (SectorSize * k) + 0 /\ 0 \in 0..(SectorSize - 1)
    BY <1>5, SlicingAssumption, Products
  <2> QED BY <2>1, DivModUnique, SlicingAssumption
<1> QED BY <1>1, <1>2, <1>3, <1>4, <1>5, <1>6 DEF PageSectors, Words

-----------------------------------------------------------------------------
(* The bitmap.                                                               *)

(* A sector is one bit of one word. *)
Numbers(m) == {b[1] * WordSectors + b[2] : b \in m}

(* generate_bm marks the sectors from s to e and no others.                  *)
LEMMA BitmapExact ==
  ASSUME NEW s \in Nat, NEW e \in Nat, s <= e
  PROVE  /\ Numbers(generate_bm(s, e)) = s..e
         /\ generate_bm(s, e) # {}
         /\ \A b \in generate_bm(s, e) : b[1] \in 0..(e \div WordSectors) /\ b[2] \in Bits
<1> DEFINE W == WordSectors
           start(i) == IF i = s \div W THEN s % W ELSE 0
           end(i) == IF i < e \div W THEN W - 1 ELSE e % W
<1>1. W \in Nat \ {0}
  BY SlicingAssumption
<1>2. /\ s \div W \in Nat /\ s % W \in 0..(W - 1) /\ s = (W * (s \div W)) + (s % W)
      /\ e \div W \in Nat /\ e % W \in 0..(W - 1) /\ e = (W * (e \div W)) + (e % W)
  BY <1>1, DivMod
<1>3. \A m : m \in generate_bm(s, e) <=>
        \E i \in (s \div W)..(e \div W), c \in 0..(W - 1) :
          m = <<i, c>> /\ start(i) <= c /\ c <= end(i)
  BY DEF generate_bm, ShiftRight, ShiftLeftFrom, Bits
<1> HIDE DEF W
<1>4. ASSUME NEW i \in (s \div W)..(e \div W), NEW c \in 0..(W - 1)
      PROVE  start(i) <= c /\ c <= end(i) <=> (i * W) + c \in s..e
  <2>1. i \in Nat /\ i * W \in Nat /\ i * W = W * i /\ (s \div W) * W = W * (s \div W)
    BY <1>1, <1>2, Products
  <2>2. CASE i = s \div W /\ i = e \div W
    BY <1>1, <1>2, <2>1, <2>2
  <2>3. CASE i = s \div W /\ i < e \div W
    <3>1. (W * i) + W <= W * (e \div W)
      BY <1>1, <1>2, <2>1, <2>3, Products
    <3> QED BY <1>1, <1>2, <2>1, <2>3, <3>1
  <2>4. CASE s \div W < i /\ i = e \div W
    <3>1. (W * (s \div W)) + W <= W * i
      BY <1>1, <1>2, <2>1, <2>4, Products
    <3> QED BY <1>1, <1>2, <2>1, <2>4, <3>1
  <2>5. CASE s \div W < i /\ i < e \div W
    <3>1. (W * (s \div W)) + W <= W * i /\ (W * i) + W <= W * (e \div W)
      BY <1>1, <1>2, <2>1, <2>5, Products
    <3> QED BY <1>1, <1>2, <2>1, <2>5, <3>1
  <2> QED BY <1>2, <2>2, <2>3, <2>4, <2>5
<1>5. ASSUME NEW x \in s..e
      PROVE  \E i \in (s \div W)..(e \div W), c \in 0..(W - 1) : x = (i * W) + c
  <2>1. s \div W <= x \div W /\ x \div W <= e \div W
    BY <1>1, DivMonotonic
  <2>2. x \div W \in Nat /\ x % W \in 0..(W - 1) /\ x = (W * (x \div W)) + (x % W)
    <3>1. x \in Nat
      OBVIOUS
    <3> QED BY <1>1, <3>1, DivMod
  <2>3. (x \div W) * W = W * (x \div W)
    BY <1>1, <2>2, Products
  <2> QED BY <1>2, <2>1, <2>2, <2>3
<1>6. Numbers(generate_bm(s, e)) = s..e
  <2>1. Numbers(generate_bm(s, e)) \subseteq s..e
    <3> SUFFICES ASSUME NEW m \in generate_bm(s, e) PROVE (m[1] * W) + m[2] \in s..e
      BY DEF Numbers, W
    <3> QED BY <1>3, <1>4
  <2>2. ASSUME NEW x \in s..e PROVE x \in Numbers(generate_bm(s, e))
    <3>1. PICK i \in (s \div W)..(e \div W), c \in 0..(W - 1) : x = (i * W) + c
      BY <1>5
    <3>2. <<i, c>> \in generate_bm(s, e)
      BY <1>3, <1>4, <3>1
    <3> QED BY <3>1, <3>2 DEF Numbers, W
  <2> QED BY <2>1, <2>2
<1>7. s \in Numbers(generate_bm(s, e))
  BY <1>6
<1>8. \A b \in generate_bm(s, e) : b[1] \in 0..(e \div W) /\ b[2] \in Bits
  BY <1>2, <1>3 DEF Bits, W
<1> QED BY <1>6, <1>7, <1>8 DEF Numbers, W

-----------------------------------------------------------------------------
(* The sectors of a record.                                                  *)

FirstPage == offset \div PageSize
FirstOf == offset \div SectorSize
LastOf == (offset + length - 1) \div SectorSize

(* The sector of a byte is its sector in the page, beyond the pages before.  *)
LEMMA SectorOfByte ==
  ASSUME NEW b \in Nat
  PROVE  /\ b \div PageSize \in Nat
         /\ (b % PageSize) \div SectorSize \in 0..(PageSectors - 1)
         /\ b \div SectorSize = (b \div PageSize) * PageSectors + ((b % PageSize) \div SectorSize)
<1>1. SectorSize \in Nat \ {0} /\ PageSize \in Nat \ {0}
  BY SlicingAssumption
<1>2. PICK k \in Nat \ {0} : k = PageSectors /\ PageSize = SectorSize * k
  BY Sizes
<1>3. PICK p \in Nat, r \in 0..(PageSize - 1) :
        p = b \div PageSize /\ r = b % PageSize /\ b = (PageSize * p) + r
  BY <1>1, DivMod
<1>4. PICK q \in Nat, t \in 0..(SectorSize - 1) :
        q = r \div SectorSize /\ r = (SectorSize * q) + t
  BY <1>1, DivMod
<1>5. q < k
  <2> SUFFICES ASSUME k <= q PROVE FALSE
    OBVIOUS
  <2>1. SectorSize * k <= SectorSize * q /\ SectorSize * q \in Nat
    BY <1>1, Products
  <2> QED BY <1>1, <1>2, <1>4, <2>1
<1>6. b = (SectorSize * ((p * k) + q)) + t /\ (p * k) + q \in Nat
  <2>1. PICK g \in Nat : g = SectorSize
    BY <1>1
  <2>2. (g * k) * p + (g * q) = g * ((p * k) + q) /\ (p * k) + q \in Nat
    BY Z3
  <2>3. g * q \in Nat /\ (g * k) * p \in Nat
    BY <2>1, Z3
  <2> QED BY <1>2, <1>3, <1>4, <2>1, <2>2, <2>3
<1>7. b \div SectorSize = (p * k) + q
  BY <1>1, <1>6, DivModUnique
<1>8. b \div PageSize = p /\ (b % PageSize) \div SectorSize = q /\ PageSectors = k
  BY <1>2, <1>3, <1>4
<1>9. q \in 0..(k - 1)
  BY <1>5
<1> QED BY <1>7, <1>8, <1>9, Zenon

(* The sectors of the piece of a page are those of the record on that page.  *)
LEMMA PieceExact ==
  ASSUME offset \in Nat, length \in Nat \ {0}, NEW p \in FirstPage..LastPage
  PROVE  /\ StartSector(p) \in 0..(PageSectors - 1) /\ EndSector(p) \in 0..(PageSectors - 1)
         /\ StartSector(p) <= EndSector(p)
         /\ \A x \in Int : x \in FirstOf..LastOf /\ p * PageSectors <= x /\ x < (p + 1) * PageSectors
              <=> x - p * PageSectors \in StartSector(p)..EndSector(p)
<1> DEFINE k == PageSectors
           last == offset + length - 1
           so == (offset % PageSize) \div SectorSize
           eo == (last % PageSize) \div SectorSize
<1>1. k \in Nat \ {0}
  BY Sizes
<1>2. last \in Nat /\ offset <= last
  OBVIOUS
<1>3. FirstPage \in Nat /\ so \in 0..(k - 1) /\ FirstOf = (FirstPage * k) + so
  BY SectorOfByte DEF FirstPage, FirstOf
<1>4. LastPage \in Nat /\ eo \in 0..(k - 1) /\ LastOf = (LastPage * k) + eo
  BY <1>2, SectorOfByte DEF LastPage, LastOf
<1>5. StartSector(p) = IF p = FirstPage THEN so ELSE 0
  BY DEF StartSector, FirstPage
<1>6. EndSector(p) = IF p < LastPage THEN k - 1 ELSE eo
  BY DEF EndSector
<1>7. FirstOf <= LastOf
  BY <1>2, DivMonotonic, SlicingAssumption DEF FirstOf, LastOf
<1> HIDE DEF k, so, eo, last
<1>8. p \in Nat /\ FirstPage <= p /\ p <= LastPage
  BY <1>3, <1>4
<1>9. PICK F \in Nat, P \in Nat, L \in Nat :
        /\ F = FirstPage * k /\ P = p * k /\ L = LastPage * k /\ (p + 1) * k = P + k
        /\ FirstPage < p => F + k <= P
        /\ p < LastPage => P + k <= L
  <2>1. /\ FirstPage * k \in Nat /\ p * k \in Nat /\ LastPage * k \in Nat
        /\ FirstPage * k = k * FirstPage /\ p * k = k * p /\ LastPage * k = k * LastPage
        /\ FirstPage < p => (k * FirstPage) + k <= k * p
        /\ p < LastPage => (k * p) + k <= k * LastPage
    BY <1>1, <1>3, <1>4, <1>8, Products
  <2>2. (p + 1) * k = (p * k) + k
    <3>1. p + 1 \in Nat
      BY <1>8
    <3>2. (p + 1) * k = k * (p + 1) /\ k * (p + 1) = (k * p) + k
      BY <1>1, <1>8, <3>1, Products
    <3> QED BY <2>1, <3>2
  <2> QED BY <2>1, <2>2
<1>10. StartSector(p) \in 0..(k - 1) /\ EndSector(p) \in 0..(k - 1)
  BY <1>1, <1>3, <1>4, <1>5, <1>6
<1>11. StartSector(p) <= EndSector(p)
  BY <1>1, <1>3, <1>4, <1>5, <1>6, <1>7, <1>8, <1>9
<1>12. ASSUME NEW x \in Int
       PROVE  x \in FirstOf..LastOf /\ P <= x /\ x < P + k <=> x - P \in StartSector(p)..EndSector(p)
  <2>1. CASE p = FirstPage
    BY <1>1, <1>3, <1>4, <1>5, <1>6, <1>8, <1>9, <2>1
  <2>2. CASE FirstPage < p
    BY <1>1, <1>3, <1>4, <1>5, <1>6, <1>8, <1>9, <2>2
  <2> QED BY <1>3, <1>8, <2>1, <2>2
<1> QED BY <1>9, <1>10, <1>11, <1>12 DEF k

-----------------------------------------------------------------------------
(* The loop.                                                                 *)

(* The pieces before the current page name the sectors of the record before  *)
(* it, and the last of them was a run.                                       *)
SlicingInv ==
  /\ offset \in Nat /\ length \in Nat \ {0}
  /\ page \in FirstPage..(LastPage + 1)
  /\ touched = {x \in FirstOf..LastOf : x < page * PageSectors}
  /\ PiecesAreRuns

LEMMA SlicingInvInit == Init => SlicingInv
<1> SUFFICES ASSUME Init PROVE SlicingInv
  OBVIOUS
<1>1. offset \in Nat /\ length \in Nat \ {0} /\ page = FirstPage /\ touched = {}
  BY SlicingAssumption DEF Init, FirstPage
<1>2. offset + length - 1 \in Nat /\ offset <= offset + length - 1
  BY <1>1
<1>3. FirstPage \in Nat /\ LastPage \in Nat /\ FirstPage <= LastPage
  BY <1>1, <1>2, DivMod, DivMonotonic, SlicingAssumption DEF FirstPage, LastPage
<1>4. FirstOf \in Nat /\ LastOf \in Nat /\ FirstPage * PageSectors <= FirstOf
  <2>1. /\ (offset % PageSize) \div SectorSize \in Nat
        /\ FirstOf = FirstPage * PageSectors + ((offset % PageSize) \div SectorSize)
    BY <1>1, SectorOfByte DEF FirstPage, FirstOf
  <2>2. FirstPage * PageSectors \in Nat
    BY <1>3, Sizes, Products
  <2>3. LastOf \in Nat
    BY <1>2, DivMod, SlicingAssumption DEF LastOf
  <2> QED BY <2>1, <2>2, <2>3
<1>5. touched = {x \in FirstOf..LastOf : x < page * PageSectors}
  <2>1. PICK f \in Nat : f = page * PageSectors
    BY <1>1, <1>3, Sizes, Products
  <2> QED BY <1>1, <1>4, <2>1
<1>6. PiecesAreRuns
  BY <1>1, <1>3 DEF PiecesAreRuns, FirstPage
<1> QED BY <1>1, <1>3, <1>5, <1>6 DEF SlicingInv

(* The mask of a piece is one run of sectors in words of the page.           *)
LEMMA PieceIsRun ==
  ASSUME NEW s \in 0..(PageSectors - 1), NEW e \in 0..(PageSectors - 1), s <= e
  PROVE  /\ generate_bm(s, e) # {} /\ Numbers(generate_bm(s, e)) = s..e
         /\ \A m \in generate_bm(s, e) : m[1] \in Words /\ m[2] \in Bits
<1>1. PICK n \in Nat \ {0} : PageSectors = WordSectors * n /\ Words = 0..(n - 1)
  BY Sizes
<1>2. s \in Nat /\ e \in Nat /\ PageSectors \in Nat
  BY Sizes
<1>3. e \div WordSectors \in 0..(n - 1)
  <2>1. PICK q \in Nat, r \in 0..(WordSectors - 1) : q = e \div WordSectors /\ e = (WordSectors * q) + r
    BY <1>2, DivMod, SlicingAssumption
  <2>2. WordSectors \in Nat /\ WordSectors * q \in Nat
    BY <2>1, Products, SlicingAssumption
  <2>3. n <= q => WordSectors * n <= WordSectors * q
    BY <2>1, <2>2, Products
  <2>4. e < WordSectors * n
    BY <1>1, <1>2
  <2>5. q < n
    BY <1>1, <1>2, <2>1, <2>2, <2>3, <2>4
  <2> QED BY <2>1, <2>5
<1> QED BY <1>1, <1>2, <1>3, BitmapExact

LEMMA SlicingInvNext == SlicingInv /\ [Next]_vars => SlicingInv'
<1> SUFFICES ASSUME SlicingInv, [Next]_vars PROVE SlicingInv'
  OBVIOUS
<1>1. CASE UNCHANGED vars
  BY <1>1 DEF SlicingInv, vars, FirstPage, LastPage, FirstOf, LastOf, PiecesAreRuns
<1>2. CASE SlicePage
  <2> DEFINE s == StartSector(page)
             e == EndSector(page)
             k == PageSectors
  <2>1. /\ offset \in Nat /\ length \in Nat \ {0} /\ page \in FirstPage..LastPage /\ page \in Nat
        /\ FirstPage \in Nat /\ LastPage \in Nat
    <3>1. FirstPage \in Nat /\ LastPage \in Nat
      <4>1. offset \in Nat /\ offset + length - 1 \in Nat
        BY DEF SlicingInv
      <4> QED BY <4>1, DivMod, SlicingAssumption DEF FirstPage, LastPage
    <3> QED BY <1>2, <3>1 DEF SlicePage, SlicingInv
  <2>2. /\ s \in 0..(k - 1) /\ e \in 0..(k - 1) /\ s <= e
        /\ \A x \in Int : x \in FirstOf..LastOf /\ page * k <= x /\ x < (page + 1) * k
             <=> x - page * k \in s..e
    BY <2>1, PieceExact
  <2>3. mask' = generate_bm(s, e) /\ page' = page + 1 /\ UNCHANGED <<offset, length>>
    BY <1>2 DEF SlicePage
  <2>4. touched' = touched \cup {page * k + m[1] * WordSectors + m[2] : m \in mask'}
    BY <1>2 DEF SlicePage
  <2> HIDE DEF s, e
  <2>5. mask' # {} /\ Numbers(mask') = s..e /\ \A m \in mask' : m[1] \in Words /\ m[2] \in Bits
    BY <2>2, <2>3, PieceIsRun
  <2>6. k \in Nat /\ page * k \in Nat /\ (page + 1) * k = page * k + k
    <3>1. page + 1 \in Nat /\ k \in Nat
      BY <2>1, Sizes
    <3> QED BY <2>1, <3>1, Products
  <2>7. touched' = touched \cup {page * k + y : y \in s..e}
    <3>1. PICK n \in Nat \ {0} : Words = 0..(n - 1)
      BY Sizes
    <3>2. ASSUME NEW m \in mask'
          PROVE  page * k + m[1] * WordSectors + m[2] = page * k + (m[1] * WordSectors + m[2])
      <4>1. m[1] \in Nat /\ m[2] \in Nat /\ WordSectors \in Nat
        BY <2>5, <3>1, SlicingAssumption DEF Bits
      <4>2. m[1] * WordSectors \in Nat
        BY <4>1, Products
      <4> QED BY <2>6, <4>1, <4>2
    <3>3. Numbers(mask') = {m[1] * WordSectors + m[2] : m \in mask'}
      BY DEF Numbers
    <3>4. {page * k + m[1] * WordSectors + m[2] : m \in mask'} = {page * k + y : y \in Numbers(mask')}
      BY <3>2, <3>3
    <3> QED BY <2>4, <2>5, <3>4
  <2>8. touched' = {x \in FirstOf..LastOf : x < (page + 1) * k}
    <3>1. PICK P \in Nat : P = page * k /\ (page + 1) * k = P + k
      BY <2>6
    <3>2. touched = {x \in FirstOf..LastOf : x < P}
      BY <3>1 DEF SlicingInv
    <3>3. \A x \in Int : x \in FirstOf..LastOf /\ P <= x /\ x < P + k <=> x - P \in s..e
      BY <2>2, <3>1
    <3>4. {page * k + y : y \in s..e} = {x \in FirstOf..LastOf : P <= x /\ x < P + k}
      <4>1. ASSUME NEW y \in s..e
            PROVE  P + y \in FirstOf..LastOf /\ P <= P + y /\ P + y < P + k
        <5>1. y \in Int /\ P + y \in Int /\ (P + y) - P = y
          BY <2>2
        <5> QED BY <3>3, <5>1
      <4>2. ASSUME NEW x \in FirstOf..LastOf, P <= x, x < P + k
            PROVE  \E y \in s..e : x = P + y
        <5>1. x - P \in s..e /\ x = P + (x - P)
          BY <3>3, <4>2
        <5> QED BY <5>1
      <4> QED BY <3>1, <4>1, <4>2
    <3>5. \A x \in FirstOf..LastOf : x < P + k <=> x < P \/ (P <= x /\ x < P + k)
      BY <2>6
    <3> QED BY <2>7, <3>1, <3>2, <3>4, <3>5
  <2>9. FirstPage' = FirstPage /\ LastPage' = LastPage /\ FirstOf' = FirstOf /\ LastOf' = LastOf
    BY <2>3 DEF FirstPage, LastPage, FirstOf, LastOf
  <2>10. PiecesAreRuns'
    <3>1. \E x, y \in 0..(k - 1) : {m[1] * WordSectors + m[2] : m \in mask'} = x..y
      BY <2>2, <2>5 DEF Numbers
    <3> QED BY <2>5, <3>1 DEF PiecesAreRuns
  <2>11. page' \in FirstPage..(LastPage + 1)
    BY <2>1, <2>3
  <2> QED BY <2>1, <2>3, <2>8, <2>9, <2>10, <2>11 DEF SlicingInv
<1> QED BY <1>1, <1>2 DEF Next

LEMMA SlicingInvHolds == Spec => []SlicingInv
BY SlicingInvInit, SlicingInvNext, PTL DEF Spec

(* Whatever the record, its pieces name exactly the sectors its bytes lie    *)
(* in: none is skipped at a page or word border, none is named besides.      *)
THEOREM RecordCovered == Spec => []SlicesCoverRequest
<1>1. SlicingInv => SlicesCoverRequest
  <2> SUFFICES ASSUME SlicingInv, page > LastPage PROVE touched = FirstOf..LastOf
    BY DEF SlicesCoverRequest, FirstOf, LastOf
  <2>1. offset + length - 1 \in Nat
    BY DEF SlicingInv
  <2>2. FirstPage \in Nat /\ LastPage \in Nat
    BY <2>1, DivMod, SlicingAssumption DEF SlicingInv, FirstPage, LastPage
  <2>3. page = LastPage + 1
    BY <2>2 DEF SlicingInv
  <2>4. PICK k \in Nat \ {0} : k = PageSectors
    BY Sizes
  <2>5. PICK eo \in 0..(k - 1) : LastOf = LastPage * k + eo
    BY <2>1, <2>4, SectorOfByte DEF LastPage, LastOf
  <2>6. page * k = LastPage * k + k /\ LastPage * k \in Nat
    <3>1. LastPage + 1 \in Nat
      BY <2>2
    <3> QED BY <2>2, <2>3, <2>4, <3>1, Products
  <2>7. \A x \in FirstOf..LastOf : x < page * k
    BY <2>5, <2>6
  <2> QED BY <2>4, <2>7 DEF SlicingInv
<1> QED BY <1>1, SlicingInvHolds, PTL

(* Every piece is one run of sectors, not empty, and lies in the words that  *)
(* the cache compares and merges.                                            *)
THEOREM PiecesContiguous == Spec => []PiecesAreRuns
<1>1. SlicingInv => PiecesAreRuns
  BY DEF SlicingInv
<1> QED BY <1>1, SlicingInvHolds, PTL

=============================================================================
