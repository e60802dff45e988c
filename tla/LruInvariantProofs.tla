------------------------- MODULE LruInvariantProofs -------------------------
(***************************************************************************)
(* The bookkeeping of the LRU cache, for any number of players, slots,     *)
(* pages, buckets and sectors: lists, hash table, reference counts and     *)
(* page I/Os always agree.                                                 *)
(*                                                                         *)
(* None of these invariants is inductive alone.  That an evicted page has  *)
(* no user needs the reference counts to be exact; that they are exact     *)
(* needs a callback to find the page it was issued for; that it does needs *)
(* the page not to be evicted.  They are proved together, of the cache     *)
(* that may take any idle page (AnyPageSpec).                              *)
(***************************************************************************)
EXTENDS LruCacheProofs

FreeClean == Elements(free_clean_list)
FreeDirty == Elements(free_dirty_list)

-----------------------------------------------------------------------------
(* What the critical sections do to the lists and the hash table.            *)

(* The lists are made of slots. *)
LEMMA ListedSlots ==
  ASSUME DataOK
  PROVE  /\ Clean \subseteq Slots /\ Dirty \subseteq Slots /\ Cached \subseteq Slots
         /\ FreeClean \subseteq Slots /\ FreeDirty \subseteq Slots /\ Free \subseteq Slots
BY DEF DataOK, Clean, Dirty, Cached, FreeClean, FreeDirty, Free, Elements

(* lru_find finds the cached slot of a page, when there is one. *)
LEMMA FindExact ==
  ASSUME DataOK, HashMatchesLists, NEW p \in Pages
  PROVE  lru_find(p) = {s \in Cached : page[s] = p}
<1>1. HashOf[p] \in Buckets /\ hash[HashOf[p]] \subseteq Slots
  BY PagesAssumption DEF DataOK
<1>2. Cached \subseteq Slots
  BY ListedSlots
<1>3. ASSUME NEW s PROVE s \in lru_find(p) <=> s \in Cached /\ page[s] = p
  BY <1>1, <1>2 DEF lru_find, HashMatchesLists
<1> QED BY <1>3

(* The four lists, when a critical section has left them duplicate free. *)
LEMMA ListsStep ==
  ASSUME NoDuplicates(clean_list)', NoDuplicates(dirty_list)',
         NoDuplicates(free_clean_list)', NoDuplicates(free_dirty_list)',
         Clean' \cup Dirty' \cup FreeClean' \cup FreeDirty' = Slots,
         Clean' \cap Dirty' = {}, FreeClean' \cap FreeDirty' = {},
         (Clean' \cup Dirty') \cap (FreeClean' \cup FreeDirty') = {}
  PROVE  ListsPartitionSlots'
<1>1. Cached' = Clean' \cup Dirty' /\ Free' = FreeClean' \cup FreeDirty'
  BY DEF Cached, Free, FreeClean, FreeDirty
<1> QED BY <1>1 DEF ListsPartitionSlots, FreeClean, FreeDirty

(* The same facts about the lists as they are. *)
LEMMA ListsNow ==
  ASSUME ListsPartitionSlots
  PROVE  /\ NoDuplicates(clean_list) /\ NoDuplicates(dirty_list)
         /\ NoDuplicates(free_clean_list) /\ NoDuplicates(free_dirty_list)
         /\ Clean \cup Dirty \cup FreeClean \cup FreeDirty = Slots
         /\ Clean \cap Dirty = {} /\ FreeClean \cap FreeDirty = {}
         /\ (Clean \cup Dirty) \cap (FreeClean \cup FreeDirty) = {}
BY DEF ListsPartitionSlots, Cached, Free, FreeClean, FreeDirty

(* A step that only reorders the lists and keeps pages, chains and DIRTY     *)
(* bits.                                                                     *)
LEMMA SameLists ==
  ASSUME ListsPartitionSlots, HashMatchesLists,
         NoDuplicates(clean_list)', NoDuplicates(dirty_list)',
         NoDuplicates(free_clean_list)', NoDuplicates(free_dirty_list)',
         UNCHANGED <<Clean, Dirty, FreeClean, FreeDirty, page, hash>>,
         Clean \subseteq Slots, Dirty \subseteq Slots,
         \A s \in Slots : IsDirty(s)' <=> IsDirty(s)
  PROVE  ListsPartitionSlots' /\ HashMatchesLists' /\ UNCHANGED Cached
<1>1. ListsPartitionSlots'
  BY ListsNow, ListsStep
<1>2. UNCHANGED Cached /\ Cached \subseteq Slots
  BY DEF Cached
<1>3. HashMatchesLists'
  BY <1>2 DEF HashMatchesLists
<1> QED BY <1>1, <1>2, <1>3

(* The exchange of a free dirty page. *)
LEMMA ExchangeLists ==
  ASSUME DataOK, ListsPartitionSlots, ExchangeFreePage
  PROVE  \E s \in FreeDirty :
           /\ FreeDirty' = FreeDirty \ {s} /\ NoDuplicates(free_dirty_list)'
           /\ FreeClean' = FreeClean \cup {s} /\ NoDuplicates(free_clean_list)'
           /\ Len(free_dirty_list') = Len(free_dirty_list) - 1
<1> DEFINE s == free_dirty_list[1]
<1>1. /\ free_dirty_list \in Seq(Slots) /\ free_clean_list \in Seq(Slots)
      /\ free_dirty_list # <<>>
      /\ free_dirty_list' = RemoveNode(free_dirty_list, s)
      /\ free_clean_list' = AddToHead(free_clean_list, s)
  BY DEF DataOK, ExchangeFreePage
<1>2. s \in Slots /\ s \in FreeDirty
  BY <1>1, HeadType DEF FreeDirty
<1> HIDE DEF s
<1>3. s \notin FreeClean
  BY <1>2, ListsNow
<1>4. /\ FreeDirty' = FreeDirty \ {s} /\ NoDuplicates(free_dirty_list)'
      /\ Len(free_dirty_list') = Len(free_dirty_list) - 1
  BY <1>1, <1>2, ListsNow, RemoveNodeExact, RemoveNodeLen DEF FreeDirty
<1>5. FreeClean' = FreeClean \cup {s} /\ NoDuplicates(free_clean_list)'
  BY <1>1, <1>2, <1>3, ListsNow, AddToHeadExact DEF FreeClean
<1> QED BY <1>2, <1>4, <1>5

(* A request served on a cached page: nothing enters or leaves the cache. *)
LEMMA ServeLists ==
  ASSUME DataOK, ListsPartitionSlots, HashMatchesLists,
         NEW pl \in Players, NEW r, r.slot \in Cached, NEW held, Serve(pl, r, held)
  PROVE  /\ ListsPartitionSlots' /\ HashMatchesLists'
         /\ UNCHANGED <<page, hash, Cached>> /\ Dirty \subseteq Dirty'
<1>1. /\ clean_list \in Seq(Slots) /\ dirty_list \in Seq(Slots)
      /\ Clean \subseteq Slots /\ Dirty \subseteq Slots /\ r.slot \in Slots
      /\ r.slot \in Clean \/ r.slot \in Dirty
      /\ IsDirty(r.slot) <=> r.slot \in Dirty
  BY ListedSlots DEF DataOK, Cached, HashMatchesLists
<1>2. ASSUME r.slot \in Clean
      PROVE  /\ Elements(MoveToHead(clean_list, r.slot)) = Clean
             /\ NoDuplicates(MoveToHead(clean_list, r.slot))
  BY <1>1, <1>2, MoveToHeadExact, ListsNow DEF Clean
<1>3. ASSUME r.slot \in Dirty
      PROVE  /\ Elements(MoveToHead(dirty_list, r.slot)) = Dirty
             /\ NoDuplicates(MoveToHead(dirty_list, r.slot))
  BY <1>1, <1>3, MoveToHeadExact, ListsNow DEF Dirty
<1>4. CASE ReadClean(pl, r, held)
  <2>1. /\ r.slot \in Clean /\ clean_list' = MoveToHead(clean_list, r.slot)
        /\ UNCHANGED <<page, state, dirty_list, free_clean_list, free_dirty_list, hash>>
    BY <1>1, <1>4 DEF ReadClean
  <2>2. UNCHANGED <<Clean, Dirty, FreeClean, FreeDirty>> /\ NoDuplicates(clean_list)'
    BY <1>2, <2>1 DEF Clean, Dirty, FreeClean, FreeDirty
  <2> QED BY <1>1, <2>1, <2>2, ListsNow, SameLists DEF IsDirty
<1>5. CASE ReadDirtyHit(pl, r, held) \/ ReadDirtyMiss(pl, r, held) \/ WriteDirty(pl, r, held)
  <2>1. /\ r.slot \in Dirty /\ dirty_list' = MoveToHead(dirty_list, r.slot)
        /\ UNCHANGED <<page, clean_list, free_clean_list, free_dirty_list, hash>>
        /\ state' = state \/ state' = [state EXCEPT ![r.slot] = @ \ {"UPTODATE"}]
    BY <1>1, <1>5 DEF ReadDirtyHit, ReadDirtyMiss, WriteDirty
  <2>2. UNCHANGED <<Clean, Dirty, FreeClean, FreeDirty>> /\ NoDuplicates(dirty_list)'
    BY <1>3, <2>1 DEF Clean, Dirty, FreeClean, FreeDirty
  <2>3. \A s \in Slots : IsDirty(s)' <=> IsDirty(s)
    BY <2>1 DEF IsDirty, DataOK
  <2> QED BY <1>1, <2>1, <2>2, <2>3, ListsNow, SameLists
<1>6. CASE WriteClean(pl, r, held)
  <2>1. /\ r.slot \in Clean /\ r.slot \notin Dirty
        /\ clean_list' = RemoveNode(clean_list, r.slot)
        /\ dirty_list' = AddToHead(dirty_list, r.slot)
        /\ state' = [state EXCEPT ![r.slot] = @ \cup {"DIRTY"}]
        /\ UNCHANGED <<page, hash>>
    BY <1>1, <1>6 DEF WriteClean
  <2>2. Clean' = Clean \ {r.slot} /\ NoDuplicates(clean_list)'
    BY <1>1, <2>1, ListsNow, RemoveNodeExact DEF Clean
  <2>3. Dirty' = Dirty \cup {r.slot} /\ NoDuplicates(dirty_list)'
    BY <1>1, <2>1, ListsNow, AddToHeadExact DEF Dirty
  <2>4. ListsPartitionSlots'
    <3>1. CASE ExchangeFreePage
      <4>1. PICK t \in FreeDirty :
              /\ FreeDirty' = FreeDirty \ {t} /\ NoDuplicates(free_dirty_list)'
              /\ FreeClean' = FreeClean \cup {t} /\ NoDuplicates(free_clean_list)'
        BY <3>1, ExchangeLists
      <4> QED BY <2>1, <2>2, <2>3, <4>1, ListsNow, ListsStep
    <3>2. CASE UNCHANGED <<free_clean_list, free_dirty_list>>
      <4>1. UNCHANGED <<FreeClean, FreeDirty>>
        BY <3>2 DEF FreeClean, FreeDirty
      <4> QED BY <2>1, <2>2, <2>3, <3>2, <4>1, ListsNow, ListsStep
    <3> QED BY <1>6, <3>1, <3>2 DEF WriteClean
  <2>5. UNCHANGED Cached /\ Cached \subseteq Slots
    BY <1>1, <2>1, <2>2, <2>3 DEF Cached
  <2>6. \A s \in Slots : IsDirty(s)' <=> IsDirty(s) \/ s = r.slot
    BY <1>1, <2>1 DEF IsDirty, DataOK
  <2>7. HashMatchesLists'
    BY <2>1, <2>3, <2>5, <2>6 DEF HashMatchesLists
  <2> QED BY <2>1, <2>3, <2>4, <2>5, <2>7
<1> QED BY <1>4, <1>5, <1>6 DEF Serve

(* A page that was not cached gets a slot, taken from the clean list or from *)
(* a free list: it is chained in the bucket of its page and nowhere else.    *)
LEMMA FillHash ==
  ASSUME DataOK, HashMatchesLists, NEW s \in Slots, NEW p \in Pages, lru_find(p) = {},
         page' = [page EXCEPT ![s] = p],
         \A t \in Slots, b \in Buckets :
           t \in hash'[b] <=> IF t = s THEN b = HashOf[p] ELSE t \in hash[b],
         Cached' = Cached \cup {s},
         \A t \in Slots \ {s} : (t \in Dirty' <=> t \in Dirty) /\ (IsDirty(t)' <=> IsDirty(t)),
         IsDirty(s)' <=> s \in Dirty'
  PROVE  HashMatchesLists'
<1>1. Cached \subseteq Slots /\ \A t \in Cached : page[t] # p
  BY ListedSlots, FindExact
<1>2. page'[s] = p /\ \A t \in Slots \ {s} : page'[t] = page[t]
  BY DEF DataOK
<1>3. \A t \in Slots, b \in Buckets : t \in hash'[b] <=> t \in Cached' /\ b = HashOf[page'[t]]
  <2> SUFFICES ASSUME NEW t \in Slots, NEW b \in Buckets
               PROVE  t \in hash'[b] <=> t \in Cached' /\ b = HashOf[page'[t]]
    OBVIOUS
  <2>1. CASE t = s
    BY <1>2, <2>1
  <2>2. CASE t # s
    BY <1>2, <2>2 DEF HashMatchesLists
  <2> QED BY <2>1, <2>2
<1>4. \A t \in Cached' : page'[t] \in Pages /\ (IsDirty(t)' <=> t \in Dirty')
  BY <1>1, <1>2 DEF HashMatchesLists
<1>5. \A t, u \in Cached' : page'[t] = page'[u] => t = u
  BY <1>1, <1>2 DEF HashMatchesLists
<1> QED BY <1>3, <1>4, <1>5 DEF HashMatchesLists

(* What Install writes into the slot, and that it leaves the others alone. *)
LEMMA InstallSlot ==
  ASSUME DataOK, NEW pl, NEW r, NEW s \in Slots, Install(pl, r, s)
  PROVE  /\ page' = [page EXCEPT ![s] = r.page]
         /\ ~IsDirty(s)' /\ ~IsUptodate(s)' /\ refs'[s] = 1
         /\ \A t \in Slots \ {s} : /\ IsDirty(t)' <=> IsDirty(t)
                                   /\ IsUptodate(t)' <=> IsUptodate(t)
                                   /\ refs'[t] = refs[t]
BY DEF Install, DataOK, IsDirty, IsUptodate

(* A read miss that evicts a clean page. *)
LEMMA EvictLists ==
  ASSUME DataOK, ListsPartitionSlots, HashMatchesLists, NEW pl, NEW r, r.page \in Pages,
         lru_find(r.page) = {}, NEW s \in IdleOn(clean_list), Evict(pl, r, s)
  PROVE  /\ ListsPartitionSlots' /\ HashMatchesLists'
         /\ s \in Clean /\ Idle(s) /\ UNCHANGED <<Cached, Dirty>>
<1>1. s \in Slots /\ s \in Clean /\ Idle(s)
  <2>1. s \in Slots /\ s \in Clean
    BY IdleOnType DEF DataOK, Clean
  <2>2. Idle(s)
    BY DEF IdleOn
  <2> QED BY <2>1, <2>2
<1>2. /\ Install(pl, r, s) /\ clean_list' = MoveToHead(clean_list, s)
      /\ hash' = [b \in Buckets |->
                   (hash[b] \ (IF b = HashOf[page[s]] THEN {s} ELSE {}))
                     \cup (IF b = HashOf[r.page] THEN {s} ELSE {})]
      /\ UNCHANGED <<dirty_list, free_clean_list, free_dirty_list>>
  BY DEF Evict
<1>3. Clean' = Clean /\ NoDuplicates(clean_list)'
  BY <1>1, <1>2, ListsNow, MoveToHeadExact DEF Clean, DataOK
<1>4. UNCHANGED <<Dirty, FreeClean, FreeDirty, Cached>>
  BY <1>2, <1>3 DEF Dirty, FreeClean, FreeDirty, Cached
<1>5. ListsPartitionSlots'
  BY <1>2, <1>3, <1>4, ListsNow, ListsStep
<1>6. \A t \in Slots, b \in Buckets :
        t \in hash'[b] <=> IF t = s THEN b = HashOf[r.page] ELSE t \in hash[b]
  <2>1. \A b \in Buckets : s \in hash[b] => b = HashOf[page[s]]
    BY <1>1 DEF HashMatchesLists
  <2> QED BY <1>2, <2>1
<1>7. s \notin Dirty'
  BY <1>1, <1>4, ListsNow
<1>8. HashMatchesLists'
  <2>1. Cached' = Cached \cup {s}
    BY <1>1, <1>4 DEF Cached
  <2>2. /\ page' = [page EXCEPT ![s] = r.page] /\ ~IsDirty(s)'
        /\ \A t \in Slots \ {s} : IsDirty(t)' <=> IsDirty(t)
    BY <1>1, <1>2, InstallSlot
  <2> QED BY <1>1, <1>4, <1>6, <1>7, <2>1, <2>2, FillHash
<1> QED BY <1>1, <1>4, <1>5, <1>8

(* A read miss that takes a free clean page. *)
LEMMA TakeFreeCleanLists ==
  ASSUME DataOK, ListsPartitionSlots, HashMatchesLists, NEW pl, NEW r, r.page \in Pages,
         lru_find(r.page) = {}, TakeFreeClean(pl, r)
  PROVE  /\ ListsPartitionSlots' /\ HashMatchesLists'
         /\ \E s \in Free : /\ Install(pl, r, s)
                            /\ Cached' = Cached \cup {s} /\ UNCHANGED Dirty
<1>1. PICK s \in Slots :
        /\ s \in FreeClean
        /\ Install(pl, r, s)
        /\ free_clean_list' = RemoveNode(free_clean_list, s)
        /\ clean_list' = AddToHead(clean_list, s)
        /\ hash' = [hash EXCEPT ![HashOf[r.page]] = @ \cup {s}]
        /\ UNCHANGED <<dirty_list, free_dirty_list>>
  BY HeadType DEF TakeFreeClean, DataOK, FreeClean
<1>2. /\ free_clean_list \in Seq(Slots) /\ clean_list \in Seq(Slots)
      /\ s \in Slots /\ s \in FreeClean
  BY <1>1 DEF DataOK
<1>3. s \notin Clean /\ s \notin Dirty /\ s \notin FreeDirty /\ s \notin Cached
  BY <1>2, ListsNow DEF Cached
<1>4. FreeClean' = FreeClean \ {s} /\ NoDuplicates(free_clean_list)'
  BY <1>1, <1>2, ListsNow, RemoveNodeExact DEF FreeClean
<1>5. Clean' = Clean \cup {s} /\ NoDuplicates(clean_list)'
  BY <1>1, <1>2, <1>3, ListsNow, AddToHeadExact DEF Clean
<1>6. UNCHANGED <<Dirty, FreeDirty>>
  BY <1>1 DEF Dirty, FreeDirty
<1>7. ListsPartitionSlots'
  BY <1>1, <1>2, <1>3, <1>4, <1>5, <1>6, ListsNow, ListsStep
<1>8. Cached' = Cached \cup {s}
  BY <1>5, <1>6 DEF Cached
<1>9. HashMatchesLists'
  <2>1. \A t \in Slots, b \in Buckets :
          t \in hash'[b] <=> IF t = s THEN b = HashOf[r.page] ELSE t \in hash[b]
    <3>1. \A b \in Buckets : s \notin hash[b]
      BY <1>2, <1>3 DEF HashMatchesLists
    <3> QED BY <1>1, <3>1 DEF DataOK
  <2>2. /\ page' = [page EXCEPT ![s] = r.page] /\ ~IsDirty(s)'
        /\ \A t \in Slots \ {s} : IsDirty(t)' <=> IsDirty(t)
    BY <1>1, <1>2, InstallSlot
  <2>3. s \notin Dirty'
    BY <1>3, <1>6
  <2> QED BY <1>2, <1>6, <1>8, <2>1, <2>2, <2>3, FillHash
<1> QED BY <1>1, <1>2, <1>6, <1>7, <1>8, <1>9 DEF Free, FreeClean

(* A write miss that takes a free dirty page. *)
LEMMA InsertDirtyLists ==
  ASSUME DataOK, ListsPartitionSlots, HashMatchesLists, NEW pl, NEW r, r.page \in Pages,
         lru_find(r.page) = {}, InsertDirty(pl, r)
  PROVE  /\ ListsPartitionSlots' /\ HashMatchesLists'
         /\ \E s \in Free :
              /\ Cached' = Cached \cup {s} /\ Dirty' = Dirty \cup {s}
              /\ page' = [page EXCEPT ![s] = r.page]
              /\ bm_mask' = [bm_mask EXCEPT ![s] = @ \cup r.mask]
              /\ IsUptodate(s)' /\ \A t \in Slots \ {s} : IsUptodate(t)' <=> IsUptodate(t)
         /\ Len(dirty_list') = Len(dirty_list) + 1
         /\ Len(free_dirty_list') = Len(free_dirty_list) - 1
<1>1. PICK s \in Slots :
        /\ s \in FreeDirty
        /\ free_dirty_list' = RemoveNode(free_dirty_list, s)
        /\ dirty_list' = AddToHead(dirty_list, s)
        /\ hash' = [hash EXCEPT ![HashOf[r.page]] = @ \cup {s}]
        /\ page' = [page EXCEPT ![s] = r.page]
        /\ bm_mask' = [bm_mask EXCEPT ![s] = @ \cup r.mask]
        /\ state' = [state EXCEPT ![s] = {"UPTODATE", "DIRTY"}]
        /\ UNCHANGED <<clean_list, free_clean_list>>
  BY HeadType DEF InsertDirty, DataOK, FreeDirty
<1>2. /\ free_dirty_list \in Seq(Slots) /\ dirty_list \in Seq(Slots)
      /\ s \in Slots /\ s \in FreeDirty
  BY <1>1 DEF DataOK
<1>3. s \notin Clean /\ s \notin Dirty /\ s \notin FreeClean /\ s \notin Cached
  BY <1>2, ListsNow DEF Cached
<1>4. /\ FreeDirty' = FreeDirty \ {s} /\ NoDuplicates(free_dirty_list)'
      /\ Len(free_dirty_list') = Len(free_dirty_list) - 1
  BY <1>1, <1>2, ListsNow, RemoveNodeExact, RemoveNodeLen DEF FreeDirty
<1>5. /\ Dirty' = Dirty \cup {s} /\ NoDuplicates(dirty_list)'
      /\ Len(dirty_list') = Len(dirty_list) + 1
  BY <1>1, <1>2, <1>3, ListsNow, AddToHeadExact, AddToHeadLen DEF Dirty
<1>6. UNCHANGED <<Clean, FreeClean>>
  BY <1>1 DEF Clean, FreeClean
<1>7. ListsPartitionSlots'
  BY <1>1, <1>2, <1>3, <1>4, <1>5, <1>6, ListsNow, ListsStep
<1>8. Cached' = Cached \cup {s}
  BY <1>5, <1>6 DEF Cached
<1>9. /\ IsDirty(s)' /\ IsUptodate(s)'
      /\ \A t \in Slots \ {s} : /\ IsDirty(t)' <=> IsDirty(t)
                                /\ IsUptodate(t)' <=> IsUptodate(t)
  <2>1. state \in [Slots -> SUBSET {"DIRTY", "UPTODATE"}]
    BY DEF DataOK
  <2>2. state'[s] = {"UPTODATE", "DIRTY"} /\ \A t \in Slots \ {s} : state'[t] = state[t]
    BY <1>1, <1>2, <2>1
  <2> QED BY <2>2 DEF IsDirty, IsUptodate
<1>10. HashMatchesLists'
  <2>1. \A t \in Slots, b \in Buckets :
          t \in hash'[b] <=> IF t = s THEN b = HashOf[r.page] ELSE t \in hash[b]
    <3>1. \A b \in Buckets : s \notin hash[b]
      BY <1>2, <1>3 DEF HashMatchesLists
    <3> QED BY <1>1, <3>1 DEF DataOK
  <2>2. page' = [page EXCEPT ![s] = r.page]
    BY <1>1
  <2>3. /\ \A t \in Slots \ {s} : (t \in Dirty' <=> t \in Dirty) /\ (IsDirty(t)' <=> IsDirty(t))
        /\ IsDirty(s)' <=> s \in Dirty'
    BY <1>5, <1>9
  <2> QED BY <1>2, <1>8, <2>1, <2>2, <2>3, FillHash
<1>11. s \in Free
  BY <1>2 DEF Free, FreeDirty
<1> QED BY <1>1, <1>4, <1>5, <1>7, <1>8, <1>9, <1>10, <1>11

(* A destaged page that nobody else holds leaves the cache. *)
LEMMA FreeLists ==
  ASSUME DataOK, ListsPartitionSlots, HashMatchesLists, NEW s \in Dirty,
         dirty_list' = RemoveNode(dirty_list, s),
         free_dirty_list' = AddToHead(free_dirty_list, s),
         hash' = [hash EXCEPT ![HashOf[page[s]]] = @ \ {s}],
         UNCHANGED <<page, clean_list, free_clean_list>>,
         \A t \in Slots : IsDirty(t)' <=> IsDirty(t)
  PROVE  /\ ListsPartitionSlots' /\ HashMatchesLists'
         /\ Cached' = Cached \ {s} /\ Dirty' = Dirty \ {s}
         /\ Len(dirty_list') = Len(dirty_list) - 1
         /\ Len(free_dirty_list') = Len(free_dirty_list) + 1
<1>1. /\ free_dirty_list \in Seq(Slots) /\ dirty_list \in Seq(Slots)
      /\ s \in Slots /\ s \notin Clean /\ s \notin FreeDirty /\ s \notin FreeClean
  BY ListedSlots, ListsNow DEF DataOK
<1>2. /\ Dirty' = Dirty \ {s} /\ NoDuplicates(dirty_list)'
      /\ Len(dirty_list') = Len(dirty_list) - 1
  BY <1>1, ListsNow, RemoveNodeExact, RemoveNodeLen DEF Dirty
<1>3. /\ FreeDirty' = FreeDirty \cup {s} /\ NoDuplicates(free_dirty_list)'
      /\ Len(free_dirty_list') = Len(free_dirty_list) + 1
  BY <1>1, ListsNow, AddToHeadExact, AddToHeadLen DEF FreeDirty
<1>4. UNCHANGED <<Clean, FreeClean>>
  BY DEF Clean, FreeClean
<1>5. ListsPartitionSlots'
  BY <1>1, <1>2, <1>3, <1>4, ListsNow, ListsStep
<1>6. Cached' = Cached \ {s} /\ Cached \subseteq Slots /\ s \in Cached
  BY <1>1, <1>2, <1>4, ListedSlots DEF Cached
<1>7. \A t \in Slots, b \in Buckets : t \in hash'[b] <=> t \in hash[b] /\ t # s
  <2>1. \A b \in Buckets : s \in hash[b] => b = HashOf[page[s]]
    BY <1>1 DEF HashMatchesLists
  <2> QED BY <2>1 DEF DataOK
<1>8. HashMatchesLists'
  <2>1. \A t \in Slots, b \in Buckets : t \in hash'[b] <=> t \in Cached' /\ b = HashOf[page'[t]]
    BY <1>6, <1>7 DEF HashMatchesLists
  <2>2. \A t \in Cached' : page'[t] \in Pages /\ (IsDirty(t)' <=> t \in Dirty')
    BY <1>2, <1>6 DEF HashMatchesLists
  <2>3. \A t, u \in Cached' : page'[t] = page'[u] => t = u
    BY <1>6 DEF HashMatchesLists
  <2> QED BY <2>1, <2>2, <2>3 DEF HashMatchesLists
<1> QED BY <1>2, <1>3, <1>5, <1>6, <1>8

-----------------------------------------------------------------------------
(* Who uses a page.                                                          *)

Reads(q, s) == q.pc = "issue" /\ q.slot = s
Uses(q, s) == q.pc \in {"issue", "wait_uptodate"} /\ q.slot = s

(* The members of Work and Users, one by one. *)
LEMMA UsersAre ==
  ASSUME NEW s, NEW u
  PROVE  /\ u \in Work(s) <=>
              \/ \E x \in Players : u = <<"player", x>> /\ Reads(player[x], s)
              \/ u = <<"destager", Destager>> /\ Reads(destager, s)
              \/ \E i \in ios : u = <<"io", i>> /\ s \in Cached /\ i.page = page[s]
         /\ u \in Users(s) <=>
              \/ \E x \in Players : u = <<"player", x>> /\ Uses(player[x], s)
              \/ u = <<"destager", Destager>> /\ Reads(destager, s)
              \/ \E i \in ios : u = <<"io", i>> /\ s \in Cached /\ i.page = page[s]
         /\ u \in Work(s) => u \in Users(s)
<1>1. u \in Work(s) <=>
        \/ \E x \in Players : u = <<"player", x>> /\ Reads(player[x], s)
        \/ u = <<"destager", Destager>> /\ Reads(destager, s)
        \/ \E i \in ios : u = <<"io", i>> /\ s \in Cached /\ i.page = page[s]
  BY DEF Work, Reads
<1>2. u \in Waiters(s) <=>
        \E x \in Players : u = <<"player", x>> /\ player[x].pc = "wait_uptodate" /\ player[x].slot = s
  BY DEF Waiters
<1>3. u \in Users(s) <=> u \in Work(s) \/ u \in Waiters(s)
  BY DEF Users
<1>4. (\E x \in Players : u = <<"player", x>> /\ Uses(player[x], s)) <=>
        \/ \E x \in Players : u = <<"player", x>> /\ Reads(player[x], s)
        \/ \E x \in Players : u = <<"player", x>> /\ player[x].pc = "wait_uptodate" /\ player[x].slot = s
  BY DEF Uses, Reads
<1>5. u \in Users(s) <=>
        \/ \E x \in Players : u = <<"player", x>> /\ Uses(player[x], s)
        \/ u = <<"destager", Destager>> /\ Reads(destager, s)
        \/ \E i \in ios : u = <<"io", i>> /\ s \in Cached /\ i.page = page[s]
  BY <1>1, <1>2, <1>3, <1>4
<1> QED BY <1>1, <1>3, <1>5

(* And after a step. *)
LEMMA UsersAreNext ==
  ASSUME NEW s, NEW u
  PROVE  /\ u \in Work(s)' <=>
              \/ \E x \in Players : u = <<"player", x>> /\ Reads(player'[x], s)
              \/ u = <<"destager", Destager>> /\ Reads(destager', s)
              \/ \E i \in ios' : u = <<"io", i>> /\ s \in Cached' /\ i.page = page'[s]
         /\ u \in Users(s)' <=>
              \/ \E x \in Players : u = <<"player", x>> /\ Uses(player'[x], s)
              \/ u = <<"destager", Destager>> /\ Reads(destager', s)
              \/ \E i \in ios' : u = <<"io", i>> /\ s \in Cached' /\ i.page = page'[s]
<1>1. u \in Work(s)' <=>
        \/ \E x \in Players : u = <<"player", x>> /\ Reads(player'[x], s)
        \/ u = <<"destager", Destager>> /\ Reads(destager', s)
        \/ \E i \in ios' : u = <<"io", i>> /\ s \in Cached' /\ i.page = page'[s]
  BY DEF Work, Reads
<1>2. u \in Waiters(s)' <=>
        \E x \in Players : u = <<"player", x>> /\ player'[x].pc = "wait_uptodate" /\ player'[x].slot = s
  BY DEF Waiters
<1>3. u \in Users(s)' <=> u \in Work(s)' \/ u \in Waiters(s)'
  BY DEF Users
<1>4. (\E x \in Players : u = <<"player", x>> /\ Uses(player'[x], s)) <=>
        \/ \E x \in Players : u = <<"player", x>> /\ Reads(player'[x], s)
        \/ \E x \in Players : u = <<"player", x>> /\ player'[x].pc = "wait_uptodate" /\ player'[x].slot = s
  BY DEF Uses, Reads
<1>5. u \in Users(s)' <=>
        \/ \E x \in Players : u = <<"player", x>> /\ Uses(player'[x], s)
        \/ u = <<"destager", Destager>> /\ Reads(destager', s)
        \/ \E i \in ios' : u = <<"io", i>> /\ s \in Cached' /\ i.page = page'[s]
  BY <1>1, <1>2, <1>3, <1>4
<1> QED BY <1>1, <1>5

(* A set of marked elements is as finite as the set of the elements. *)
LEMMA MarkedFinite ==
  ASSUME NEW S, IsFiniteSet(S), NEW mark
  PROVE  IsFiniteSet({<<mark, x>> : x \in S})
<1> DEFINE f == [x \in S |-> <<mark, x>>]
           T == {<<mark, x>> : x \in S}
<1>1. f \in Surjection(S, T)
  BY DEF Surjection
<1> HIDE DEF f, T
<1>2. IsFiniteSet(T)
  BY <1>1, FS_Surjection
<1> QED BY <1>2 DEF T

(* A page has finitely many users, so they can be counted. *)
LEMMA UsersFinite ==
  ASSUME IsFiniteSet(ios), NEW s
  PROVE  IsFiniteSet(Users(s)) /\ Cardinality(Users(s)) \in Nat
<1> DEFINE P == {<<"player", x>> : x \in Players}
           I == {<<"io", i>> : i \in ios}
           D == {<<"destager", Destager>>}
<1>1. IsFiniteSet(P) /\ IsFiniteSet(I) /\ IsFiniteSet(D)
  <2>1. IsFiniteSet(P)
    BY PlayersAssumption, MarkedFinite, Zenon
  <2>2. IsFiniteSet(I)
    BY MarkedFinite, Zenon
  <2>3. IsFiniteSet(D)
    BY FS_Singleton
  <2> QED BY <2>1, <2>2, <2>3
<1>2. \A u \in Users(s) : u \in P \/ u \in I \/ u \in D
  BY UsersAre
<1> HIDE DEF P, I, D
<1>3. IsFiniteSet((P \cup I) \cup D)
  BY <1>1, FS_Union
<1>4. IsFiniteSet(Users(s))
  BY <1>2, <1>3, FS_Subset
<1> QED BY <1>4, FS_CardinalityType

(* One user more, and one user less. *)
LEMMA CountUsers ==
  ASSUME NEW U, IsFiniteSet(U), NEW u
  PROVE  /\ u \notin U => Cardinality(U \cup {u}) = Cardinality(U) + 1
         /\ u \in U => Cardinality(U \ {u}) = Cardinality(U) - 1
         /\ Cardinality(U) = 0 <=> U = {}
BY FS_AddElement, FS_RemoveElement, FS_EmptySet

(* One user instead of another one. *)
LEMMA CountSwap ==
  ASSUME NEW U, IsFiniteSet(U), NEW u \in U, NEW v, v \notin U
  PROVE  Cardinality((U \ {u}) \cup {v}) = Cardinality(U)
<1>1. IsFiniteSet(U \ {u}) /\ Cardinality(U \ {u}) = Cardinality(U) - 1
  BY FS_RemoveElement
<1>2. Cardinality((U \ {u}) \cup {v}) = Cardinality(U \ {u}) + 1
  BY <1>1, FS_AddElement
<1>3. Cardinality(U) \in Nat
  BY FS_CardinalityType
<1> QED BY <1>1, <1>2, <1>3

(* A player moves: only its own membership changes. *)
LEMMA PlayerUsers ==
  ASSUME PlayersOK, NEW pl \in Players, NEW q, player' = [player EXCEPT ![pl] = q],
         UNCHANGED <<destager, ios>>,
         NEW s \in Slots, s \in Cached' <=> s \in Cached, page'[s] = page[s]
  PROVE  /\ Users(s)' = (Users(s) \ {<<"player", pl>>})
                          \cup {u \in {<<"player", pl>>} : Uses(q, s)}
         /\ Work(s)' = (Work(s) \ {<<"player", pl>>})
                          \cup {u \in {<<"player", pl>>} : Reads(q, s)}
         /\ <<"player", pl>> \in Users(s) <=> Uses(player[pl], s)
         /\ <<"player", pl>> \in Work(s) <=> Reads(player[pl], s)
<1>1. player'[pl] = q /\ \A x \in Players \ {pl} : player'[x] = player[x]
  BY DEF PlayersOK
<1>2. ASSUME NEW u
      PROVE  /\ u \in Work(s)' <=>
                  \/ \E x \in Players : u = <<"player", x>> /\ Reads(player'[x], s)
                  \/ u = <<"destager", Destager>> /\ Reads(destager, s)
                  \/ \E i \in ios : u = <<"io", i>> /\ s \in Cached /\ i.page = page[s]
             /\ u \in Users(s)' <=>
                  \/ \E x \in Players : u = <<"player", x>> /\ Uses(player'[x], s)
                  \/ u = <<"destager", Destager>> /\ Reads(destager, s)
                  \/ \E i \in ios : u = <<"io", i>> /\ s \in Cached /\ i.page = page[s]
  <2>1. /\ u \in Work(s)' <=>
             \/ \E x \in Players : u = <<"player", x>> /\ Reads(player'[x], s)
             \/ u = <<"destager", Destager>> /\ Reads(destager', s)
             \/ \E i \in ios' : u = <<"io", i>> /\ s \in Cached' /\ i.page = page'[s]
        /\ u \in Users(s)' <=>
             \/ \E x \in Players : u = <<"player", x>> /\ Uses(player'[x], s)
             \/ u = <<"destager", Destager>> /\ Reads(destager', s)
             \/ \E i \in ios' : u = <<"io", i>> /\ s \in Cached' /\ i.page = page'[s]
    BY UsersAreNext
  <2> QED BY <2>1
<1>3. ASSUME NEW u
      PROVE  /\ u \in Users(s)' <=> \/ u \in Users(s) /\ u # <<"player", pl>>
                                    \/ u = <<"player", pl>> /\ Uses(q, s)
             /\ u \in Work(s)' <=> \/ u \in Work(s) /\ u # <<"player", pl>>
                                   \/ u = <<"player", pl>> /\ Reads(q, s)
  BY <1>1, <1>2, UsersAre
<1>4. /\ <<"player", pl>> \in Users(s) <=> Uses(player[pl], s)
      /\ <<"player", pl>> \in Work(s) <=> Reads(player[pl], s)
  BY UsersAre
<1>5. Users(s)' = (Users(s) \ {<<"player", pl>>}) \cup {u \in {<<"player", pl>>} : Uses(q, s)}
  BY <1>3
<1>6. Work(s)' = (Work(s) \ {<<"player", pl>>}) \cup {u \in {<<"player", pl>>} : Reads(q, s)}
  BY <1>3
<1> QED BY <1>4, <1>5, <1>6

-----------------------------------------------------------------------------
(* The inductive invariant.                                                  *)

UsersOK == RefsCountUsers /\ OneIoPerPage /\ CallbackFindsPage /\ ThreadsHold

BookInv ==
  /\ TypeInv /\ IsFiniteSet(ios)
  /\ ListsPartitionSlots /\ HashMatchesLists
  /\ UsersOK

(* The slot that a player's place in a request names is the page's. *)
HoldsSlot(q, cached, pg) ==
  /\ q.pc \in {"wait_uptodate", "issue"} => q.slot \in cached /\ pg[q.slot] = q.page
  /\ q.pc = "wait_exchange" => q.slot = NoSlot

(* lru_find after a step. *)
LEMMA FindExactNext ==
  ASSUME DataOK', HashMatchesLists', NEW p \in Pages
  PROVE  lru_find(p)' = {s \in Cached' : page'[s] = p}
<1>1. HashOf[p] \in Buckets /\ hash'[HashOf[p]] \subseteq Slots
  BY PagesAssumption DEF DataOK
<1>2. Cached' \subseteq Slots
  BY DEF DataOK, Clean, Dirty, Cached, Elements
<1>3. ASSUME NEW s PROVE s \in lru_find(p)' <=> s \in Cached' /\ page'[s] = p
  BY <1>1, <1>2 DEF lru_find, HashMatchesLists
<1> QED BY <1>3

(* A slot without references has no user: no thread is on its way to it and  *)
(* no I/O is outstanding for it.                                             *)
LEMMA UnusedSlot ==
  ASSUME IsFiniteSet(ios), RefsCountUsers, NEW s \in Slots, refs[s] = 0
  PROVE  Users(s) = {}
<1>1. Cardinality(Users(s)) = 0
  BY DEF RefsCountUsers
<1> QED BY <1>1, UsersFinite, CountUsers

(* Neither has a slot on a free list. *)
LEMMA FreeUnused ==
  ASSUME BookInv, NEW s \in Free
  PROVE  s \in Slots /\ s \notin Cached /\ refs[s] = 0 /\ Users(s) = {}
<1>1. s \in Slots /\ s \notin Cached
  BY ListedSlots DEF BookInv, TypeInv, ListsPartitionSlots
<1>2. Dirty \subseteq Cached
  BY DEF Cached
<1>3. \A u : u \notin Users(s)
  BY <1>1, <1>2, UsersAre DEF BookInv, UsersOK, ThreadsHold, Uses, Reads
<1>4. Users(s) = {}
  BY <1>3
<1>5. refs[s] = 0
  BY <1>1, <1>4, FS_EmptySet DEF BookInv, UsersOK, RefsCountUsers
<1> QED BY <1>1, <1>4, <1>5

(* The threads keep hold of their pages when only one player moves, and the  *)
(* pages that anybody uses stay where they are.                              *)
LEMMA PlayerHolds ==
  ASSUME BookInv, NEW pl \in Players, NEW q, player' = [player EXCEPT ![pl] = q],
         player[pl].pc # "callback", HoldsSlot(q, Cached', page'),
         UNCHANGED <<destager, ios, destage_cnt>>, Dirty \subseteq Dirty',
         \A s \in Cached : Users(s) # {} => s \in Cached' /\ page'[s] = page[s]
  PROVE  ThreadsHold'
<1>1. player'[pl] = q /\ \A x \in Players \ {pl} : player'[x] = player[x]
  BY DEF BookInv, TypeInv, PlayersOK
<1>2. ASSUME NEW x \in Players PROVE HoldsSlot(player'[x], Cached', page')
  <2>1. CASE x = pl
    BY <1>1, <2>1
  <2>2. CASE x # pl
    <3>1. HoldsSlot(player[x], Cached, page)
      BY DEF HoldsSlot, BookInv, UsersOK, ThreadsHold
    <3>2. player[x].pc \in {"wait_uptodate", "issue"} => <<"player", x>> \in Users(player[x].slot)
      BY UsersAre DEF Uses
    <3>3. player'[x] = player[x]
      BY <1>1, <2>2
    <3> QED BY <3>1, <3>2, <3>3 DEF HoldsSlot
  <2> QED BY <2>1, <2>2
<1>3. \A io \in ios' : io.by \in Players => player'[io.by].pc = "callback"
  BY <1>1 DEF BookInv, UsersOK, ThreadsHold
<1>4. /\ destager'.pc = "issue" => destager'.slot \in Dirty'
      /\ destager'.pc \in {"lock", "spin"} => destage_cnt' < RaidDisks
      /\ \A io \in ios' : io.by = Destager => destager'.pc = "callback"
      /\ \A i, j \in ios' : i.by = j.by /\ i.by # Disk => i = j
  BY DEF BookInv, UsersOK, ThreadsHold
<1> QED BY <1>2, <1>3, <1>4 DEF ThreadsHold, HoldsSlot

(* A player's step on pages that are cached already. *)
LEMMA PlayerKeepsUsers ==
  ASSUME BookInv, NEW pl \in Players, NEW q, player' = [player EXCEPT ![pl] = q],
         player[pl].pc \notin {"issue", "callback"}, HoldsSlot(q, Cached, page),
         UNCHANGED <<destager, ios, destage_cnt, page, hash, Cached>>, Dirty \subseteq Dirty',
         HashMatchesLists',
         \A s \in Slots : refs'[s] = (refs[s] - (IF Uses(player[pl], s) THEN 1 ELSE 0))
                                       + (IF Uses(q, s) THEN 1 ELSE 0),
         \A s \in Cached : /\ IsUptodate(s)' <=> IsUptodate(s) /\ ~Reads(q, s)
                           /\ Reads(q, s) => IsUptodate(s)
  PROVE  UsersOK'
<1>1. Cached \subseteq Slots /\ PlayersOK /\ refs \in [Slots -> Int]
  BY ListedSlots DEF BookInv, TypeInv, DataOK
<1>2. RefsCountUsers'
  <2> SUFFICES ASSUME NEW s \in Slots PROVE refs'[s] = Cardinality(Users(s)')
    BY DEF RefsCountUsers
  <2> DEFINE me == <<"player", pl>>
             U == Users(s)
             V == U \ {me}
  <2>1. /\ Users(s)' = V \cup {u \in {me} : Uses(q, s)}
        /\ me \in U <=> Uses(player[pl], s)
    BY <1>1, PlayerUsers
  <2>2. IsFiniteSet(U) /\ Cardinality(U) \in Nat /\ refs[s] = Cardinality(U)
    BY UsersFinite DEF BookInv, UsersOK, RefsCountUsers
  <2> HIDE DEF U
  <2>3. IsFiniteSet(V) /\ Cardinality(V) = Cardinality(U) - (IF Uses(player[pl], s) THEN 1 ELSE 0)
    <3>1. IsFiniteSet(V) /\ Cardinality(V) = IF me \in U THEN Cardinality(U) - 1 ELSE Cardinality(U)
      BY <2>2, FS_RemoveElement
    <3> QED BY <2>1, <2>2, <3>1
  <2>4. me \notin V
    OBVIOUS
  <2> HIDE DEF V, me
  <2>5. CASE Uses(q, s)
    <3>1. Users(s)' = V \cup {me}
      BY <2>1, <2>5
    <3>2. Cardinality(V \cup {me}) = Cardinality(V) + 1
      BY <2>3, <2>4, CountUsers
    <3> QED BY <2>2, <2>3, <2>5, <3>1, <3>2
  <2>6. CASE ~Uses(q, s)
    <3>1. Users(s)' = V
      BY <2>1, <2>6
    <3> QED BY <2>2, <2>3, <2>6, <3>1
  <2> QED BY <2>5, <2>6
<1>3. OneIoPerPage'
  <2> SUFFICES ASSUME NEW s \in Cached
               PROVE  /\ IsUptodate(s)' <=> Work(s)' = {}
                      /\ \A x, y \in Work(s)' : x = y
    BY DEF OneIoPerPage
  <2>1. s \in Slots /\ UNCHANGED Cached /\ page' = page
    BY <1>1
  <2>2. /\ Work(s)' = (Work(s) \ {<<"player", pl>>}) \cup {u \in {<<"player", pl>>} : Reads(q, s)}
        /\ <<"player", pl>> \notin Work(s)
    <3>1. /\ Work(s)' = (Work(s) \ {<<"player", pl>>}) \cup {u \in {<<"player", pl>>} : Reads(q, s)}
          /\ <<"player", pl>> \in Work(s) <=> Reads(player[pl], s)
      BY <1>1, <2>1, PlayerUsers
    <3>2. ~Reads(player[pl], s)
      BY DEF Reads
    <3> QED BY <3>1, <3>2
  <2>3. (IsUptodate(s) <=> Work(s) = {}) /\ \A x, y \in Work(s) : x = y
    BY DEF BookInv, UsersOK, OneIoPerPage
  <2>4. CASE Reads(q, s)
    <3>1. Work(s)' = {<<"player", pl>>}
      BY <2>2, <2>3, <2>4
    <3> QED BY <2>4, <3>1
  <2>5. CASE ~Reads(q, s)
    <3>1. Work(s)' = Work(s)
      BY <2>2, <2>5
    <3> QED BY <2>3, <2>5, <3>1
  <2> QED BY <2>4, <2>5
<1>4. CallbackFindsPage'
  <2> SUFFICES ASSUME NEW io \in ios
               PROVE  \E s \in lru_find(io.page)' : io.kind # "read" => IsDirty(s)'
    BY DEF CallbackFindsPage
  <2>1. PICK s \in lru_find(io.page) : io.kind # "read" => IsDirty(s)
    BY DEF BookInv, UsersOK, CallbackFindsPage
  <2>2. io.page \in Pages
    BY DEF BookInv, TypeInv, EnvironmentOK, IoRecords
  <2>3. s \in lru_find(io.page)'
    BY <2>1 DEF lru_find
  <2>4. s \in Cached
    BY <2>1, <2>2, FindExact DEF BookInv, TypeInv
  <2>5. IsDirty(s) => IsDirty(s)'
    BY <2>4 DEF BookInv, HashMatchesLists
  <2> QED BY <2>1, <2>3, <2>5
<1>5. ThreadsHold'
  BY PlayerHolds
<1> QED BY <1>2, <1>3, <1>4, <1>5 DEF UsersOK

(* A player puts a page that was not cached into a slot that nobody uses. *)
LEMMA PlayerFillsUsers ==
  ASSUME BookInv, NEW pl \in Players, NEW q, player' = [player EXCEPT ![pl] = q],
         player[pl].pc \notin {"issue", "wait_uptodate", "callback"},
         UNCHANGED <<destager, ios, destage_cnt>>, Dirty \subseteq Dirty',
         NEW s \in Slots, NEW p \in Pages, lru_find(p) = {}, refs[s] = 0,
         page' = [page EXCEPT ![s] = p], Cached' = Cached \cup {s},
         DataOK', HashMatchesLists',
         \A t \in Slots \ {s} : refs'[t] = refs[t] /\ (IsUptodate(t)' <=> IsUptodate(t)),
         HoldsSlot(q, {s}, page'),
         \/ Reads(q, s) /\ refs'[s] = 1 /\ ~IsUptodate(s)'
         \/ q.pc = "idle" /\ refs'[s] = 0 /\ IsUptodate(s)'
  PROVE  UsersOK'
<1>1. /\ Cached \subseteq Slots /\ PlayersOK /\ DataOK
      /\ page'[s] = p /\ \A t \in Slots \ {s} : page'[t] = page[t]
  BY ListedSlots DEF BookInv, TypeInv, DataOK
<1>2. Users(s) = {}
  BY UnusedSlot DEF BookInv, UsersOK
<1>3. player'[pl] = q /\ \A x \in Players \ {pl} : player'[x] = player[x]
  BY <1>1 DEF PlayersOK
<1>4. \A io \in ios : io.page \in Pages /\ io.page # p
  BY DEF BookInv, UsersOK, CallbackFindsPage, TypeInv, EnvironmentOK, IoRecords
<1>5. ASSUME NEW u
      PROVE  /\ u \in Users(s)' <=> u = <<"player", pl>> /\ Uses(q, s)
             /\ u \in Work(s)' <=> u = <<"player", pl>> /\ Reads(q, s)
  <2>1. /\ \A x \in Players : ~Uses(player[x], s) /\ ~Reads(player[x], s)
        /\ ~Reads(destager, s)
    BY <1>2, UsersAre DEF Uses, Reads
  <2>2. \A i \in ios' : i.page # page'[s]
    BY <1>1, <1>4
  <2>3. ~Reads(destager', s)
    BY <2>1
  <2> QED BY <1>3, <2>1, <2>2, <2>3, UsersAreNext
<1>6. ASSUME NEW t \in Slots \ {s}
      PROVE  Users(t)' = Users(t) /\ Work(t)' = Work(t)
  <2>1. ~Uses(q, t) /\ ~Uses(player[pl], t) /\ ~Reads(q, t) /\ ~Reads(player[pl], t)
    BY DEF Uses, Reads, HoldsSlot
  <2>2. (t \in Cached' <=> t \in Cached) /\ page'[t] = page[t] /\ t \in Slots
    BY <1>1
  <2>3. /\ Users(t)' = (Users(t) \ {<<"player", pl>>})
                          \cup {u \in {<<"player", pl>>} : Uses(q, t)}
        /\ Work(t)' = (Work(t) \ {<<"player", pl>>})
                          \cup {u \in {<<"player", pl>>} : Reads(q, t)}
        /\ <<"player", pl>> \in Users(t) <=> Uses(player[pl], t)
        /\ <<"player", pl>> \in Work(t) <=> Reads(player[pl], t)
    BY <1>1, <2>2, PlayerUsers
  <2> QED BY <2>1, <2>3
<1>7. RefsCountUsers'
  <2>1. \A t \in Slots \ {s} : refs'[t] = Cardinality(Users(t)')
    BY <1>6 DEF RefsCountUsers, BookInv, UsersOK
  <2>2. CASE q.pc = "idle" /\ refs'[s] = 0
    <3>1. Users(s)' = {}
      BY <1>5, <2>2 DEF Uses
    <3>2. refs'[s] = Cardinality(Users(s)')
      BY <2>2, <3>1, FS_EmptySet
    <3> QED BY <2>1, <3>2 DEF RefsCountUsers
  <2>3. CASE Reads(q, s) /\ refs'[s] = 1
    <3>1. Uses(q, s)
      BY <2>3 DEF Uses, Reads
    <3>2. Users(s)' = {<<"player", pl>>}
      BY <1>5, <3>1
    <3>3. Cardinality({<<"player", pl>>}) = 1
      BY FS_Singleton
    <3>4. refs'[s] = Cardinality(Users(s)')
      BY <2>3, <3>2, <3>3
    <3> QED BY <2>1, <3>4 DEF RefsCountUsers
  <2> QED BY <2>2, <2>3
<1>8. OneIoPerPage'
  <2> SUFFICES ASSUME NEW t \in Cached \cup {s}
               PROVE  /\ IsUptodate(t)' <=> Work(t)' = {}
                      /\ \A x, y \in Work(t)' : x = y
    BY DEF OneIoPerPage
  <2>1. CASE t = s
    <3>1. Reads(q, s) <=> Work(s)' # {}
      BY <1>5
    <3>2. Reads(q, s) <=> ~IsUptodate(s)'
      BY DEF Reads
    <3> QED BY <1>5, <2>1, <3>1, <3>2
  <2>2. CASE t # s
    <3>1. t \in Cached /\ t \in Slots \ {s}
      BY <1>1, <2>2
    <3>2. (IsUptodate(t) <=> Work(t) = {}) /\ \A x, y \in Work(t) : x = y
      BY <3>1 DEF BookInv, UsersOK, OneIoPerPage
    <3> QED BY <1>6, <3>1, <3>2
  <2> QED BY <2>1, <2>2
<1>9. CallbackFindsPage'
  <2> SUFFICES ASSUME NEW io \in ios
               PROVE  \E t \in lru_find(io.page)' : io.kind # "read" => IsDirty(t)'
    BY DEF CallbackFindsPage
  <2>1. PICK t \in lru_find(io.page) : io.kind # "read" => IsDirty(t)
    BY DEF BookInv, UsersOK, CallbackFindsPage
  <2>2. t \in Cached /\ page[t] = io.page
    BY <1>1, <1>4, <2>1, FindExact DEF BookInv
  <2>3. t # s
    <3>1. <<"io", io>> \in Users(t)
      BY <2>2, UsersAre
    <3> QED BY <1>2, <3>1
  <2>4. t \in Cached' /\ page'[t] = io.page
    BY <1>1, <2>2, <2>3
  <2>5. t \in lru_find(io.page)'
    BY <1>4, <2>4, FindExactNext
  <2>6. IsDirty(t) => IsDirty(t)'
    BY <2>2, <2>4 DEF BookInv, HashMatchesLists
  <2> QED BY <2>1, <2>5, <2>6
<1>10. ThreadsHold'
  <2>1. HoldsSlot(q, Cached', page')
    BY DEF HoldsSlot
  <2>2. \A t \in Cached : Users(t) # {} => t \in Cached' /\ page'[t] = page[t]
    BY <1>1, <1>2
  <2> QED BY <2>1, <2>2, PlayerHolds
<1> QED BY <1>7, <1>8, <1>9, <1>10 DEF UsersOK

(* A thread that issues the I/O of a page hands its place among the users of *)
(* the page to the I/O.                                                      *)
LEMMA IssueKeepsUsers ==
  ASSUME BookInv, NEW s \in Cached, NEW a \in Work(s), NEW io,
         ios' = ios \cup {io}, io.page = page[s], a # <<"io", io>>,
         io.kind # "read" => IsDirty(s),
         UNCHANGED <<page, state, refs, hash, Cached>>,
         \A t \in Slots :
           /\ Users(t)' = (Users(t) \ {a}) \cup {u \in {<<"io", io>>} : t = s}
           /\ Work(t)' = (Work(t) \ {a}) \cup {u \in {<<"io", io>>} : t = s}
           /\ t # s => a \notin Users(t)
  PROVE  IsFiniteSet(ios') /\ RefsCountUsers' /\ OneIoPerPage' /\ CallbackFindsPage'
<1>1. /\ s \in Slots /\ Cached \subseteq Slots /\ page[s] \in Pages
      /\ IsFiniteSet(ios) /\ RefsCountUsers /\ OneIoPerPage /\ CallbackFindsPage
  BY ListedSlots DEF BookInv, TypeInv, HashMatchesLists, UsersOK
<1>2. IsFiniteSet(ios')
  BY <1>1, FS_AddElement
<1>3. a \in Users(s) /\ \A t : Work(t) \subseteq Users(t)
  BY UsersAre
<1>4. <<"io", io>> \notin Users(s)
  <2>1. <<"io", io>> \in Users(s) => <<"io", io>> \in Work(s)
    BY UsersAre
  <2> QED BY <1>1, <2>1 DEF OneIoPerPage
<1>5. RefsCountUsers'
  <2> SUFFICES ASSUME NEW t \in Slots PROVE refs[t] = Cardinality(Users(t)')
    BY DEF RefsCountUsers
  <2>1. CASE t = s
    <3>1. Users(s)' = (Users(s) \ {a}) \cup {<<"io", io>>}
      BY <1>1
    <3>2. Cardinality((Users(s) \ {a}) \cup {<<"io", io>>}) = Cardinality(Users(s))
      BY <1>1, <1>3, <1>4, UsersFinite, CountSwap
    <3> QED BY <1>1, <2>1, <3>1, <3>2 DEF RefsCountUsers
  <2>2. CASE t # s
    <3>1. Users(t)' = Users(t)
      BY <2>2
    <3> QED BY <1>1, <3>1 DEF RefsCountUsers
  <2> QED BY <2>1, <2>2
<1>6. OneIoPerPage'
  <2> SUFFICES ASSUME NEW t \in Cached
               PROVE  /\ IsUptodate(t) <=> Work(t)' = {}
                      /\ \A x, y \in Work(t)' : x = y
    BY DEF OneIoPerPage, IsUptodate
  <2>1. (IsUptodate(t) <=> Work(t) = {}) /\ \A x, y \in Work(t) : x = y
    BY <1>1 DEF OneIoPerPage
  <2>2. CASE t = s
    <3>1. Work(s)' = {<<"io", io>>}
      BY <1>1, <2>1, <2>2
    <3> QED BY <2>1, <2>2, <3>1
  <2>3. CASE t # s
    <3>1. a \notin Work(t)
      BY <1>1, <1>3, <2>3
    <3>2. Work(t)' = Work(t) \ {a}
      BY <1>1, <2>3
    <3> QED BY <2>1, <3>1, <3>2
  <2> QED BY <2>2, <2>3
<1>7. CallbackFindsPage'
  <2>1. \A i \in ios : \E t \in lru_find(i.page) : i.kind # "read" => IsDirty(t)
    BY <1>1 DEF CallbackFindsPage
  <2>2. s \in lru_find(io.page)
    BY <1>1, FindExact DEF BookInv, TypeInv
  <2>3. \A p : lru_find(p)' = lru_find(p)
    BY DEF lru_find
  <2>4. \A t : IsDirty(t)' <=> IsDirty(t)
    BY DEF IsDirty
  <2>5. \A i \in ios' : \E t \in lru_find(i.page) : i.kind # "read" => IsDirty(t)
    BY <2>1, <2>2
  <2> QED BY <2>3, <2>4, <2>5 DEF CallbackFindsPage
<1> QED BY <1>2, <1>5, <1>6, <1>7

(* A player issues its read. *)
LEMMA IssueReadUsers ==
  ASSUME BookInv, NEW pl \in Players, IssueRead(pl)
  PROVE  IsFiniteSet(ios') /\ UsersOK'
<1> DEFINE s == player[pl].slot
           io == [page |-> player[pl].page, kind |-> "read",
                  by |-> IF start_urio THEN Disk ELSE pl]
<1>1. /\ player[pl].pc = "issue" /\ ios' = ios \cup {io}
      /\ UNCHANGED <<page, state, refs, hash, destage_cnt, destager, Cached, Dirty>>
      /\ IF start_urio THEN Return(pl) ELSE Suspend(pl, player[pl], "callback")
  BY DEF IssueRead, Submit, slotVars, listVars, counterVars, Cached, Clean, Dirty
<1>2. /\ PlayersOK /\ player[pl] \in PlayerStates /\ ThreadsHold
      /\ s \in Cached /\ page[s] = player[pl].page /\ Cached \subseteq Slots
  BY <1>1, ListedSlots DEF BookInv, TypeInv, PlayersOK, UsersOK, ThreadsHold
<1> DEFINE q == IF start_urio THEN IdlePlayer ELSE [player[pl] EXCEPT !.pc = "callback"]
<1>3. /\ player' = [player EXCEPT ![pl] = q]
      /\ q.pc = (IF start_urio THEN "idle" ELSE "callback")
  <2>1. [player[pl] EXCEPT !.pc = "callback"].pc = "callback" /\ IdlePlayer.pc = "idle"
    BY <1>2 DEF PlayerStates, IdlePlayer
  <2> QED BY <1>1, <2>1 DEF Return, Suspend
<1> HIDE DEF q
<1>4. player'[pl] = q /\ \A x \in Players \ {pl} : player'[x] = player[x]
  BY <1>2, <1>3 DEF PlayersOK
<1>5. /\ io.page = page[s] /\ io.kind = "read" /\ io.by = (IF start_urio THEN Disk ELSE pl)
      /\ Reads(player[pl], s) /\ <<"player", pl>> \in Work(s)
      /\ <<"player", pl>> # <<"io", io>>
  BY <1>1, <1>2, UsersAre DEF Reads
<1> HIDE DEF io
<1>6. \A t \in Slots \ {s} : ~Uses(player[pl], t)
  BY DEF Uses
<1>7. Uses(player[pl], s)
  BY <1>1 DEF Uses
<1> HIDE DEF s
<1>8. ASSUME NEW t \in Slots
      PROVE  /\ Users(t)' = (Users(t) \ {<<"player", pl>>}) \cup {u \in {<<"io", io>>} : t = s}
             /\ Work(t)' = (Work(t) \ {<<"player", pl>>}) \cup {u \in {<<"io", io>>} : t = s}
             /\ t # s => <<"player", pl>> \notin Users(t)
  <2>1. ~Uses(q, t) /\ ~Reads(q, t)
    BY <1>3 DEF Uses, Reads
  <2>2. t \in Cached /\ io.page = page[t] <=> t = s
    BY <1>2, <1>5 DEF BookInv, HashMatchesLists
  <2>3. ASSUME NEW u
        PROVE  /\ u \in Users(t)' <=> \/ u \in Users(t) /\ u # <<"player", pl>>
                                      \/ u = <<"io", io>> /\ t = s
               /\ u \in Work(t)' <=> \/ u \in Work(t) /\ u # <<"player", pl>>
                                     \/ u = <<"io", io>> /\ t = s
    <3>1. (\E i \in ios' : u = <<"io", i>> /\ t \in Cached' /\ i.page = page'[t]) <=>
            \/ \E i \in ios : u = <<"io", i>> /\ t \in Cached /\ i.page = page[t]
            \/ u = <<"io", io>> /\ t = s
      BY <1>1, <2>2
    <3>2. (\E x \in Players : u = <<"player", x>> /\ Uses(player'[x], t)) <=>
            /\ \E x \in Players : u = <<"player", x>> /\ Uses(player[x], t)
            /\ u # <<"player", pl>>
      BY <1>4, <2>1
    <3>3. (\E x \in Players : u = <<"player", x>> /\ Reads(player'[x], t)) <=>
            /\ \E x \in Players : u = <<"player", x>> /\ Reads(player[x], t)
            /\ u # <<"player", pl>>
      BY <1>4, <2>1
    <3>4. u = <<"destager", Destager>> /\ Reads(destager', t) <=>
            u = <<"destager", Destager>> /\ Reads(destager, t) /\ u # <<"player", pl>>
      BY <1>1
    <3>5. \A i : <<"io", i>> # <<"player", pl>>
      OBVIOUS
    <3>6. u \in Users(t)' <=> \/ u \in Users(t) /\ u # <<"player", pl>>
                              \/ u = <<"io", io>> /\ t = s
      BY <3>1, <3>2, <3>4, <3>5, UsersAre, UsersAreNext
    <3>7. u \in Work(t)' <=> \/ u \in Work(t) /\ u # <<"player", pl>>
                             \/ u = <<"io", io>> /\ t = s
      BY <3>1, <3>3, <3>4, <3>5, UsersAre, UsersAreNext
    <3> QED BY <3>6, <3>7
  <2>4. t # s => <<"player", pl>> \notin Users(t)
    BY <1>6, UsersAre
  <2> QED BY <2>3, <2>4
<1>9. IsFiniteSet(ios') /\ RefsCountUsers' /\ OneIoPerPage' /\ CallbackFindsPage'
  BY <1>1, <1>2, <1>5, <1>8, IssueKeepsUsers
<1>10. ThreadsHold'
  <2>1. \A x \in Players : HoldsSlot(player'[x], Cached', page')
    BY <1>1, <1>2, <1>3, <1>4 DEF ThreadsHold, HoldsSlot
  <2>2. \A i \in ios : i.by # pl
    BY <1>1, <1>2 DEF ThreadsHold
  <2>3. \A i \in ios' : i.by \in Players => player'[i.by].pc = "callback"
    BY <1>1, <1>2, <1>3, <1>4, <1>5, <2>2, RunnersAssumption DEF ThreadsHold
  <2>4. \A i \in ios' : i.by = Destager => destager'.pc = "callback"
    BY <1>1, <1>2, <1>5, RunnersAssumption DEF ThreadsHold
  <2>5. \A i, j \in ios' : i.by = j.by /\ i.by # Disk => i = j
    BY <1>1, <1>2, <1>5, <2>2 DEF ThreadsHold
  <2>6. /\ destager'.pc = "issue" => destager'.slot \in Dirty'
        /\ destager'.pc \in {"lock", "spin"} => destage_cnt' < RaidDisks
    BY <1>1, <1>2 DEF ThreadsHold
  <2> QED BY <2>1, <2>3, <2>4, <2>5, <2>6 DEF ThreadsHold, HoldsSlot
<1> QED BY <1>9, <1>10 DEF UsersOK

(* The destage thread takes an idle dirty page. *)
LEMMA PickUsers ==
  ASSUME BookInv, NEW s \in Dirty, Idle(s), destager.pc \in {"lock", "spin"},
         state' = [state EXCEPT ![s] = @ \ {"UPTODATE"}],
         refs' = [refs EXCEPT ![s] = @ + 1],
         NEW full, destager' = [pc |-> "issue", slot |-> s, full |-> full],
         UNCHANGED <<page, hash, player, ios, Cached, Dirty>>
  PROVE  UsersOK'
<1> DEFINE me == <<"destager", Destager>>
<1>1. /\ s \in Slots /\ s \in Cached /\ Cached \subseteq Slots
      /\ IsFiniteSet(ios) /\ RefsCountUsers /\ OneIoPerPage /\ CallbackFindsPage /\ ThreadsHold
      /\ \A t \in Slots : refs'[t] = IF t = s THEN 1 ELSE refs[t]
  BY ListedSlots DEF BookInv, TypeInv, DataOK, UsersOK, Cached, Idle
<1>2. \A t \in Slots : /\ IsUptodate(t)' <=> IsUptodate(t) /\ t # s
                       /\ IsDirty(t)' <=> IsDirty(t)
  <2>1. state \in [Slots -> SUBSET {"DIRTY", "UPTODATE"}]
    BY DEF BookInv, TypeInv, DataOK
  <2> QED BY <2>1 DEF IsUptodate, IsDirty
<1>3. Users(s) = {} /\ Work(s) = {}
  <2>1. Users(s) = {}
    BY <1>1, UnusedSlot DEF Idle
  <2> QED BY <2>1, UsersAre
<1>4. ASSUME NEW t \in Slots
      PROVE  /\ Users(t)' = IF t = s THEN {me} ELSE Users(t)
             /\ Work(t)' = IF t = s THEN {me} ELSE Work(t)
  <2>1. Reads(destager', t) <=> t = s
    BY DEF Reads
  <2>2. ~Reads(destager, t)
    BY DEF Reads
  <2>3. ASSUME NEW u
        PROVE  /\ u \in Users(t)' <=> u \in Users(t) \/ (u = me /\ t = s)
               /\ u \in Work(t)' <=> u \in Work(t) \/ (u = me /\ t = s)
    <3>1. player' = player /\ ios' = ios /\ page'[t] = page[t] /\ (t \in Cached' <=> t \in Cached)
      OBVIOUS
    <3> QED BY <2>1, <2>2, <3>1, UsersAre, UsersAreNext
  <2> HIDE DEF me
  <2>4. CASE t = s
    BY <1>3, <2>3, <2>4
  <2>5. CASE t # s
    BY <2>3, <2>5
  <2> QED BY <2>4, <2>5
<1>5. RefsCountUsers'
  <2>1. Cardinality({me}) = 1
    BY FS_Singleton
  <2> QED BY <1>1, <1>4, <2>1 DEF RefsCountUsers
<1>6. OneIoPerPage'
  <2> SUFFICES ASSUME NEW t \in Cached
               PROVE  /\ IsUptodate(t)' <=> Work(t)' = {}
                      /\ \A x, y \in Work(t)' : x = y
    BY DEF OneIoPerPage
  <2>1. t \in Slots
    BY <1>1
  <2>2. (IsUptodate(t) <=> Work(t) = {}) /\ \A x, y \in Work(t) : x = y
    BY <1>1 DEF OneIoPerPage
  <2> QED BY <1>2, <1>4, <2>1, <2>2
<1>7. CallbackFindsPage'
  <2>1. \A p : lru_find(p)' = lru_find(p)
    BY DEF lru_find
  <2>2. \A i \in ios : \E t \in lru_find(i.page) : t \in Slots /\ (i.kind # "read" => IsDirty(t))
    <3>1. \A i \in ios : i.page \in Pages
      BY DEF BookInv, TypeInv, EnvironmentOK, IoRecords
    <3> QED BY <1>1, <3>1, FindType DEF CallbackFindsPage, BookInv, TypeInv
  <2>3. \A i \in ios : \E t \in lru_find(i.page) : i.kind # "read" => IsDirty(t)'
    BY <1>2, <2>2
  <2> QED BY <2>1, <2>3 DEF CallbackFindsPage
<1>8. ThreadsHold'
  <2>1. \A i \in ios : i.by # Destager
    BY <1>1 DEF ThreadsHold
  <2> QED BY <1>1, <2>1 DEF ThreadsHold
<1> QED BY <1>5, <1>6, <1>7, <1>8 DEF UsersOK

(* The destage thread issues its read or write. *)
LEMMA IssueDestageUsers ==
  ASSUME BookInv, IssueDestage
  PROVE  IsFiniteSet(ios') /\ UsersOK'
<1> DEFINE s == destager.slot
           me == <<"destager", Destager>>
           io == [page |-> page[s],
                  kind |-> IF destager.full THEN "destage_write" ELSE "destage_read",
                  by |-> IF start_urio THEN Disk ELSE Destager]
<1>1. /\ destager.pc = "issue" /\ ios' = ios \cup {io}
      /\ UNCHANGED <<page, state, refs, hash, destage_cnt, player, Cached, Dirty>>
      /\ destager' = IF start_urio THEN IdleDestager ELSE [destager EXCEPT !.pc = "callback"]
  BY DEF IssueDestage, Submit, slotVars, listVars, counterVars, Cached, Clean, Dirty
<1>2. /\ destager \in DestagerStates /\ ThreadsHold
      /\ s \in Dirty /\ s \in Cached /\ IsDirty(s) /\ Cached \subseteq Slots
  BY <1>1, ListedSlots
     DEF BookInv, TypeInv, DestagerOK, UsersOK, ThreadsHold, HashMatchesLists, Cached
<1>3. destager'.pc = IF start_urio THEN "check" ELSE "callback"
  BY <1>1, <1>2 DEF IdleDestager, DestagerStates
<1>4. /\ io.page = page[s] /\ io.by = (IF start_urio THEN Disk ELSE Destager)
      /\ Reads(destager, s) /\ me \in Work(s) /\ me # <<"io", io>>
  BY <1>1, UsersAre DEF Reads
<1>5. \A t \in Slots \ {s} : ~Reads(destager, t)
  BY DEF Reads
<1> HIDE DEF io, s
<1>6. ASSUME NEW t \in Slots
      PROVE  /\ Users(t)' = (Users(t) \ {me}) \cup {u \in {<<"io", io>>} : t = s}
             /\ Work(t)' = (Work(t) \ {me}) \cup {u \in {<<"io", io>>} : t = s}
             /\ t # s => me \notin Users(t)
  <2>1. ~Reads(destager', t)
    BY <1>3 DEF Reads
  <2>2. t \in Cached /\ io.page = page[t] <=> t = s
    BY <1>2, <1>4 DEF BookInv, HashMatchesLists
  <2>3. ASSUME NEW u
        PROVE  /\ u \in Users(t)' <=> \/ u \in Users(t) /\ u # me
                                      \/ u = <<"io", io>> /\ t = s
               /\ u \in Work(t)' <=> \/ u \in Work(t) /\ u # me
                                     \/ u = <<"io", io>> /\ t = s
    <3>1. (\E i \in ios' : u = <<"io", i>> /\ t \in Cached' /\ i.page = page'[t]) <=>
            \/ \E i \in ios : u = <<"io", i>> /\ t \in Cached /\ i.page = page[t]
            \/ u = <<"io", io>> /\ t = s
      BY <1>1, <2>2
    <3>2. /\ \A i : <<"io", i>> # me
          /\ \A x : <<"player", x>> # me
      OBVIOUS
    <3>3. player' = player
      BY <1>1
    <3> QED BY <2>1, <3>1, <3>2, <3>3, UsersAre, UsersAreNext
  <2>4. t # s => me \notin Users(t)
    BY <1>5, UsersAre
  <2> QED BY <2>3, <2>4
<1> HIDE DEF me
<1>7. IsFiniteSet(ios') /\ RefsCountUsers' /\ OneIoPerPage' /\ CallbackFindsPage'
  BY <1>1, <1>2, <1>4, <1>6, IssueKeepsUsers
<1>8. ThreadsHold'
  <2>1. \A i \in ios : i.by # Destager
    BY <1>1, <1>2 DEF ThreadsHold
  <2>2. \A i \in ios' : i.by \in Players => player'[i.by].pc = "callback"
    BY <1>1, <1>2, <1>4, RunnersAssumption DEF ThreadsHold
  <2>3. \A i \in ios' : i.by = Destager => destager'.pc = "callback"
    BY <1>1, <1>3, <1>4, <2>1, RunnersAssumption
  <2>4. \A i, j \in ios' : i.by = j.by /\ i.by # Disk => i = j
    BY <1>1, <1>2, <1>4, <2>1 DEF ThreadsHold
  <2>5. destager'.pc \notin {"issue", "lock", "spin"}
    BY <1>3
  <2> QED BY <1>1, <1>2, <2>2, <2>3, <2>4, <2>5 DEF ThreadsHold
<1> QED BY <1>7, <1>8 DEF UsersOK

(* A callback runs: its I/O is no longer a user of the page it was for. *)
LEMMA CallbackUsers ==
  ASSUME BookInv, NEW io \in ios, Complete(io), NEW s \in lru_find(io.page),
         refs' = [refs EXCEPT ![s] = @ - 1],
         state' = [state EXCEPT ![s] = @ \cup {"UPTODATE"}],
         page' = page, DataOK', HashMatchesLists',
         destage_cnt' = destage_cnt \/ destage_cnt' = destage_cnt - 1,
         \/ Cached' = Cached /\ Dirty' = Dirty
         \/ refs[s] = 1 /\ Cached' = Cached \ {s} /\ Dirty' = Dirty \ {s}
  PROVE  IsFiniteSet(ios') /\ UsersOK'
<1> DEFINE me == <<"io", io>>
<1>1. /\ DataOK /\ PlayersOK /\ DestagerOK /\ HashMatchesLists /\ IsFiniteSet(ios)
      /\ RefsCountUsers /\ OneIoPerPage /\ CallbackFindsPage /\ ThreadsHold
      /\ destage_cnt \in Int /\ RaidDisks \in Int
  BY SizesAssumption DEF BookInv, TypeInv, DataOK, UsersOK
<1>2. \A i \in ios : i.page \in Pages
  BY DEF BookInv, TypeInv, EnvironmentOK, IoRecords
<1>3. s \in Cached /\ s \in Slots /\ page[s] = io.page /\ Cached \subseteq Slots
  BY <1>1, <1>2, FindExact, ListedSlots
<1>4. \A t \in Slots : /\ refs'[t] = IF t = s THEN refs[s] - 1 ELSE refs[t]
                       /\ IsUptodate(t)' <=> IsUptodate(t) \/ t = s
                       /\ IsDirty(t)' <=> IsDirty(t)
  <2>1. refs \in [Slots -> Int] /\ state \in [Slots -> SUBSET {"DIRTY", "UPTODATE"}]
    BY <1>1 DEF DataOK
  <2> QED BY <1>3, <2>1 DEF IsUptodate, IsDirty
<1>5. me \in Work(s) /\ me \in Users(s) /\ Work(s) = {me}
  <2>1. me \in Work(s) /\ me \in Users(s)
    BY <1>3, UsersAre
  <2> QED BY <1>1, <1>3, <2>1 DEF OneIoPerPage
<1>6. ios' = ios \ {io} /\ IsFiniteSet(ios')
  BY <1>1, FS_RemoveElement DEF Complete
<1>7. /\ io.by \in Players => player[io.by].pc = "callback"
      /\ io.by = Destager => destager.pc = "callback"
  BY <1>1 DEF ThreadsHold
<1>8. /\ \A x \in Players : /\ player'[x] = player[x] \/ (x = io.by /\ player'[x] = IdlePlayer)
                            /\ x = io.by => player[x].pc = "callback" /\ player'[x].pc = "idle"
      /\ \A t : Reads(destager', t) <=> Reads(destager, t)
      /\ destager'.pc \in {"issue", "lock", "spin"} => destager' = destager
      /\ destager' = destager \/ io.by = Destager
  <2>1. \A x \in Players : player'[x] = IF x = io.by THEN IdlePlayer ELSE player[x]
    BY <1>1 DEF Complete, PlayersOK
  <2>2. destager' = IF io.by = Destager THEN IdleDestager ELSE destager
    BY DEF Complete
  <2> QED BY <1>7, <2>1, <2>2 DEF IdlePlayer, IdleDestager, Reads
<1>9. \A x \in Players, t \in Slots : /\ Uses(player'[x], t) <=> Uses(player[x], t)
                                      /\ Reads(player'[x], t) <=> Reads(player[x], t)
  BY <1>8 DEF Uses, Reads, IdlePlayer
<1>10. ASSUME NEW t \in Slots, t \in Cached' <=> t \in Cached
       PROVE  Users(t)' = Users(t) \ {me} /\ Work(t)' = Work(t) \ {me}
  <2>1. ASSUME NEW u
        PROVE  /\ u \in Users(t)' <=> u \in Users(t) /\ u # me
               /\ u \in Work(t)' <=> u \in Work(t) /\ u # me
    <3>1. (\E i \in ios' : u = <<"io", i>> /\ t \in Cached' /\ i.page = page'[t]) <=>
            (\E i \in ios : u = <<"io", i>> /\ t \in Cached /\ i.page = page[t]) /\ u # me
      BY <1>6, <1>10
    <3>2. <<"destager", Destager>> # me /\ \A x : <<"player", x>> # me
      OBVIOUS
    <3> HIDE DEF me
    <3>3. Reads(destager', t) <=> Reads(destager, t)
      BY <1>8
    <3>4. (\E x \in Players : u = <<"player", x>> /\ Uses(player'[x], t)) <=>
            (\E x \in Players : u = <<"player", x>> /\ Uses(player[x], t))
      BY <1>9
    <3>5. (\E x \in Players : u = <<"player", x>> /\ Reads(player'[x], t)) <=>
            (\E x \in Players : u = <<"player", x>> /\ Reads(player[x], t))
      BY <1>9
    <3>6. u \in Users(t)' <=> u \in Users(t) /\ u # me
      BY <3>1, <3>2, <3>3, <3>4, UsersAre, UsersAreNext
    <3>7. u \in Work(t)' <=> u \in Work(t) /\ u # me
      BY <3>1, <3>2, <3>3, <3>5, UsersAre, UsersAreNext
    <3> QED BY <3>6, <3>7
  <2> QED BY <2>1
<1>11. \A t \in Slots \ {s} : me \notin Users(t) /\ me \notin Work(t)
  <2>1. \A t \in Slots \ {s} : ~(t \in Cached /\ io.page = page[t])
    BY <1>1, <1>3 DEF HashMatchesLists
  <2> QED BY <2>1, UsersAre
<1> HIDE DEF me
(* A page that leaves the cache had no other user. *)
<1>12. ASSUME refs[s] = 1
       PROVE  Users(s) = {me} /\ \A x \in Players : ~Uses(player[x], s)
  <2>1. Cardinality(Users(s)) = 1
    BY <1>1, <1>3, <1>12 DEF RefsCountUsers
  <2>2. Users(s) = {me}
    BY <1>1, <1>5, <2>1, UsersFinite, FS_Singleton
  <2>3. \A x \in Players : <<"player", x>> # me
    BY DEF me
  <2> QED BY <2>2, <2>3, UsersAre
<1>13. Users(s)' = Users(s) \ {me} /\ (s \in Cached' => Work(s)' = Work(s) \ {me})
  <2>1. CASE Cached' = Cached
    BY <1>3, <1>10, <2>1
  <2>2. CASE refs[s] = 1 /\ Cached' = Cached \ {s}
    <3>1. ~Reads(destager', s)
      <4>1. <<"destager", Destager>> # me
        BY DEF me
      <4> QED BY <1>5, <1>8, <4>1, UsersAre
    <3>2. \A x \in Players : ~Uses(player'[x], s)
      BY <1>3, <1>9, <1>12, <2>2
    <3>3. \A u : u \notin Users(s)'
      BY <2>2, <3>1, <3>2, UsersAreNext
    <3> QED BY <1>12, <2>2, <3>3
  <2> QED BY <2>1, <2>2
<1>14. RefsCountUsers'
  <2> SUFFICES ASSUME NEW t \in Slots PROVE refs'[t] = Cardinality(Users(t)')
    BY DEF RefsCountUsers
  <2>1. CASE t = s
    BY <1>1, <1>3, <1>4, <1>5, <1>13, <2>1, UsersFinite, CountUsers DEF RefsCountUsers
  <2>2. CASE t # s
    <3>1. Users(t)' = Users(t)
      BY <1>10, <1>11, <2>2
    <3> QED BY <1>1, <1>4, <2>2, <3>1 DEF RefsCountUsers
  <2> QED BY <2>1, <2>2
<1>15. OneIoPerPage'
  <2> SUFFICES ASSUME NEW t \in Cached'
               PROVE  /\ IsUptodate(t)' <=> Work(t)' = {}
                      /\ \A x, y \in Work(t)' : x = y
    BY DEF OneIoPerPage
  <2>1. t \in Cached /\ t \in Slots
    BY <1>3
  <2>2. CASE t = s
    BY <1>4, <1>5, <1>13, <2>1, <2>2
  <2>3. CASE t # s
    <3>1. Work(t)' = Work(t)
      BY <1>10, <1>11, <2>1, <2>3
    <3>2. (IsUptodate(t) <=> Work(t) = {}) /\ \A x, y \in Work(t) : x = y
      BY <1>1, <2>1 DEF OneIoPerPage
    <3> QED BY <1>4, <2>1, <2>3, <3>1, <3>2
  <2> QED BY <2>2, <2>3
<1>16. CallbackFindsPage'
  <2> SUFFICES ASSUME NEW i \in ios'
               PROVE  \E t \in lru_find(i.page)' : i.kind # "read" => IsDirty(t)'
    BY DEF CallbackFindsPage
  <2>1. i \in ios /\ i # io /\ i.page \in Pages
    BY <1>2, <1>6
  <2>2. PICK t \in lru_find(i.page) : i.kind # "read" => IsDirty(t)
    BY <1>1, <2>1 DEF CallbackFindsPage
  <2>3. t \in Cached /\ t \in Slots /\ page[t] = i.page
    BY <1>1, <1>3, <2>1, <2>2, FindExact
  <2>4. t # s
    <3>1. <<"io", i>> \in Work(t)
      BY <2>1, <2>3, UsersAre
    <3>2. <<"io", i>> # me
      BY <2>1 DEF me
    <3> QED BY <1>5, <3>1, <3>2
  <2>5. t \in lru_find(i.page)'
    BY <2>1, <2>3, <2>4, FindExactNext
  <2> QED BY <1>4, <2>2, <2>3, <2>5
<1>17. ThreadsHold'
  <2>1. ASSUME NEW x \in Players PROVE HoldsSlot(player'[x], Cached', page')
    <3>1. HoldsSlot(player[x], Cached, page)
      BY <1>1 DEF ThreadsHold, HoldsSlot
    <3>2. CASE player'[x] = player[x]
      <4>1. player[x].pc \in {"wait_uptodate", "issue"} => player[x].slot \in Cached'
        <5>1. player[x].pc \in {"wait_uptodate", "issue"} => Uses(player[x], player[x].slot)
          BY DEF Uses
        <5> QED BY <1>12, <3>1, <5>1 DEF HoldsSlot
      <4> QED BY <3>1, <3>2, <4>1 DEF HoldsSlot
    <3>3. CASE player'[x].pc = "idle"
      BY <3>3 DEF HoldsSlot
    <3> QED BY <1>8, <3>2, <3>3
  <2>2. destager'.pc = "issue" => destager'.slot \in Dirty'
    <3>1. destager.pc = "issue" => <<"destager", Destager>> \in Work(destager.slot)
      BY UsersAre DEF Reads
    <3>2. <<"destager", Destager>> # me
      BY DEF me
    <3>3. destager.pc = "issue" => destager.slot \in Dirty /\ destager.slot # s
      BY <1>1, <1>5, <3>1, <3>2 DEF ThreadsHold
    <3> QED BY <1>8, <3>3
  <2>3. destager'.pc \in {"lock", "spin"} => destage_cnt' < RaidDisks
    BY <1>1, <1>8 DEF ThreadsHold
  <2>4. \A i \in ios' : /\ i \in ios
                        /\ i.by = io.by => i.by = Disk
    BY <1>1, <1>6 DEF ThreadsHold
  <2>5. \A i \in ios' : i.by \in Players => player'[i.by].pc = "callback"
    BY <1>1, <1>8, <2>4, RunnersAssumption DEF ThreadsHold
  <2>6. \A i \in ios' : i.by = Destager => destager'.pc = "callback"
    BY <1>1, <1>8, <2>4, RunnersAssumption DEF ThreadsHold
  <2>7. \A i, j \in ios' : i.by = j.by /\ i.by # Disk => i = j
    BY <1>1, <2>4 DEF ThreadsHold
  <2> QED BY <2>1, <2>2, <2>3, <2>5, <2>6, <2>7 DEF ThreadsHold, HoldsSlot
<1> QED BY <1>6, <1>14, <1>15, <1>16, <1>17 DEF UsersOK

-----------------------------------------------------------------------------
(* The steps.                                                                *)

BookNext == ListsPartitionSlots' /\ HashMatchesLists' /\ UsersOK'

(* A request is served; held is refs with the player's own reference moved   *)
(* to the page it serves.                                                    *)
LEMMA ServeBook ==
  ASSUME BookInv, NEW pl \in Players, NEW r \in PlayerStates, r.slot \in Cached,
         page[r.slot] = r.page, IsUptodate(r.slot),
         player[pl].pc \notin {"issue", "callback"},
         NEW held \in [Slots -> Int],
         \A s \in Slots : held[s] = (refs[s] - (IF Uses(player[pl], s) THEN 1 ELSE 0))
                                      + (IF s = r.slot THEN 1 ELSE 0),
         Serve(pl, r, held), UNCHANGED <<phase, destager, ios>>
  PROVE  BookNext
<1>1. DataOK /\ PlayersOK /\ r.slot \in Slots /\ Cached \subseteq Slots
  BY ListedSlots DEF BookInv, TypeInv
<1>2. /\ ListsPartitionSlots' /\ HashMatchesLists'
      /\ UNCHANGED <<page, hash, Cached>> /\ Dirty \subseteq Dirty'
  BY <1>1, ServeLists DEF BookInv
<1>3. destage_cnt' = destage_cnt
  BY DEF Serve, ReadClean, ReadDirtyHit, ReadDirtyMiss, WriteDirty, WriteClean, counterVars
<1>4. state \in [Slots -> SUBSET {"DIRTY", "UPTODATE"}]
  BY <1>1 DEF DataOK
<1>5. CASE ReadDirtyMiss(pl, r, held)
  <2> DEFINE q == [r EXCEPT !.pc = "issue"]
  <2>1. player' = [player EXCEPT ![pl] = q] /\ refs' = held
    BY <1>5 DEF ReadDirtyMiss, Suspend
  <2>2. q.pc = "issue" /\ q.slot = r.slot /\ q.page = r.page
    BY DEF PlayerStates
  <2> HIDE DEF q
  <2>3. \A s \in Slots : IsUptodate(s)' <=> IsUptodate(s) /\ s # r.slot
    BY <1>1, <1>4, <1>5 DEF ReadDirtyMiss, IsUptodate
  <2>4. HoldsSlot(q, Cached, page)
    BY <2>2 DEF HoldsSlot
  <2>5. \A s \in Slots : (Uses(q, s) <=> s = r.slot) /\ (Reads(q, s) <=> s = r.slot)
    BY <2>2 DEF Uses, Reads
  <2>6. UsersOK'
    BY <1>1, <1>2, <1>3, <2>1, <2>3, <2>4, <2>5, PlayerKeepsUsers
  <2> QED BY <1>2, <2>6 DEF BookNext
<1>6. CASE ~ReadDirtyMiss(pl, r, held)
  <2>1. PICK q : /\ player' = [player EXCEPT ![pl] = q]
                 /\ q.pc \in {"idle", "wait_exchange"}
                 /\ q.pc = "wait_exchange" => q.slot = NoSlot
    <3>1. \/ player' = [player EXCEPT ![pl] = IdlePlayer]
          \/ player' = [player EXCEPT ![pl] =
               [[r EXCEPT !.slot = NoSlot] EXCEPT !.pc = "wait_exchange"]]
      BY <1>6 DEF Serve, ReadClean, ReadDirtyHit, WriteDirty, WriteClean, Return, Suspend
    <3>2. /\ IdlePlayer.pc = "idle"
          /\ [[r EXCEPT !.slot = NoSlot] EXCEPT !.pc = "wait_exchange"].pc = "wait_exchange"
          /\ [[r EXCEPT !.slot = NoSlot] EXCEPT !.pc = "wait_exchange"].slot = NoSlot
      BY DEF PlayerStates, IdlePlayer
    <3> QED BY <3>1, <3>2
  <2>2. HoldsSlot(q, Cached, page)
    BY <2>1 DEF HoldsSlot
  <2>3. \A s : ~Uses(q, s) /\ ~Reads(q, s)
    BY <2>1 DEF Uses, Reads
  <2>4. refs' = [held EXCEPT ![r.slot] = @ - 1]
    BY <1>6 DEF Serve, ReadClean, ReadDirtyHit, WriteDirty, WriteClean, Release
  <2>5. \A s \in Slots : refs'[s] = refs[s] - (IF Uses(player[pl], s) THEN 1 ELSE 0)
    <3>1. refs \in [Slots -> Int]
      BY <1>1 DEF DataOK
    <3>2. refs'[r.slot] = held[r.slot] - 1 /\ \A s \in Slots \ {r.slot} : refs'[s] = held[s]
      BY <1>1, <2>4
    <3> QED BY <1>1, <3>1, <3>2
  <2>6. \A s \in Slots : IsUptodate(s)' <=> IsUptodate(s)
    BY <1>1, <1>4, <1>6 DEF Serve, ReadClean, ReadDirtyHit, WriteDirty, WriteClean, IsUptodate
  <2>7. UsersOK'
    <3>1. \A s \in Slots : refs'[s] = (refs[s] - (IF Uses(player[pl], s) THEN 1 ELSE 0))
                                        + (IF Uses(q, s) THEN 1 ELSE 0)
      BY <1>1, <2>3, <2>5 DEF DataOK
    <3>2. \A s \in Cached : /\ IsUptodate(s)' <=> IsUptodate(s) /\ ~Reads(q, s)
                            /\ Reads(q, s) => IsUptodate(s)
      BY <1>1, <2>3, <2>6
    <3> QED BY <1>2, <1>3, <2>1, <2>2, <3>1, <3>2, PlayerKeepsUsers
  <2> QED BY <1>2, <2>7 DEF BookNext
<1> QED BY <1>5, <1>6

(* A step that leaves the page tables alone and moves one player without     *)
(* giving it a page.                                                         *)
LEMMA WaitBook ==
  ASSUME BookInv, NEW pl \in Players, NEW r \in PlayerStates,
         NEW where \in {"wait_clean", "wait_free_dirty"},
         player[pl].pc = "idle", Suspend(pl, r, where),
         UNCHANGED <<slotVars, listVars, hash, counterVars, destager, ios>>
  PROVE  BookNext
<1> DEFINE q == [r EXCEPT !.pc = where]
<1>1. q.pc = where /\ player' = [player EXCEPT ![pl] = q]
  BY DEF PlayerStates, Suspend
<1> HIDE DEF q
<1>2. /\ ListsPartitionSlots' /\ HashMatchesLists'
      /\ UNCHANGED <<page, state, refs, hash, destage_cnt, Cached, Dirty>>
  BY DEF BookInv, ListsPartitionSlots, HashMatchesLists, Cached, Free, Clean, Dirty, IsDirty,
         slotVars, listVars, counterVars
<1>3. \A s : /\ ~Uses(q, s) /\ ~Reads(q, s) /\ ~Uses(player[pl], s)
             /\ IsUptodate(s)' <=> IsUptodate(s)
  BY <1>1, <1>2 DEF Uses, Reads, IsUptodate
<1>4. HoldsSlot(q, Cached, page)
  BY <1>1 DEF HoldsSlot
<1>5. \A s \in Slots : refs'[s] = (refs[s] - 0) + 0
  BY <1>2 DEF BookInv, TypeInv, DataOK
<1>6. UsersOK'
  BY <1>1, <1>2, <1>3, <1>4, <1>5, PlayerKeepsUsers
<1> QED BY <1>2, <1>6 DEF BookNext

(* A page is found in the cache. *)
LEMMA HitBook ==
  ASSUME BookInv, NEW pl \in Players, NEW r \in PlayerStates, r.page \in Pages,
         player[pl].pc \notin {"issue", "wait_uptodate", "callback"},
         NEW s \in lru_find(r.page), Hit(pl, [r EXCEPT !.slot = s]),
         UNCHANGED <<phase, destager, ios>>
  PROVE  BookNext
<1> DEFINE f == [r EXCEPT !.slot = s]
           held == [refs EXCEPT ![s] = @ + 1]
<1>1. f \in PlayerStates /\ f.page = r.page /\ f.slot = s
  BY FoundRequest DEF BookInv, TypeInv, PlayerStates
<1>2. s \in Cached /\ s \in Slots /\ page[s] = r.page
  BY FindExact, ListedSlots DEF BookInv, TypeInv
<1>3. refs \in [Slots -> Int] /\ held \in [Slots -> Int]
  <2>1. refs \in [Slots -> Int]
    BY DEF BookInv, TypeInv, DataOK
  <2> QED BY <1>2, <2>1, RefsType
<1>4. \A t \in Slots : held[t] = (refs[t] - 0) + (IF t = s THEN 1 ELSE 0)
  BY <1>3
<1>5. \A t : ~Uses(player[pl], t)
  BY DEF Uses
<1>6. \/ IsUptodate(s) /\ Serve(pl, f, held)
      \/ /\ ~IsUptodate(s) /\ refs' = held
         /\ Suspend(pl, f, "wait_uptodate")
         /\ UNCHANGED <<page, state, bm_mask, listVars, hash, counterVars, ghostVars>>
  BY <1>1 DEF Hit
<1> HIDE DEF f, held
<1>7. CASE IsUptodate(s) /\ Serve(pl, f, held)
  BY <1>1, <1>2, <1>3, <1>4, <1>5, <1>7, ServeBook
<1>8. CASE /\ ~IsUptodate(s) /\ refs' = held
           /\ Suspend(pl, f, "wait_uptodate")
           /\ UNCHANGED <<page, state, bm_mask, listVars, hash, counterVars, ghostVars>>
  <2> DEFINE q == [f EXCEPT !.pc = "wait_uptodate"]
  <2>1. q.pc = "wait_uptodate" /\ q.slot = s /\ q.page = r.page
    BY <1>1 DEF PlayerStates
  <2>2. player' = [player EXCEPT ![pl] = q]
    BY <1>8 DEF Suspend
  <2> HIDE DEF q
  <2>3. /\ ListsPartitionSlots' /\ HashMatchesLists'
        /\ UNCHANGED <<page, state, hash, destage_cnt, Cached, Dirty>>
    BY <1>8 DEF BookInv, ListsPartitionSlots, HashMatchesLists, Cached, Free, Clean, Dirty,
                IsDirty, listVars, counterVars
  <2>4. \A t : /\ ~Reads(q, t) /\ (Uses(q, t) <=> t = s)
               /\ IsUptodate(t)' <=> IsUptodate(t)
    BY <2>1, <2>3 DEF Uses, Reads, IsUptodate
  <2>5. HoldsSlot(q, Cached, page)
    BY <1>2, <2>1 DEF HoldsSlot
  <2>6. UsersOK'
    BY <1>4, <1>5, <1>8, <2>2, <2>3, <2>4, <2>5, PlayerKeepsUsers
  <2> QED BY <2>3, <2>6 DEF BookNext
<1> QED BY <1>6, <1>7, <1>8

(* A page is not found and gets a slot. *)
LEMMA FillBook ==
  ASSUME BookInv, TypeInv', NEW pl \in Players, NEW r \in PlayerStates, r.page \in Pages,
         player[pl].pc \notin {"issue", "wait_uptodate", "callback"},
         lru_find(r.page) = {},
         \/ \E s \in IdleOn(clean_list) : Evict(pl, r, s)
         \/ TakeFreeClean(pl, r)
         \/ InsertDirty(pl, r),
         UNCHANGED <<phase, destager, ios>>
  PROVE  BookNext
<1>1. DataOK /\ ListsPartitionSlots /\ HashMatchesLists /\ DataOK'
  BY DEF BookInv, TypeInv
<1>2. ASSUME NEW s \in Slots, Install(pl, r, s), refs[s] = 0, Cached' = Cached \cup {s},
             Dirty' = Dirty, HashMatchesLists', destage_cnt' = destage_cnt
      PROVE  UsersOK'
  <2> DEFINE q == [[r EXCEPT !.slot = s] EXCEPT !.pc = "issue"]
  <2>1. q.pc = "issue" /\ q.slot = s /\ q.page = r.page
    BY DEF PlayerStates
  <2>2. player' = [player EXCEPT ![pl] = q]
    BY <1>2 DEF Install, Suspend
  <2> HIDE DEF q
  <2>3. /\ page' = [page EXCEPT ![s] = r.page]
        /\ ~IsUptodate(s)' /\ refs'[s] = 1
        /\ \A t \in Slots \ {s} : /\ IsUptodate(t)' <=> IsUptodate(t)
                                  /\ refs'[t] = refs[t]
    BY <1>1, <1>2, InstallSlot
  <2>4. page'[s] = r.page
    BY <1>1, <2>3 DEF DataOK
  <2>5. HoldsSlot(q, {s}, page') /\ Reads(q, s)
    BY <2>1, <2>4 DEF HoldsSlot, Reads
  <2> QED BY <1>1, <1>2, <2>2, <2>3, <2>5, PlayerFillsUsers
<1>3. CASE \E s \in IdleOn(clean_list) : Evict(pl, r, s)
  <2>1. PICK s \in IdleOn(clean_list) : Evict(pl, r, s)
    BY <1>3
  <2>2. /\ ListsPartitionSlots' /\ HashMatchesLists'
        /\ s \in Clean /\ Idle(s) /\ UNCHANGED <<Cached, Dirty>>
    BY <1>1, <2>1, EvictLists
  <2>3. s \in Slots /\ s \in Cached /\ refs[s] = 0
    BY <1>1, <2>2, ListedSlots DEF Cached, Idle
  <2>4. Install(pl, r, s) /\ destage_cnt' = destage_cnt
    BY <2>1 DEF Evict, counterVars
  <2>5. Cached' = Cached \cup {s} /\ Dirty' = Dirty
    BY <2>2, <2>3
  <2>6. UsersOK'
    BY <1>2, <2>2, <2>3, <2>4, <2>5
  <2> QED BY <2>2, <2>6 DEF BookNext
<1>4. CASE TakeFreeClean(pl, r)
  <2>1. ListsPartitionSlots' /\ HashMatchesLists'
    BY <1>1, <1>4, TakeFreeCleanLists
  <2>2. PICK s \in Free : Install(pl, r, s) /\ Cached' = Cached \cup {s} /\ UNCHANGED Dirty
    BY <1>1, <1>4, TakeFreeCleanLists
  <2>3. destage_cnt' = destage_cnt
    BY <1>4 DEF TakeFreeClean, counterVars
  <2>4. UsersOK'
    BY <1>2, <2>1, <2>2, <2>3, FreeUnused
  <2> QED BY <2>1, <2>4 DEF BookNext
<1>5. CASE InsertDirty(pl, r)
  <2>1. ListsPartitionSlots' /\ HashMatchesLists'
    BY <1>1, <1>5, InsertDirtyLists
  <2>2. PICK s \in Free :
          /\ Cached' = Cached \cup {s} /\ Dirty' = Dirty \cup {s}
          /\ page' = [page EXCEPT ![s] = r.page]
          /\ IsUptodate(s)' /\ \A t \in Slots \ {s} : IsUptodate(t)' <=> IsUptodate(t)
    BY <1>1, <1>5, InsertDirtyLists
  <2>3. /\ refs' = refs /\ destage_cnt' = destage_cnt
        /\ player' = [player EXCEPT ![pl] = IdlePlayer]
    BY <1>5 DEF InsertDirty, Return
  <2>4. s \in Slots /\ refs[s] = 0
    BY FreeUnused
  <2>5. IdlePlayer.pc = "idle" /\ HoldsSlot(IdlePlayer, {s}, page')
    BY DEF IdlePlayer, HoldsSlot
  <2>6. UsersOK'
    BY <1>1, <2>1, <2>2, <2>3, <2>4, <2>5, PlayerFillsUsers
  <2> QED BY <2>1, <2>6 DEF BookNext
<1> QED BY <1>3, <1>4, <1>5

(* A new request. *)
LEMMA ReplacePageBook ==
  ASSUME BookInv, TypeInv', NEW pl \in Players, AnyReplacePage(pl)
  PROVE  BookNext
<1>1. PICK p \in Pages, rw \in {"read", "write"}, mask \in Masks :
        LET r == [pc |-> "idle", page |-> p, rw |-> rw, mask |-> mask, slot |-> NoSlot]
        IN  \/ \E s \in lru_find(p) : Hit(pl, [r EXCEPT !.slot = s])
            \/ lru_find(p) = {} /\ rw = "read" /\ AnyReadMiss(pl, r)
            \/ lru_find(p) = {} /\ rw = "write" /\ WriteMiss(pl, r)
  BY DEF AnyReplacePage
<1>2. UNCHANGED <<phase, destager, ios>> /\ player[pl].pc = "idle"
  BY DEF AnyReplacePage
<1> DEFINE r == [pc |-> "idle", page |-> p, rw |-> rw, mask |-> mask, slot |-> NoSlot]
<1>3. r \in PlayerStates /\ r.page = p
  <2>1. mask \in SUBSET Sectors
    BY MaskType
  <2> QED BY <2>1 DEF PlayerStates, PlayerPcs
<1>4. \/ \E s \in lru_find(p) : Hit(pl, [r EXCEPT !.slot = s])
      \/ lru_find(p) = {} /\ AnyReadMiss(pl, r)
      \/ lru_find(p) = {} /\ WriteMiss(pl, r)
  BY <1>1
<1> HIDE DEF r
<1>5. CASE \E s \in lru_find(p) : Hit(pl, [r EXCEPT !.slot = s])
  BY <1>2, <1>3, <1>5, HitBook
<1>6. CASE /\ lru_find(p) = {}
           /\ \/ \E s \in IdleOn(clean_list) : Evict(pl, r, s)
              \/ TakeFreeClean(pl, r)
              \/ InsertDirty(pl, r)
  BY <1>2, <1>3, <1>6, FillBook
<1>7. CASE \E where \in {"wait_clean", "wait_free_dirty"} :
             /\ Suspend(pl, r, where)
             /\ UNCHANGED <<slotVars, listVars, hash, counterVars, ghostVars>>
  BY <1>2, <1>3, <1>7, WaitBook
<1> QED BY <1>4, <1>5, <1>6, <1>7 DEF AnyReadMiss, WriteMiss

(* The ends of a player's waits, and the issue of its read. *)
LEMMA PlayerProceedsBook ==
  ASSUME BookInv, TypeInv', NEW pl \in Players, AnyPlayerProceeds(pl)
  PROVE  BookNext /\ IsFiniteSet(ios')
<1> DEFINE r == player[pl]
<1>1. r \in PlayerStates /\ MayBeAt(r, page) /\ refs \in [Slots -> Int] /\ IsFiniteSet(ios)
  BY DEF BookInv, TypeInv, PlayersOK, DataOK
<1>2. CASE AnyUptodateSeen(pl)
  <2>1. /\ r.pc = "wait_uptodate" /\ r.slot \in Cached /\ page[r.slot] = r.page
        /\ IsUptodate(r.slot) /\ Serve(pl, r, refs) /\ UNCHANGED <<phase, destager, ios>>
    BY <1>2 DEF AnyUptodateSeen, BookInv, UsersOK, ThreadsHold
  <2>2. \A s \in Slots : refs[s] = (refs[s] - (IF Uses(r, s) THEN 1 ELSE 0))
                                      + (IF s = r.slot THEN 1 ELSE 0)
    BY <1>1, <2>1 DEF Uses
  <2>3. BookNext
    BY <1>1, <2>1, <2>2, ServeBook
  <2> QED BY <1>1, <2>1, <2>3
<1>3. CASE AnyCleanPageSeen(pl)
  <2>1. /\ r.pc = "wait_clean" /\ r.page \in Pages /\ UNCHANGED <<phase, destager, ios>>
        /\ \/ lru_find(r.page) = {} /\ \E s \in IdleOn(clean_list) : Evict(pl, r, s)
           \/ \E s \in lru_find(r.page) : Hit(pl, [r EXCEPT !.slot = s])
    BY <1>1, <1>3 DEF AnyCleanPageSeen, MayBeAt
  <2>2. CASE lru_find(r.page) = {} /\ \E s \in IdleOn(clean_list) : Evict(pl, r, s)
    BY <1>1, <2>1, <2>2, FillBook
  <2>3. CASE \E s \in lru_find(r.page) : Hit(pl, [r EXCEPT !.slot = s])
    BY <1>1, <2>1, <2>3, HitBook
  <2> QED BY <1>1, <2>1, <2>2, <2>3
<1>4. CASE AnyFreeDirtySeen(pl)
  <2>1. /\ r.pc = "wait_free_dirty" /\ r.page \in Pages /\ UNCHANGED <<phase, destager, ios>>
        /\ \/ lru_find(r.page) = {} /\ InsertDirty(pl, r)
           \/ \E s \in lru_find(r.page) : Hit(pl, [r EXCEPT !.slot = s])
    BY <1>1, <1>4 DEF AnyFreeDirtySeen, MayBeAt
  <2>2. CASE lru_find(r.page) = {} /\ InsertDirty(pl, r)
    BY <1>1, <2>1, <2>2, FillBook
  <2>3. CASE \E s \in lru_find(r.page) : Hit(pl, [r EXCEPT !.slot = s])
    BY <1>1, <2>1, <2>3, HitBook
  <2> QED BY <1>1, <2>1, <2>2, <2>3
<1>5. CASE ExchangeSeen(pl)
  <2>1. /\ r.pc = "wait_exchange" /\ ExchangeFreePage /\ Return(pl)
        /\ UNCHANGED <<page, state, refs, clean_list, dirty_list, hash, destage_cnt, destager, ios>>
    BY <1>5 DEF ExchangeSeen, slotVars, counterVars
  <2>2. DataOK /\ ListsPartitionSlots /\ HashMatchesLists
    BY DEF BookInv, TypeInv
  <2>3. UNCHANGED <<Clean, Dirty, Cached>>
    BY <2>1 DEF Clean, Dirty, Cached
  <2>4. ListsPartitionSlots'
    <3>1. PICK t \in FreeDirty :
            /\ FreeDirty' = FreeDirty \ {t} /\ NoDuplicates(free_dirty_list)'
            /\ FreeClean' = FreeClean \cup {t} /\ NoDuplicates(free_clean_list)'
      BY <2>1, <2>2, ExchangeLists
    <3> QED BY <2>1, <2>2, <2>3, <3>1, ListsNow, ListsStep
  <2>5. HashMatchesLists'
    BY <2>1, <2>2, <2>3 DEF HashMatchesLists, IsDirty
  <2>6. player' = [player EXCEPT ![pl] = IdlePlayer] /\ IdlePlayer.pc = "idle"
    BY <2>1 DEF Return, IdlePlayer
  <2>7. \A s : /\ ~Uses(r, s) /\ ~Uses(IdlePlayer, s) /\ ~Reads(IdlePlayer, s)
               /\ IsUptodate(s)' <=> IsUptodate(s)
    BY <2>1, <2>6 DEF Uses, Reads, IsUptodate
  <2>8. HoldsSlot(IdlePlayer, Cached, page)
    BY <2>6 DEF HoldsSlot
  <2>9. \A s \in Slots : refs'[s] = (refs[s] - 0) + 0
    BY <1>1, <2>1
  <2>10. UsersOK'
    BY <2>1, <2>3, <2>5, <2>6, <2>7, <2>8, <2>9, PlayerKeepsUsers
  <2> QED BY <1>1, <2>1, <2>4, <2>5, <2>10 DEF BookNext
<1>6. CASE IssueRead(pl)
  <2>1. IsFiniteSet(ios') /\ UsersOK'
    BY <1>6, IssueReadUsers
  <2>2. ListsPartitionSlots' /\ HashMatchesLists'
    BY <1>6 DEF IssueRead, BookInv, ListsPartitionSlots, HashMatchesLists, Cached, Free, Clean,
                Dirty, IsDirty, slotVars, listVars
  <2> QED BY <2>1, <2>2 DEF BookNext
<1> QED BY <1>2, <1>3, <1>4, <1>5, <1>6 DEF AnyPlayerProceeds

(* The steps that touch neither pages nor users. *)
LEMMA IdleBook ==
  ASSUME BookInv, UNCHANGED <<page, state, refs, listVars, hash, destage_cnt, player, ios>>,
         \/ UNCHANGED destager
         \/ /\ destager.pc # "callback"
            /\ destager'.pc # "issue"
            /\ destager'.pc \in {"lock", "spin"} => destage_cnt < RaidDisks
            /\ destager.pc # "issue"
  PROVE  BookNext /\ IsFiniteSet(ios')
<1>1. /\ ListsPartitionSlots' /\ HashMatchesLists'
      /\ UNCHANGED <<Cached, Dirty>> /\ \A s : IsUptodate(s)' <=> IsUptodate(s)
      /\ \A s : IsDirty(s)' <=> IsDirty(s)
  BY DEF BookInv, ListsPartitionSlots, HashMatchesLists, Cached, Free, Clean, Dirty, IsDirty,
         IsUptodate, listVars
<1>2. \A s : Reads(destager', s) <=> Reads(destager, s)
  BY DEF Reads
<1>3. ASSUME NEW s PROVE Users(s)' = Users(s) /\ Work(s)' = Work(s)
  <2>1. ASSUME NEW u PROVE /\ u \in Users(s)' <=> u \in Users(s)
                           /\ u \in Work(s)' <=> u \in Work(s)
    BY <1>1, <1>2, UsersAre, UsersAreNext
  <2> QED BY <2>1
<1>4. RefsCountUsers' /\ OneIoPerPage'
  BY <1>1, <1>3 DEF BookInv, UsersOK, RefsCountUsers, OneIoPerPage
<1>5. CallbackFindsPage'
  BY <1>1 DEF BookInv, UsersOK, CallbackFindsPage, lru_find
<1>6. ThreadsHold'
  BY <1>1 DEF BookInv, UsersOK, ThreadsHold
<1> QED BY <1>1, <1>4, <1>5, <1>6 DEF BookInv, BookNext, UsersOK

(* The destage thread. *)
LEMMA DestagerBook ==
  ASSUME BookInv, AnyDestagerProceeds
  PROVE  BookNext /\ IsFiniteSet(ios')
<1>1. destager \in DestagerStates
  BY DEF BookInv, TypeInv, DestagerOK
<1>2. CASE DestageWanted
  <2>1. destager'.pc = "budget"
    BY <1>1, <1>2 DEF DestageWanted, DestagerStates
  <2> QED BY <1>2, <2>1, IdleBook DEF DestageWanted, slotVars, counterVars
<1>3. CASE DestageBudget
  <2>1. destager'.pc = IF destage_cnt < RaidDisks THEN "lock" ELSE "check"
    BY <1>1, <1>3 DEF DestageBudget, DestagerStates
  <2> QED BY <1>3, <2>1, IdleBook DEF DestageBudget, slotVars, counterVars
<1>4. CASE AnyDestagePick
  <2>1. /\ destager.pc \in {"lock", "spin"}
        /\ UNCHANGED <<page, listVars, hash, player, ios>>
    BY <1>4 DEF AnyDestagePick
  <2>2. CASE \E s \in IdleOn(dirty_list) :
               /\ state' = [state EXCEPT ![s] = @ \ {"UPTODATE"}]
               /\ refs' = [refs EXCEPT ![s] = @ + 1]
               /\ destager' = [pc |-> "issue", slot |-> s, full |-> bm_mask[s] = Sectors]
    <3>1. PICK s \in IdleOn(dirty_list) :
               /\ state' = [state EXCEPT ![s] = @ \ {"UPTODATE"}]
               /\ refs' = [refs EXCEPT ![s] = @ + 1]
               /\ destager' = [pc |-> "issue", slot |-> s, full |-> bm_mask[s] = Sectors]
      BY <2>2
    <3>2. s \in Dirty /\ s \in Slots
      BY IdleOnType DEF BookInv, TypeInv, DataOK, Dirty
    <3>3. Idle(s)
      BY DEF IdleOn
    <3>4. UNCHANGED <<Clean, Dirty, Cached>>
      BY <2>1 DEF Clean, Dirty, Cached, listVars
    <3>5. UsersOK'
      BY <2>1, <3>1, <3>2, <3>3, <3>4, PickUsers
    <3>6. ListsPartitionSlots'
      BY <2>1 DEF BookInv, ListsPartitionSlots, Cached, Free, Clean, Dirty, listVars
    <3>7. \A t \in Slots : IsDirty(t)' <=> IsDirty(t)
      <4>1. state \in [Slots -> SUBSET {"DIRTY", "UPTODATE"}]
        BY DEF BookInv, TypeInv, DataOK
      <4> QED BY <3>1, <3>2, <4>1 DEF IsDirty
    <3>8. Cached \subseteq Slots
      BY ListedSlots DEF BookInv, TypeInv
    <3>9. HashMatchesLists'
      BY <2>1, <3>4, <3>7, <3>8 DEF BookInv, HashMatchesLists
    <3> QED BY <2>1, <3>5, <3>6, <3>9 DEF BookNext, BookInv
  <2>3. CASE destager' = [destager EXCEPT !.pc = "spin"] /\ UNCHANGED <<state, refs, destage_cnt>>
    <3>1. destager'.pc = "spin" /\ destage_cnt < RaidDisks
      BY <1>1, <2>1, <2>3 DEF DestagerStates, BookInv, UsersOK, ThreadsHold
    <3> QED BY <2>1, <2>3, <3>1, IdleBook
  <2> QED BY <1>4, <2>2, <2>3 DEF AnyDestagePick
<1>5. CASE IssueDestage
  <2>1. IsFiniteSet(ios') /\ UsersOK'
    BY <1>5, IssueDestageUsers
  <2>2. ListsPartitionSlots' /\ HashMatchesLists'
    BY <1>5 DEF IssueDestage, BookInv, ListsPartitionSlots, HashMatchesLists, Cached, Free, Clean,
                Dirty, IsDirty, slotVars, listVars
  <2> QED BY <2>1, <2>2 DEF BookNext
<1> QED BY <1>2, <1>3, <1>4, <1>5 DEF AnyDestagerProceeds

(* The completion callbacks. *)
LEMMA CallbackBook ==
  ASSUME BookInv, TypeInv', NEW io \in ios, Callback(io)
  PROVE  BookNext /\ IsFiniteSet(ios')
<1>1. /\ DataOK /\ DataOK' /\ ListsPartitionSlots /\ HashMatchesLists /\ io.page \in Pages
      /\ state \in [Slots -> SUBSET {"DIRTY", "UPTODATE"}] /\ destage_cnt \in Int
  BY DEF BookInv, TypeInv, DataOK, EnvironmentOK, IoRecords
<1>2. /\ Complete(io) /\ page' = page
      /\ destage_cnt' = destage_cnt \/ destage_cnt' = destage_cnt - 1
  BY DEF Callback, lru_finish_read, lru_finish_destage_read, lru_finish_destage_write, counterVars
<1>3. PICK s \in lru_find(io.page) :
        /\ refs' = [refs EXCEPT ![s] = @ - 1]
        /\ state' = [state EXCEPT ![s] = @ \cup {"UPTODATE"}]
        /\ \/ UNCHANGED <<clean_list, dirty_list, free_clean_list, free_dirty_list, hash>>
           \/ /\ refs[s] = 1 /\ IsDirty(s)
              /\ hash' = [hash EXCEPT ![HashOf[page[s]]] = @ \ {s}]
              /\ dirty_list' = RemoveNode(dirty_list, s)
              /\ free_dirty_list' = AddToHead(free_dirty_list, s)
              /\ UNCHANGED <<clean_list, free_clean_list>>
  BY DEF Callback, lru_finish_read, lru_finish_destage_read, lru_finish_destage_write, listVars
<1>4. s \in Cached /\ Cached \subseteq Slots /\ (IsDirty(s) => s \in Dirty)
  BY <1>1, FindExact, ListedSlots DEF HashMatchesLists
<1>5. \A t \in Slots : IsDirty(t)' <=> IsDirty(t)
  BY <1>1, <1>3, <1>4 DEF IsDirty
<1>6. CASE UNCHANGED <<clean_list, dirty_list, free_clean_list, free_dirty_list, hash>>
  <2>1. UNCHANGED <<Clean, Dirty, Cached>> /\ ListsPartitionSlots'
    BY <1>1, <1>6 DEF ListsPartitionSlots, Cached, Free, Clean, Dirty
  <2>2. HashMatchesLists'
    BY <1>1, <1>2, <1>4, <1>5, <1>6, <2>1 DEF HashMatchesLists
  <2>3. IsFiniteSet(ios') /\ UsersOK'
    BY <1>1, <1>2, <1>3, <2>1, <2>2, CallbackUsers
  <2> QED BY <2>1, <2>2, <2>3 DEF BookNext
<1>7. CASE /\ refs[s] = 1 /\ IsDirty(s)
           /\ hash' = [hash EXCEPT ![HashOf[page[s]]] = @ \ {s}]
           /\ dirty_list' = RemoveNode(dirty_list, s)
           /\ free_dirty_list' = AddToHead(free_dirty_list, s)
           /\ UNCHANGED <<clean_list, free_clean_list>>
  <2>1. /\ ListsPartitionSlots' /\ HashMatchesLists'
        /\ Cached' = Cached \ {s} /\ Dirty' = Dirty \ {s}
    BY <1>1, <1>2, <1>4, <1>5, <1>7, FreeLists
  <2>2. IsFiniteSet(ios') /\ UsersOK'
    BY <1>1, <1>2, <1>3, <1>7, <2>1, CallbackUsers
  <2> QED BY <2>1, <2>2 DEF BookNext
<1> QED BY <1>3, <1>6, <1>7

-----------------------------------------------------------------------------
(* The specification.                                                        *)

(* The free lists that init_lru builds share out the slots. *)
LEMMA InitShares ==
  ASSUME Init
  PROVE  ListsPartitionSlots
<1> DEFINE n == Cardinality(Slots)
<1>1. PICK f \in Orders :
        /\ free_dirty_list = [i \in 1..DPages |-> f[i]]
        /\ free_clean_list = [i \in 1..(n - DPages) |-> f[i + DPages]]
  BY DEF Init
<1>2. /\ n \in Nat /\ DPages \in 1..n /\ IsFiniteSet(Slots)
      /\ IsFiniteSet(1..n) /\ Cardinality(1..n) = n
  BY SlotsAssumption, SizesAssumption, FS_CardinalityType, FS_Interval
<1>3. f \in [1..n -> Slots] /\ \A i, j \in 1..n : f[i] = f[j] => i = j
  BY <1>1 DEF Orders
<1>4. Cardinality(1..n) = Cardinality(Slots)
  BY <1>2
<1> HIDE DEF n
<1>5. \A s \in Slots : \E i \in 1..n : f[i] = s
  <2>1. f \in Injection(1..n, Slots)
    BY <1>3 DEF Injection, IsInjective
  <2>2. f \in Surjection(1..n, Slots)
    BY <1>2, <1>4, <2>1, FS_Injection
  <2> QED BY <2>2 DEF Surjection
<1>6. /\ clean_list = <<>> /\ dirty_list = <<>>
      /\ Clean = {} /\ Dirty = {} /\ NoDuplicates(clean_list) /\ NoDuplicates(dirty_list)
  BY DEF Init, Clean, Dirty, Elements, NoDuplicates
<1>7. free_dirty_list \in Seq(Slots) /\ free_clean_list \in Seq(Slots)
  BY <1>1, InitLists DEF n
<1>8. /\ Len(free_dirty_list) = DPages /\ Len(free_clean_list) = n - DPages
      /\ \A i \in 1..DPages : i \in 1..n /\ free_dirty_list[i] = f[i]
      /\ \A i \in 1..(n - DPages) : i + DPages \in 1..n /\ free_clean_list[i] = f[i + DPages]
  <2>1. DPages \in Nat /\ n - DPages \in Nat
    BY <1>2
  <2>2. Len(free_dirty_list) = DPages
    BY <1>1, <1>7, <2>1
  <2>3. Len(free_clean_list) = n - DPages
    BY <1>1, <1>7, <2>1
  <2> QED BY <1>1, <1>2, <2>2, <2>3
<1>9. NoDuplicates(free_dirty_list) /\ NoDuplicates(free_clean_list)
  <2>1. NoDuplicates(free_dirty_list)
    BY <1>3, <1>8 DEF NoDuplicates
  <2>2. ASSUME NEW i \in 1..(n - DPages), NEW j \in 1..(n - DPages),
               free_clean_list[i] = free_clean_list[j]
        PROVE  i = j
    <3>1. i + DPages = j + DPages
      BY <1>3, <1>8, <2>2
    <3> QED BY <1>2, <3>1
  <2> QED BY <1>8, <2>1, <2>2 DEF NoDuplicates
<1>10. FreeClean \cap FreeDirty = {}
  <2> SUFFICES ASSUME NEW i \in 1..DPages, NEW j \in 1..(n - DPages),
                      free_dirty_list[i] = free_clean_list[j]
               PROVE  FALSE
    BY <1>8 DEF FreeClean, FreeDirty, Elements
  <2>1. i = j + DPages
    BY <1>3, <1>8
  <2> QED BY <1>2, <2>1
<1>11. FreeClean \cup FreeDirty = Slots
  <2>1. ASSUME NEW s \in Slots PROVE s \in FreeClean \/ s \in FreeDirty
    <3>1. PICK i \in 1..n : f[i] = s
      BY <1>5
    <3>2. CASE i \in 1..DPages
      BY <1>8, <3>1, <3>2 DEF FreeDirty, Elements
    <3>3. CASE i \notin 1..DPages
      <4>1. i - DPages \in 1..(n - DPages) /\ (i - DPages) + DPages = i
        BY <1>2, <3>3
      <4> QED BY <1>8, <3>1, <4>1 DEF FreeClean, Elements
    <3> QED BY <3>2, <3>3
  <2>2. FreeClean \subseteq Slots /\ FreeDirty \subseteq Slots
    BY <1>7 DEF FreeClean, FreeDirty, Elements
  <2> QED BY <2>1, <2>2
<1> QED BY <1>6, <1>9, <1>10, <1>11
        DEF ListsPartitionSlots, Cached, Free, FreeClean, FreeDirty

(* The cache starts with its books in order. *)
LEMMA BookInvInit == Init => BookInv
<1> SUFFICES ASSUME Init PROVE BookInv
  OBVIOUS
<1>1. TypeInv /\ ListsPartitionSlots
  BY TypeInvInit, InitShares
<1>2. ios = {} /\ IsFiniteSet(ios)
  BY FS_EmptySet DEF Init
<1>3. Cached = {}
  BY DEF Init, Cached, Clean, Dirty, Elements
<1>4. HashMatchesLists
  BY <1>3 DEF Init, HashMatchesLists
<1>5. /\ \A x \in Players : player[x].pc = "idle"
      /\ destager.pc = "check"
  BY DEF Init, IdlePlayer, IdleDestager
<1>6. \A s : Users(s) = {}
  <2>1. \A s, u : u \notin Users(s)
    BY <1>2, <1>5, UsersAre DEF Uses, Reads
  <2> QED BY <2>1
<1>7. RefsCountUsers
  BY <1>6, FS_EmptySet DEF Init, RefsCountUsers
<1>8. OneIoPerPage /\ CallbackFindsPage /\ ThreadsHold
  BY <1>2, <1>3, <1>5 DEF OneIoPerPage, CallbackFindsPage, ThreadsHold
<1> QED BY <1>1, <1>2, <1>4, <1>7, <1>8 DEF BookInv, UsersOK

(* Every step keeps them so. *)
LEMMA BookInvNext == BookInv /\ [AnyPageNext]_vars => BookInv'
<1> SUFFICES ASSUME BookInv, [AnyPageNext]_vars PROVE BookInv'
  OBVIOUS
<1>1. TypeInv'
  BY TypeInvNext DEF BookInv
<1>2. IsFiniteSet(ios)
  BY DEF BookInv
<1>3. ASSUME NEW pl \in Players, AnyReplacePage(pl) PROVE BookNext /\ IsFiniteSet(ios')
  <2>1. ios' = ios
    BY <1>3 DEF AnyReplacePage
  <2> QED BY <1>1, <1>2, <1>3, <2>1, ReplacePageBook
<1>4. ASSUME NEW pl \in Players, AnyPlayerProceeds(pl) PROVE BookNext /\ IsFiniteSet(ios')
  BY <1>1, <1>4, PlayerProceedsBook
<1>5. CASE AnyDestagerProceeds
  BY <1>1, <1>5, DestagerBook DEF BookInv, BookNext
<1>6. ASSUME NEW io \in ios, Callback(io) PROVE BookNext /\ IsFiniteSet(ios')
  BY <1>1, <1>6, CallbackBook
<1>7. CASE StartRecovery \/ EndRecovery \/ UNCHANGED vars
  <2>1. UNCHANGED <<page, state, refs, listVars, hash, destage_cnt, player, ios, destager>>
    BY <1>7 DEF StartRecovery, EndRecovery, vars, slotVars, counterVars
  <2>2. BookNext /\ IsFiniteSet(ios')
    BY <2>1, IdleBook
  <2> QED BY <1>1, <2>2 DEF BookInv, BookNext
<1>8. CASE BookNext /\ IsFiniteSet(ios')
  BY <1>1, <1>8 DEF BookInv, BookNext
<1> QED BY <1>3, <1>4, <1>5, <1>6, <1>7, <1>8 DEF AnyPageNext

(* The invariant holds in every state the cache can reach. *)
LEMMA BookInvHolds == AnyPageSpec => []BookInv
BY BookInvInit, BookInvNext, PTL DEF AnyPageSpec

(* No slot is lost, on two lists or twice on one, whatever the players, the  *)
(* destage thread and the callbacks do to the four lists (lru.c).            *)
THEOREM SlotsShared == Spec => []ListsPartitionSlots
<1>1. BookInv => ListsPartitionSlots
  BY DEF BookInv
<1> QED BY <1>1, LruTakesAnyPage, BookInvHolds, PTL

(* The hash table chains exactly the slots of the clean and dirty lists, in  *)
(* the bucket of their page, and no page has two slots: the insertion after  *)
(* a wait never duplicates a page that another player inserted meanwhile.    *)
THEOREM HashTableExact == Spec => []HashMatchesLists
<1>1. BookInv => HashMatchesLists
  BY DEF BookInv
<1> QED BY <1>1, LruTakesAnyPage, BookInvHolds, PTL

(* ref_count is the number of threads and outstanding I/Os that use the      *)
(* page, so that no page is recycled under one of them.                      *)
THEOREM RefsExact == Spec => []RefsCountUsers
<1>1. BookInv => RefsCountUsers
  BY DEF BookInv, UsersOK
<1> QED BY <1>1, LruTakesAnyPage, BookInvHolds, PTL

(* A page is not up to date exactly while one page I/O is on its way for it, *)
(* and there are never two, be they of players or of the destage thread.     *)
THEOREM OneIoAtATime == Spec => []OneIoPerPage
<1>1. BookInv => OneIoPerPage
  BY DEF BookInv, UsersOK
<1> QED BY <1>1, LruTakesAnyPage, BookInvHolds, PTL

(* A completion callback that looks its page up by number again finds it,    *)
(* dirty when it was destaged: the "lru bug" branches of lru.c are dead.     *)
THEOREM CallbacksFindPages == Spec => []CallbackFindsPage
<1>1. BookInv => CallbackFindsPage
  BY DEF BookInv, UsersOK
<1> QED BY <1>1, LruTakesAnyPage, BookInvHolds, PTL

(* What a thread holds across a wait or an I/O is still its own afterwards,  *)
(* and the destage budget it tested without the mutex still has room.        *)
THEOREM ThreadsKeepHold == Spec => []ThreadsHold
<1>1. BookInv => ThreadsHold
  BY DEF BookInv, UsersOK
<1> QED BY <1>1, LruTakesAnyPage, BookInvHolds, PTL

=============================================================================
