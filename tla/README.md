# acache: a verification project in TLA+

acache replays a block trace against a write-back cache that sits on a RAID10
array, and rebuilds a spare disk of one mirror pair while the trace goes on. This
directory holds TLA+ models of its parts, the TLC runs that check them, and
proofs that TLAPS checks.

    tlc -workers 2 -config lru_recovery.cfg MCLruCache    # a run
    tlapm RecoveryProofs.tla                              # the proofs of a module

`PROJECT.json` lists components, runs, findings, hazards, theorems, and for each
definition the lines of code it stands for. For each property it also lists a
*mutant*, a changed definition with which the property must fail.

## 1. The system

| Component | Code | State | Operations |
|---|---|---|---|
| LRU cache | `algorithms/lru.c` | page descriptors (`page`, `state`, `refs`, `bm_mask`), four lists, hash table, `dpage_cnt`, `destage_cnt`, `lru_mutex` | `do_lru_replacepage`, the `destage` thread, `lru_finish_read`, `lru_finish_destage_read`, `lru_finish_destage_write` |
| Record slicing | `lru_replace`, `generate_bm` | none | a trace record becomes page requests with sector masks |
| Lists | `common/dllist.c` | head, tail, `pre`/`next` | add at the head, remove a node |
| RAID10 layout | `raids/raid10.c` | none | page to disk, mirror, offset, and back |
| RAID10 user I/O | `raids/raid10.c` | per disk: `free_disk_io_list`, `uio_cnt`, kernel queue; per pair: latency window | `handle_cache_request_raid10`, `handle_uio_raid10`, `do_uio_callback_raid10` |
| Rebuild | `raids/raid10.c`, `traces/*.c` | `start_urio`, offsets of the two recovery threads, line counter | `do_recovery_io_raid10`, `get_*_record` |
| ALRU cache | `algorithms/alru.c` | as LRU, plus a clean and a dirty stack per mirror pair | as LRU, the page to evict or destage chosen by the latency of the pairs |
| Program | `common/acache.c` | connections, parameters, `exit` flags | connect, init, play, sleep, reclaim |
| RAID6 | `raids/raid6.c` | as RAID10 | not reachable from `connect_raid` in `main` |

### How they interact

    trace --> player --lru_replace--> cache --handle_cache_request--> RAID10 --io_submit--> disk
                |                       ^  \__ destage thread __/        |                    |
                |                       |                                |                    |
                |                       +-- callback(offset,length,disk) -- completion thread-+
                +-- start_urio --> recovery threads of the degraded pair

* The cache calls `handle_cache_request`. While `start_urio` is clear (warm-up,
  and after the phase has ended) the call runs the completion callback itself,
  in the caller's thread. While it is set the request is split into disk I/Os
  that complete later, in any order, on the completion thread of each disk.
* The callback gets an offset and a disk, recomputes the page number from them
  and looks the page up in the cache again.
* `start_urio` is set and cleared by the trace at two line numbers and cleared
  by the recovery threads when the rebuild is done. No mutex protects it.
* The recovery threads of the degraded pair share two offsets without a mutex
  and do nothing while their disk has user I/Os.

### What is hard

* Players, the destage thread and the callbacks interleave at every point where
  `lru_mutex` is released: in the four timed waits of `do_lru_replacepage`, and
  between the critical section that decides on an I/O and the call that submits
  it. State read before is used after.
* `destage()` tests the two counters that bound it before it takes the mutex.
* The callbacks identify a page by number only, so the page must still be cached.
* A page write is two disk writes on two disks, and only the first is followed
  by the callback that the cache waits for: writes of one page can overlap at the
  mirror.
* The latency window of a pair is fed by two threads, and ALRU reads it under
  another mutex.
* An ALRU page is on two lists and in a bucket, all of which depend on its number,
  which changes when the slot is reused.
* The program ends by sleeping, setting a flag and joining a thread that looks at
  the flag at one place only.
* Rebuild, trace and user I/Os race on `start_urio` and on the offsets.
* Record borders inside a sector, a bitmap word or a page.

There is no crash recovery in this program (nothing is persisted but the data
itself), no network, and no retry of a failed I/O.

### What makes each part correct

* **Cache**: no descriptor is lost or on two lists; hash, lists and DIRTY bits
  agree; no page is cached twice; reference counts equal the users; one I/O per
  page at a time; a callback finds its page; the pools of dirty slots stay
  balanced; sectors the user wrote are on disk or marked in a cached dirty page;
  no user write lands in a page under I/O; requests end.
* **ALRU**: the stacks are the lists, pair by pair; the least busy pair with a
  page to offer is served; the program ends.
* **Both caches** keep, page by page, the promise of a write-back cache.
* **RAID10 I/O**: each I/O control block is free or in one I/O; each I/O goes to
  a disk that holds the page; a callback exactly once per page I/O; `avg_lat` is
  the sum of the window.
* **Layout**: the callback's arithmetic inverts the request's.
* **Rebuild**: data is read before it is written, the reader stays within the
  buffer, the two threads never block each other, the phase opens once, the
  rebuild ends.
* **Slicing**: the pieces name the record's sectors, no more and no less.

## 2. Modules

| Module | Models | Notes |
|---|---|---|
| `DlList` | `dllist.c` as operators on sequences | used by the two below |
| `LruCache` | `lru.c` | the core: 15 variables, 2 ghosts beside them |
| `WriteBackCache` | abstract: what a write-back cache promises | `LruCache` and `AlruCache` implement it |
| `MCLruCache` | | instances for TLC |
| `AlruCache` | `alru.c` | EXTENDS `LruCache`: its actions, and the stacks beside them |
| `MCAlruCache` | | instances for TLC |
| `AlruReclaim` | `play_trace`, `main`'s end, `reclaim_alru` | EXTENDS `AlruCache` |
| `MCAlruReclaim` | | its instances |
| `DlListProofs` | | lemmas about the lists, and about quotients and induction, for the other proofs |
| `LruCacheProofs` | | the cache that takes any idle page (`AnyPageSpec`), and type correctness |
| `LruInvariantProofs` | | its bookkeeping: lists, hash table, reference counts, I/Os |
| `LruPromiseProofs` | | its budgets, `NoLostWrite`, and that it implements `WriteBackCache` |
| `AlruCacheProofs` | | the stacks of ALRU, and that it is an `AnyPageSpec` too |
| `Raid10Layout` | address arithmetic | constant module |
| `Raid10Io` | user I/O while `start_urio` is set | EXTENDS `Raid10Layout` |
| `PageIoService` | abstract: what the cache expects of the RAID | `Raid10Io` implements it |
| `Raid10Data` | which write each copy of a page holds | EXTENDS `Raid10Io` |
| `MCRaid10Data` | | instances for TLC, also for `Raid10Io` |
| `Raid10IoProofs` | | theorems about `Raid10Layout`, `Raid10Io`, `PageIoService` and `Raid10Data` |
| `Recovery` | recovery threads, trace phase | |
| `RecoveryProofs` | | its theorems |
| `Slicing` | `lru_replace`, `generate_bm` | |
| `SlicingProofs` | | its theorems |

### LruCache

An action is one critical section of `lru_mutex`. A
`pthread_cond_timedwait` in a `while` loop releases the mutex and looks again
after a signal or two milliseconds; it is a thread state (`wait_uptodate`,
`wait_clean`, `wait_free_dirty`, `wait_exchange`) whose action is enabled when
the loop condition is false. Signals need no modelling, since a lost one costs
a timeout.

| Code | Action |
|---|---|
| `do_lru_replacepage` up to its return or first wait | `ReplacePage` (`Hit`, `ReadMiss`, `WriteMiss`) |
| the end of the wait on UPTODATE (lines 357, 682) | `UptodateSeen` |
| the end of the wait for a clean page, with the second `lru_find` | `CleanPageSeen` |
| the end of the wait for a free dirty page, with the second `lru_find` | `FreeDirtySeen` |
| the end of the wait in "write a clean page" | `ExchangeSeen` |
| `handle_cache_request` after the unlock | `IssueRead`, `IssueDestage` |
| the two tests of the destage thread, outside the mutex | `DestageWanted`, `DestageBudget` |
| `find_dirty_lru_page` and the loop around it | `DestagePick` |
| the callbacks | `lru_finish_read`, `lru_finish_destage_read`, `lru_finish_destage_write` |
| `start_urio` | `StartRecovery`, `EndRecovery` |

The request a player serves (`r`) is a record of page, direction, mask and slot:
the local variables that survive a wait. The scans look at the list from its
tail and stop before the head (`Examined`). The candidate loop of `destage()`,
the one place that keeps the mutex while it waits, is the state `spin`, in which
`MutexFree` is false.

An I/O that is queued has `by |-> Disk`; one whose callback the caller will run
itself has the caller there, and the caller is in state `callback` until then.

The ghost `pending` holds per page the sectors the user wrote and no disk write
has settled; `have` holds per slot the sectors the buffer really has. Neither
guards an action.

Abstractions: the statistics counters (`requested_pages`, `disk_ios`) are left
out, and with them `lru_call_back_do_nothing`, which only counts; the data
itself is not represented. `bm_mask` is a set of sectors. `malloc` in
`init_lru` leaves the descriptors uninitialised: the `page` and `state` fields
are set before they are read, `bm_mask` and (for a slot that a write miss
inserts) `refs` are not. The array is one allocation at the start of the program,
of the size of all descriptors, which the allocator serves with fresh zero pages:
`refs` starts as 0. `bm_mask` starts as any of `UninitMasks`, zero in most runs and
every value in `lru_scan`, so that no property of that run leans on it. The branches
that print "lru bug" are left out because `CallbackFindsPage` shows them dead: a
callback action without a page would disappear from the model otherwise, and it
is checked that it does not.

`play_trace` runs in the main thread, so there is one player as the program is
built; the loop that starts `PLAY_THREADS` of them is commented out. The code is
written for several (it takes the mutex and looks again after each wait), and
the runs `lru_recovery` and `alru_recovery` check two.

### WriteBackCache

Per page a status (absent, clean, dirty), the I/O under way and the sectors not
yet saved; no lists, hash table, reference counts, threads or waits. It says that
there are at most `Capacity` pages and one I/O per page, that no user write lands
in a page under I/O, that unsaved sectors stay until a write of the whole page
has saved them, and that only a clean page at rest makes room for another. Both
caches implement it under `StatusOf`, `IoOf` and `pending` (`KeepsPromise`). A page
whose I/O is decided but not submitted counts as under I/O: that is what clearing
UPTODATE before the unlock is for.

### AlruCache

`alru.c` repeats the critical sections of `lru.c` and keeps each cached page also
on the clean or dirty stack of its pair. Each action is therefore the one of
`LruCache` joined with what happens to `clean_ds_list` and `dirty_ds_list`
(`CleanToHead`, `DirtyToHead`, `CleanToDirty`, and the two moves of `AlruEvict`,
which removes the slot by its old page and adds it by its new one). Three things
differ and are written anew:

* `find_dirty_alru_page` and `find_clean_alru_page` look at the pairs' stacks
  while `start_urio` is set (`LeastLatency`, the loop with its running minimum)
  and at the whole list otherwise. They read `avg_lat` without `sio_mutex`, and
  twice for each pair: for the test (`alru.c:787`), and, after the stack of the pair
  has been looked at, for `min_lat` (`alru.c:789`). `LeastLatency` takes the values of
  both reads, `tested` and `stored`, and a search may return what any combination of
  them gives (`SearchStacks`).
  `avg_lat` is a sum of ten latencies in microseconds; that it stays
  below the start value of the minimum, 10^9, is `PairsAssumption`.
* A destage thread without a candidate waits with the mutex released, so
  `AlruDestagePick` is enabled when there is one, and the state `spin` is unused.
* `alru_finish_destage_write` takes the page off its pair's stack.

The `LruCache` properties are stated on its variables and are checked unchanged.
At `alru.c:480` the address of `requested_time` is taken through a null pointer;
`handle_cache_request_raid10` never reads that argument, so nothing follows.

### AlruReclaim

`main` is where the main thread is: `playing`, `sleeping`, `joining` (`exit` is
set) or `reclaimed`. While it plays, the actions of `AlruCache` run as they are;
`EndTrace` is `get_record` without a further record, possibly in the middle of
the recovery phase. The destage thread tests `exit` at the head of its loop only
(`DestagerGoesOn`). `QuietSleep` says whether the five seconds were enough for
all page I/Os: it is false where termination is checked and true where it makes
the violation stronger. Players are one thread, `main` itself.

### Raid10Io

`handle_cache_request` chooses a page I/O; `QueueRead`, or `QueueWrite` and
`QueueMirrorWrite`, are the calls of `handle_uio_raid10`, each a critical section
of the disk's `uio_mutex`, enabled when a `str_disk_io` is free. `DiskDone` is the
kernel and the disk. `Harvest` is `io_getevents` (at least one event, all there
are), `RunCallback` the call of `piocb->data`. The second critical section of
`uio_mutex` takes the pair's `sio_mutex` inside it and is three steps: `LockDiskIo`
(the test of `start_urio` under `uio_mutex`), `ReadLatency` (`sio_mutex` is free, the
new sum is computed from the window) and `ReturnDiskIo` (`RecordLatency`: the sum and
the latency are stored; free list, `uio_cnt`, both mutexes unlocked). With `start_urio`
clear it is `ReturnDiskIo` alone. `recording` says per disk where its thread is and
what it is about to store; `UioMutexFree` and `SioMutexFree` are the mutexes, and
`handle_uio` needs the first. Requests are limited to one
tracked I/O per page, which is `OneIoPerPage` of `LruCache`. The synchronous path
is in `LruCache`. The ghost `due` counts per page the callbacks owed.
Kernel, events and the iteration over a batch are sets because the order is free.

`PageIoService` is what the cache relies on. `Raid10Io` implements it under the
mapping `due <- due` (`CallbacksOnce`, safety and liveness).

### Raid10Data

What the I/Os of `Raid10Io` do to the two copies. The replayer has no data of its
own (all I/Os of a disk use one scratch buffer), so the data of a page is the
number of the write that put it there. The mirror write is prepared after the
first one and may carry a newer number than the call started with in
general; here a page has one tracked I/O at a time, but its mirror write may be
still queued when the next one begins. `DataDiskDone` is the disk, in any order.
`MaxWrites` bounds the writes of a page.

### Recovery

`GetRecord` is the line counter of the four trace readers that have
parameters in `set_para`. A recovery thread's checks and its decision to do an
I/O are `BeginRecoveryIo`: each offset it compares is changed by one thread
only, and only in the direction that keeps the check true, so reading them one
by one gives nothing more. The blocking `read`/`write` is the state `io`; the
updates after it are `FinishRecoveryRead` and `FinishRecoveryWrite`, with the
stamp of the end time a step of its own. User I/Os come and go freely after the
warm-up line, also after `start_urio` is cleared, as a thread may have read the
flag before.

### Slicing

One action per turn of the loop of `lru_replace`, which `alru_replace` repeats.
A mask is a set of (word, bit) pairs, and the shifts of `generate_bm` are modelled
by the bits they keep.

## 3. What the runs check

| Run | Instance | Checks | Shows |
|---|---|---|---|
| `lru_recovery` | 2 players, 2 slots (1 dirty), 2 pages, 2 sectors, all phases | the safety properties of the cache but `DestageBounded`, and `KeepsPromise` | the bookkeeping holds in every interleaving of two players, the destage thread and both kinds of callbacks |
| `lru_scan` | 1 player, 3 slots (2 dirty), 3 pages in 2 buckets, any initial bitmap, fair | `HashMatchesLists`, `CallbackFindsPage`, `DestageBounded`, `RequestsAnswered` | scans of longer lists, evictions, colliding chains, more destage candidates than the bound allows; a request ends unless the destage thread spins |
| `lru_bitmap` | 1 player, 2 slots | `BitmapHeld`, violated | finding 1 |
| `lru_destage_spin` | 1 player, 3 slots (2 dirty), fair | `CandidateLoopEnds`, violated | finding 2 |
| `alru_recovery` | 2 players, 2 slots (1 dirty), 2 pages on 2 pairs, 2 sectors, all phases | `HashMatchesLists`, `RefsCountUsers`, `NoLostWrite`, `ThreadsHold`, `StacksFollowLists`, `KeepsPromise` | the same of ALRU, and that stacks and lists agree |
| `alru_scan` | 1 player, 3 slots (2 dirty), 3 pages on 2 pairs, whole program, fair | `CallbackFindsPage`, `StacksFollowLists`, `LeastBusyPairServed`, `AlruRequestsAnswered`, `ReclaimEnds` | victims of the least busy pair; requests and the program end |
| `alru_reclaim` | 1 player, 2 slots, a sleep long enough | `ReclaimedMeansQuiet`, violated | finding 5 |
| `raid10_io` | 1 degraded pair, 2 pages, 2 I/Os per disk, window of 2, fair | `TypeOK`, `DiskIosAccounted`, `IosOnTheirPair`, `AvgLatIsWindowSum`, `CalledBackMeansOnDisk`, `CallbacksOnce` | no control block is lost, right page and disk, a latency sum that no interleaving of the two threads spoils, one callback, which says the page is on disk |
| `raid10_mirrors` | 1 pair, 2 I/Os per disk, 2 writes of a page | `MirrorsAgree`, violated | finding 3 |
| `recovery` | read 1, write 4, buffer 6, 12 to rebuild, 4 records | `TypeOK`, `RebuildWindow`, `WriteWasRead`, `NeverStuck`, `PhaseOpensOnce`, `RebuildEnds` | the rebuild is safe and ends |
| `recovery_end_time` | same | `EndTimeIsRebuildEnd`, violated | finding 4 |
| `slicing` | sectors of 2 bytes, words of 3, pages of 12, records of up to 30 bytes | `SlicesCoverRequest`, `PiecesAreRuns` | every record position and length around every border |

### Bounds and why they are enough

* **Cache.** Threads interact through one page (share it), two pages (one
  evicts or displaces the other) and the size of the pools. Two pages, one or two
  dirty slots and one or two clean ones reach each wait, each exchange and each
  eviction. Two players reach the races between a wait and its second
  `lru_find`. Three pages in two buckets put two slots in one chain, and lists of
  two make the scan choose. Two sectors separate a covered read from one
  that is not. `RaidDisks` here only bounds `destage_cnt`; 1 makes the bound
  bind. Counters need no bound: the slots bound them.
* **ALRU.** Two pairs make the choice and the wrong-pair moves possible; with three
  pages one pair has a stack of two. `lru_scan` and `alru_scan` have
  a threshold of two and one destage at a time, so that there are more candidates
  than the bound allows, as in the program (18 or more against 8 or 12).
  `Latencies` needs an order, not sizes.
* **RAID10.** One degraded pair: page 0 is read from the spare, page 1 from its
  mirror, each at its own offset. Two control blocks per disk make the wait for
  one happen and completion order matter. The window of two starts with zeros, fills
  and is overwritten; with I/Os of one latency an update that is lost shows
  as long as a zero is to be replaced, and the theorem `LatencySumExact` is for any
  latencies and length. Pairs share nothing but the
  address arithmetic, which is proved for all array sizes, and so is
  `IosOnTheirPair`.
* **Rebuild.** The sizes keep the structure of the program's: reads divide writes
  and the buffer, the buffer is not a multiple of the write, the end is a whole
  number of writes (three). The theorems of section 5 remove the bounds.
* **Slicing.** Three sectors per word and two words per page, with odd lengths and
  offsets, put every border inside and on every other.

Runs over `Raid10Data`, `AlruReclaim`, `Recovery` and `Slicing` do not check for
deadlock: requests or the trace may end, the cache is freed, the rebuild is
finished, or a record is cut, and nothing is left to do. The other cache runs do
check it.

### Fairness

* Players and the destage thread: weak fairness of what they do next. Their waits
  end by themselves every two milliseconds (`ADD_TIME_MSEC` adds two whatever it is
  given, `error.h:22`), so a condition that
  stays true is seen. That it holds while the condition flickers is not assumed.
* Disks: every queued page I/O completes; callbacks are fair per page.
* Recovery threads poll with `sleep(1)`; `io_getevents` threads run.
* `ReadLatency` is strongly fair: `sio_mutex` is held for a few assignments, and the
  other thread of the pair has to wait for a disk I/O between two times it takes it,
  so a thread that waits for the mutex gets it. Weak fairness would let the other
  thread take it for ever.
* Nothing forces the trace to go on, the phase to begin or to end, or user I/Os
  to come. `RebuildEnds` is stated for executions where user I/Os stop coming,
  because the recovery threads yield to them without limit.
* `EndSleep` and `reclaim_alru` are fair: the sleep returns, and so does the join
  once the thread has ended. Nothing makes the trace end.
* In `lru_scan` and `alru_scan` there is one player, as in the program: with two,
  one could take every page the other waits for, and weak fairness does not
  exclude it (nor do the code's mutexes).

### Findings

1. **Bitmap of a reused dirty slot** (`lru_bitmap`). A write miss takes a free
   dirty slot and or-es its bits into the bitmap the slot has from its former
   page (`lru.c:645`). A later read that the stale bits cover is taken as a hit,
   though the sectors were never fetched; the comment at `lru.c:399` says of that
   branch "all requested data are in the cache". The destage of such a page
   writes it without reading it first.
2. **Destage candidate loop** (`lru_destage_spin`). When no dirty page it
   examines is idle, `destage()` looks again and again with `lru_mutex` held,
   and the callbacks that would make one idle need the mutex. The comment at
   `lru.c:955` says "no candidate, we should wait for a signal, here we do not do
   that"; `alru.c:1113-1120` waits. In the program the threshold is 18 or more and
   at most `raid_disks` pages (8 or 12) are under destage, so it takes reads of
   partly covered dirty pages, or waiting players, to occupy the others; the
   instance has threshold 2 and one destage I/O so that few pages are enough. The
   scan also never examines the head of a list of several pages.
3. **Mirrored copies that differ** (`raid10_mirrors`). The tracked callback runs when
   the first copy is written; the page is then up to date and may be written
   again while its mirror write is queued. Nothing orders the two mirror writes, and
   when the older lands last the copies differ for good. Reads choose the copy
   by the page number (`raid10.c:514-530`). The comment "RAID10 layout"
   (`raid10.c:471`) shows both disks of a pair with the same pages. In a replayer,
   whose buffers carry no data, this has no consequence.
4. **End time of the rebuild** (`recovery_end_time`). `get_fin_record` stamps
   `recovery_end_time` at its end line even if the rebuild has ended and stamped
   it; `main` prints the difference as "recovery time".
5. **An I/O under a freed cache** (`alru_reclaim`). "some ios may still not be
   finished", "we sleep 5s here" (`acache.c:291-292`); but `exit` is set after the
   sleep, and the destage thread, past its test of it, submits one more page I/O
   before it ends. `pthread_join` returns, `reclaim_alru` frees the cache, and the
   callback comes later. It needs `start_urio` still set when the trace ends, as it
   is when fewer records than `end_lines` are left. `lru.c` has the same code.

## 4. Properties worth a word

* `RefsCountUsers` equates each `refs` with the set of those who will give a
  reference back: it rules out both a page recycled under a user and one that can
  never be evicted or freed.
* `HashMatchesLists` contains "no page has two slots", which depends on the
  second `lru_find` after each wait.
* `DirtyBudget` has the odd term that the code has: a player in "write a clean
  page" has made its page dirty and owes a free dirty slot.
* `KeepsPromise` is the refinement: among other things it says that no user write
  lands in a page under I/O, which is what makes it right for
  `lru_finish_destage_write` to drop a page (and for `pending` to be cleared).
* `ThreadsHold` says what threads may rely on across their unlocks.

* `StacksFollowLists` says more than `alru_check_stack` tests: each stack is the
  pair's part of the list, in the order of the list, so that its tail is the
  pair's least recently used page.
* `LeastBusyPairServed` is about a loop with a running minimum, a search that may
  come back empty, and latencies that change meanwhile. If no pair with a page
  crosses a level `t` during the search and one is at most at `t`, the page comes from
  such a pair; for latencies that stand still that is the least busy pair with a page.
  The stronger "no pair is served while another was faster all the time" does not hold of the
  code with three pairs: `min_lat` is read after the test, so a pair that became
  busier in between raises it, and a third pair with a latency between that and the
  first pair's is then taken.
* `AvgLatIsWindowSum` depends on `sio_mutex`: without it two threads compute their sums
  from the same window, and the second store drops what the first one added (the mutant).
* `ReclaimEnds` holds although the destage thread does not look at `exit` while
  it waits for a candidate, because it starts to wait only with at least
  `destage_threadhold` dirty pages (or all of them) and fewer than `raid_disks`
  of them under destage. A threshold below the bound (the mutant, and the
  commented-out `DESTAGE_GAP` in `alru.c:1107`) takes that away.
* `CalledBackMeansOnDisk` and `MirrorsAgree` are the two halves of what a caller
  might take a finished write to mean; the first holds.

## 5. Proofs

TLAPS checks each theorem for all constants that satisfy the named assumptions.

* **`RecoveryProofs`**, from `RecoveryAssumption` and `TraceAssumption`:
  `WindowKept`, `OnlyReadDataWritten`, `RebuildNeverStuck`, `OnePhase`,
  `RecoveryTypeCorrect`. The invariant `RInv` strengthens the properties in two
  ways. What a thread checked before its I/O still holds during it
  (`ReaderMayGoOn`, `WriterMayGoOn`), because the other thread only makes it more
  true. And the offsets lie on the grid of the I/O sizes, counted from the end
  (`WriterOnGrid`, `ReaderOnGrid`): without it a reader that stops one byte short
  of what the writer needs would be possible, and a last step could overshoot.
  `RebuildNeverStuck` follows from the grid and from the buffer holding a write.
  `QuietBeforeWarmup` carries `OnePhase`.
* **`Raid10IoProofs`**: first the layout, from `LayoutAssumption`: `DisksInArray`,
  `PairOfPage`, `PageRoundTrip`: a page is on the two different disks of one pair, and
  callbacks find it. The argument
  writes a page's byte address as row, pair and offset in the strip and shows
  that each function undoes one of the three. Then the I/O, from
  `Raid10IoAssumption` and `NoIoAssumption` besides.
  `CallbackPageRight` (`IosOnTheirPair`): each I/O was issued for some page
  (`PlacesKnown`), and the round trip of the layout turns that into what the
  callback computes. `DiskIosNeverLost` (`DiskIosAccounted`): the invariant
  `BooksOK` keeps per disk the free list, the I/Os and the counter as one account
  (`Account`), which `handle_uio_raid10` changes by `AccountTake` and the
  completion thread by `AccountReturn`. That no two I/Os have one id and that the
  event the harvest loop returns is one of its batch make it inductive.
  `CallbackAtMostOnce` is the safety half of `CallbacksOnce`. The
  invariant `OwedOnce` says who owes the callback of a page: when `due` is 0 no
  I/O does, and otherwise exactly one, which has `cb` set and is queued, done, or
  harvested and not called. `FirstAlone` adds that a client about to queue a page's
  first I/O is the only one, with nothing owed.
  `LatencySumExact`: `avg_lat` is updated by difference, and the property is a sum
  over the window, so each update needs that changing one entry changes the sum
  by the difference, which is an induction over the window (`OverwrittenWindow`). And
  it is stored from values read before: `WindowInv` says that what a thread under
  `sio_mutex` is about to store is still right (`UpdateOK`), since no other thread of the
  pair is there (`OneUpdate`). `UserIoTypeCorrect` rests on it.
  `CalledBackOnDisk` is about `Raid10Data`. Its invariant
  `CopiesInv` says that an I/O that waits for a page's first copy has the tracked
  callback and is a read or writes the last version, and that without such a write
  the first copy is the last version.
* **`LruCacheProofs`**, from the assumptions of `LruCache`: `LruTypeCorrect`,
  the `TypeOK` of the runs. `TypeOK` is not inductive: the destage thread submits
  `page[slot]` of a slot it took from the dirty list, so that listed slots, and
  slots that threads hold, have page numbers has to be carried along
  (`ListedHavePages`, `MayBeAt`). The module also defines `AnyPageSpec`, a cache on
  the same variables that may evict or destage any idle page of a list, where the
  LRU cache takes the last one it examines, or may go on waiting. The proofs need no
  more of the choice than that, so they are about `AnyPageSpec`, and
  `LruTakesAnyPage` brings them to the LRU cache.
* **`LruInvariantProofs`**: `SlotsShared`, `HashTableExact`, `RefsExact`,
  `OneIoAtATime`, `CallbacksFindPages`, `ThreadsKeepHold`. None of the six
  properties is inductive alone. That a page that is evicted has no user needs
  exact reference counts; that they are exact after a callback needs the callback to
  find the page it was issued for; that it finds it needs that the page has not
  been evicted. `BookInv` is their conjunction with the types, and is
  inductive. The proof looks at each critical section
  twice: what it does to lists and hash table, and what it does to the users of a
  slot (`Users` gains one, loses one, or is as it was, slot by slot).
* **`LruPromiseProofs`**, on `BookInv`: `DestageWithinBudget`, `DirtyWithinBudget`,
  `WritesNeverLost`, and `CacheKeepsPromise`, the refinement. Each critical
  section of a player is first reduced to one of three things
  (`ServesPage`, `FillsPage`, `GoesToWait`); then each is shown to be a step of
  `WriteBackCache` on the one page it is about, and to leave status and I/O of all other
  pages alone. `BookInv` is where the abstract guards come from: an idle page is at
  rest, an unused slot has no I/O, and as no page has two slots the abstract
  capacity is the number of slots.
* **`AlruCacheProofs`**, from `PairsAssumption` besides: `StacksExact`,
  `IdlestPairServed`; `AlruTypeCorrect`, `AlruSlotsShared`, `AlruHashTableExact`,
  `AlruRefsExact`, `AlruOneIoAtATime`, `AlruCallbacksFindPages`, `AlruThreadsKeepHold`,
  `AlruDestageWithinBudget`, `AlruDirtyWithinBudget`, `AlruWritesNeverLost` and
  `AlruKeepsPromise`, the counterparts of the LRU theorems;
  `ProgramRunsCache`. The ALRU cache finds a page on a
  stack, so that it takes an idle page of a *list*, as `AnyPageSpec` does, rests on the stacks
  being the lists: `StackInv` and `BookInv` are proved together. `StackInv`
  (`Side`, for each of the two lists) is kept because whatever a critical section does to a
  list, it does to the stack of the page's pair, and order survives both
  (`AgreesRemove`, `AgreesAdd`); it needs from `BookInv` that the slot a hit works on
  still has the page it was looked up by. The loop over the pairs is an induction over
  their number (`SearchExists`, `SearchResult`), whose invariant says that a page found
  so far comes from the pair whose latency was stored in `min_lat`, and, if no pair crosses
  `t`, that this pair is at most at `t` if one passed so far is.
  `ProgramRunsCache` is `ReclaimSpec => AlruSpec`: the theorems hold of the whole
  program, until the cache is freed.
* **`SlicingProofs`**, from `SlicingAssumption`: `RecordCovered`
  (`SlicesCoverRequest`), `PiecesContiguous` (`PiecesAreRuns`). `generate_bm` marks
  exactly the sectors from its first to its last (`BitmapExact`), and the piece of a
  page is the part of the record on that page (`PieceExact`), so that the pieces so
  far are the record below the current page (`SlicingInv`).
* **`DlListProofs`**: what adding and removing does to a list, for any list
  (`AddToHeadType`, `RemoveNodeType`, `MoveToHeadType`, `HeadType`) and exactly,
  for lists without duplicates (`AddToHeadExact`, `RemoveNodeExact`,
  `MoveToHeadExact`, and their lengths), and what it does to the order of the others
  (`AddToHeadOrder`, `RemoveNodeOrder`). `InductionUpTo` is induction over the numbers
  below a bound for a set of numbers, derived from the library's
  well-foundedness of `<`; the library's own induction theorems take an operator
  as parameter, which none of the installed provers can instantiate. `DivMod`,
  `DivModUnique`, `DivMonotonic` and `Products` are the arithmetic of the layout and of
  the slicing.

**Only model-checked**: every liveness property (`RequestsAnswered`,
`AlruRequestsAnswered`, `ReclaimEnds`, `RebuildEnds`), and the fairness half of
`CallbacksOnce`: fairness and ENABLED are out of the prover's reach. What the runs with
a violation show is a matter of one counterexample, and TLC's.

## 6. Not modelled

* Failures at the start: the `init_*` functions undo what they did and `main`
  exits. (`init_raid10` also joins threads it has not created when
  `pthread_create` fails.)
* `reclaim_raid10`, which runs after the cache is freed; `reclaim_lru`, which is
  `reclaim_alru` line for line.
* The pointers of `dllist.c`: the lists are sequences.
* Failing system calls: `io_submit`'s result is ignored, a failed read or write
  of the rebuild is printed and counted as done.
* Parsing of trace formats: line formats only, no state but the counter.
* RAID6: `connect_raid` knows only "raid10"; `io_to_page_raid6` is empty, and the
  loops of its degraded reads (`raid6.c:464`, `475`) count upwards from the last
  disk and do not end.
* The pace of the replay (`usleep`), statistics and printing.
* The data of the rebuild: reader and writer use the buffer of their own disk, so
  no data passes from one to the other in this program; offsets are what is
  modelled.
* The data in the cache: what a buffer holds is tracked per sector (`have`,
  `pending`), not by value.

## 7. Plan

Done: both caches, their abstract specification, the end of the program, RAID10
layout, user I/O and copies, the rebuild, slicing; proofs of all safety
properties that the passing runs check, and of the refinement for both caches.

To model and prove, if it pays: `DlListPointers`, the nodes and pointers of
`dllist.c` refining `DlList`.
