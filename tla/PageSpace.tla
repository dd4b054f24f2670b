----------------------------- MODULE PageSpace -----------------------------
(***************************************************************************)
(* The old-generation page space of src/dart/runtime/vm/pages.cc: the      *)
(* singly linked lists of regular and large HeapPages, the bump cursor     *)
(* bump_page_, the free list filled by sweeping, the capacity and in-use   *)
(* counters, and the growth controller (module PageSpaceController).       *)
(*                                                                         *)
(* A page is a member of PageIds; memory_[p] is the size of its reserved   *)
(* region (0 when p is not reserved) and top_[p] its bump cursor, both     *)
(* relative to first_object_start().  An object or a free-list chunk is a  *)
(* record [page, start, size].  The mutator is the environment: it may ask *)
(* for any size under either growth policy, and a collection may start at  *)
(* any time, keeping any subset of the objects alive.  Collections are     *)
(* stop-the-world, so MarkSweep is one step.                               *)
(***************************************************************************)
EXTENDS Integers, Sequences, SequencesExt

CONSTANTS
  PageIds,          \* the page regions the model may reserve
  NULL,
  HeapPageHeader,   \* sizeof(HeapPage), in allocation units
  VMPageSize,       \* VirtualMemory::PageSize(), in allocation units
  MaxCapacity,      \* PageSpace::max_capacity_
  ObjectSizes,      \* object sizes the mutator asks for
  GcGaps,           \* mutator time between two collections (ms)
  GcDurations,      \* duration of one collection (ms)
  MaxCollections,   \* bound on the number of collections (count_)
  WordBits,         \* bits of intptr_t (sizes count allocation units)
  HeapGrowthRatio, HeapGrowthRate, GcTimeRatio, HistoryLength, PageSize

ASSUME NULL \notin PageIds
ASSUME HeapPageHeader \in Nat /\ HeapPageHeader < PageSize
ASSUME VMPageSize \in {2^k : k \in 0..WordBits}
ASSUME ObjectSizes \subseteq Nat \ {0}
ASSUME GcGaps \subseteq Nat \ {0} /\ GcDurations \subseteq Nat

VARIABLES
  pages_, pages_tail_, large_pages_, bump_page_,
  next_,        \* HeapPage::next_ of each page
  memory_,      \* size of the VirtualMemory reserved for each page, or 0
  top_,         \* HeapPage::top_, relative to first_object_start()
  objects,      \* the objects allocated in the space
  freelist_,    \* the chunks on the free list
  capacity_, in_use_, count_,
  crashed,      \* a NULL VirtualMemory was dereferenced
  ret,          \* the outcome of the last TryAllocate since the last GC
  is_enabled_, grow_heap_, start_, end_, index_

Ctl == INSTANCE PageSpaceController

ctl_vars == <<is_enabled_, grow_heap_, start_, end_, index_>>

vars == <<pages_, pages_tail_, large_pages_, bump_page_, next_, memory_,
          top_, objects, freelist_, capacity_, in_use_, count_, crashed, ret,
          is_enabled_, grow_heap_, start_, end_, index_>>

kControlGrowth == "ControlGrowth"
kForceGrowth == "ForceGrowth"
GrowthPolicies == {kControlGrowth, kForceGrowth}
NoCall == [size |-> 0, policy |-> "none", ok |-> TRUE]

\* PageSpace::kAllocatablePageSize: the object area of a regular page.
kAllocatablePageSize == PageSize - HeapPageHeader

Reserved == {p \in PageIds : memory_[p] > 0}

\* end() - first_object_start() of a reserved page.
ObjectEnd(p) == memory_[p] - HeapPageHeader

\* intptr_t arithmetic: the largest value, and a sum wrapped into range as
\* the two's complement build computes it.
IntptrMax == 2^(WordBits - 1) - 1
Wrap(x) == ((x + 2^(WordBits - 1)) % 2^WordBits) - 2^(WordBits - 1)

\* PageSpace::LargePageSizeFor: Utils::RoundUp(size + sizeof(HeapPage),
\* VirtualMemory::PageSize()), which is (x + n - 1) & -n, in intptr_t.
LargePageSizeFor(size) ==
  (Wrap(Wrap(size + HeapPageHeader) + VMPageSize - 1) \div VMPageSize) * VMPageSize

\* PageSpace::CanIncreaseCapacity (pages.h).
CanIncreaseCapacity(increase) == increase <= MaxCapacity - capacity_

\* The pages of a list, following next_ from head; at most Cardinality(PageIds) + 1
\* of them, so that a cycle shows as a list longer than PageIds.
RECURSIVE Walk(_, _, _)
Walk(nxt, p, fuel) ==
  IF p = NULL \/ fuel = 0 THEN <<>> ELSE <<p>> \o Walk(nxt, nxt[p], fuel - 1)

RegularPages == Walk(next_, pages_, Cardinality(PageIds) + 1)
LargePages == Walk(next_, large_pages_, Cardinality(PageIds) + 1)

----------------------------------------------------------------------------
(* Allocation.                                                             *)

\* HeapPage::TryBumpAllocate (pages.h): room between top_ and end().
PageCanBump(p, size) == ObjectEnd(p) - top_[p] >= size

(***************************************************************************)
(* PageSpace::TryBumpAllocate: the page the object goes to (or NULL) and   *)
(* the value bump_page_ is left with.  The tail is tried first; then the   *)
(* pages from bump_page_ (from pages_ when it is NULL) up to, excluding,   *)
(* the tail.                                                               *)
(***************************************************************************)
RECURSIVE ScanBump(_, _)
ScanBump(bp, size) ==
  IF bp = pages_tail_ \/ bp = NULL THEN [page |-> NULL, cursor |-> bp]
  ELSE IF PageCanBump(bp, size) THEN [page |-> bp, cursor |-> bp]
  ELSE ScanBump(next_[bp], size)

\* Mutant: every scan restarts at the head of the list.
TryBumpAllocateFromStart(size) ==
  IF pages_tail_ = NULL THEN [page |-> NULL, cursor |-> bump_page_]
  ELSE IF PageCanBump(pages_tail_, size)
       THEN [page |-> pages_tail_, cursor |-> bump_page_]
       ELSE ScanBump(pages_, size)

TryBumpAllocate(size) ==
  IF pages_tail_ = NULL THEN [page |-> NULL, cursor |-> bump_page_]
  ELSE IF PageCanBump(pages_tail_, size)
       THEN [page |-> pages_tail_, cursor |-> bump_page_]
       ELSE ScanBump(IF bump_page_ = NULL THEN pages_ ELSE bump_page_, size)

\* FreeList::TryAllocate (freelist.cc): the chunks that can serve size.
FreeListFits(size) == {c \in freelist_ : c.size >= size}

\* A chunk split by FreeList::TryAllocate: what goes back on the list.
Remainder(c, size) ==
  IF c.size = size THEN {}
  ELSE {[page |-> c.page, start |-> c.start + size, size |-> c.size - size]}

Returned(size, policy, ok) == [size |-> size, policy |-> policy, ok |-> ok]

\* Mutant: the split chunk's tail is not put back on the free list.
AllocateFromFreeListDropsRemainder(size, policy) ==
  /\ size < kAllocatablePageSize
  /\ \E c \in FreeListFits(size) :
        /\ freelist_' = freelist_ \ {c}
        /\ objects' = objects \cup {[page |-> c.page, start |-> c.start, size |-> size]}
  /\ in_use_' = in_use_ + size
  /\ ret' = Returned(size, policy, TRUE)
  /\ UNCHANGED <<pages_, pages_tail_, large_pages_, bump_page_, next_, memory_,
                 top_, capacity_, count_, crashed, ctl_vars>>

\* TryAllocate(size, policy), small object served by the free list.
AllocateFromFreeList(size, policy) ==
  /\ size < kAllocatablePageSize
  /\ \E c \in FreeListFits(size) :
        /\ freelist_' = (freelist_ \ {c}) \cup Remainder(c, size)
        /\ objects' = objects \cup {[page |-> c.page, start |-> c.start, size |-> size]}
  /\ in_use_' = in_use_ + size
  /\ ret' = Returned(size, policy, TRUE)
  /\ UNCHANGED <<pages_, pages_tail_, large_pages_, bump_page_, next_, memory_,
                 top_, capacity_, count_, crashed, ctl_vars>>

\* TryAllocate(size, policy), small object bumped into an existing page.
AllocateByBump(size, policy) ==
  LET b == TryBumpAllocate(size) IN
  /\ size < kAllocatablePageSize
  /\ FreeListFits(size) = {}
  /\ b.page # NULL
  /\ objects' = objects \cup {[page |-> b.page, start |-> top_[b.page], size |-> size]}
  /\ top_' = [top_ EXCEPT ![b.page] = @ + size]
  /\ bump_page_' = b.cursor
  /\ in_use_' = in_use_ + size
  /\ ret' = Returned(size, policy, TRUE)
  /\ UNCHANGED <<pages_, pages_tail_, large_pages_, next_, memory_, freelist_,
                 capacity_, count_, crashed, ctl_vars>>

\* The growth test of TryAllocate; CanGrowPageSpace is always evaluated.
\* Mutant: kForceGrowth no longer overrides the controller.
MayGrowIgnoringForce(size, policy) ==
  Ctl!CanGrowPageSpace(size) /\ CanIncreaseCapacity(PageSize)

MayGrow(size, policy) ==
  (Ctl!CanGrowPageSpace(size) \/ policy = kForceGrowth)
    /\ CanIncreaseCapacity(PageSize)

(***************************************************************************)
(* TryAllocate(size, policy), small object, after the free list and every  *)
(* page failed: AllocatePage appends a fresh page p and resets bump_page_, *)
(* and the retried TryBumpAllocate succeeds on the new tail.               *)
(***************************************************************************)
AllocateNewPage(size, policy) ==
  /\ size < kAllocatablePageSize
  /\ FreeListFits(size) = {}
  /\ TryBumpAllocate(size).page = NULL
  /\ MayGrow(size, policy)
  /\ \E p \in PageIds \ Reserved :
        /\ memory_' = [memory_ EXCEPT ![p] = PageSize]
        /\ next_' = IF pages_ = NULL THEN [next_ EXCEPT ![p] = NULL]
                    ELSE [next_ EXCEPT ![p] = NULL, ![pages_tail_] = p]
        /\ pages_' = IF pages_ = NULL THEN p ELSE pages_
        /\ pages_tail_' = p
        /\ top_' = [top_ EXCEPT ![p] = size]
        /\ objects' = objects \cup {[page |-> p, start |-> 0, size |-> size]}
  /\ bump_page_' = NULL
  /\ capacity_' = capacity_ + PageSize
  /\ grow_heap_' = Ctl!GrowHeapAfterCanGrow(size)
  /\ in_use_' = in_use_ + size
  /\ ret' = Returned(size, policy, TRUE)
  /\ UNCHANGED <<large_pages_, freelist_, count_, crashed, is_enabled_,
                 start_, end_, index_>>

\* TryAllocate(size, policy), small object, no page may be added: returns 0.
AllocateSmallFails(size, policy) ==
  /\ size < kAllocatablePageSize
  /\ FreeListFits(size) = {}
  /\ TryBumpAllocate(size).page = NULL
  /\ ~MayGrow(size, policy)
  /\ bump_page_' = TryBumpAllocate(size).cursor
  /\ grow_heap_' = Ctl!GrowHeapAfterCanGrow(size)
  /\ ret' = Returned(size, policy, FALSE)
  /\ UNCHANGED <<pages_, pages_tail_, large_pages_, next_, memory_, top_,
                 objects, freelist_, capacity_, in_use_, count_, crashed,
                 is_enabled_, start_, end_, index_>>

\* Mutant: the large branch without page->set_top(result + size).
AllocateLargeNoTop(size, policy) ==
  /\ size >= kAllocatablePageSize
  /\ LargePageSizeFor(size) >= size
  /\ LargePageSizeFor(size) >= size
  /\ CanIncreaseCapacity(LargePageSizeFor(size))
  /\ \E p \in PageIds \ Reserved :
        /\ memory_' = [memory_ EXCEPT ![p] = LargePageSizeFor(size)]
        /\ next_' = [next_ EXCEPT ![p] = large_pages_]
        /\ large_pages_' = p
        /\ top_' = top_
        /\ objects' = objects \cup {[page |-> p, start |-> 0, size |-> size]}
  /\ capacity_' = capacity_ + LargePageSizeFor(size)
  /\ in_use_' = in_use_ + size
  /\ ret' = Returned(size, policy, TRUE)
  /\ UNCHANGED <<pages_, pages_tail_, bump_page_, freelist_, count_, crashed,
                 ctl_vars>>

\* Mutant: the large branch without the overflow check.
AllocateLargeNoOverflowCheck(size, policy) ==
  /\ size >= kAllocatablePageSize
  /\ CanIncreaseCapacity(LargePageSizeFor(size))
  /\ \E p \in PageIds \ Reserved :
        /\ memory_' = [memory_ EXCEPT ![p] = LargePageSizeFor(size)]
        /\ next_' = [next_ EXCEPT ![p] = large_pages_]
        /\ large_pages_' = p
        /\ top_' = [top_ EXCEPT ![p] = size]
        /\ objects' = objects \cup {[page |-> p, start |-> 0, size |-> size]}
  /\ capacity_' = capacity_ + LargePageSizeFor(size)
  /\ in_use_' = in_use_ + size
  /\ ret' = Returned(size, policy, TRUE)
  /\ UNCHANGED <<pages_, pages_tail_, bump_page_, freelist_, count_, crashed,
                 ctl_vars>>

\* PageSpace::AllocateLargePage: HeapPage::Allocate reserves region p of
\* LargePageSizeFor(size), pushed on large_pages_ and added to capacity_.
AllocateLargePage(p, size) ==
  /\ memory_' = [memory_ EXCEPT ![p] = LargePageSizeFor(size)]
  /\ next_' = [next_ EXCEPT ![p] = large_pages_]
  /\ large_pages_' = p
  /\ capacity_' = capacity_ + LargePageSizeFor(size)

\* TryAllocate(size, policy), large object: AllocateLargePage pushes a page
\* sized for the object on large_pages_ and the object fills it from the start.
AllocateLarge(size, policy) ==
  /\ size >= kAllocatablePageSize
  /\ LargePageSizeFor(size) >= size
  /\ CanIncreaseCapacity(LargePageSizeFor(size))
  /\ \E p \in PageIds \ Reserved :
        /\ AllocateLargePage(p, size)
        /\ top_' = [top_ EXCEPT ![p] = size]
        /\ objects' = objects \cup {[page |-> p, start |-> 0, size |-> size]}
  /\ in_use_' = in_use_ + size
  /\ ret' = Returned(size, policy, TRUE)
  /\ UNCHANGED <<pages_, pages_tail_, bump_page_, freelist_, count_, crashed,
                 ctl_vars>>

\* TryAllocate(size, policy), large object whose page size overflowed:
\* "On overflow we fail to allocate."
AllocateLargeOverflows(size, policy) ==
  /\ size >= kAllocatablePageSize
  /\ LargePageSizeFor(size) < size
  /\ ret' = Returned(size, policy, FALSE)
  /\ UNCHANGED <<pages_, pages_tail_, large_pages_, bump_page_, next_, memory_,
                 top_, objects, freelist_, capacity_, in_use_, count_, crashed,
                 ctl_vars>>

\* TryAllocate(size, policy), large object over the capacity ceiling.
AllocateLargeFails(size, policy) ==
  /\ size >= kAllocatablePageSize
  /\ LargePageSizeFor(size) >= size
  /\ ~CanIncreaseCapacity(LargePageSizeFor(size))
  /\ ret' = Returned(size, policy, FALSE)
  /\ UNCHANGED <<pages_, pages_tail_, large_pages_, bump_page_, next_, memory_,
                 top_, objects, freelist_, capacity_, in_use_, count_, crashed,
                 ctl_vars>>

TryAllocate(size, policy) ==
  \/ AllocateFromFreeList(size, policy)
  \/ AllocateByBump(size, policy)
  \/ AllocateNewPage(size, policy)
  \/ AllocateSmallFails(size, policy)
  \/ AllocateLarge(size, policy)
  \/ AllocateLargeOverflows(size, policy)
  \/ AllocateLargeFails(size, policy)

----------------------------------------------------------------------------
(* Mark-sweep.                                                             *)

\* The bytes of the objects in a set.
SizeOf(objs) == MapThenSumSet(LAMBDA o : o.size, objs)

\* GCSweeper::SweepPage / SweepLargePage: the live bytes of page p.
PageInUse(live, p) == SizeOf({o \in live : o.page = p})

Covered(live, p, u) == \E o \in live : o.page = p /\ o.start <= u /\ u < o.start + o.size

(***************************************************************************)
(* GCSweeper::SweepPage (gc_sweeper.cc): the maximal runs of dead space in *)
(* [first_object_start, top) go to the free list, unless one run covers    *)
(* the whole page (the page is then released).                             *)
(***************************************************************************)
SweptChunks(live, p) ==
  IF PageInUse(live, p) = 0 THEN {}
  ELSE {c \in [page : {p}, start : 0..(top_[p] - 1), size : 1..top_[p]] :
          /\ c.start + c.size <= top_[p]
          /\ \A u \in c.start..(c.start + c.size - 1) : ~Covered(live, p, u)
          /\ c.start = 0 \/ Covered(live, p, c.start - 1)
          /\ c.start + c.size = top_[p] \/ Covered(live, p, c.start + c.size)}

(***************************************************************************)
(* PageSpace::FreePage and FreeLargePage on the list state                 *)
(* st = [next, head, tail, memory, capacity]: unlink page after previous   *)
(* (or as the head), fix the tail, release the memory.                     *)
(***************************************************************************)
\* Mutant: FreePage without the pages_tail_ fix-up.
FreePageKeepsTail(st, page, previous_page) ==
  [st EXCEPT !.capacity = @ - st.memory[page],
             !.next = IF previous_page # NULL
                      THEN [@ EXCEPT ![previous_page] = st.next[page], ![page] = NULL]
                      ELSE [@ EXCEPT ![page] = NULL],
             !.head = IF previous_page # NULL THEN @ ELSE st.next[page],
             !.memory = [@ EXCEPT ![page] = 0]]

FreePage(st, page, previous_page) ==
  [st EXCEPT !.capacity = @ - st.memory[page],
             !.next = IF previous_page # NULL
                      THEN [@ EXCEPT ![previous_page] = st.next[page], ![page] = NULL]
                      ELSE [@ EXCEPT ![page] = NULL],
             !.head = IF previous_page # NULL THEN @ ELSE st.next[page],
             !.tail = IF page = st.tail THEN previous_page ELSE @,
             !.memory = [@ EXCEPT ![page] = 0]]

\* Mutant: FreeLargePage without the capacity_ decrement.
FreeLargePageKeepsCapacity(st, page, previous_page) ==
  [st EXCEPT !.next = IF previous_page # NULL
                      THEN [@ EXCEPT ![previous_page] = st.next[page], ![page] = NULL]
                      ELSE [@ EXCEPT ![page] = NULL],
             !.head = IF previous_page # NULL THEN @ ELSE st.next[page],
             !.memory = [@ EXCEPT ![page] = 0]]

FreeLargePage(st, page, previous_page) ==
  [st EXCEPT !.capacity = @ - st.memory[page],
             !.next = IF previous_page # NULL
                      THEN [@ EXCEPT ![previous_page] = st.next[page], ![page] = NULL]
                      ELSE [@ EXCEPT ![page] = NULL],
             !.head = IF previous_page # NULL THEN @ ELSE st.next[page],
             !.memory = [@ EXCEPT ![page] = 0]]

\* The sweep loops of MarkSweep over one list, releasing the empty pages.
RECURSIVE SweepPages(_, _, _, _, _)
SweepPages(live, st, page, prev_page, large) ==
  IF page = NULL THEN st
  ELSE LET next_page == st.next[page]
       IN  IF PageInUse(live, page) = 0
           THEN SweepPages(live,
                           IF large THEN FreeLargePage(st, page, prev_page)
                                    ELSE FreePage(st, page, prev_page),
                           next_page, prev_page, large)
           ELSE SweepPages(live, st, next_page, page, large)

\* Mutant: the sweep leaves bump_page_ as it was.
MarkSweepKeepsBumpPage(live, gap, duration) ==
  LET st0 == [next |-> next_, head |-> pages_, tail |-> pages_tail_,
              memory |-> memory_, capacity |-> capacity_]
      st1 == SweepPages(live, st0, pages_, NULL, FALSE)
      st2 == SweepPages(live, [st1 EXCEPT !.head = large_pages_],
                        large_pages_, NULL, TRUE)
      in_use == SizeOf(live)
      start == Ctl!LastEnd + gap
  IN  /\ count_ < MaxCollections
      /\ UNCHANGED bump_page_
      /\ freelist_' = UNION {SweptChunks(live, p) : p \in ToSet(RegularPages)}
      /\ pages_' = st1.head
      /\ pages_tail_' = st1.tail
      /\ large_pages_' = st2.head
      /\ next_' = st2.next
      /\ memory_' = st2.memory
      /\ capacity_' = st2.capacity
      /\ top_' = [p \in PageIds |-> IF st2.memory[p] = 0 THEN 0 ELSE top_[p]]
      /\ objects' = live
      /\ in_use_' = in_use
      /\ Ctl!EvaluateGarbageCollection(in_use_, in_use, start, start + duration)
      /\ count_' = count_ + 1
      /\ ret' = NoCall
      /\ UNCHANGED <<crashed, is_enabled_>>

(***************************************************************************)
(* PageSpace::MarkSweep: marking keeps the objects in live; bump_page_ and *)
(* the free list are reset; regular then large pages are swept; in_use_ is *)
(* recomputed and the controller evaluates the collection, which ran from  *)
(* start to end on the wall clock.                                         *)
(***************************************************************************)
MarkSweep(live, gap, duration) ==
  LET st0 == [next |-> next_, head |-> pages_, tail |-> pages_tail_,
              memory |-> memory_, capacity |-> capacity_]
      st1 == SweepPages(live, st0, pages_, NULL, FALSE)
      st2 == SweepPages(live, [st1 EXCEPT !.head = large_pages_],
                        large_pages_, NULL, TRUE)
      in_use == SizeOf(live)
      start == Ctl!LastEnd + gap
  IN  /\ count_ < MaxCollections
      /\ bump_page_' = NULL
      /\ freelist_' = UNION {SweptChunks(live, p) : p \in ToSet(RegularPages)}
      /\ pages_' = st1.head
      /\ pages_tail_' = st1.tail
      /\ large_pages_' = st2.head
      /\ next_' = st2.next
      /\ memory_' = st2.memory
      /\ capacity_' = st2.capacity
      /\ top_' = [p \in PageIds |-> IF st2.memory[p] = 0 THEN 0 ELSE top_[p]]
      /\ objects' = live
      /\ in_use_' = in_use
      /\ Ctl!EvaluateGarbageCollection(in_use_, in_use, start, start + duration)
      /\ count_' = count_ + 1
      /\ ret' = NoCall
      /\ UNCHANGED <<crashed, is_enabled_>>

----------------------------------------------------------------------------
(* Heap iteration.  A block is <<"object", o>> or <<"free", c>>: the free  *)
(* list's chunks are FreeListElements, objects to a walk like any other.   *)

Blocks == {<<"object", o>> : o \in objects} \cup {<<"free", c>> : c \in freelist_}

\* RawObject::FromAddr(addr) on page p: the blocks that start at addr.
BlocksAt(p, addr) == {b \in Blocks : b[2].page = p /\ b[2].start = addr}

(***************************************************************************)
(* HeapPage::VisitObjects: from first_object_start() while obj_addr <      *)
(* top(), visit the object at obj_addr and step by its Size().  The result *)
(* is the visited blocks and where the walk stopped; a walk that meets no  *)
(* header at obj_addr reads garbage, and stops with end = -1.              *)
(***************************************************************************)
RECURSIVE HeapPageVisitObjects(_, _)
HeapPageVisitObjects(p, obj_addr) ==
  IF obj_addr >= top_[p] THEN [visited |-> <<>>, end |-> obj_addr]
  ELSE IF BlocksAt(p, obj_addr) = {} THEN [visited |-> <<>>, end |-> -1]
  ELSE LET b == CHOOSE x \in BlocksAt(p, obj_addr) : TRUE
           rest == HeapPageVisitObjects(p, obj_addr + b[2].size)
       IN  [rest EXCEPT !.visited = <<b>> \o @]

\* HeapPage::FindObject: the first block of the walk the visitor accepts;
\* the visitor is the set of blocks it accepts.
HeapPageFindObject(p, accepts) ==
  LET w == HeapPageVisitObjects(p, 0).visited
      hits == {i \in DOMAIN w : w[i] \in accepts}
  IN  IF hits = {} THEN NULL ELSE w[CHOOSE i \in hits : \A j \in hits : i <= j]

\* PageSpace::VisitObjects: every page of pages_, then of large_pages_.
PageSpaceVisitObjects ==
  FoldLeft(LAMBDA acc, p : acc \o HeapPageVisitObjects(p, 0).visited,
           <<>>, RegularPages \o LargePages)

\* PageSpace::FindObject: the first page, regular ones first, whose walk
\* finds the block.
PageSpaceFindObject(accepts) ==
  LET found == SelectSeq(RegularPages \o LargePages,
                         LAMBDA p : HeapPageFindObject(p, accepts) # NULL)
  IN  IF found = <<>> THEN NULL ELSE HeapPageFindObject(Head(found), accepts)

\* HeapPage::Contains: addr (an offset from first_object_start() of page p)
\* lies in the page's reserved region, its header included.
HeapPageContains(page, p, offset) ==
  page = p /\ -HeapPageHeader <= offset /\ offset < ObjectEnd(page)

\* PageSpace::Contains: some page of either list contains addr.
PageSpaceContains(p, offset) ==
  \E page \in ToSet(RegularPages \o LargePages) : HeapPageContains(page, p, offset)

----------------------------------------------------------------------------

Init ==
  /\ pages_ = NULL /\ pages_tail_ = NULL /\ large_pages_ = NULL
  /\ bump_page_ = NULL
  /\ next_ = [p \in PageIds |-> NULL]
  /\ memory_ = [p \in PageIds |-> 0]
  /\ top_ = [p \in PageIds |-> 0]
  /\ objects = {} /\ freelist_ = {}
  /\ capacity_ = 0 /\ in_use_ = 0 /\ count_ = 0
  /\ crashed = FALSE
  /\ ret = NoCall
  /\ Ctl!CtlInit

\* PageSpaceController::Enable, called once the heap is set up.
EnableGrowthControl ==
  /\ Ctl!Enable
  /\ UNCHANGED <<pages_, pages_tail_, large_pages_, bump_page_, next_, memory_,
                 top_, objects, freelist_, capacity_, in_use_, count_, crashed, ret>>

Next ==
  \/ \E size \in ObjectSizes, policy \in GrowthPolicies :
        \/ AllocateFromFreeList(size, policy)
        \/ AllocateByBump(size, policy)
        \/ AllocateNewPage(size, policy)
        \/ AllocateSmallFails(size, policy)
        \/ AllocateLarge(size, policy)
        \/ AllocateLargeOverflows(size, policy)
        \/ AllocateLargeFails(size, policy)
  \/ \E live \in SUBSET objects, gap \in GcGaps, duration \in GcDurations :
        MarkSweep(live, gap, duration)
  \/ EnableGrowthControl

Spec == Init /\ [][Next]_vars

(***************************************************************************)
(* VirtualMemory::ReserveAligned returns NULL when the OS refuses the      *)
(* reservation; HeapPage::Initialize then reads memory->size() of it.      *)
(* The step a new page (regular or large) would have been reserved in.    *)
(***************************************************************************)
ReservationFails(size, policy) ==
  /\ \/ /\ size < kAllocatablePageSize
        /\ FreeListFits(size) = {}
        /\ TryBumpAllocate(size).page = NULL
        /\ MayGrow(size, policy)
     \/ /\ size >= kAllocatablePageSize
        /\ LargePageSizeFor(size) >= size
        /\ CanIncreaseCapacity(LargePageSizeFor(size))
  /\ crashed' = TRUE
  /\ UNCHANGED <<pages_, pages_tail_, large_pages_, bump_page_, next_, memory_,
                 top_, objects, freelist_, capacity_, in_use_, count_, ret,
                 ctl_vars>>

NextWithReservationFailure ==
  /\ ~crashed
  /\ \/ Next
     \/ \E size \in ObjectSizes, policy \in GrowthPolicies :
           ReservationFails(size, policy)

SpecWithReservationFailure == Init /\ [][NextWithReservationFailure]_vars

----------------------------------------------------------------------------
(* Properties.                                                             *)

Chunk == [page : PageIds, start : Nat, size : Nat \ {0}]

TypeOK ==
  /\ {pages_, pages_tail_, large_pages_, bump_page_} \subseteq PageIds \cup {NULL}
  /\ next_ \in [PageIds -> PageIds \cup {NULL}]
  /\ memory_ \in [PageIds -> Nat]
  /\ top_ \in [PageIds -> Nat]
  /\ objects \subseteq Chunk /\ freelist_ \subseteq Chunk
  /\ capacity_ \in Nat /\ in_use_ \in Nat /\ count_ \in Nat
  /\ crashed \in BOOLEAN
  /\ ret \in {NoCall} \cup [size : ObjectSizes, policy : GrowthPolicies, ok : BOOLEAN]
  /\ is_enabled_ \in BOOLEAN
  /\ grow_heap_ \in Nat
  /\ index_ \in Nat

(***************************************************************************)
(* The two page lists stay well formed across AllocatePage, the unlinking  *)
(* of FreePage/FreeLargePage during sweeps, and AllocateLargePage: each is *)
(* acyclic and NULL terminated, pages_tail_ is the last regular page (NULL *)
(* iff the list is empty), the lists are disjoint, and a page is reserved  *)
(* exactly when it is on one of them (no page leaks, none dangles).        *)
(***************************************************************************)
ListsWellFormed ==
  LET R == RegularPages
      L == LargePages
  IN  /\ Len(R) <= Cardinality(PageIds)
      /\ Len(L) <= Cardinality(PageIds)
      /\ pages_tail_ = IF R = <<>> THEN NULL ELSE R[Len(R)]
      /\ ToSet(R) \cap ToSet(L) = {}
      /\ ToSet(R) \cup ToSet(L) = Reserved

(***************************************************************************)
(* The resume cursor of TryBumpAllocate is NULL or a page of the regular   *)
(* list: MarkSweep may release the page it points to, and the scan loop    *)
(* follows it (asserting next() != NULL) until it meets pages_tail_.       *)
(***************************************************************************)
BumpCursorInList ==
  bump_page_ = NULL \/ bump_page_ \in ToSet(RegularPages)

(***************************************************************************)
(* Spec: the resume cursor makes each page scanned at most once per growth *)
(* epoch.  Between two changes of the regular list (AllocatePage, a sweep) *)
(* TryBumpAllocate only moves bump_page_ forward along the list; NULL is   *)
(* the head.  A page passed over for one size is not retried for another.  *)
(***************************************************************************)
CursorPosition(b) ==
  IF b = NULL THEN 1 ELSE SelectInSeq(RegularPages, LAMBDA q : q = b)

BumpCursorMonotone ==
  [][(pages_' = pages_ /\ pages_tail_' = pages_tail_ /\ count_' = count_)
       => CursorPosition(bump_page_') >= CursorPosition(bump_page_)]_vars

(***************************************************************************)
(* Memory handed out is sound: every object and every free-list chunk lies *)
(* between first_object_start() and top() of a reserved page, top() stays *)
(* within the page, and no two of them overlap; in particular no chunk of  *)
(* the free list survives into a released page or duplicates live memory  *)
(* after the free list is rebuilt by a sweep.                              *)
(***************************************************************************)
HeapLayoutSound ==
  /\ \A p \in Reserved : top_[p] <= ObjectEnd(p)
  /\ \A b \in Blocks : b[2].page \in Reserved /\ b[2].start + b[2].size <= top_[b[2].page]
  /\ \A a, b \in Blocks :
        (a # b /\ a[2].page = b[2].page) =>
          \/ a[2].start + a[2].size <= b[2].start
          \/ b[2].start + b[2].size <= a[2].start

(***************************************************************************)
(* capacity_ is the total size of the reserved pages and stays under       *)
(* max_capacity_, and in_use_ is the size of the allocated objects, across *)
(* both allocation paths and the two sweep loops.                          *)
(***************************************************************************)
AccountingMatchesHeap ==
  /\ capacity_ = MapThenSumSet(LAMBDA p : memory_[p], Reserved)
  /\ capacity_ <= MaxCapacity
  /\ in_use_ = SizeOf(objects)

(***************************************************************************)
(* Forced growth and large objects are not throttled by the controller:    *)
(* such a request that returns 0 was refused only because the page it      *)
(* needed would have crossed max_capacity_.                                *)
(***************************************************************************)
\* The large page size of a request in unbounded integers.
ExactLargePageSize(size) == Ctl!RoundUp(size + HeapPageHeader, VMPageSize)

AllocationFailsOnlyAtCeiling ==
  ~ret.ok =>
    \/ ret.size < kAllocatablePageSize /\ ret.policy = kControlGrowth
    \/ ret.size < kAllocatablePageSize /\ ~CanIncreaseCapacity(PageSize)
    \/ ret.size >= kAllocatablePageSize /\ ~CanIncreaseCapacity(LargePageSizeFor(ret.size))
    \/ ret.size >= kAllocatablePageSize /\ ExactLargePageSize(ret.size) > IntptrMax

(***************************************************************************)
(* A large request whose page (the object plus sizeof(HeapPage), rounded  *)
(* up to the VM page size) does not fit in intptr_t returns 0: the one     *)
(* check page_size < size in TryAllocate catches an overflow of the        *)
(* addition and one of the rounding alike, before CanIncreaseCapacity sees *)
(* a wrapped, negative size.                                               *)
(***************************************************************************)
OverflowingRequestRefused ==
  ret.size >= kAllocatablePageSize /\ ExactLargePageSize(ret.size) > IntptrMax => ~ret.ok

(***************************************************************************)
(* The heap can be iterated: on every page of both lists the walk of       *)
(* HeapPage::VisitObjects, stepping from first_object_start() by each      *)
(* object's Size(), lands exactly on top() (its ASSERT), so                *)
(* PageSpace::VisitObjects meets every object and free-list chunk once,    *)
(* PageSpace::FindObject finds every object, and PageSpace::Contains holds *)
(* of every address the walk visits.  A free-list split that lost its      *)
(* tail, or a sweep that left dead space off the free list, would send a   *)
(* later walk (verification, snapshots, FindObject) into garbage.          *)
(***************************************************************************)
HeapIterable ==
  LET seen == PageSpaceVisitObjects IN
  /\ \A p \in ToSet(RegularPages \o LargePages) :
        HeapPageVisitObjects(p, 0).end = top_[p]
  /\ Len(seen) = Cardinality(Blocks) /\ ToSet(seen) = Blocks
  /\ \A i \in DOMAIN seen : PageSpaceContains(seen[i][2].page, seen[i][2].start)
  /\ \A o \in objects :
        PageSpaceFindObject({<<"object", o>>}) = <<"object", o>>

(***************************************************************************)
(* A failed reservation of virtual memory makes TryAllocate return 0 (the  *)
(* null result the heap turns into a GC and a retry, or out-of-memory).    *)
(***************************************************************************)
ReservationFailureReturnsNull == ~crashed

=============================================================================
