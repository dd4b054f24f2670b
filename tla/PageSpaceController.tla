------------------------ MODULE PageSpaceController ------------------------
(***************************************************************************)
(* The heap growth policy of the old-generation page space                 *)
(* (PageSpaceController and PageSpaceGarbageCollectionHistory in           *)
(* src/dart/runtime/vm/pages.cc).                                          *)
(*                                                                         *)
(* The controller holds a budget of pages the space may still grow by      *)
(* (grow_heap_) and a ring buffer of the start and end times of the last   *)
(* HistoryLength collections.  CanGrowPageSpace is asked, and charged,     *)
(* whenever the allocator wants a fresh page; EvaluateGarbageCollection    *)
(* resets the budget at the end of every mark-sweep.                       *)
(*                                                                         *)
(* Sizes are counted in allocation units, times in milliseconds of the    *)
(* wall clock.  The two double computations of the code (percentages and  *)
(* the division by desired_utilization_) are modelled by what a double     *)
(* truncated to an integer can give: the exact quotient, or one less when  *)
(* the exact quotient is an integer that the double misses from below.    *)
(***************************************************************************)
EXTENDS Integers, FiniteSets

CONSTANTS
  HeapGrowthRatio,   \* FLAG_heap_growth_space_ratio
  HeapGrowthRate,    \* FLAG_heap_growth_rate, in pages
  GcTimeRatio,       \* FLAG_heap_growth_time_ratio
  HistoryLength,     \* PageSpaceGarbageCollectionHistory::kHistoryLength
  PageSize           \* PageSpace::kPageSize, in allocation units

ASSUME HeapGrowthRatio \in 0..99
ASSUME HeapGrowthRate \in Nat
ASSUME GcTimeRatio \in 0..100
ASSUME HistoryLength \in Nat \ {0, 1}
ASSUME PageSize \in Nat \ {0}

VARIABLES
  is_enabled_,   \* PageSpaceController::is_enabled_
  grow_heap_,    \* pages the space may still grow by before the next GC
  start_,        \* history ring: start time of each recorded collection
  end_,          \* history ring: end time of each recorded collection
  index_         \* number of collections recorded so far

ctl_vars == <<is_enabled_, grow_heap_, start_, end_, index_>>

Slots == 0..(HistoryLength - 1)

\* static_cast<int> of a NaN on x86-64 (cvttsd2si "integer indefinite").
IntMin == -2147483647 - 1

\* C++ integer % : the sign of the result follows the dividend.
CMod(a, b) == IF a >= 0 THEN a % b ELSE -((-a) % b)

\* Utils::RoundUp for a non-negative value.
RoundUp(x, n) == ((x + n - 1) \div n) * n

(***************************************************************************)
(* static_cast<int>((double)(n) / (double)(d) * 100.0), d > 0: the exact  *)
(* truncated percentage, or one less when the exact value is an integer.   *)
(***************************************************************************)
Percentages(n, d) ==
  LET q == (n * 100) \div d
  IN  IF (n * 100) % d = 0 /\ n > 0 THEN {q, q - 1} ELSE {q}

(***************************************************************************)
(* PageSpaceController::CanGrowPageSpace: the answer, and the budget it    *)
(* leaves behind (the call charges the budget whenever it answers from it).*)
(***************************************************************************)
PagesFor(size) == RoundUp(size, PageSize) \div PageSize

CanGrowPageSpace(size) ==
  \/ ~is_enabled_
  \/ HeapGrowthRatio = 100
  \/ grow_heap_ > 0

\* Mutant: the budget test of CanGrowPageSpace off by one (grow_heap_ < 0).
GrowHeapAfterCanGrowOffByOne(size) ==
  IF ~is_enabled_ \/ HeapGrowthRatio = 100 \/ grow_heap_ < 0
  THEN grow_heap_
  ELSE grow_heap_ - PagesFor(size)

GrowHeapAfterCanGrow(size) ==
  IF ~is_enabled_ \/ HeapGrowthRatio = 100 \/ grow_heap_ <= 0
  THEN grow_heap_
  ELSE grow_heap_ - PagesFor(size)

(***************************************************************************)
(* PageSpaceGarbageCollectionHistory::GarbageCollectionTimeFraction.       *)
(* The slot read for `previous' is (index_ - 1 - i) % kHistoryLength,      *)
(* which is negative while fewer than kHistoryLength collections have been *)
(* recorded; end_[-j] is then the word before end_, i.e. start_[K - j]     *)
(* with the member layout start_[K], end_[K] of pages.h.                   *)
(***************************************************************************)
ReadEnd(s, e, slot) == IF slot >= 0 THEN e[slot] ELSE s[HistoryLength + slot]

\* Mutant: the two accumulators of the loop swapped.
RECURSIVE TimeSumsSwapped(_, _, _, _)
TimeSumsSwapped(s, e, idx, i) ==
  IF i >= HistoryLength THEN <<0, 0>>
  ELSE LET current  == CMod(idx - i, HistoryLength)
           previous == CMod(idx - 1 - i, HistoryLength)
       IN  IF ReadEnd(s, e, previous) = 0 THEN <<0, 0>>
           ELSE LET rest == TimeSumsSwapped(s, e, idx, i + 1)
                IN  << rest[1] + (e[current] - ReadEnd(s, e, previous)),
                       rest[2] + (e[current] - s[current]) >>

\* Sum of <<gc_time, total_time>> over i = from .. kHistoryLength - 1.
RECURSIVE TimeSums(_, _, _, _)
TimeSums(s, e, idx, i) ==
  IF i >= HistoryLength THEN <<0, 0>>
  ELSE LET current  == CMod(idx - i, HistoryLength)
           previous == CMod(idx - 1 - i, HistoryLength)
       IN  IF ReadEnd(s, e, previous) = 0 THEN <<0, 0>>
           ELSE LET rest == TimeSums(s, e, idx, i + 1)
                IN  << rest[1] + (e[current] - s[current]),
                       rest[2] + (e[current] - ReadEnd(s, e, previous)) >>

\* The slots the loop reads as `previous' before it stops.
RECURSIVE PreviousSlotsRead(_, _, _, _)
PreviousSlotsRead(s, e, idx, i) ==
  IF i >= HistoryLength THEN {}
  ELSE LET previous == CMod(idx - 1 - i, HistoryLength)
       IN  {previous} \cup
           (IF ReadEnd(s, e, previous) = 0 THEN {}
            ELSE PreviousSlotsRead(s, e, idx, i + 1))

GarbageCollectionTimeFractions(s, e, idx) ==
  LET sums == TimeSums(s, e, idx, 1)
  IN  IF sums[2] = 0 THEN {0} ELSE Percentages(sums[1], sums[2])

(***************************************************************************)
(* PageSpaceController::EvaluateGarbageCollection, as the budget it sets.  *)
(* growth_target = in_use_after / desired_utilization_ with                *)
(* desired_utilization_ = (100 - ratio) / 100.0.                           *)
(***************************************************************************)
CollectedGarbageRatios(before, after) ==
  IF before = 0 THEN {IntMin} ELSE Percentages(before - after, before)

GrowthTargets(after) ==
  LET q == (after * 100) \div (100 - HeapGrowthRatio)
  IN  IF (after * 100) % (100 - HeapGrowthRatio) = 0 /\ after > 0
      THEN {q, q - 1} ELSE {q}

\* Mutant: a space shortfall grants only the fixed increment.
GrowHeapForNoTarget(ratio, fraction, target, after) ==
  LET enough_free_space == ratio >= HeapGrowthRatio
      enough_free_time  == fraction <= GcTimeRatio
  IN  IF enough_free_space /\ enough_free_time THEN 0 ELSE HeapGrowthRate

GrowHeapFor(ratio, fraction, target, after) ==
  LET enough_free_space == ratio >= HeapGrowthRatio
      enough_free_time  == fraction <= GcTimeRatio
      growth_in_pages   == RoundUp(target - after, PageSize) \div PageSize
  IN  IF enough_free_space /\ enough_free_time THEN 0
      ELSE IF ~enough_free_space
           THEN IF growth_in_pages >= HeapGrowthRate
                THEN growth_in_pages ELSE HeapGrowthRate
           ELSE HeapGrowthRate

\* The whole call: record the times, then reset the budget.
EvaluateGarbageCollection(before, after, start, end) ==
  LET slot == index_ % HistoryLength
      s2   == [start_ EXCEPT ![slot] = start]
      e2   == [end_ EXCEPT ![slot] = end]
  IN  /\ start_' = s2
      /\ end_' = e2
      /\ index_' = index_ + 1
      /\ \E ratio \in CollectedGarbageRatios(before, after),
            fraction \in GarbageCollectionTimeFractions(s2, e2, index_ + 1),
            target \in GrowthTargets(after) :
            grow_heap_' = GrowHeapFor(ratio, fraction, target, after)

\* The constructor PageSpaceController(...) and the history's constructor.
CtlInit ==
  /\ is_enabled_ = FALSE
  /\ grow_heap_ = HeapGrowthRate
  /\ start_ = [i \in Slots |-> 0]
  /\ end_ = [i \in Slots |-> 0]
  /\ index_ = 0

\* PageSpaceController::Enable (pages.h): growth control starts applying.
Enable ==
  /\ ~is_enabled_
  /\ is_enabled_' = TRUE
  /\ UNCHANGED <<grow_heap_, start_, end_, index_>>

\* The end time of the last recorded collection (0 before the first).
LastEnd == IF index_ = 0 THEN 0 ELSE end_[(index_ - 1) % HistoryLength]

=============================================================================
