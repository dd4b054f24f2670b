----------------------- MODULE MCPageSpaceController -----------------------
(***************************************************************************)
(* The growth controller on its own, driven by the page space around it:  *)
(* the allocator asks CanGrowPageSpace for a regular page whenever bump    *)
(* allocation fails, and every mark-sweep ends with                        *)
(* EvaluateGarbageCollection(in_use_before, in_use_after, start, end).     *)
(* in_use before and after a collection range over 0..MaxInUse; the wall  *)
(* clock advances by a gap from GcGaps between collections and by a        *)
(* duration from GcDurations during one.  last records the arguments of   *)
(* the latest evaluation, for the properties only.                         *)
(***************************************************************************)
EXTENDS PageSpaceController

CONSTANTS
  MaxInUse,        \* bound on in_use_ of the page space
  SmallSizes,      \* sizes CanGrowPageSpace is asked for (below kAllocatablePageSize)
  GcGaps, GcDurations,
  MaxCollections   \* bound on the number of evaluated collections

ASSUME GcGaps \subseteq Nat \ {0} /\ GcDurations \subseteq Nat

VARIABLE last

vars == <<ctl_vars, last>>

NoCollection == [before |-> 0, after |-> 0]

Init == CtlInit /\ last = NoCollection

\* PageSpace::TryAllocate asking for one more regular page.
AskToGrow(size) ==
  /\ grow_heap_' = GrowHeapAfterCanGrow(size)
  /\ UNCHANGED <<is_enabled_, start_, end_, index_, last>>

EnableControl == Enable /\ UNCHANGED last

\* The epilogue of PageSpace::MarkSweep.
Collect(before, after, gap, duration) ==
  LET start == LastEnd + gap
  IN  /\ index_ < MaxCollections
      /\ EvaluateGarbageCollection(before, after, start, start + duration)
      /\ last' = [before |-> before, after |-> after]
      /\ UNCHANGED is_enabled_

Next ==
  \/ \E size \in SmallSizes : AskToGrow(size)
  \/ EnableControl
  \/ \E before \in 0..MaxInUse, gap \in GcGaps, duration \in GcDurations :
        \E after \in 0..before : Collect(before, after, gap, duration)

Spec == Init /\ [][Next]_vars

----------------------------------------------------------------------------

CtlTypeOK ==
  /\ is_enabled_ \in BOOLEAN
  /\ grow_heap_ \in Nat
  /\ start_ \in [Slots -> Nat] /\ end_ \in [Slots -> Nat]
  /\ index_ \in 0..MaxCollections
  /\ last \in [before : 0..MaxInUse, after : 0..MaxInUse]

(***************************************************************************)
(* GarbageCollectionTimeFraction asserts total_time >= gc_time: over the  *)
(* recorded history the time spent collecting never exceeds the time that *)
(* elapsed, so the fraction it returns is a percentage in 0..100, however *)
(* the ring buffer has wrapped.                                            *)
(***************************************************************************)
TimeFractionBounded ==
  LET sums == TimeSums(start_, end_, index_, 1)
  IN  /\ 0 <= sums[1] /\ sums[1] <= sums[2]
      /\ GarbageCollectionTimeFractions(start_, end_, index_) \subseteq 0..100

(***************************************************************************)
(* Spec: a collection that reclaimed more than heap_growth_space_ratio of  *)
(* the space grants "only a fixed minimal increment", heap_growth_rate     *)
(* pages (EvaluateGarbageCollection).                                      *)
(***************************************************************************)
SpaceReclaimed(l) ==
  l.before > 0 /\ (l.before - l.after) * 100 > HeapGrowthRatio * l.before

EnoughSpaceGrantsGrowthRate ==
  [][index_' # index_ /\ SpaceReclaimed(last') => grow_heap_' = HeapGrowthRate]_vars

(***************************************************************************)
(* Spec 4.6: when a collection reclaimed less than heap_growth_space_ratio *)
(* of the space, the controller grows "toward a target utilization ratio": *)
(* the budget EvaluateGarbageCollection sets is at least heap_growth_rate  *)
(* pages and, granted in full, brings in_use_after / capacity down to     *)
(* desired_utilization_ = (100 - ratio)%, up to the one unit the double    *)
(* division may lose.  A collection of an empty space (0.0 / 0.0, a NaN    *)
(* cast to int) counts as a shortfall and must still grant growth.         *)
(***************************************************************************)
SpaceShortfall(l) ==
  l.before = 0 \/ (l.before - l.after) * 100 < HeapGrowthRatio * l.before

ShortfallGrowsToTarget ==
  [][index_' # index_ /\ SpaceShortfall(last') =>
       /\ grow_heap_' >= HeapGrowthRate
       /\ (last'.after + grow_heap_' * PageSize + 1) * (100 - HeapGrowthRatio)
            >= last'.after * 100]_vars

(***************************************************************************)
(* GarbageCollectionTimeFraction only reads end_ at indices inside the     *)
(* array: (index_ - 1 - i) % kHistoryLength is a valid slot.               *)
(***************************************************************************)
HistoryReadsInBounds ==
  index_ > 0 => PreviousSlotsRead(start_, end_, index_, 1) \subseteq Slots

=============================================================================
