# TLA+ models of the Dart VM page space, compiler driver and SSA construction

This directory holds TLA+ models of six parts of `src/dart/runtime/vm`:

- the old-generation page allocator and its growth controller (`pages.cc`);
- the SSA construction passes of the optimizing compiler (`flow_graph.cc`,
  `intermediate_language.cc`);
- the instruction lists and def-use lists of the IL, as the optimizer edits
  them (`intermediate_language.cc`/`.h`);
- the compiler driver, with its bailout protocol (`compiler.cc`);
- the inline Smi arithmetic and comparisons of the x64 code generator
  (`intermediate_language_x64.cc`);
- the register contract between each x64 instruction's location summary
  and its emitter (`intermediate_language_x64.cc`,
  `intermediate_language.cc`).

Each model is checked with TLC. `PROJECT.json` lists the runs, the mutants,
the map from definitions to source lines, the findings and the hazards.

## The system

### Page space and growth controller (`pages.cc`)

`PageSpace` owns the following state:

- two singly linked lists of `HeapPage`s: regular pages (`pages_` ..
  `pages_tail_`) and large pages (`large_pages_`);
- a resume cursor for bump allocation (`bump_page_`);
- a free list, which a sweep refills;
- the counters `capacity_`, `in_use_` and `count_`;
- a `PageSpaceController`.

`TryAllocate(size, policy)` is the only allocating operation:

- A small object (`size < kAllocatablePageSize`) is tried in this order:
  1. the free list;
  2. the tail page;
  3. the pages from `bump_page_` up to the tail.

  If all of these fail, it asks `CanGrowPageSpace` for a page, or overrides
  it with `kForceGrowth`. Then, within `max_capacity_`, it calls
  `AllocatePage` and bump-allocates from the new page.
- A large object gets a page of its own (`AllocateLargePage`). The
  capacity ceiling limits this. So does the `intptr_t` arithmetic of
  `LargePageSizeFor`: `size + sizeof(HeapPage)` rounded up to the page
  size. The model computes that sum with `WordBits`-bit wraparound
  (`Wrap`). A request whose page size wraps below the request is refused
  by the `page_size >= size` check (`AllocateLargeOverflows`).

`MarkSweep` then does the following:

1. resets the cursor and the free list;
2. sweeps the regular pages and then the large pages, unlinking empty ones
   with `FreePage` / `FreeLargePage`;
3. recomputes `in_use_`;
4. calls `EvaluateGarbageCollection`.

`EvaluateGarbageCollection` records the collection's start and end times in
a ring buffer of `kHistoryLength` slots. From the reclaimed fraction and
the GC time fraction, it resets the page budget `grow_heap_`.
`CanGrowPageSpace` charges that budget.

The heap is walked object by object. `HeapPage::VisitObjects` and
`FindObject` start at the first object of a page and step by each object's
`Size()` until `top()`. `PageSpace::VisitObjects` and `FindObject` do this
for the regular pages and then the large pages. `Contains` asks whether an
address lies between a page's header and its end. The walk is correct only
if the objects and free-list elements tile every page up to `top()`.

### SSA construction (`flow_graph.cc`, `intermediate_language.cc`)

The steps run in this order:

1. `FlowGraph::DiscoverBlocks` runs a depth-first traversal from the graph
   entry (`GraphEntryInstr`, `BlockEntryInstr`, `ControlInstruction::
   DiscoverBlocks`). It records predecessors, the preorder, the postorder,
   the spanning-tree `parent_` and the assigned variables, then numbers
   blocks in reverse postorder.
2. `ComputeSSA` then calls:
   - `ComputeDominators`: SEMI-NCA with the in-place path compression of
     `CompressPath`, then the dominance frontier by the runner walk.
     `idom` starts as a copy of `parent_`, and the first pass then
     compresses `parent_` itself (`ComputeSSA` passes `&parent_`), so the
     model's `ComputeDominators` leaves the compressed array in `parent_`;
   - `InsertPhis`: the worklist algorithm, with `has_already` / `work`
     markers shared across variables;
   - `Rename`, which bails out when the graph entry has catch entries.
     Otherwise it walks the dominator tree from the normal entry
     (`RenameRecursive`). At a join it starts each phi's variable at the
     phi. Each instruction gets a copy of the environment. A `LoadLocal`
     is replaced by the variable's current value and marks a phi it reads
     alive. A `StoreLocal` makes the stored value current. Each dominated
     block is renamed from its own copy. A block ending in a goto sets the
     join's phi inputs at its predecessor index;
   - `MarkLivePhis`, which propagates liveness along phi inputs.

### Instruction and use lists (`intermediate_language.cc`)

The instructions of a block form a doubly linked list (`previous_`,
`next_`). Every operand and every environment slot is a `Value` that records
its definition, its instruction and its slot index. The values of a
definition are threaded on two intrusive lists: `input_use_list_` and
`env_use_list_`, linked through `next_use_`.

The optimizer edits the lists through these operations:

- `AddToInputUseList` / `AddToEnvUseList` push a value on its definition's
  list.
- `ReplaceUsesWith(other)` pops every value of both lists, points it at
  `other` and pushes it on `other`'s lists.
- `Environment::CopyTo` gives a new instruction fresh values for every slot
  of an environment.
- `RemoveFromGraph` unlinks an instruction. It leaves its operands on their
  lists.
- `InsertBefore` / `InsertAfter` link in a new instruction.

`TryReplace` decides what happens to an instruction:

- a check whose operand class is already known is removed;
- `e === true` with a Bool `e` is replaced by `e`, and the constant's bind
  is removed on the spot.

CSE replaces a check by an equal earlier one (`Computation::Equals`).

### Compiler driver (`compiler.cc`)

The runtime compiles a function without code through `CompileFunction`,
and a hot function through `CompileOptimizedFunction`. Both call
`CompileFunctionHelper`:

- an unoptimized compile of a function that already has unoptimized code
  (after a deoptimization) only reinstalls it (`InstallUnoptimizedCode`);
- otherwise it sets a `LongJump`, parses, and calls
  `CompileParsedFunctionHelper`, which saves the isolate's deopt id and
  long-jump base, sets its own `bailout_jump`, and runs type-feedback
  extraction (below `deoptimization_counter_threshold`), the graph builder,
  `ComputeSSA`, the optimizer passes, code generation and `FinalizeCode`.

A stage that fails calls `LongJump::Jump`, which sets the sticky error and
resumes at the innermost `setjmp`. A parse error reaches the helper's
handler, which returns the error. A bailout reaches `bailout_jump`, which
drops the error and returns "not compiled". An optimized compile that was
not compiled disables optimization for the function and returns no error.
Both helpers must restore `ic_data_array`, `deopt_id` and the long-jump
base on every path.

Two more entries call `CompileParsedFunctionHelper` unoptimized, each
inside its own `setjmp`. `CompileParsedFunction` compiles a function its
caller has parsed. `ExecuteOnce` compiles an expression fragment as a new
dummy function, marks it not optimizable, and invokes it. Both ignore the
helper's result. Their error branch is the same as
`CompileFunctionHelper`'s. In the model, `entry` records which of the
three entries made the current compile, and `CPFHExit` returns to that
entry: `CFHAfter`, `CPFAfter` or `ExecuteOnceInvoke`.

`Compiler::Compile` parses a whole compilation unit inside its own
`setjmp` and returns null or the error. `CompileAllFunctions` calls
`CompileFunction` on each function that has no code. In the model it does
this for the one function.

### Smi arithmetic and checks (`intermediate_language_x64.cc`)

A small integer (Smi) `v` is held in a register as `2v`; a heap pointer
has the low bit set. After the optimizer has checked that both operands
are Smis, `BinarySmiOpComp` and `UnarySmiOpComp` compute on the tagged
words and leave the inline path where the result is not a Smi:

- ADD, SUB, MUL and NEGATE deoptimize on the overflow flag;
- TRUNCDIV deoptimizes on a zero divisor and on `MIN_SMI ~/ -1`;
- SHR deoptimizes on a negative count and clamps the count to 63;
- SHL calls the `<<` method for large or negative counts and for shifts
  that lose bits;
- BIT_AND, BIT_OR, BIT_XOR and BIT_NOT cannot overflow.

`EmitSmiComparisonOp` deoptimizes unless both operands are Smis (the test
is skipped when both are known to be Smis), then compares the tagged
words with a signed condition. In the Bool form it jumps on the condition
to load true. In the branch form it calls
`ControlInstruction::EmitBranchOnCondition`. If the false successor is
laid out next, that function jumps to the true successor on the
condition. If the true successor is next, it jumps to the false successor
on `NegateCondition` of the condition. The model chooses the layout
(`br`: `"none"` for the Bool form, else the successor laid out next).
Every comparison in `SmiArith` and `X64Compare` is checked in all three
forms.

The optimizer guards its specialised code with checks that deoptimize
when an assumption fails:

- `CheckSmi` tests the tag bit.
- `CheckEitherNonSmi` tests the tag bit of `left | right`.
- `CheckClass` deoptimizes on a Smi. It then compares the class id with
  each receiver class of the IC data. Every compare but the last branches
  to the success label on a match, and the last deoptimizes on a mismatch.
- `CheckArrayBound` compares the tagged index with the tagged length field
  as unsigned numbers, so it also rejects negative indices.
- `DoubleToDouble` and `NumberNegate` (whose single IC class is Double)
  deoptimize on a Smi and on any class but Double. `NumberNegate` then
  allocates a Double holding the negated value.
- `SmiToDouble` allocates the Double first, then deoptimizes unless the
  argument is a Smi, and converts the untagged value.
- `AssertBoolean`, unless eliminated, lets only the true and false objects
  through. Anything else goes to a runtime entry that throws.

`PolymorphicInstanceCallComp` behaves as follows:

- without IC data it deoptimizes;
- without checks it calls the first target statically;
- otherwise it loads the receiver, which is the first argument pushed, at
  `(ArgumentCount() - 1)` words above the stack pointer. It then computes
  the receiver's class id and calls the matching IC target through
  `EmitTestAndCall`, or deoptimizes.

`LoadIndexed` and `StoreIndexed` then address element `i` at
`sizeof(RawArray) + 4 * (2i)` bytes. A growable array is addressed through
its data array.

`BinaryMintOpComp` (BIT_AND only) works as follows:

- Two Smis are ANDed inline.
- A Mint with a non-negative Smi is also ANDed inline. The Mint's value
  word is SmiTag'ed first, losing its top bit.
- A Mint with a negative Smi or with another Mint calls the IC's target,
  or deoptimizes when there is none.
- Any other class deoptimizes.

`EqualityCompareComp` (`X64Compare`) emits `==` and `!=` in two forms:
`EmitNativeCode` leaves a Bool in a register, and `EmitBranchCode`
branches on the answer. Either form first picks a path:

- a Smi receiver class uses the Smi comparison;
- IC data whose targets are all `Object.==` uses `EmitCheckedStrictEqual`.
  A Smi receiver deoptimizes. Otherwise the receiver's class must be one
  of the IC's, and then the code compares identity;
- other IC data uses `EmitGenericEqualityCompare`. A null operand is
  compared by identity. Otherwise `EmitEqualityAsPolymorphicCall` tests
  the receiver's class against each IC class. It then compares identity
  for `Object.==`, calls the target statically for any other `==`, or
  deoptimizes when no class matches;
- without IC data, `EmitEqualityAsInstanceCall` is used.

`!=` is negated in different places on different paths: after the call
in the Bool form, and at the branch in the branch form. That is why the
branch form passes `kEQ` to the instance call.

`StrictCompareComp` (`===`, `!==`) compares the two words and loads true
or false. `RelationalOpComp` (`<`, `>`, `<=`, `>=`) is modelled on Smi and
Mint operands. The paths are:

- a Smi operands class uses `EmitSmiComparisonOp`;
- otherwise, with IC data, the receiver's class id selects a target. A
  Smi is recognised by its tag bit. The selection goes through
  `EmitTestAndCall`, which lives outside the excerpt and is modelled from
  its contract: call the matched class's operator, or deoptimize;
- without IC data, the operator is called as an instance call.

The branch form of a call path compares the returned Bool with true and
branches on `EQUAL`. In the branch form, `EmitSmiComparisonOp` omits its
Smi test when both operands' `ResultCid` is Smi. The model takes this as
a choice (`known`), allowed only when both operands are Smis.

### Register contract (`MakeLocationSummary`, `EmitNativeCode`)

Every instruction has two methods. `MakeLocationSummary` says where its
inputs, temps and result must be:
- a fixed register (`RegisterLocation(RCX)`);
- any register (`RequiresRegister`);
- an XMM register;
- the first input's register (`SameAsFirstInput`).

It also says whether the instruction calls (`kCall`), calls only on a
slow path (`kCallOnSlowPath`) or never calls (`kNoCall`). The frame
register allocator then picks registers within the summary. It lives in
`flow_graph_compiler.cc`, which is not in the excerpt. Last,
`EmitNativeCode` emits code for the registers it was given. It relies on
properties of that choice:
- it ASSERTs some of them, e.g. `right == RCX` for SHR;
- it writes some registers while it still has to read others, e.g.
  `BooleanNegate` loads `true` into the result before reading the input;
- it writes fixed scratch registers the summary does not name, e.g. RDI
  in `RelationalOp` and in a DEBUG `Return`.


| Module | Models | State | Actions |
|---|---|---|---|
| `PageSpaceController` | `PageSpaceController`, `PageSpaceGarbageCollectionHistory` | `is_enabled_`, `grow_heap_`, `start_`, `end_`, `index_` | operators used by the two modules below: `GrowHeapAfterCanGrow`, `EvaluateGarbageCollection`, `Enable`, `CtlInit` |
| `PageSpace` | `PageSpace` (instances the controller) | page lists, `next_`, `memory_` (reserved size, 0 = free), `top_`, objects, free-list chunks, counters, `ret` (last result) | `AllocateFromFreeList`, `AllocateByBump`, `AllocateNewPage`, `AllocateSmallFails`, `AllocateLarge`, `AllocateLargeFails`, `AllocateLargeOverflows` (the branches of `TryAllocate`); `MarkSweep`; `EnableGrowthControl`; `ReservationFails` in a separate spec. Operators for the walks: `HeapPageVisitObjects` (RECURSIVE), `HeapPageFindObject`, `PageSpaceVisitObjects`, `PageSpaceFindObject`, `HeapPageContains`, `PageSpaceContains` |
| `MCPageSpace` | model values for pages, symmetry | | |
| `MCPageSpaceController` | the controller driven by the page space's calls | controller + ghost `last` | `AskToGrow`, `EnableControl`, `Collect` |
| `FlowGraph` | discovery, dominators, frontier, phis, bailout | `graph`, `phase`, `preorder_`, `postorder_`, `parent_`, `preds`, `block_id`, `idom`, `dominated`, `frontier`, `phis`, `ssa` | `DiscoverBlocks`, `ComputeDominators`, `InsertPhis`, `RenameBailout`, `Rename` (with `MarkLivePhis`) |
| `MCFlowGraph` | extra graphs of 5 and 7 blocks; block bodies of stores only (`flowgraph`) or of loads and stores (`rename`) | | |
| `DefUse` | the abstract def-use multimap (spec.md, "Value" and the design note on use-lists) | `uses`: definition -> set of slots | `Attach` (a new consumer's slots), `Move` (all uses of one definition to another) |
| `UseLists` | one block's instruction list, `Value` objects and use lists | `prev_`, `next_`, `inputs_`, `env_`, `val_` (definition, instruction, index, next use), `input_use_list_`, `env_use_list_`, `crashed` | `InsertCheck`, `RemoveRedundantCheck`, `ReplaceStrictCompare`, `StrictCompareRemovesRemoved`, `EliminateCommonSubexpression` |
| `MCUseLists` | two renamed blocks and three insertable checks | | |
| `CompilerDriver` | `CompileFunctionHelper`, `CompileParsedFunctionHelper`, `CompileParsedFunction`, `ExecuteOnce`, `InstallUnoptimizedCode`, the runtime's calls | `code`, `unopt` (has unoptimized code), `optimizable`, `deopt_count`, `lj` (stack of long-jump bases), `deopt_id`, `ic_data`, `sticky`, `pc`, the helpers' locals (`cfh_base`, `old_base`, `prev_deopt_id`, `is_compiled`), `result`, `shape`, `entry` | `CallCompileFunction`, `CallCompileOptimizedFunction`, `Deoptimize` (runtime); `CFHInstallUnoptimized`, `CFHParse`, `CFHAfter`, `CFHError`; `CPFHEnter`, `Build`, `ComputeSSA`, `OptimizeGraph`, `EmitAndFinalize`, `CPFHBailout`, `CPFHExit`; `CallCompileParsedFunction`, `CPFAfter` (`CompileParsedFunction`); `CallExecuteOnce`, `ExecuteOnceInvoke` (`ExecuteOnce`); `CallCompile`, `ParseCompilationUnit` (`Compiler::Compile`); `CallCompileAllFunctions` |
| `SmiArith` | `BinarySmiOpComp`, `UnarySmiOpComp`, `EmitSmiComparisonOp`, `TokenKindToSmiCondition`, `CheckSmiComp`, `CheckEitherNonSmiComp`, `CheckClassComp`, `CheckArrayBoundComp`, `LoadIndexedComp`, `StoreIndexedComp` and `BinaryMintOpComp` at register width `W`, with Dart's integer operations as the reference | `instr` (the instruction and its operands; an operand is a register word and the object it points to), `outcome` (value, deopt, call, bool, pass, or the element slot loaded or stored) | `BinarySmiOp`, `UnarySmiOp`, `SmiComparison`, `CheckSmiInstr`, `CheckEitherNonSmiInstr`, `CheckClassInstr`, `IndexedInstr`, `BinaryMintOpInstr` |
| `X64Compare` (extends `SmiArith`) | `EqualityCompareComp::EmitNativeCode` and `::EmitBranchCode`, with `EmitCheckedStrictEqual`, `EmitGenericEqualityCompare`, `EmitEqualityAsPolymorphicCall` and `EmitEqualityAsInstanceCall`; `StrictCompareComp::EmitNativeCode`; `RelationalOpComp::EmitNativeCode` and `::EmitBranchCode`; Dart's `==`, `identical` and the int relational operators as references | the same `instr` and `outcome` | `EqualityInstr`, `StrictCompareInstr`, `RelationalOpInstr`, and `SmiArith`'s actions (`X64Next`) |
| `X64Locations` | the `MakeLocationSummary` of every instruction in `intermediate_language_x64.cc` and of the `intermediate_language.cc` instructions with fixed or in-place locations; what each `EmitNativeCode` assumes of its registers; `FrameAllocations`, the allocator as assumed | `phase`, `variant` (instruction and the choice its summary depends on), `alloc` (the registers chosen), `emitted` (the emitter's facts for them) | `MakeLocationSummary`, `AllocateRegisters`, `EmitNativeCode` |
| `MCSmiArith` | `W = 8`, two heap pointers, six Mint values, arrays up to length 3; for `==`, Smis 0 and 1, null and six objects; composes `X64Compare` and `X64Locations`: a behaviour either executes one instruction or generates code for one | | `MCNext` |
| `MCCompilerDriver` | function shapes: parse error, and the stage that bails out | | |

### How the models abstract the code

- **Pages.** A page is a model value. Addresses are offsets from
  `first_object_start()`. An object or a free chunk is a record
  `[page, start, size]`.
- **Marking and sweeping.** The external marker is a choice of any subset
  of the objects to keep alive. The sweeper (`gc_sweeper.cc`, not in this
  excerpt) is modelled from its contract: the maximal dead runs below
  `top_` go to the free list.
- **Free list.** `FreeList::TryAllocate` (`freelist.cc`) is modelled as
  "any chunk large enough, split at its start".
- **Doubles.** The two conversions through `double` are modelled by what a
  truncated double can give: the exact quotient, or one less when the
  quotient is an integer.
- **The `0/0` case.** `in_use_before = 0` gives NaN, which
  `static_cast<int>` turns into `INT_MIN` on x86-64.
- **Out-of-bounds history read.** `end_[-j]` reads `start_[K-j]`, following
  the member layout in `pages.h`.
- **Loops.** The recursive loops of `ComputeDominators`, `CompressPath` and
  `InsertPhis` are RECURSIVE operators over records of the arrays they
  mutate. Each of those operations is one step: the code is sequential, so
  the state in between is not observable.
- **Graphs.** A graph is what `FlowGraphBuilder` can build:
  - block 0 is the graph entry;
  - block 1 is the normal entry;
  - `catch` lists the catch entries;
  - `last[b]` is the list of successors of `b`: none (return), one (goto)
    or two (branch: true, false).
  - A target entry has exactly one predecessor. A join entry is reached
    only by gotos.
  - Every block is reachable.
- **NULL dominator.** A runner walk that passes the graph entry would
  dereference its NULL dominator. It yields `-1`, and the compilation then
  ends in phase `"crashed"`.

- **Use lists.** A `Value` is a number; `val_` holds its fields. The
  editing operations are operators on a record of the whole heap (`H`), so
  a handler that calls several of them composes them in the code's order.
  The loops of `ReplaceUsesWith` and `CopyTo` are RECURSIVE operators.
- **Callers.** `ComputeUseLists`, `FlowGraphOptimizer` and
  `DominatorBasedCSE` are not in the excerpt. Each action is one call they
  make, with the guards their calls have. The actions may come in any order
  and on any instruction, as in the fuzz test of spec.md section 8. This is
  a superset of the fixed pass order of `compiler.cc`.
- **SSA renaming.** A block body is its sequence of `StoreLocal` and
  `LoadLocal` statements. An SSA value is a parameter or `#null`, the value
  a given store stored, or the phi of a variable at a join. `ssa` records
  the environment each statement got, each phi's inputs and the phis alive.
  The expression-stack part of the environment and SSA temp numbers are
  left out. Every store records its variable: captured locals are not
  modelled.
- **Blocks.** A block is what `Rename` leaves. Every operand is a use.
  Every instruction's environment holds the locals and its stack operands.
  A local holding a constant makes every later load a copy of the
  constant's use.

- **Compiler driver.** `pc` is the point reached in the two helpers; each
  action is the code between two points where a longjmp may land or a
  helper returns. A long-jump base is the name of the `setjmp` it resumes
  ("caller", "cfh", "cpfh"), and `lj` is the chain of saved bases. Code is
  "none", "unopt" or "opt"; the IC-data array is whether feedback is
  present. Which stage fails is a fixed property of the function, the
  constant-per-behaviour `shape`. Only `Rename` bails out inside this
  excerpt; the optimizer's bailouts are taken from spec.md 4.4 ("any
  stage may bail out"). The module also has a builder bailout (`bail =
  "build"`), which `MCCompilerDriver` does not instantiate (see the note
  after the findings).

- **Registers.** A register is a W-bit two's complement integer. Each
  x86 instruction is modelled by what it does to it: wrap-around, the
  overflow flag as "the wrapped result differs", shift counts masked to
  `count % W`, `idivq` truncating toward zero. The code's 64-bit constants
  scale with W: `Smi::kBits = W - 2`, `0x4000000000000000 = 2^(W-2)` and
  the count limit `0x3F = W - 1`. The reference is written from Dart's
  definitions on unbounded integers: a quotient with the remainder's sign,
  floor division by `2^count`, and bitwise operations bit by bit.

- **Registers and locations.** A location is a record: a fixed register,
  or a policy. A summary is a record of its inputs, temps, result and call
  kind. One operator translates each `MakeLocationSummary`, with a
  parameter where the code branches (the op of `BinarySmiOp`, the path of
  `EqualityCompare`, a growable receiver). `FrameAllocations` is the
  allocator as assumed:
  - fixed locations get their register and block it;
  - every `RequiresRegister` slot gets a register no other slot has;
  - `SameAsFirstInput` gets input 0's register.

  Seven general registers can be allocated, and two XMM registers stand
  for the XMM file. An emitter is reduced to its facts (`Facts`): the
  ASSERTs on its registers, the pairs it writes while still reading, its
  fixed scratch registers, its calls and the temps it reads. XMM scratch
  registers (XMM0/XMM1) are not tracked, because which XMM registers the
  allocator blocks is outside the excerpt.

## Runs

| Run | Expect | What it checks |
|---|---|---|
| `pagespace` | pass | Allocation under both policies interleaved with collections. Checks `ListsWellFormed`, `BumpCursorInList`, `BumpCursorMonotone`, `HeapLayoutSound`, `AccountingMatchesHeap` and `AllocationFailsOnlyAtCeiling`. `HeapIterable`: on every page, `VisitObjects`' walk by `Size()` lands exactly on `top()`. The walk meets every object and free chunk once. Each block it meets is `Contains`ed, and `FindObject` finds each object. `OverflowingRequestRefused`: a large request whose exact page size exceeds `intptr_t` is refused, never given a wrapped, too-small page. |
| `pagespace_reservation` | violation | `ReservationFailureReturnsNull`: a refused reservation crashes in `HeapPage::Initialize` instead of returning 0. |
| `controller` | pass | `TimeFractionBounded`: `gc_time <= total_time`, as asserted, and the fraction is in 0..100. `ShortfallGrowsToTarget`: a collection that reclaimed too little, or collected an empty space (the `0.0/0.0` NaN case), grants at least `heap_growth_rate` pages and enough to reach the target utilization. |
| `controller_growth_rate` | violation | `EnoughSpaceGrantsGrowthRate`: the code sets `grow_heap_ = 0` where the spec says `heap_growth_rate`. |
| `controller_history` | violation | `HistoryReadsInBounds`: `end_` is read at a negative index from the first collection on. |
| `flowgraph` | pass | `DiscoveryOrdersSound` (checked right after discovery, before `CompressPath` rewrites `parent_`), `DominatorTreeCorrect`, `FrontierCorrect` and `PhisAtIteratedFrontier`, each against a reference definition (paths avoiding a block, the Cytron frontier, its iterated closure). |
| `rename` | pass | `SsaPreservesValues`: along every CFG path of up to 7 blocks to a statement, each SSA value in its environment denotes the last store to the variable on that path, or its start value. A phi denotes its input for the edge by which the path last entered the phi's block. `LivePhisCover`: every phi a load depends on through phi inputs is alive after `MarkLivePhis`. |

| `uselists` | pass | `UseListBijection` (spec.md section 8), `InstrListWellFormed` and `DefUseRefinement`: `DefUse!Spec` under the mapping `uses[d]` = the slots of the values on `d`'s two lists. This runs on the block with a shared constant, including the crash. |
| `uselists_ssa` | pass | `DefsDominateUses` on a block whose compared constant has one use: CSE, check removal and strict-compare replacement keep every slot pointing at an earlier definition in the block. |
| `compiler_driver` | pass | `IsolateStateRestored`: at every return to the runtime the long-jump base, deopt id, IC-data array and sticky error are the runtime's. `OptimizationFailureFallsBack`: an optimized compile that bailed out leaves the function non-optimizable with its unoptimized code and no error. `CompiledOrError`: a compile that reports success (or whose dummy function `ExecuteOnce` invokes) leaves code. All three properties also cover `CompileParsedFunction` and `ExecuteOnce`, and the first one also covers `Compiler::Compile` (a library parse leaves no function code, so `CompiledOrError` exempts it). `CompileReturns` (under `FairSpec`): every call into the driver returns to the runtime. |
| `smi_arith` | pass | `SmiResultExact`: whenever the inline code completes, the register holds the tagged exact result. `NoDeoptOnSmiResult`: it never deoptimizes when the Dart result is a Smi. `SmiComparisonCorrect`: comparisons answer the untagged comparison and deoptimize on heap objects. `ChecksAdmitExactly`: `CheckSmi`, `CheckEitherNonSmi`, `CheckClass`, the Double conversions and `AssertBoolean` pass exactly the values the following code assumes. `PolymorphicCallDispatchesOnReceiver`: a polymorphic call runs the IC target of the receiver's class, whatever the other argument is. `IndexedAccessInBounds`: after the bound check, a load or store touches element `i` exactly when `0 <= i < length`, and otherwise deoptimizes. `MintAndExact`: the inline Mint BIT_AND yields the exact Dart result. `EqualityAgreesWithDart`: every path of `EqualityCompareComp`, as a Bool or a branch, deoptimizes or answers Dart's `==` or `!=`, and `===` answers `identical`. `RelationalAgreesWithDart`: `RelationalOpComp` on Smis and Mints deoptimizes or answers the integer comparison, in both forms. Every pair of Smis at W = 8. `RegisterContract`: for every instruction and every allocation its summary admits, the emitter's ASSERTs hold. It never overwrites a register it still reads, and it reads no temp it did not ask for. A `kNoCall` instruction that stays in the frame writes nothing outside its summary, and an instruction that calls declares it. |
| `uselists_shared_constant` | violation | `DefsDominateUses`: `StrictCompareComp::TryReplace` removes a constant bind that renaming has shared. |

### Bounds and why they are enough

**`pagespace`**: 3 pages, page size 4 with a 1-unit header, capacity 8,
sizes {1, 2, 3, 13, 14, 15}, 2 collections and a 5-bit `intptr_t`
(`WordBits = 5`, largest value 15).

- Size 3 is a large object. Sizes 1 and 2 fill and split pages.
- The capacity allows two regular pages, or a regular and a large page.
  Together with the third page value, this makes freeing and re-reserving,
  and the ceiling, reachable.
- The VM page size is 2. Size 13 needs a page of 14 units, which fits in
  `intptr_t` but not under the capacity, so it reaches the ceiling. For
  size 14 the sum 15 fits, but rounding it up to 16 wraps. For size 15 the
  sum itself wraps. These are the corners of the 64-bit arithmetic, scaled
  down to 5 bits.
- With two collections, a page freed in one sweep can be freed or reused in
  the next.

**`controller`**:
- 5 collections wrap the 4-slot ring buffer.
- Gaps {1, 3} and durations {0, 1, 2} give different time fractions on
  either side of the 30% ratio.
- `MaxInUse` 4 gives reclaimed ratios on either side of 50%.

**`flowgraph`**:
- Every built graph of at most 4 blocks, with two variables, and at most
  one catch entry. Each block stores one of the two variables or neither.
  So a join can need a phi for both variables, or for the second only
  after the first variable has marked it. That is the case where the
  `has_already` / `work` markers, shared across variables and compared
  with `var_index`, decide the result.
- On the 5- and 7-block graphs, each block stores variable 0 or nothing.
- Semidominators differ from immediate dominators only from 7 blocks on.
  `MCExtraGraphs` adds four such 7-block graphs.
- It also adds two 5-block graphs with a catch entry, where the
  path-compression label decides the result.

**`rename`**:
- Every catch-free built graph of 4 blocks: straight lines, diamonds, and
  loops with a back edge to a join.
- Each block holds no statement, a load, a store, or a load and a store in
  either order.
- Paths of 7 blocks go twice round those loops.
- No phi of a 4-block graph has another phi as input. So the run adds the
  four catch-free 7-block graphs of `MCExtraGraphs`, which have joins
  inside loops whose phis feed one another. Their blocks hold one load,
  one store, or neither (`MCRenameBodies` takes the graph's size).

**`uselists`**:
- Two blocks of 7 and 8 instructions, as `Rename` leaves
  `f(p0, p1) { var t = true; g(p1 === t); return p1 === t; }` and a block
  with two equal Smi checks and one `p1 === true`.
- Three insertable checks: one `CheckClass` that `TryReplace` removes and
  two `CheckSmi` that CSE can merge.
- These make every rule fire, in every order:
  - removal of a check before and after CSE;
  - replacement before and after a check copies an environment that holds
    the comparison;
  - the second comparison on a removed constant.

**`compiler_driver`**:
- Shapes: a parse error or not, and a bailout in SSA, in the optimizer or
  nowhere. These cover both handlers and every stage a longjmp can leave.
- Threshold 1 and two deoptimizations: the second optimized compile runs
  without type feedback, and a function is optimized, deoptimized and
  reinstalled more than once.
- Outer deopt ids {0, 3} and a graph using 2 ids: the value to restore
  differs from what the graph leaves behind.
- The first compile may come from any of the three entries. An
  `ExecuteOnce` may therefore run inside a caller whose deopt id is 3, and
  its invocation may return a value or an error.

**`smi_arith`**: an 8-bit register, so Smis are -64..63 and every pair
of them is checked for every operation: 147,456 binary, 256 unary and
about 200,000 comparison cases. W = 8 is the smallest power of two that
keeps the masking of shift counts to log2(W) bits faithful. It is large
enough that counts reach past the clamp (SHR), past `Smi::kBits` (SHL)
and past the mask. The overflow, `MIN_SMI ~/ -1` and sign cases are the
same corners as at 64 bits, scaled.

The checks run on every Smi and on heap objects of every class the model
has:
- Mints: six values, at both ends of the 8-bit range and in between, of
  both signs. SmiTag drops a top bit of 0 from some and of 1 from others.
- arrays of length 0 to 3;
- growable arrays of every length up to their capacity;
- a Double.

The true and false objects are added for `AssertBoolean`. A polymorphic
call's receiver is any of these operands. It is followed by zero, one or
two arguments, each a Smi or a Double, so a receiver slot at the wrong
offset dispatches on a class other than the receiver's. The pushed
arguments are a map from byte offsets above the stack pointer to words
(`PushedArguments`), and the code's load is read from it at
`(ArgumentCount() - 1) * kWordSize`.

Every Smi index is tried, including negative ones, ones at the length,
and ones between a growable array's length and its capacity. The IC data
of `CheckClass` hold one or two classes, so the chain has both a
non-final and a final compare.

For `==` the classes are A and C, which inherit `Object.==`, and B, which
defines its own `==` on a key. The heap holds null, two A objects, a C,
and three B objects. Two of the B objects are equal under B's `==`
without being identical. IC data is every list of one or two classes with
Smi first if at all, or none. Every operand pair meets every path in both
forms and for both kinds.

`RelationalOpComp` takes the Smis 0 and 1 and the six Mints at either
heap pointer. The Mints' values lie on both sides of the Smis, and their
pointer words lie on both sides of the Smis' tagged words, so comparing
words instead of values gives a wrong answer. IC data is none, one or both
integer classes in either order.

For `RegisterContract`, the model enumerates every allocation of every
summary: 67 instruction variants, up to four free slots over seven
registers, which makes 14,656 code-generation states. Nothing is sampled.

### Fairness

Only `MCCompilerDriver` assumes fairness. Its specification is `FairSpec`,
which is `Spec` with weak fairness on `Compile`, the disjunction of the
driver's own steps. The code justifies this because a compile runs on the
mutator thread that called it, and no step of it waits for another thread.
The runtime's calls (`CallCompileFunction` and the others) are not fair:
the runtime may never call again. Under that fairness, `CompileReturns`
says every compile ends back at `idle`. A retry of a bailed-out optimizing
compile would break it, and no safety property would notice.

The other runs check safety only. The
compilation passes run to completion by construction, so `MCFlowGraph`
and the `MCUseLists` runs disable the deadlock check. So does
`MCCompilerDriver`: once a function has its final code, the runtime need
never call the compiler again. `FlowGraph`'s passes end by construction of
the model. A liveness check of the `flowgraph` run would take far longer
than its safety check, so it is not run. (The optimizer's
rewrites are finite: each removes an instruction or uses one of the
bounded insertable checks.) The page space never stops. `MCSmiArith` executes one instruction, or
generates code for one, per behaviour and stops.

### Mutants

Each property of a passing run is broken by a plausible bug in the code it
is about. `PROJECT.json` lists them all. Examples:

- `FreePage` without the tail fix-up;
- a sweep that keeps `bump_page_`;
- `CompressPath` without the label update;
- an idom ascent that goes one step too far;
- the runner walk stopping short;
- the phi worklist without requeueing;
- the `has_already` / `work` markers tested as set-or-unset flags instead
  of against `var_index`;
- the predecessor recorded after the visited check;
- an off-by-one `block_id`;
- `AddToInputUseList` without `set_next_use`;
- `ReplaceUsesWith` without its environment loop;
- `RemoveFromGraph` without `next->set_previous`;
- `CopyTo` numbering slots from 0;
- `TryReplace` returning the constant instead of `e`;
- the growth budget without the utilization target;
- the optimization-bailout return without restoring the long-jump base;
- no `set_is_optimizable(false)` after a bailout;
- no `set_deopt_id(0)` on entry to `CompileParsedFunctionHelper`;
- unoptimized code not installed with `SetCode`;
- SHR without the count clamp, or deoptimizing on a zero count;
- BIT_NOT without clearing the inverted tag;
- Smi comparisons with the unsigned conditions of the double table;
- dominated blocks renamed from the environment at block entry;
- phi inputs stored at a 1-based predecessor index;
- the phi-input loop of `MarkLivePhis` stopping before the last input;
- `TryAllocate` without the `page_size >= size` overflow check;
- `CompileFunctionHelper` retrying an optimizing compile after a bailout;
- the last compare of `CheckClass` branching to success like the others;
- `CheckArrayBound` with a signed condition, or indexing with `TIMES_8`;
- the Mint BIT_AND without the sign test of the Smi receiver;
- `EmitBranchCode`'s instance call passing `kind()` instead of `kEQ`;
- `NegateCondition` giving the mirrored condition (`LESS` to `GREATER`)
  instead of the complement;
- `EmitCheckedStrictEqual` loading false for not-identical whatever the
  kind.
- `RelationalOpComp`'s branch form treating its operands as known Smis
  and skipping the Smi test.
- `PolymorphicInstanceCallComp` reading the receiver from the top of the
  stack (the last argument) instead of the first argument's slot;
- `AllocateFromFreeList` dropping the remainder of a split chunk, which
  leaves a hole the heap walk steps into;
- `BinarySmiOpComp`'s SHR summary leaving the count to any register
  instead of RCX.

## Findings

1. `HeapPage::Allocate` (pages.cc:40-42) passes a possibly-NULL
   `VirtualMemory` to `Initialize`, which dereferences it. The spec says a
   failed reservation yields null, but the NULL check in `TryAllocate`
   (line 245) comes too late.
2. `EvaluateGarbageCollection` (pages.cc:513-514) grants 0 pages after an
   efficient collection. The spec (lines 82 and 110) says it grants
   `heap_growth_rate`.
3. `GarbageCollectionTimeFraction` (pages.cc:572-573) indexes `end_` with
   the negative result of `(index_ - 1 - i) % kHistoryLength`. This is an
   out-of-bounds read on every collection until the buffer has wrapped.

4. `StrictCompareComp::TryReplace` (intermediate_language.cc:1121-1126)
   removes the bind of the constant in `e === true` without checking that
   the comparison is its only use. After `Rename`, a constant held in a
   local is used by every load of the local and by the environments where
   it is live. Those slots are left referring to an unlinked instruction.
   A second `e === t` then calls `RemoveFromGraph` on the unlinked bind
   and dereferences its NULL `previous()`.

A note, not a checked finding: `CompileParsedFunctionHelper`
(compiler.cc:273-281) assumes that only SSA construction bails out
(`ASSERT(optimized)`, compiled out in release). If an unoptimized compile
bailed out, the helper would drop the sticky error and return false.
`CompileFunctionHelper` would then return `Error::null()` for a function
with no code. Inside this excerpt only `Rename` bails out, and only in
optimized compiles. So `MCCompilerDriver` gives the builder no bailout,
and `CompiledOrError` holds.

## Not modelled yet, and the plan

In order of importance:

1. **`UseLists`** still leaves out `ReplaceUsesWith(Value*)`. It handles
   constant operands, which no caller in the excerpt creates and which the
   header revision no longer has.
2. **An abstract allocator spec**, refined by `PageSpace`: allocated
   regions are disjoint and within capacity.

Left out entirely:

- `il_printer.cc` (formatting);
- `class_finalizer.h` (declarations only);
- `bin/builtin.cc` (a static lookup table);
- the unit tests;
- `CompileAllFunctions`' loop over a class's functions: the model follows
  one function;
- in `pages.cc`:
  - `WriteProtect`, which only changes page protection;
  - `StartEndAddress`, which is arithmetic over the page lists with no
    state;
  - `VisitObjectPointers`, which hands pointer slots to a visitor;
  - `~PageSpace` and `FreePages`, which run only when the heap is
    destroyed;
- in the code generator:
  - the XMM arithmetic of the Double instructions;
  - the write-barrier macros (`StoreIntoObject`);
  - the deoptimization stubs;
  - the allocator itself, which is outside the excerpt. `X64Locations`
    states what it is assumed to do.
