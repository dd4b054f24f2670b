---------------------------- MODULE X64Locations ----------------------------
(***************************************************************************)
(* The register contract between an x64 instruction's                    *)
(* MakeLocationSummary and its EmitNativeCode.  The summary names, for    *)
(* each input, temp and the result, either a fixed register or a policy   *)
(* (any register, the first input's register, an XMM register, none),    *)
(* and says whether the instruction calls (kCall), calls only on a slow   *)
(* path (kCallOnSlowPath) or never calls (kNoCall).  The register         *)
(* allocator chooses registers within the summary; the emitter then       *)
(* ASSERTs things of its choice, writes fixed scratch registers, and      *)
(* writes some registers while it still has others to read.              *)
(*                                                                         *)
(* The allocator (FrameRegisterAllocator, flow_graph_compiler.cc) is not  *)
(* part of the excerpt; FrameAllocations states what it is assumed to do: *)
(* fixed locations get their register and are blocked for the others,     *)
(* every RequiresRegister slot gets a register not yet taken, so inputs,  *)
(* temps and a RequiresRegister result are pairwise distinct, and a       *)
(* SameAsFirstInput result gets input 0's register.                       *)
(***************************************************************************)
EXTENDS Naturals, Sequences, FiniteSets, TLC

\* General registers the allocator hands out; CTX (R15), TMP (R11), RSP and
\* RBP are reserved and only ever appear as fixed locations.
Allocatable == {"RAX", "RBX", "RCX", "RDX", "RSI", "RDI", "R10"}

\* Two XMM registers stand for the allocatable XMM file.
XmmAllocatable == {"XMM2", "XMM3"}

\* Location::RegisterLocation, RequiresRegister, RequiresXmmRegister,
\* SameAsFirstInput and NoLocation.
RegisterLocation(r) == [kind |-> "register", reg |-> r]
RequiresRegister == [kind |-> "any", reg |-> "none"]
RequiresXmmRegister == [kind |-> "xmm", reg |-> "none"]
SameAsFirstInput == [kind |-> "same", reg |-> "none"]
NoLocation == [kind |-> "none", reg |-> "none"]

\* new LocationSummary(kNumInputs, kNumTemps, call) with its set_in,
\* set_temp and set_out calls.
LocationSummary(ins, temps, out, call) ==
  [in |-> ins, temp |-> temps, out |-> out, call |-> call]

\* LocationSummary::Make: n RequiresRegister inputs, no temps.
LocationSummaryMake(n, out, call) ==
  LocationSummary([i \in 1..n |-> RequiresRegister], <<>>, out, call)

\* Computation::MakeCallSummary: arguments on the stack, result in RAX.
MakeCallSummary == LocationSummary(<<>>, <<>>, RegisterLocation("RAX"), "kCall")

Slots(seq) == {seq[i] : i \in DOMAIN seq}

FixedRegisters(s) ==
  {l.reg : l \in {l \in Slots(s.in) \cup Slots(s.temp) \cup {s.out} :
                    l.kind = "register"}}

\* The registers one slot may receive, given those already taken.
SlotChoices(l, taken) ==
  CASE l.kind = "register" -> {l.reg}
    [] l.kind = "any"      -> Allocatable \ taken
    [] l.kind = "xmm"      -> XmmAllocatable \ taken
    [] OTHER               -> {"none"}

\* Every way to fill a sequence of slots, with the registers taken after it.
RECURSIVE AllocateSlots(_, _)
AllocateSlots(locs, taken) ==
  IF locs = <<>> THEN {<<<<>>, taken>>}
  ELSE UNION { { <<<<r>> \o rest[1], rest[2]>> :
                   rest \in AllocateSlots(Tail(locs), taken \cup {r}) } :
               r \in SlotChoices(Head(locs), taken) }

\* The allocations FrameRegisterAllocator may produce for summary s.
FrameAllocations(s) ==
  UNION { UNION { { [in |-> x[1], temp |-> y[1],
                     out |-> IF s.out.kind = "same" THEN x[1][1] ELSE o] :
                      o \in SlotChoices(s.out, y[2]) } :
                  y \in AllocateSlots(s.temp, x[2]) } :
          x \in AllocateSlots(s.in, FixedRegisters(s)) }

(***************************************************************************)
(* The summaries, one operator per MakeLocationSummary, with a parameter  *)
(* where the code chooses among several.                                   *)
(***************************************************************************)
ReturnLocs ==
  LocationSummary(<<RegisterLocation("RAX")>>, <<RequiresRegister>>,
                  NoLocation, "kNoCall")

ClosureCallLocs ==
  LocationSummary(<<>>, <<RegisterLocation("R10")>>, RegisterLocation("RAX"),
                  "kCall")

\* The three fixed-register call shapes: AssertAssignable and InstanceOf
\* (RAX, RCX, RDX), AllocateObjectWithBoundsCheck (RAX, RCX), and the
\* one-input RAX -> RAX calls (AssertBoolean, InstantiateTypeArguments,
\* CloneContext).
FixedCallLocs(n) ==
  LocationSummary(SubSeq(<<RegisterLocation("RAX"), RegisterLocation("RCX"),
                           RegisterLocation("RDX")>>, 1, n),
                  <<>>, RegisterLocation("RAX"), "kCall")

\* receiver_class_id() Smi or Double, or a checked strict equality, compare
\* inline; with IC checks: "ic"; otherwise "call".
EqualityCompareLocs(path) ==
  CASE path \in {"smi", "double", "strict"} ->
         LocationSummary(<<RequiresRegister, RequiresRegister>>,
                         <<RequiresRegister>>, RequiresRegister, "kNoCall")
    [] path = "ic" ->
         LocationSummary(<<RegisterLocation("RCX"), RegisterLocation("RDX")>>,
                         <<RegisterLocation("RBX")>>, RegisterLocation("RAX"),
                         "kCall")
    [] path = "call" ->
         LocationSummary(<<RegisterLocation("RCX"), RegisterLocation("RDX")>>,
                         <<>>, RegisterLocation("RAX"), "kCall")

\* operands_class_id() Smi or Double compare inline; otherwise a call.
RelationalOpLocs(path) ==
  IF path \in {"smi", "double"}
  THEN LocationSummary(<<RequiresRegister, RequiresRegister>>,
                       <<RequiresRegister>>, RequiresRegister, "kNoCall")
  ELSE FixedCallLocs(2)

NativeCallLocs ==
  LocationSummary(<<>>, <<RegisterLocation("RAX"), RegisterLocation("RBX"),
                          RegisterLocation("R10")>>,
                  RegisterLocation("RAX"), "kCall")

\* receiver_type() kGrowableObjectArrayCid needs a temp for the backing array.
LoadIndexedLocs(growable) ==
  IF growable
  THEN LocationSummary(<<RequiresRegister, RequiresRegister>>,
                       <<RequiresRegister>>, RequiresRegister, "kNoCall")
  ELSE LocationSummaryMake(2, RequiresRegister, "kNoCall")

StoreIndexedLocs(growable) ==
  IF growable
  THEN LocationSummary(<<RequiresRegister, RequiresRegister, RequiresRegister>>,
                       <<RequiresRegister>>, NoLocation, "kNoCall")
  ELSE LocationSummaryMake(3, NoLocation, "kNoCall")

StoreStaticFieldLocs ==
  LocationSummary(<<RequiresRegister>>, <<RequiresRegister>>, SameAsFirstInput,
                  "kNoCall")

CreateArrayLocs ==
  LocationSummary(<<RegisterLocation("RBX")>>, <<>>, RegisterLocation("RAX"),
                  "kCall")

\* ExtractConstructorTypeArguments and ExtractConstructorInstantiator.
ExtractConstructorLocs ==
  LocationSummary(<<RequiresRegister>>, <<>>, SameAsFirstInput, "kNoCall")

AllocateContextLocs ==
  LocationSummary(<<>>, <<RegisterLocation("R10")>>, RegisterLocation("RAX"),
                  "kCall")

CheckStackOverflowLocs ==
  LocationSummary(<<>>, <<RequiresRegister>>, NoLocation, "kCallOnSlowPath")

\* BinarySmiOpLocs with the SHR count left to any register.
BinarySmiOpLocsShrUnpinned(op) ==
  CASE op = "TRUNCDIV" ->
         LocationSummary(<<RegisterLocation("RAX"), RegisterLocation("RCX")>>,
                         <<RegisterLocation("RBX"), RegisterLocation("RDX"),
                           RequiresRegister>>, SameAsFirstInput, "kNoCall")
    [] op = "SHL" ->
         LocationSummary(<<RegisterLocation("RAX"), RegisterLocation("RDX")>>,
                         <<RegisterLocation("RBX"), RegisterLocation("RCX")>>,
                         RegisterLocation("RAX"), "kCall")
    [] OTHER ->
         LocationSummary(<<RequiresRegister, RequiresRegister>>, <<>>,
                         SameAsFirstInput, "kNoCall")

\* TRUNCDIV pins the dividend to RAX, the divisor to RCX and RDX for cqo;
\* SHR needs the count in RCX; SHL may call the Smi method; the rest (ADD,
\* SUB, MUL, BIT_AND, BIT_OR, BIT_XOR) work on any two registers.
BinarySmiOpLocs(op) ==
  CASE op = "TRUNCDIV" ->
         LocationSummary(<<RegisterLocation("RAX"), RegisterLocation("RCX")>>,
                         <<RegisterLocation("RBX"), RegisterLocation("RDX"),
                           RequiresRegister>>, SameAsFirstInput, "kNoCall")
    [] op = "SHR" ->
         LocationSummary(<<RequiresRegister, RegisterLocation("RCX")>>, <<>>,
                         SameAsFirstInput, "kNoCall")
    [] op = "SHL" ->
         LocationSummary(<<RegisterLocation("RAX"), RegisterLocation("RDX")>>,
                         <<RegisterLocation("RBX"), RegisterLocation("RCX")>>,
                         RegisterLocation("RAX"), "kCall")
    [] OTHER ->
         LocationSummary(<<RequiresRegister, RequiresRegister>>, <<>>,
                         SameAsFirstInput, "kNoCall")

CheckEitherNonSmiLocs ==
  LocationSummary(<<RequiresRegister, RequiresRegister>>, <<RequiresRegister>>,
                  NoLocation, "kNoCall")

BoxDoubleLocs ==
  LocationSummary(<<RequiresXmmRegister>>, <<>>, RequiresRegister,
                  "kCallOnSlowPath")

\* A temp only when the value may be a Smi (v_cid != kDoubleCid).
UnboxDoubleLocs(isDouble) ==
  LocationSummary(<<RequiresRegister>>,
                  IF isDouble THEN <<>> ELSE <<RequiresRegister>>,
                  RequiresXmmRegister, "kNoCall")

UnboxedDoubleBinaryOpLocs ==
  LocationSummary(<<RequiresXmmRegister, RequiresXmmRegister>>, <<>>,
                  SameAsFirstInput, "kNoCall")

\* UnarySmiOp and DoubleToDouble.
InPlaceLocs ==
  LocationSummary(<<RequiresRegister>>, <<>>, SameAsFirstInput, "kNoCall")

NumberNegateLocs ==
  LocationSummary(<<RegisterLocation("RAX")>>, <<RegisterLocation("RCX")>>,
                  RegisterLocation("RAX"), "kCall")

CheckClassLocs ==
  LocationSummary(<<RequiresRegister>>, <<RequiresRegister>>, NoLocation,
                  "kNoCall")

CheckSmiLocs ==
  LocationSummary(<<RequiresRegister>>, <<>>, NoLocation, "kNoCall")

StoreContextLocs ==
  LocationSummary(<<RegisterLocation("CTX")>>, <<>>, NoLocation, "kNoCall")

\* The LocationSummary::Make summaries: LoadLocal, Constant,
\* LoadStaticField, CurrentContext (no input, a register); LoadInstanceField,
\* LoadVMField, BooleanNegate (one input, a fresh register); StoreLocal (one
\* input, in place); StrictCompare, StoreVMField (two inputs, result in the
\* first); CatchEntry, ChainContext, CheckArrayBound (no result).
LoadLocalLocs == LocationSummaryMake(0, RequiresRegister, "kNoCall")
LoadInstanceFieldLocs == LocationSummaryMake(1, RequiresRegister, "kNoCall")
StoreLocalLocs == LocationSummaryMake(1, SameAsFirstInput, "kNoCall")
StrictCompareLocs == LocationSummaryMake(2, SameAsFirstInput, "kNoCall")
CatchEntryLocs == LocationSummaryMake(0, NoLocation, "kNoCall")
ChainContextLocs == LocationSummaryMake(1, NoLocation, "kNoCall")
CheckArrayBoundLocs == LocationSummaryMake(2, NoLocation, "kNoCall")

(***************************************************************************)
(* What each EmitNativeCode does with the registers it is given: the      *)
(* ASSERTs it makes of them (ok), the pairs <<w, r>> where it writes w    *)
(* while r still holds a value it reads later (conflicts), the fixed      *)
(* registers it writes that the summary does not name (scratch), whether  *)
(* it calls inline, on a slow path, or only while leaving the frame       *)
(* (calls), and how many temps it reads (temps).                          *)
(***************************************************************************)
Facts(ok, conflicts, scratch, calls, temps) ==
  [ok |-> ok, conflicts |-> conflicts, scratch |-> scratch, calls |-> calls,
   temps |-> temps]

NoFacts == Facts(TRUE, {}, {}, "none", 0)

\* locs()->in(k) and locs()->temp(k), counted from 1.
InReg(a, k) == IF k \in DOMAIN a.in THEN a.in[k] ELSE "missing"
TempReg(a, k) == IF k \in DOMAIN a.temp THEN a.temp[k] ELSE "missing"

\* Unoptimized code loads the function into temp and may call the
\* optimizer, saving the result; DEBUG builds check the frame size in RDI;
\* then the frame is left.
ReturnRegs(a) ==
  Facts(InReg(a, 1) = "RAX", {<<TempReg(a, 1), InReg(a, 1)>>}, {"RDI"},
        "exit", 1)

\* The arguments descriptor goes to temp 0 (R10) for the closure stub.
ClosureCallRegs(a) == Facts(TRUE, {}, {}, "inline", 1)

\* AssertAssignable, AssertBoolean, InstantiateTypeArguments: the value (or
\* the instantiator, on the fast path) is left where the result is expected.
ResultInInputRegs(a) == Facts(InReg(a, 1) = a.out, {}, {}, "inline", 0)

InstanceOfRegs(a) ==
  Facts(a.in = <<"RAX", "RCX", "RDX">> /\ a.out = "RAX", {}, {}, "inline", 0)

NativeCallRegs(a) == Facts(a.temp = <<"RAX", "RBX", "R10">>, {}, {}, "inline", 3)

\* The comparison helpers: EmitSmiComparisonOp writes left | right into temp
\* before cmpq left, right, so temp may be neither; EmitDoubleComparisonOp
\* loads left through temp while right is still to be read; EmitCheckedStrictEqual
\* and EmitEqualityAsPolymorphicCall load the class id of left into temp and
\* compare left with right afterwards; the instance call leaves RAX.
CompareRegs(path, a) ==
  LET left == InReg(a, 1)
      right == InReg(a, 2)
      temp == TempReg(a, 1)
  IN CASE path = "smi" -> Facts(TRUE, {<<temp, left>>, <<temp, right>>}, {}, "none", 1)
       [] path = "double" -> Facts(TRUE, {<<temp, right>>}, {}, "none", 1)
       [] path = "strict" -> Facts(TRUE, {<<temp, left>>, <<temp, right>>}, {}, "none", 1)
       [] path = "ic" -> Facts(TRUE, {<<temp, left>>, <<temp, right>>}, {}, "inline", 1)
       [] path = "call" -> Facts(a.out = "RAX", {}, {}, "inline", 0)

\* RelationalOp with IC data loads the class id into RDI before testing left
\* and calling: ASSERT((left != RDI) && (right != RDI)).
RelationalOpRegs(path, a) ==
  LET left == InReg(a, 1)
      right == InReg(a, 2)
  IN CASE path \in {"smi", "double"} -> CompareRegs(path, a)
       [] path = "ic" -> Facts(left # "RDI" /\ right # "RDI",
                               {<<"RDI", left>>, <<"RDI", right>>}, {"RDI"},
                               "inline", 0)
       [] path = "call" -> Facts(TRUE, {}, {}, "inline", 0)

\* The growable-array paths load the backing array into temp, then index it
\* and (for a store) write the value.
IndexedRegs(growable, store, a) ==
  IF growable
  THEN Facts(TRUE, {<<TempReg(a, 1), InReg(a, 2)>>} \cup
                   (IF store THEN {<<TempReg(a, 1), InReg(a, 3)>>} ELSE {}),
             {}, "none", 1)
  ELSE NoFacts

StoreStaticFieldRegs(a) ==
  Facts(a.out = InReg(a, 1), {<<TempReg(a, 1), InReg(a, 1)>>}, {}, "none", 1)

\* R10 = length before the allocation stub, which also reads RBX.
CreateArrayRegs(a) ==
  Facts(InReg(a, 1) = "RBX" /\ a.out = "RAX", {<<"R10", InReg(a, 1)>>},
        {"R10"}, "inline", 0)

\* With IC data the class check uses the result register as a temporary.
LoadVMFieldRegs(hasIC, a) ==
  IF hasIC
  THEN Facts(a.out # InReg(a, 1), {<<a.out, InReg(a, 1)>>}, {}, "none", 0)
  ELSE NoFacts

InPlaceRegs(a) == Facts(InReg(a, 1) = a.out, {}, {}, "none", 0)

AllocateContextRegs(a) ==
  Facts(TempReg(a, 1) = "R10" /\ a.out = "RAX", {}, {}, "inline", 1)

CheckStackOverflowRegs(a) == Facts(TRUE, {}, {}, "slow", 1)

\* InstanceCall, StaticCall, AllocateObject, AllocateObjectWithBoundsCheck,
\* CloneContext: push, call, pop or leave the result in RAX.
CallRegs(a) == Facts(TRUE, {}, {}, "inline", 0)

\* ASSERT(left == result) for every op; TRUNCDIV untags into right_temp
\* (temp 2) and divides RDX:RAX, and "deoptimization requires that temp and
\* right are preserved"; SHR clamps the count in place in RCX; SHL keeps left
\* in temp (temp 0) and the count in RCX (temp 1) for the overflow test, and
\* calls the Smi method with left and right on overflow; MUL untags left
\* before multiplying by right.
BinarySmiOpRegs(op, a) ==
  LET left == InReg(a, 1)
      right == InReg(a, 2)
      result == a.out
  IN CASE op = "TRUNCDIV" ->
            LET temp == TempReg(a, 1)
                rtemp == TempReg(a, 3)
            IN Facts(/\ left = result /\ left = "RAX" /\ result = "RAX"
                     /\ right \notin {"RDX", "RAX"} /\ temp \notin {"RDX", "RAX"}
                     /\ TempReg(a, 2) = "RDX",
                     {<<rtemp, left>>} \cup
                       {<<w, r>> : w \in {"RAX", "RDX"}, r \in {rtemp, right, temp}},
                     {}, "none", 3)
       [] op = "SHR" ->
            Facts(left = result /\ right = "RCX", {<<right, left>>}, {}, "none", 0)
       [] op = "SHL" ->
            LET temp == TempReg(a, 1)
                rtemp == TempReg(a, 2)
            IN Facts(left = result /\ rtemp = "RCX" /\ result = "RAX",
                     {<<temp, left>>, <<temp, right>>, <<rtemp, left>>,
                      <<rtemp, temp>>, <<rtemp, right>>, <<left, rtemp>>,
                      <<left, temp>>, <<left, right>>},
                     {}, "inline", 2)
       [] op = "MUL" -> Facts(left = result, {<<left, right>>}, {}, "none", 0)
       [] OTHER -> Facts(left = result, {}, {}, "none", 0)

\* ASSERT(left == result); the static-call paths ASSERT(result == RAX).
BinaryMintOpRegs(a) ==
  Facts(InReg(a, 1) = a.out /\ a.out = "RAX", {}, {}, "inline", 0)

\* After the allocation stub: operands reloaded into RBX and RCX, temp RDX,
\* all while the new Double in RAX is still to be filled.
BinaryDoubleOpRegs(a) ==
  Facts(a.out = "RAX", {<<r, a.out>> : r \in {"RBX", "RCX", "RDX"}},
        {"RBX", "RCX", "RDX"}, "inline", 0)

\* After the allocation stub the argument is reloaded into RBX.
SmiToDoubleRegs(a) ==
  Facts(a.out = "RAX", {<<"RBX", a.out>>}, {"RBX"}, "inline", 0)

\* The receiver goes to RAX and its class id to RDI before the calls.
PolymorphicInstanceCallRegs(a) == Facts(TRUE, {}, {"RAX", "RDI"}, "inline", 0)

CheckEitherNonSmiRegs(a) ==
  Facts(TRUE, {<<TempReg(a, 1), InReg(a, 2)>>}, {}, "none", 1)

BoxDoubleRegs(a) == Facts(TRUE, {}, {}, "slow", 0)

UnboxDoubleRegs(isDouble, a) ==
  Facts(TRUE, {}, {}, "none", IF isDouble THEN 0 ELSE 1)

\* ASSERT(value == result); after the stub, ASSERT(result != temp) and the
\* operand is popped into temp while result is still to be filled.
NumberNegateRegs(a) ==
  Facts(InReg(a, 1) = a.out /\ a.out # TempReg(a, 1),
        {<<TempReg(a, 1), a.out>>}, {}, "inline", 1)

CheckClassRegs(a) == Facts(TRUE, {}, {}, "none", 1)

StoreContextRegs(a) == Facts(InReg(a, 1) = "CTX", {}, {}, "none", 0)

\* BooleanNegate loads true into result before comparing it with value.
BooleanNegateRegs(a) == Facts(TRUE, {<<a.out, InReg(a, 1)>>}, {}, "none", 0)

(***************************************************************************)
(* The instructions, each with the choice its summary depends on.         *)
(***************************************************************************)
PlainInstructions ==
  {"Return", "ClosureCall", "AssertAssignable", "AssertBoolean", "InstanceOf",
   "InstantiateTypeArguments", "CloneContext", "AllocateObjectWithBoundsCheck",
   "InstanceCall", "StaticCall", "AllocateObject", "BinaryMintOp",
   "BinaryDoubleOp", "SmiToDouble", "PolymorphicInstanceCall", "NativeCall",
   "CreateArray", "AllocateContext", "CheckStackOverflow", "StoreStaticField",
   "ExtractConstructorTypeArguments", "ExtractConstructorInstantiator",
   "UnarySmiOp", "DoubleToDouble", "NumberNegate", "CheckEitherNonSmi",
   "BoxDouble", "UnboxedDoubleBinaryOp", "CheckClass", "CheckSmi",
   "StoreContext", "LoadLocal", "Constant", "LoadStaticField",
   "CurrentContext", "LoadInstanceField", "BooleanNegate", "StoreLocal",
   "StrictCompare", "StoreVMField", "CatchEntry", "ChainContext",
   "CheckArrayBound"}

Variants ==
  {<<n, "">> : n \in PlainInstructions}
  \cup {<<"EqualityCompare", p>> : p \in {"smi", "double", "strict", "ic", "call"}}
  \cup {<<"RelationalOp", p>> : p \in {"smi", "double", "ic", "call"}}
  \cup {<<"BinarySmiOp", op>> :
          op \in {"ADD", "SUB", "MUL", "BIT_AND", "TRUNCDIV", "SHR", "SHL"}}
  \cup {<<n, b>> : n \in {"LoadIndexed", "StoreIndexed", "LoadVMField",
                          "UnboxDouble"}, b \in BOOLEAN}

Summary(v) ==
  LET n == v[1] IN
  CASE n = "Return" -> ReturnLocs
    [] n = "ClosureCall" -> ClosureCallLocs
    [] n \in {"AssertAssignable", "InstanceOf"} -> FixedCallLocs(3)
    [] n \in {"AllocateObjectWithBoundsCheck", "BinaryMintOp"} -> FixedCallLocs(2)
    [] n \in {"AssertBoolean", "InstantiateTypeArguments", "CloneContext"} ->
         FixedCallLocs(1)
    [] n \in {"InstanceCall", "StaticCall", "AllocateObject", "BinaryDoubleOp",
              "SmiToDouble", "PolymorphicInstanceCall"} -> MakeCallSummary
    [] n = "NativeCall" -> NativeCallLocs
    [] n = "CreateArray" -> CreateArrayLocs
    [] n = "AllocateContext" -> AllocateContextLocs
    [] n = "CheckStackOverflow" -> CheckStackOverflowLocs
    [] n = "StoreStaticField" -> StoreStaticFieldLocs
    [] n \in {"ExtractConstructorTypeArguments",
              "ExtractConstructorInstantiator"} -> ExtractConstructorLocs
    [] n \in {"UnarySmiOp", "DoubleToDouble"} -> InPlaceLocs
    [] n = "NumberNegate" -> NumberNegateLocs
    [] n = "CheckEitherNonSmi" -> CheckEitherNonSmiLocs
    [] n = "BoxDouble" -> BoxDoubleLocs
    [] n = "UnboxedDoubleBinaryOp" -> UnboxedDoubleBinaryOpLocs
    [] n = "CheckClass" -> CheckClassLocs
    [] n = "CheckSmi" -> CheckSmiLocs
    [] n = "StoreContext" -> StoreContextLocs
    [] n \in {"LoadLocal", "Constant", "LoadStaticField", "CurrentContext"} ->
         LoadLocalLocs
    [] n \in {"LoadInstanceField", "BooleanNegate"} -> LoadInstanceFieldLocs
    [] n = "LoadVMField" -> LoadInstanceFieldLocs
    [] n = "StoreLocal" -> StoreLocalLocs
    [] n \in {"StrictCompare", "StoreVMField"} -> StrictCompareLocs
    [] n = "CatchEntry" -> CatchEntryLocs
    [] n = "ChainContext" -> ChainContextLocs
    [] n = "CheckArrayBound" -> CheckArrayBoundLocs
    [] n = "EqualityCompare" -> EqualityCompareLocs(v[2])
    [] n = "RelationalOp" -> RelationalOpLocs(v[2])
    [] n = "BinarySmiOp" -> BinarySmiOpLocs(v[2])
    [] n = "LoadIndexed" -> LoadIndexedLocs(v[2])
    [] n = "StoreIndexed" -> StoreIndexedLocs(v[2])
    [] n = "UnboxDouble" -> UnboxDoubleLocs(v[2])

Emitted(v, a) ==
  LET n == v[1] IN
  CASE n = "Return" -> ReturnRegs(a)
    [] n = "ClosureCall" -> ClosureCallRegs(a)
    [] n \in {"AssertAssignable", "AssertBoolean", "InstantiateTypeArguments"} ->
         ResultInInputRegs(a)
    [] n = "InstanceOf" -> InstanceOfRegs(a)
    [] n \in {"InstanceCall", "StaticCall", "AllocateObject",
              "AllocateObjectWithBoundsCheck", "CloneContext"} -> CallRegs(a)
    [] n = "BinaryMintOp" -> BinaryMintOpRegs(a)
    [] n = "BinaryDoubleOp" -> BinaryDoubleOpRegs(a)
    [] n = "SmiToDouble" -> SmiToDoubleRegs(a)
    [] n = "PolymorphicInstanceCall" -> PolymorphicInstanceCallRegs(a)
    [] n = "NativeCall" -> NativeCallRegs(a)
    [] n = "CreateArray" -> CreateArrayRegs(a)
    [] n = "AllocateContext" -> AllocateContextRegs(a)
    [] n = "CheckStackOverflow" -> CheckStackOverflowRegs(a)
    [] n = "StoreStaticField" -> StoreStaticFieldRegs(a)
    [] n \in {"ExtractConstructorTypeArguments", "ExtractConstructorInstantiator",
              "UnarySmiOp", "DoubleToDouble", "UnboxedDoubleBinaryOp",
              "StoreLocal", "StoreVMField"} -> InPlaceRegs(a)
    [] n = "NumberNegate" -> NumberNegateRegs(a)
    [] n = "CheckEitherNonSmi" -> CheckEitherNonSmiRegs(a)
    [] n = "BoxDouble" -> BoxDoubleRegs(a)
    [] n = "CheckClass" -> CheckClassRegs(a)
    [] n = "StoreContext" -> StoreContextRegs(a)
    [] n = "BooleanNegate" -> BooleanNegateRegs(a)
    [] n = "EqualityCompare" -> CompareRegs(v[2], a)
    [] n = "RelationalOp" -> RelationalOpRegs(v[2], a)
    [] n = "BinarySmiOp" -> BinarySmiOpRegs(v[2], a)
    [] n \in {"LoadIndexed", "StoreIndexed"} ->
         IndexedRegs(v[2], n = "StoreIndexed", a)
    [] n = "LoadVMField" -> LoadVMFieldRegs(v[2], a)
    [] n = "UnboxDouble" -> UnboxDoubleRegs(v[2], a)
    [] OTHER -> NoFacts

UsedRegisters(a) == Slots(a.in) \cup Slots(a.temp) \cup {a.out}

(***************************************************************************)
(* Code generation of one instruction: FlowGraphCompiler asks for its     *)
(* summary, the frame allocator fills it in, the emitter runs.            *)
(***************************************************************************)
VARIABLES phase, variant, alloc, emitted

locVars == <<phase, variant, alloc, emitted>>

NoAllocation == [in |-> <<>>, temp |-> <<>>, out |-> "none"]

LocInit ==
  /\ phase = "idle"
  /\ variant = <<"none", "">>
  /\ alloc = NoAllocation
  /\ emitted = NoFacts

MakeLocationSummary ==
  /\ phase = "idle"
  /\ \E v \in Variants : variant' = v
  /\ phase' = "summary"
  /\ UNCHANGED <<alloc, emitted>>

AllocateRegisters ==
  /\ phase = "summary"
  /\ \E a \in FrameAllocations(Summary(variant)) : alloc' = a
  /\ phase' = "allocated"
  /\ UNCHANGED <<variant, emitted>>

EmitNativeCode ==
  /\ phase = "allocated"
  /\ emitted' = Emitted(variant, alloc)
  /\ phase' = "emitted"
  /\ UNCHANGED <<variant, alloc>>

LocNext == MakeLocationSummary \/ AllocateRegisters \/ EmitNativeCode

(***************************************************************************)
(* Every instruction's summary admits an allocation, and whatever         *)
(* registers the frame allocator chose within it, the emitter's register  *)
(* ASSERTs hold, no register it writes is one it still has to read, it    *)
(* reads no temp the summary did not ask for, a kNoCall instruction that  *)
(* stays in the frame writes no register outside its summary (the         *)
(* allocator may keep values there), and an instruction that calls says   *)
(* kCall (inline) or kCallOnSlowPath (slow path).                         *)
(***************************************************************************)
RegisterContract ==
  /\ phase = "summary" => FrameAllocations(Summary(variant)) # {}
  /\ phase = "emitted" =>
       LET s == Summary(variant)
           f == emitted
       IN /\ f.ok
          /\ f.temps <= Len(s.temp)
          /\ \A c \in f.conflicts : c[1] # c[2]
          /\ (s.call = "kNoCall" /\ f.calls # "exit") =>
               f.scratch \subseteq UsedRegisters(alloc)
          /\ f.calls = "inline" => s.call = "kCall"
          /\ f.calls = "slow" => s.call \in {"kCall", "kCallOnSlowPath"}
====
