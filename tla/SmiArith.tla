------------------------------ MODULE SmiArith ------------------------------
(***************************************************************************)
(* The inline Smi arithmetic and comparison that the x64 code generator   *)
(* emits (intermediate_language_x64.cc): BinarySmiOpComp, UnarySmiOpComp *)
(* and EmitSmiComparisonOp, the type and bound checks, indexed access and *)
(* the Mint BIT_AND, each instruction sequence as what it does to a        *)
(* W-bit register and its overflow flag, checked against Dart's integer   *)
(* semantics on the untagged values.                                      *)
(*                                                                         *)
(* A Smi v is held tagged as 2 * v (kSmiTagShift = 1, tag bit 0); a heap   *)
(* object's pointer has the tag bit set.  Smi::kBits = W - 2, so Smis are  *)
(* -2^(W-2) .. 2^(W-2) - 1.  The code's 64-bit constants are written in W: *)
(* 0x4000000000000000 is 2^(W-2), the sarq count limit 0x3F is W - 1, and  *)
(* the hardware masks shift counts to log2(W) bits (count % W).            *)
(***************************************************************************)
EXTENDS Integers, Sequences, Bitwise

CONSTANTS
  W,              \* register width in bits (a power of two)
  NonSmiWords,    \* tagged heap-object pointers the comparison may meet
  MintValues,     \* values held by Mint objects (W-bit, not Smis)
  MaxArrayLength  \* largest array length (and growable capacity)

Words == -(2^(W-1)) .. (2^(W-1) - 1)
SmiMin == -(2^(W-2))
SmiMax == 2^(W-2) - 1
SmiBits == W - 2
IsSmiValue(v) == v \in SmiMin..SmiMax

(***************************************************************************)
(* The register: two's complement wrap-around, the unsigned view for the  *)
(* bitwise instructions and unsigned compares, arithmetic shifts.          *)
(***************************************************************************)
Wrap(x) == ((x + 2^(W-1)) % 2^W) - 2^(W-1)
Unsigned(x) == x % 2^W
Overflows(x) == Wrap(x) # x
Sar(x, c) == x \div 2^(c % W)
Shl(x, c) == Wrap(x * 2^(c % W))
SmiTag(v) == Shl(v, 1)
SmiUntag(x) == Sar(x, 1)
SmiWords == {SmiTag(v) : v \in SmiMin..SmiMax}

\* notq: every one of the W bits flipped.
Notq(x) == Wrap(2^W - 1 - Unsigned(x))

Abs(x) == IF x < 0 THEN -x ELSE x

\* idivq: quotient truncated toward zero.
Idiv(a, b) == IF (a >= 0) = (b > 0) THEN Abs(a) \div Abs(b)
              ELSE -(Abs(a) \div Abs(b))

Value(w) == [kind |-> "value", value |-> w]
Deopt == [kind |-> "deopt"]
CallMethod == [kind |-> "call"]

(***************************************************************************)
(* BinarySmiOpComp::EmitNativeCode, one operator per case.  Both operands *)
(* are tagged Smis (the preceding checks).                                *)
(***************************************************************************)
SmiAdd(l, r) == IF Overflows(l + r) THEN Deopt ELSE Value(l + r)

SmiSub(l, r) == IF Overflows(l - r) THEN Deopt ELSE Value(l - r)

\* Untag the left operand, multiply by the tagged right one.
SmiMul(l, r) == LET p == SmiUntag(l) * r
                IN  IF Overflows(p) THEN Deopt ELSE Value(p)

SmiBitAnd(l, r) == Value(Wrap(Unsigned(l) & Unsigned(r)))
SmiBitOr(l, r)  == Value(Wrap(Unsigned(l) | Unsigned(r)))
SmiBitXor(l, r) == Value(Wrap(Unsigned(l) ^^ Unsigned(r)))

\* Zero divisor deoptimizes; MIN_SMI / -1 = 2^(W-2) cannot be tagged.
SmiTruncDiv(l, r) ==
  IF r = 0 THEN Deopt
  ELSE LET q == Idiv(SmiUntag(l), SmiUntag(r))
       IN  IF q = 2^(W-2) THEN Deopt ELSE Value(SmiTag(q))

\* Mutant: the count is not clamped to W - 1 before sarq masks it.
SmiShrNoClamp(l, r) ==
  IF r < 0 THEN Deopt ELSE Value(SmiTag(Sar(SmiUntag(l), SmiUntag(r))))

\* Mutant: a zero count deoptimizes too (j(LESS_EQUAL)).
SmiShrDeoptOnZero(l, r) ==
  IF r <= 0 THEN Deopt
  ELSE LET c == IF SmiUntag(r) < W - 1 THEN SmiUntag(r) ELSE W - 1
       IN  Value(SmiTag(Sar(SmiUntag(l), c)))

\* A negative count deoptimizes; the count is clamped to W - 1.
SmiShr(l, r) ==
  IF r < 0 THEN Deopt
  ELSE LET c == IF SmiUntag(r) < W - 1 THEN SmiUntag(r) ELSE W - 1
       IN  Value(SmiTag(Sar(SmiUntag(l), c)))

\* Counts at or above Smi::kBits (unsigned compare, so negative counts too)
\* and shifts that lose bits call the Smi operator method.
SmiShl(l, r) ==
  IF Unsigned(r) >= Unsigned(SmiTag(SmiBits)) THEN CallMethod
  ELSE LET c == SmiUntag(r)
       IN  IF Sar(Shl(l, c), c) # l THEN CallMethod ELSE Value(Shl(l, c))

BinaryOps == {"ADD", "SUB", "MUL", "BIT_AND", "BIT_OR", "BIT_XOR",
              "TRUNCDIV", "SHR", "SHL"}

EmitBinarySmiOp(op, l, r) ==
  CASE op = "ADD"      -> SmiAdd(l, r)
    [] op = "SUB"      -> SmiSub(l, r)
    [] op = "MUL"      -> SmiMul(l, r)
    [] op = "BIT_AND"  -> SmiBitAnd(l, r)
    [] op = "BIT_OR"   -> SmiBitOr(l, r)
    [] op = "BIT_XOR"  -> SmiBitXor(l, r)
    [] op = "TRUNCDIV" -> SmiTruncDiv(l, r)
    [] op = "SHR"      -> SmiShr(l, r)
    [] op = "SHL"      -> SmiShl(l, r)

(***************************************************************************)
(* UnarySmiOpComp::EmitNativeCode.                                         *)
(***************************************************************************)
UnaryOps == {"NEGATE", "BIT_NOT"}

SmiNegate(x) == IF Overflows(-x) THEN Deopt ELSE Value(-x)

\* Mutant: notq without removing the inverted tag.
SmiBitNotKeepsTag(x) == Value(Notq(x))

\* notq, then clear the inverted tag bit.
SmiBitNot(x) == Value(Wrap(Unsigned(Notq(x)) & Unsigned(-2)))

EmitUnarySmiOp(op, x) ==
  IF op = "NEGATE" THEN SmiNegate(x) ELSE SmiBitNot(x)

(***************************************************************************)
(* EmitSmiComparisonOp: unless the branch's operands are known Smis, test *)
(* the tag bit of left | right and deoptimize; then cmpq and the condition *)
(* of TokenKindToSmiCondition.                                             *)
(***************************************************************************)
CompareKinds == {"EQ", "NE", "LT", "GT", "LTE", "GTE"}

Holds(cond, a, b) ==
  CASE cond = "EQUAL"         -> a = b
    [] cond = "NOT_EQUAL"     -> a # b
    [] cond = "LESS"          -> a < b
    [] cond = "GREATER"       -> a > b
    [] cond = "LESS_EQUAL"    -> a <= b
    [] cond = "GREATER_EQUAL" -> a >= b
    [] cond = "BELOW"         -> Unsigned(a) < Unsigned(b)
    [] cond = "ABOVE"         -> Unsigned(a) > Unsigned(b)
    [] cond = "BELOW_EQUAL"   -> Unsigned(a) <= Unsigned(b)
    [] cond = "ABOVE_EQUAL"   -> Unsigned(a) >= Unsigned(b)

\* Mutant: the mirrored condition instead of the complement.
NegateConditionMirrored(cond) ==
  [EQUAL |-> "NOT_EQUAL", NOT_EQUAL |-> "EQUAL", LESS |-> "GREATER",
   LESS_EQUAL |-> "GREATER_EQUAL", GREATER |-> "LESS",
   GREATER_EQUAL |-> "LESS_EQUAL", BELOW |-> "ABOVE", BELOW_EQUAL |-> "ABOVE_EQUAL",
   ABOVE |-> "BELOW", ABOVE_EQUAL |-> "BELOW_EQUAL"][cond]

NegateCondition(cond) ==
  [EQUAL |-> "NOT_EQUAL", NOT_EQUAL |-> "EQUAL", LESS |-> "GREATER_EQUAL",
   LESS_EQUAL |-> "GREATER", GREATER |-> "LESS_EQUAL",
   GREATER_EQUAL |-> "LESS", BELOW |-> "ABOVE_EQUAL", BELOW_EQUAL |-> "ABOVE",
   ABOVE |-> "BELOW_EQUAL", ABOVE_EQUAL |-> "BELOW"][cond]

\* ControlInstruction::EmitBranchOnCondition, as whether the true successor
\* is reached: with the false successor next, jump on the condition; with
\* the true successor next, jump to the false one on its negation.
EmitBranchOnCondition(cond, a, b, next) ==
  IF next = "false" THEN Holds(cond, a, b)
  ELSE ~Holds(NegateCondition(cond), a, b)

\* br is "none" for the Bool form (j(cond, &is_true)), else the successor
\* laid out next.
Decide(br, cond, a, b) ==
  IF br = "none" THEN Holds(cond, a, b) ELSE EmitBranchOnCondition(cond, a, b, br)

Branches == {"none", "true", "false"}

\* Mutant: the unsigned conditions of TokenKindToDoubleCondition.
TokenKindToSmiConditionUnsigned(kind) ==
  [EQ |-> "EQUAL", NE |-> "NOT_EQUAL", LT |-> "BELOW", GT |-> "ABOVE",
   LTE |-> "BELOW_EQUAL", GTE |-> "ABOVE_EQUAL"][kind]

TokenKindToSmiCondition(kind) ==
  [EQ |-> "EQUAL", NE |-> "NOT_EQUAL", LT |-> "LESS", GT |-> "GREATER",
   LTE |-> "LESS_EQUAL", GTE |-> "GREATER_EQUAL"][kind]

IsTagged(x) == Unsigned(x) % 2 = 1

EmitSmiComparisonOp(kind, l, r, known_smi, br) ==
  IF ~known_smi /\ IsTagged(Wrap(Unsigned(l) | Unsigned(r))) THEN Deopt
  ELSE [kind |-> "bool", value |-> Decide(br, TokenKindToSmiCondition(kind), l, r)]

(***************************************************************************)
(* Heap objects, by what the emitted code reads of them: the class id,    *)
(* a Mint's value word, an array's length field (a Smi) and a growable    *)
(* array's backing-store length.  An operand is the register word and the *)
(* object it points to (NoObject for a Smi).                               *)
(***************************************************************************)
HeapCids == {"Mint", "Array", "GrowableObjectArray", "Double"}

Object(cid, value, length, capacity) ==
  [cid |-> cid, value |-> value, length |-> length, capacity |-> capacity]
NoObject == Object("Smi", 0, 0, 0)

Mints == {Object("Mint", m, 0, 0) : m \in MintValues}
Arrays == {Object("Array", 0, n, n) : n \in 0..MaxArrayLength}
Growables == {Object("GrowableObjectArray", 0, n, c) :
                <<n, c>> \in {<<n, c>> \in (0..MaxArrayLength) \X (0..MaxArrayLength) : n <= c}}
Objects == Mints \cup Arrays \cup Growables \cup {Object("Double", 0, 0, 0)}

SmiOperand(w) == [word |-> w, obj |-> NoObject]
HeapOperand(p, o) == [word |-> p, obj |-> o]
SmiOperands == {SmiOperand(w) : w \in SmiWords}
HeapOperands(objs) == {HeapOperand(p, o) : p \in NonSmiWords, o \in objs}

Pass == [kind |-> "pass"]

\* CheckSmiComp: testq the tag bit, deoptimize if it is set.
CheckSmi(x) == IF IsTagged(x.word) THEN Deopt ELSE Pass

\* CheckEitherNonSmiComp: deoptimize if the tag bit of left | right is clear.
CheckEitherNonSmi(l, r) ==
  IF IsTagged(Wrap(Unsigned(l.word) | Unsigned(r.word))) THEN Pass ELSE Deopt

\* Mutant: the last class compare branches to is_ok like the others.
RECURSIVE CidChainLastFallsThrough(_, _, _)
CidChainLastFallsThrough(cid, checks, i) ==
  IF i = Len(checks) THEN Pass
  ELSE IF cid = checks[i] THEN Pass
  ELSE CidChainLastFallsThrough(cid, checks, i + 1)

\* The cmpl chain: each check but the last jumps to is_ok on EQUAL; the
\* last deoptimizes on NOT_EQUAL.
RECURSIVE CidChain(_, _, _)
CidChain(cid, checks, i) ==
  IF i = Len(checks) THEN IF cid = checks[i] THEN Pass ELSE Deopt
  ELSE IF cid = checks[i] THEN Pass
  ELSE CidChain(cid, checks, i + 1)

\* CheckClassComp: a Smi deoptimizes, then the receiver class ids of the
\* IC data are compared in order.
CheckClass(x, checks) ==
  IF ~IsTagged(x.word) THEN Deopt ELSE CidChain(x.obj.cid, checks, 1)

\* The class-id lists of IC data: one or two distinct non-Smi classes.
ICChecks == {<<c>> : c \in HeapCids} \cup
            {<<c, d>> : <<c, d>> \in {<<c, d>> \in HeapCids \X HeapCids : c # d}}

\* Mutant: the tagged index compared with the signed condition.
CheckArrayBoundSigned(a, index) ==
  IF index.word >= SmiTag(a.obj.length) THEN Deopt ELSE Pass

\* CheckArrayBoundComp: cmpq the tagged index with the tagged length
\* field (Array's or GrowableObjectArray's), j(ABOVE_EQUAL) to deopt.
CheckArrayBound(a, index) ==
  IF Unsigned(index.word) >= Unsigned(SmiTag(a.obj.length)) THEN Deopt ELSE Pass

\* x64 object layout in bytes: element k of an Array's payload lies at
\* sizeof(RawArray) + k * kWordSize (header, type arguments, length).
kWordSize == 8
ArrayDataOffset == 3 * kWordSize
Slot(offset) == (offset - ArrayDataOffset) \div kWordSize

\* Mutant: the tagged index scaled by TIMES_8.
ElementOffsetTimes8(index) == ArrayDataOffset + index * 8

\* FieldAddress(array, index, TIMES_4, sizeof(RawArray)) for a tagged
\* index: the heap-object tag of the pointer cancels FieldAddress's.
ElementOffset(index) == ArrayDataOffset + index * 4

\* LoadIndexedComp / StoreIndexedComp after the bound check: an Array is
\* addressed directly, a growable array through its data array.
IndexedAccess(op, a, index) ==
  IF CheckArrayBound(a, index) = Deopt THEN Deopt
  ELSE [kind |-> op, slot |-> Slot(ElementOffset(index.word)),
        store |-> IF a.obj.cid = "Array" THEN "self" ELSE "data"]

IntValue(x) == IF x.obj.cid = "Smi" THEN SmiUntag(x.word) ELSE x.obj.value
Call(cid) == [kind |-> "call", target |-> cid]
StaticCall(cid, has_target) == IF has_target THEN Call(cid) ELSE Deopt

\* Mutant: no test for a negative Smi receiver.
EmitBinaryMintOpNoSignCheck(l, r, smi_target, mint_target) ==
  IF ~IsTagged(l.word)
  THEN IF ~IsTagged(r.word) THEN Value(Wrap(Unsigned(l.word) & Unsigned(r.word)))
       ELSE IF r.obj.cid # "Mint" THEN Deopt
       ELSE Value(Wrap(Unsigned(l.word) & Unsigned(SmiTag(r.obj.value))))
  ELSE IF l.obj.cid # "Mint" THEN Deopt
  ELSE IF IsTagged(r.word) \/ r.word < 0 THEN StaticCall("Mint", mint_target)
  ELSE Value(Wrap(Unsigned(SmiTag(l.obj.value)) & Unsigned(r.word)))

\* BinaryMintOpComp, BIT_AND: Smi & Smi inline; a Mint with a positive Smi
\* inline on the Mint's value word, SmiTag'ed ("OK to lose bits"); a Mint
\* with a negative Smi or a non-Smi calls the IC's target for the receiver
\* class (deoptimizing without one); any other receiver or argument class
\* deoptimizes.
EmitBinaryMintOp(l, r, smi_target, mint_target) ==
  IF ~IsTagged(l.word)
  THEN IF ~IsTagged(r.word) THEN Value(Wrap(Unsigned(l.word) & Unsigned(r.word)))
       ELSE IF r.obj.cid # "Mint" THEN Deopt
       ELSE IF l.word < 0 THEN StaticCall("Smi", smi_target)
       ELSE Value(Wrap(Unsigned(l.word) & Unsigned(SmiTag(r.obj.value))))
  ELSE IF l.obj.cid # "Mint" THEN Deopt
  ELSE IF IsTagged(r.word) \/ r.word < 0 THEN StaticCall("Mint", mint_target)
  ELSE Value(Wrap(Unsigned(SmiTag(l.obj.value)) & Unsigned(r.word)))

(***************************************************************************)
(* The type tests of the Double conversions, AssertBoolean and the        *)
(* polymorphic instance call.  A Double result is the value it holds.     *)
(***************************************************************************)
DoubleValue(v) == [kind |-> "double", value |-> v]
Throw == [kind |-> "throw"]

\* The receiver's class id: kSmiCid when the tag bit is clear, else the
\* class id loaded from the object (LoadClassId).
ClassOf(x) == IF IsTagged(x.word) THEN x.obj.cid ELSE "Smi"

\* DoubleToDoubleComp: deoptimize on a Smi or another class.
DoubleToDouble(x) ==
  IF ~IsTagged(x.word) \/ x.obj.cid # "Double" THEN Deopt ELSE Pass

\* SmiToDoubleComp: allocate the Double, then deoptimize unless the
\* argument is a Smi, untag it and convert (cvtsi2sd).
SmiToDouble(x) ==
  IF IsTagged(x.word) THEN Deopt ELSE DoubleValue(SmiUntag(x.word))

\* NumberNegateComp for its one IC class, Double: deoptimize on a Smi or
\* another class, else allocate a Double holding the negated value.
NumberNegate(x) ==
  IF ~IsTagged(x.word) \/ x.obj.cid # "Double" THEN Deopt
  ELSE DoubleValue(-x.obj.value)

\* AssertBooleanComp: unless eliminated, anything but the true and false
\* objects calls kConditionTypeErrorRuntimeEntry, which throws.
TrueObject == Object("Bool", 1, 0, 0)
FalseObject == Object("Bool", 0, 0, 0)
AssertBoolean(x, eliminated) ==
  IF eliminated \/ x.obj \in {TrueObject, FalseObject} THEN Pass ELSE Throw

\* The outgoing arguments as the caller pushed them, receiver first: the
\* word at RSP + k * kWordSize is the argument pushed k pushes before the
\* last one.
PushedArguments(args) ==
  [offset \in {k * kWordSize : k \in 0..(Len(args) - 1)} |->
     args[Len(args) - offset \div kWordSize]]

\* Mutant: the receiver read from the top of the stack (the last
\* argument) instead of ArgumentCount() - 1 slots above it.
PolymorphicInstanceCallTopOfStack(ic, with_checks, args) ==
  LET receiver == PushedArguments(args)[0]
  IN  IF ic = <<>> THEN Deopt
      ELSE IF ~with_checks THEN Call(ic[1])
      ELSE IF \E i \in 1..Len(ic) : ic[i] = ClassOf(receiver)
           THEN Call(ClassOf(receiver))
           ELSE Deopt

\* PolymorphicInstanceCallComp: no IC data deoptimizes; without checks a
\* static call of the first target; otherwise the receiver is loaded from
\* RSP + (ArgumentCount() - 1) * kWordSize, its class id computed, and
\* EmitTestAndCall calls the target of the matching IC class or
\* deoptimizes.  Call(cid) is the call of cid's target.
PolymorphicInstanceCall(ic, with_checks, args) ==
  LET receiver == PushedArguments(args)[(Len(args) - 1) * kWordSize]
  IN  IF ic = <<>> THEN Deopt
      ELSE IF ~with_checks THEN Call(ic[1])
      ELSE IF \E i \in 1..Len(ic) : ic[i] = ClassOf(receiver)
           THEN Call(ClassOf(receiver))
           ELSE Deopt

(***************************************************************************)
(* One instruction executed on one choice of operands: the behaviour ends *)
(* with the instruction and what its code produced.                        *)
(***************************************************************************)
VARIABLES instr, outcome

vars == <<instr, outcome>>

Instr(cls, op, l, r, known) ==
  [cls |-> cls, op |-> op, l |-> l, r |-> r, known |-> known]

Init == instr = Instr("none", "none", 0, 0, FALSE) /\ outcome = [kind |-> "none"]

Fresh == instr.cls = "none"

BinarySmiOp ==
  /\ Fresh
  /\ \E op \in BinaryOps, l, r \in SmiWords :
       /\ instr' = Instr("binary", op, l, r, TRUE)
       /\ outcome' = EmitBinarySmiOp(op, l, r)

UnarySmiOp ==
  /\ Fresh
  /\ \E op \in UnaryOps, x \in SmiWords :
       /\ instr' = Instr("unary", op, x, 0, TRUE)
       /\ outcome' = EmitUnarySmiOp(op, x)

\* Operands are known Smis (ResultCid) only in the branch form, and then
\* they are Smis.
SmiComparison ==
  /\ Fresh
  /\ \E kind \in CompareKinds, l, r \in SmiWords \cup NonSmiWords,
        known \in BOOLEAN, br \in Branches :
       /\ known => br # "none" /\ {l, r} \subseteq SmiWords
       /\ instr' = Instr("compare", kind, l, r, known)
       /\ outcome' = EmitSmiComparisonOp(kind, l, r, known, br)

Check(op, l, r, checks) == [cls |-> "check", op |-> op, l |-> l, r |-> r, checks |-> checks]

CheckSmiInstr ==
  /\ Fresh
  /\ \E x \in SmiOperands \cup HeapOperands(Objects) :
       /\ instr' = Check("CheckSmi", x, x, <<>>)
       /\ outcome' = CheckSmi(x)

CheckEitherNonSmiInstr ==
  /\ Fresh
  /\ \E l, r \in SmiOperands \cup HeapOperands(Objects) :
       /\ instr' = Check("CheckEitherNonSmi", l, r, <<>>)
       /\ outcome' = CheckEitherNonSmi(l, r)

\* CheckClass is emitted for IC data whose first class is not Smi.
CheckClassInstr ==
  /\ Fresh
  /\ \E x \in SmiOperands \cup HeapOperands(Objects), checks \in ICChecks :
       /\ instr' = Check("CheckClass", x, x, checks)
       /\ outcome' = CheckClass(x, checks)

\* The index reaching the bound check is a Smi (LoadIndexed's "index is
\* Smi"), the array one of the receiver_type the instruction is for.
IndexedInstr ==
  /\ Fresh
  /\ \E op \in {"load", "store"}, a \in HeapOperands(Arrays \cup Growables),
        index \in SmiOperands :
       /\ instr' = [cls |-> "indexed", op |-> op, l |-> a, r |-> index]
       /\ outcome' = IndexedAccess(op, a, index)

BinaryMintOpInstr ==
  /\ Fresh
  /\ \E l, r \in SmiOperands \cup HeapOperands(Mints \cup {Object("Double", 0, 0, 0)}),
        smi_target, mint_target \in BOOLEAN :
       /\ instr' = [cls |-> "mint", op |-> "BIT_AND", l |-> l, r |-> r]
       /\ outcome' = EmitBinaryMintOp(l, r, smi_target, mint_target)

ConversionInstr ==
  /\ Fresh
  /\ \E op \in {"DoubleToDouble", "SmiToDouble", "NumberNegate"},
        x \in SmiOperands \cup HeapOperands(Objects) :
       /\ instr' = Check(op, x, x, <<>>)
       /\ outcome' = CASE op = "DoubleToDouble" -> DoubleToDouble(x)
                       [] op = "SmiToDouble" -> SmiToDouble(x)
                       [] op = "NumberNegate" -> NumberNegate(x)

\* The optimizer eliminates the assertion only for a value known to be a
\* Bool.
AssertBooleanInstr ==
  /\ Fresh
  /\ \E x \in SmiOperands \cup HeapOperands(Objects \cup {TrueObject, FalseObject}),
        eliminated \in BOOLEAN :
       /\ eliminated => x.obj \in {TrueObject, FalseObject}
       /\ instr' = Check("AssertBoolean", x, x, <<>>)
       /\ outcome' = AssertBoolean(x, eliminated)

\* A call with a receiver and up to two further arguments, each a Smi or
\* a Double (an argument's class is what a wrong receiver slot would
\* dispatch on).  IC data lists distinct classes; with_checks is cleared
\* only when the receiver's class is known to be the single IC class.
PolymorphicCallInstr ==
  /\ Fresh
  /\ \E ic \in {<<>>} \cup {<<c>> : c \in {"Smi"} \cup HeapCids}
                    \cup {<<"Smi", c>> : c \in HeapCids},
        with_checks \in BOOLEAN,
        recv \in SmiOperands \cup HeapOperands(Objects),
        rest \in UNION {[1..n -> {SmiOperand(0)} \cup HeapOperands({Object("Double", 0, 0, 0)})] :
                      n \in 0..2} :
       /\ ~with_checks => ic # <<>> /\ Len(ic) = 1 /\ ClassOf(recv) = ic[1]
       /\ instr' = [cls |-> "call", op |-> "polymorphic", l |-> recv, r |-> rest,
                    checks |-> ic]
       /\ outcome' = PolymorphicInstanceCall(ic, with_checks, <<recv>> \o rest)

Next == BinarySmiOp \/ UnarySmiOp \/ SmiComparison \/ CheckSmiInstr
          \/ CheckEitherNonSmiInstr \/ CheckClassInstr \/ IndexedInstr
          \/ BinaryMintOpInstr \/ ConversionInstr \/ AssertBooleanInstr
          \/ PolymorphicCallInstr

Spec == Init /\ [][Next]_vars

(***************************************************************************)
(* Dart's integer operations on the untagged values, written from their  *)
(* definitions: [ok |-> FALSE] where the operation throws (zero divisor,  *)
(* negative shift count).  OutOfRange stands for a result too large to    *)
(* compute here, which is in any case not a Smi.                          *)
(***************************************************************************)
OutOfRange(a) == IF a > 0 THEN 2^W ELSE -(2^W)
Result(v) == [ok |-> TRUE, v |-> v]
Throws == [ok |-> FALSE, v |-> 0]

\* The bits of a two's complement number below bit W.
Bit(a, i) == ((a + 2^W) \div 2^i) % 2
FromBits(f(_)) == (0 - f(W - 1) * 2^(W-1))
                  + (LET RECURSIVE S(_) S(i) == IF i < 0 THEN 0
                                                ELSE f(i) * 2^i + S(i - 1)
                     IN S(W - 2))

DartBinary(op, a, b) ==
  CASE op = "ADD" -> Result(a + b)
    [] op = "SUB" -> Result(a - b)
    [] op = "MUL" -> Result(a * b)
    [] op = "BIT_AND" -> Result(FromBits(LAMBDA i : Bit(a, i) * Bit(b, i)))
    [] op = "BIT_OR" -> Result(FromBits(LAMBDA i :
                                 IF Bit(a, i) + Bit(b, i) > 0 THEN 1 ELSE 0))
    [] op = "BIT_XOR" -> Result(FromBits(LAMBDA i : (Bit(a, i) + Bit(b, i)) % 2))
    [] op = "TRUNCDIV" ->
         IF b = 0 THEN Throws
         ELSE Result(CHOOSE q \in -(Abs(a))..Abs(a) :
                       LET rem == a - b * q
                       IN  Abs(rem) < Abs(b) /\ (rem = 0 \/ (rem > 0) = (a > 0)))
    [] op = "SHR" ->
         IF b < 0 THEN Throws
         ELSE IF b >= W THEN Result(IF a < 0 THEN -1 ELSE 0)
         ELSE Result(CHOOSE q \in -(Abs(a))..Abs(a) :
                       q * 2^b <= a /\ a < (q + 1) * 2^b)
    [] op = "SHL" ->
         IF b < 0 THEN Throws
         ELSE IF a = 0 THEN Result(0)
         ELSE IF b >= W THEN Result(OutOfRange(a))
         ELSE Result(a * 2^b)

DartUnary(op, a) == IF op = "NEGATE" THEN Result(-a) ELSE Result(-a - 1)

Untagged(x) == x \div 2

Expected ==
  IF instr.cls = "binary"
  THEN DartBinary(instr.op, Untagged(instr.l), Untagged(instr.r))
  ELSE DartUnary(instr.op, Untagged(instr.l))

ArithmeticDone == instr.cls \in {"binary", "unary"}

(***************************************************************************)
(* Properties.                                                             *)
(***************************************************************************)
\* Inline Smi code leaves a tagged Smi in the result register.
TypeOK ==
  /\ instr.cls \in {"none", "binary", "unary", "compare", "check", "indexed", "mint",
                   "call", "equality", "strict", "relational"}  \* the last three of X64Compare
  /\ outcome.kind \in {"none", "value", "deopt", "call", "bool", "pass", "load", "store",
                     "double", "throw"}
  /\ outcome.kind = "value" => outcome.value \in SmiWords

\* When BinarySmiOpComp or UnarySmiOpComp falls through without
\* deoptimizing or calling the operator method, the register holds the
\* tagged exact Dart result: the overflow, MIN_SMI / -1, the sarq count
\* clamp and the shlq round trip catch every result that is not a Smi.
SmiResultExact ==
  ArithmeticDone /\ outcome.kind = "value" =>
    /\ Expected.ok /\ IsSmiValue(Expected.v)
    /\ outcome.value = SmiTag(Expected.v)

\* Deoptimization only where it is needed: an operation whose Dart result
\* is a Smi never deoptimizes, so optimized code does not deoptimize (and,
\* after deoptimization_counter_threshold, lose its type feedback) on
\* Smi-only inputs.  (SHL may still call the operator method, e.g. for
\* counts at or above Smi::kBits.)
NoDeoptOnSmiResult ==
  ArithmeticDone /\ Expected.ok /\ IsSmiValue(Expected.v) =>
    outcome.kind # "deopt"

\* EmitSmiComparisonOp deoptimizes on a heap object, and on two Smis
\* answers the comparison of their untagged values, as a Bool or as the
\* successor its branch reaches with either successor laid out next.
SmiComparisonCorrect ==
  LET a == instr.l
      b == instr.r
  IN  instr.cls = "compare" =>
        IF {a, b} \subseteq SmiWords
        THEN outcome = [kind |-> "bool",
                        value |-> LET u == Untagged(a) v == Untagged(b)
                                  IN  [EQ |-> u = v, NE |-> u # v,
                                       LT |-> u < v, GT |-> u > v,
                                       LTE |-> u <= v, GTE |-> u >= v][instr.op]]
        ELSE outcome = Deopt

\* CheckSmi, CheckEitherNonSmi, CheckClass, the Double conversions and
\* AssertBoolean let through exactly the values the code after them
\* assumes: a Smi; not two Smis; an instance of one of the IC data's
\* receiver classes; a Double (DoubleToDouble, NumberNegate); a Smi
\* (SmiToDouble); true or false, anything else throwing.  A conversion
\* that goes through yields its Double.
Admitted(op, l, r, checks) ==
  CASE op = "CheckSmi" -> l.obj.cid = "Smi"
    [] op = "CheckEitherNonSmi" -> {l.obj.cid, r.obj.cid} # {"Smi"}
    [] op = "CheckClass" -> \E i \in 1..Len(checks) : checks[i] = l.obj.cid
    [] op \in {"DoubleToDouble", "NumberNegate"} -> l.obj.cid = "Double"
    [] op = "SmiToDouble" -> l.obj.cid = "Smi"
    [] op = "AssertBoolean" -> l.obj \in {TrueObject, FalseObject}

ChecksAdmitExactly ==
  instr.cls = "check" =>
    /\ (outcome \notin {Deopt, Throw}) = Admitted(instr.op, instr.l, instr.r, instr.checks)
    /\ \/ outcome \in {Deopt, Throw, Pass}
       \/ instr.op = "SmiToDouble" /\ outcome = DoubleValue(IntValue(instr.l))
       \/ instr.op = "NumberNegate" /\ outcome = DoubleValue(-instr.l.obj.value)

\* PolymorphicInstanceCallComp calls the target that the IC data lists
\* for the receiver's class, or deoptimizes, with one, two or three
\* arguments on the stack: the slot it loads at RSP +
\* (ArgumentCount() - 1) * kWordSize holds the receiver, the first
\* argument pushed, never another argument.  A call without checks goes
\* to the single class the receiver is known to have.
PolymorphicCallDispatchesOnReceiver ==
  instr.cls = "call" =>
    \/ outcome = Deopt
    \/ /\ outcome = Call(ClassOf(instr.l))
       /\ \E i \in 1..Len(instr.checks) : instr.checks[i] = ClassOf(instr.l)

\* CheckArrayBound followed by LoadIndexed or StoreIndexed touches element
\* i of the payload exactly when 0 <= i < length, and deoptimizes
\* otherwise: a negative index, an index at the length, or one between a
\* growable array's length and its capacity never reaches memory.
IndexedAccessInBounds ==
  instr.cls = "indexed" =>
    LET i == IntValue(instr.r)
        a == instr.l.obj
    IN  IF 0 <= i /\ i < a.length
        THEN outcome.kind = instr.op /\ outcome.slot = i /\ i < a.capacity
        ELSE outcome = Deopt

\* When BinaryMintOpComp stays inline, the register holds the tagged Dart
\* result of receiver & argument, although a Mint's value lost its top bit
\* in SmiTag: only the sign of the Smi operand makes that harmless.
MintAndExact ==
  instr.cls = "mint" /\ outcome.kind = "value" =>
    LET d == DartBinary("BIT_AND", IntValue(instr.l), IntValue(instr.r))
    IN  IsSmiValue(d.v) /\ outcome.value = SmiTag(d.v)

=============================================================================
