----------------------------- MODULE X64Compare -----------------------------
(***************************************************************************)
(* The x64 code of EqualityCompareComp (intermediate_language_x64.cc):    *)
(* EmitNativeCode, which leaves a Bool in a register, and EmitBranchCode,  *)
(* which branches, each dispatching to the Smi comparison, the checked     *)
(* strict equality, the generic comparison with its polymorphic call, or  *)
(* the instance call.  Checked against Dart's ==: a comparison with null  *)
(* is identity, otherwise the receiver's operator == decides, and != is   *)
(* its negation.                                                           *)
(*                                                                         *)
(* A layer on SmiArith: the same one-instruction behaviours, register     *)
(* words and operands.                                                     *)
(***************************************************************************)
EXTENDS SmiArith

CONSTANTS
  EqSmiWords,  \* tagged Smis the comparison meets
  EqHeap       \* heap operands: distinct pointer words and their objects

(***************************************************************************)
(* Classes by their operator ==: A and C inherit Object's (identity); B   *)
(* defines its own, equal on the objects' key (held in Object's value).    *)
(***************************************************************************)
EqClasses == {"Smi", "A", "B", "C"}
Target(cid) == IF cid \in {"A", "C"} THEN "Object" ELSE cid

IsNull(x) == x.obj.cid = "Null"

\* The answer of the == method that a call on receiver l with argument r
\* reaches: Object's is identity, Smi's compares numbers, B's the keys.
MethodEquals(cid, l, r) ==
  CASE Target(cid) = "Object" -> l.word = r.word
    [] cid = "Smi" -> ClassOf(r) = "Smi" /\ l.word = r.word
    [] cid = "B" -> ClassOf(r) = "B" /\ l.obj.value = r.obj.value

Bool(b) == [kind |-> "bool", value |-> b]

\* cmpq(left, right) and the condition TokenKindToSmiCondition(kind),
\* loaded as a Bool or branched on.
Identity(br, kind, l, r) ==
  Bool(Decide(br, TokenKindToSmiCondition(kind), l.word, r.word))

\* An instance call dispatches on the receiver's class at run time.
InstanceCall(l, r) == MethodEquals(ClassOf(l), l, r)

(***************************************************************************)
(* EmitEqualityAsInstanceCall (Bool form): with a null operand, the       *)
(* identity compare loads true or false by kind (for kNE through the      *)
(* swapped labels); otherwise the instance call of ==, negated for kNE.    *)
(***************************************************************************)
EmitEqualityAsInstanceCall(kind, l, r) ==
  IF IsNull(r) \/ IsNull(l)
  THEN Bool((l.word = r.word) = (kind = "EQ"))
  ELSE Bool(IF kind = "NE" THEN ~InstanceCall(l, r) ELSE InstanceCall(l, r))

\* Mutant: the branch form passes kind() to the call as well.
EqualityAsInstanceCallBranchNegatesTwice(br, kind, l, r) ==
  LET rax == EmitEqualityAsInstanceCall(kind, l, r).value
  IN  Bool(Decide(br, IF kind = "NE" THEN "NOT_EQUAL" ELSE "EQUAL", rax, TRUE))

\* EmitBranchCode's fall-back: the call is emitted for kEQ ("kNE reverse
\* occurs at branch"), then CompareObject(RAX, true) and a branch on
\* NOT_EQUAL for kNE.
EqualityAsInstanceCallBranch(br, kind, l, r) ==
  LET rax == EmitEqualityAsInstanceCall("EQ", l, r).value
  IN  Bool(Decide(br, IF kind = "NE" THEN "NOT_EQUAL" ELSE "EQUAL", rax, TRUE))

(***************************************************************************)
(* EmitEqualityAsPolymorphicCall: the receiver's class id (Smi only if    *)
(* the IC data starts with Smi, else a Smi deoptimizes), then one test per *)
(* IC class: Object's == is the identity compare; any other target is a   *)
(* static call whose Bool is negated for kNE (Bool form) or compared with  *)
(* true and branched on (branch form); falling through deoptimizes.       *)
(***************************************************************************)
RECURSIVE PolymorphicTests(_, _, _, _, _, _, _)
PolymorphicTests(ic, i, cid, br, kind, l, r) ==
  IF i > Len(ic) THEN Deopt
  ELSE IF ic[i] # cid THEN PolymorphicTests(ic, i + 1, cid, br, kind, l, r)
  ELSE IF Target(cid) = "Object" THEN Identity(br, kind, l, r)
  ELSE LET rax == MethodEquals(cid, l, r)
       IN  IF br = "none" THEN Bool(IF kind = "NE" THEN ~rax ELSE rax)
           ELSE Bool(Decide(br, TokenKindToSmiCondition(kind), rax, TRUE))

EmitEqualityAsPolymorphicCall(ic, br, kind, l, r) ==
  IF ClassOf(l) = "Smi" /\ ic[1] # "Smi" THEN Deopt
  ELSE PolymorphicTests(ic, 1, ClassOf(l), br, kind, l, r)

\* EmitGenericEqualityCompare: a null operand is compared by identity.
EmitGenericEqualityCompare(ic, br, kind, l, r) ==
  IF IsNull(r) \/ IsNull(l) THEN Identity(br, kind, l, r)
  ELSE EmitEqualityAsPolymorphicCall(ic, br, kind, l, r)

\* Mutant: the not-identical case loads false whatever the kind.
EmitCheckedStrictEqualIgnoresKind(ic, br, kind, l, r) ==
  IF ~IsTagged(l.word) THEN Deopt
  ELSE IF ~(IsNull(r) \/ IsNull(l)) /\ CidChain(l.obj.cid, ic, 1) = Deopt THEN Deopt
  ELSE Bool(l.word = r.word)

\* EmitCheckedStrictEqual, when every IC target is Object's ==: a Smi
\* receiver deoptimizes; with a null operand, or once the receiver's class
\* is one of the IC's (the chain of CheckClass), the identity compare.
EmitCheckedStrictEqual(ic, br, kind, l, r) ==
  IF ~IsTagged(l.word) THEN Deopt
  ELSE IF ~(IsNull(r) \/ IsNull(l)) /\ CidChain(l.obj.cid, ic, 1) = Deopt THEN Deopt
  ELSE Identity(br, kind, l, r)

(***************************************************************************)
(* EqualityCompareComp::EmitNativeCode (br = "none") and ::EmitBranchCode. *)
(* A Smi receiver_class_id uses EmitSmiComparisonOp; <<>> stands for no   *)
(* IC data (or no checks).  known: in the branch form, both operands'     *)
(* ResultCid is Smi, so EmitSmiComparisonOp omits its Smi test.           *)
(***************************************************************************)
IsCheckedStrictEqual(ic) == ic # <<>> /\ \A i \in 1..Len(ic) : Target(ic[i]) = "Object"

EqualityCompare(br, recv_cid, ic, kind, l, r, known) ==
  CASE recv_cid = "Smi" -> EmitSmiComparisonOp(kind, l.word, r.word, known, br)
    [] IsCheckedStrictEqual(ic) -> EmitCheckedStrictEqual(ic, br, kind, l, r)
    [] ic # <<>> -> EmitGenericEqualityCompare(ic, br, kind, l, r)
    [] br = "none" -> EmitEqualityAsInstanceCall(kind, l, r)
    [] br # "none" -> EqualityAsInstanceCallBranch(br, kind, l, r)

\* IC data of ==: distinct classes, Smi only in first position.
EqICs == {<<>>} \cup {<<c>> : c \in EqClasses} \cup
         {<<c, d>> : <<c, d>> \in {<<c, d>> \in EqClasses \X EqClasses :
                                     c # d /\ d # "Smi"}}

EqOperands == {SmiOperand(w) : w \in EqSmiWords} \cup EqHeap

EqualityInstr ==
  /\ Fresh
  /\ \E br \in Branches, recv_cid \in {"Smi", "other"}, ic \in EqICs,
        kind \in {"EQ", "NE"}, l, r \in EqOperands, known \in BOOLEAN :
       /\ known => br # "none" /\ ClassOf(l) = "Smi" /\ ClassOf(r) = "Smi"
       /\ instr' = [cls |-> "equality", op |-> kind, l |-> l, r |-> r,
                    br |-> br, ic |-> ic]
       /\ outcome' = EqualityCompare(br, recv_cid, ic, kind, l, r, known)

(***************************************************************************)
(* StrictCompareComp::EmitNativeCode (intermediate_language.cc): === and  *)
(* !== compare the two words and load true or false.                      *)
(***************************************************************************)
StrictCompare(kind, l, r) ==
  Bool(Holds(IF kind = "EQ_STRICT" THEN "EQUAL" ELSE "NOT_EQUAL", l.word, r.word))

StrictCompareInstr ==
  /\ Fresh
  /\ \E kind \in {"EQ_STRICT", "NE_STRICT"}, l, r \in EqOperands :
       /\ instr' = [cls |-> "strict", op |-> kind, l |-> l, r |-> r]
       /\ outcome' = StrictCompare(kind, l, r)

(***************************************************************************)
(* RelationalOpComp on integers: a Smi operands class uses                *)
(* EmitSmiComparisonOp; otherwise both operands are pushed and, with IC   *)
(* data, the receiver's class id (Smi by its tag bit) selects a target    *)
(* through EmitTestAndCall, which deoptimizes when no IC class matches;   *)
(* without IC data, an instance call of the operator.  The Double         *)
(* operands class is not modelled (its helpers are outside the excerpt).  *)
(***************************************************************************)
\* The answer of int's relational operator (Smi's and Mint's alike).
IntOperator(kind, l, r) ==
  LET a == IntValue(l)
      b == IntValue(r)
  IN  CASE kind = "LT" -> a < b  [] kind = "GT" -> a > b
        [] kind = "LTE" -> a <= b [] kind = "GTE" -> a >= b

\* EmitTestAndCall (flow_graph_compiler, outside the excerpt).
TestAndCall(ic, cid, kind, l, r) ==
  IF \E i \in 1..Len(ic) : ic[i] = cid THEN Bool(IntOperator(kind, l, r))
  ELSE Deopt

RelationalOpNative(ops_cid, ic, kind, l, r) ==
  CASE ops_cid = "Smi" -> EmitSmiComparisonOp(kind, l.word, r.word, FALSE, "none")
    [] ic # <<>> -> TestAndCall(ic, ClassOf(l), kind, l, r)
    [] ic = <<>> -> Bool(IntOperator(kind, l, r))

\* Mutant: the branch form treats the operands as known Smis.
RelationalOpSkipsSmiCheck(br, ops_cid, ic, kind, l, r, known) ==
  IF br = "none" THEN RelationalOpNative(ops_cid, ic, kind, l, r)
  ELSE IF ops_cid = "Smi" THEN EmitSmiComparisonOp(kind, l.word, r.word, TRUE, br)
  ELSE LET rax == RelationalOpNative(ops_cid, ic, kind, l, r)
       IN  IF rax = Deopt THEN Deopt ELSE Bool(Decide(br, "EQUAL", rax.value, TRUE))

\* EmitNativeCode, or EmitBranchCode: the Smi comparison branches itself;
\* otherwise EmitNativeCode, then CompareObject(RAX, true) and EQUAL.
RelationalOp(br, ops_cid, ic, kind, l, r, known) ==
  IF br = "none" THEN RelationalOpNative(ops_cid, ic, kind, l, r)
  ELSE IF ops_cid = "Smi" THEN EmitSmiComparisonOp(kind, l.word, r.word, known, br)
  ELSE LET rax == RelationalOpNative(ops_cid, ic, kind, l, r)
       IN  IF rax = Deopt THEN Deopt ELSE Bool(Decide(br, "EQUAL", rax.value, TRUE))

\* AsUnaryClassChecks of the IC data: distinct integer classes.
RelICs == {<<>>, <<"Smi">>, <<"Mint">>, <<"Smi", "Mint">>, <<"Mint", "Smi">>}

RelOperands == {SmiOperand(w) : w \in EqSmiWords} \cup HeapOperands(Mints)

RelationalOpInstr ==
  /\ Fresh
  /\ \E br \in Branches, ops_cid \in {"Smi", "other"}, ic \in RelICs,
        kind \in {"LT", "GT", "LTE", "GTE"}, l, r \in RelOperands,
        known \in BOOLEAN :
       /\ known => br # "none" /\ ClassOf(l) = "Smi" /\ ClassOf(r) = "Smi"
       /\ instr' = [cls |-> "relational", op |-> kind, l |-> l, r |-> r,
                    br |-> br, ic |-> ic]
       /\ outcome' = RelationalOp(br, ops_cid, ic, kind, l, r, known)

X64Next == Next \/ EqualityInstr \/ StrictCompareInstr \/ RelationalOpInstr

X64Spec == Init /\ [][X64Next]_vars

(***************************************************************************)
(* Dart's == on the operands: identity if either is null, else the        *)
(* receiver's operator ==.                                                 *)
(***************************************************************************)
DartEquals(l, r) ==
  IF IsNull(l) \/ IsNull(r) THEN l.word = r.word ELSE MethodEquals(ClassOf(l), l, r)

\* Every form of EqualityCompareComp, as a Bool or as a branch, either
\* deoptimizes or answers Dart's a == b (its negation for !=): the null
\* short-cuts, the class tests before an identity compare, and the kNE
\* negations around the calls all agree with the language.  StrictCompare
\* answers identical(a, b) (its negation for !==).
EqualityAgreesWithDart ==
  /\ instr.cls = "equality" =>
       \/ outcome = Deopt
       \/ outcome = Bool(DartEquals(instr.l, instr.r) = (instr.op = "EQ"))
  /\ instr.cls = "strict" =>
       outcome = Bool((instr.l.word = instr.r.word) = (instr.op = "EQ_STRICT"))

\* Dart's relational operators on the integer values.
DartCompare(kind, a, b) ==
  \/ kind = "LT" /\ a < b
  \/ kind = "GT" /\ b < a
  \/ kind = "LTE" /\ ~(b < a)
  \/ kind = "GTE" /\ ~(a < b)

\* RelationalOpComp, as a Bool or as a branch, deoptimizes or answers the
\* comparison of the integer values, whichever of Smi and Mint the operands
\* are: the Smi operands class must not compare a Mint's pointer word, and
\* the call path's Bool must be turned into the branch the right way round.
RelationalAgreesWithDart ==
  instr.cls = "relational" =>
    \/ outcome = Deopt
    \/ outcome = Bool(DartCompare(instr.op, IntValue(instr.l), IntValue(instr.r)))

=============================================================================
