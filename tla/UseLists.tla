------------------------------ MODULE UseLists ------------------------------
(***************************************************************************)
(* One basic block of the optimizing compiler's IL after SSA renaming, as  *)
(* the optimizer edits it (intermediate_language.cc):                      *)
(*   - the doubly linked instruction list (previous_/next_) with           *)
(*     Instruction::RemoveFromGraph and BindInstr::InsertBefore/After;     *)
(*   - the Value objects of the operands and environments, and the         *)
(*     intrusive input/env use-lists threaded through them (UseVal::       *)
(*     AddToInputUseList, AddToEnvUseList, Definition::ReplaceUsesWith,    *)
(*     Environment::CopyTo);                                               *)
(*   - the rules that rewrite an instruction (the TryReplace overrides,    *)
(*     Computation::Equals) applied by the passes that call them.          *)
(*                                                                         *)
(* Instruction 0 is the block entry, 1..N the block after renaming         *)
(* (Program), N+1..N+S the checks a pass may insert (Spare).  Value ids    *)
(* are allocated in order; 0 is NULL.                                      *)
(***************************************************************************)
EXTENDS Integers, Sequences, FiniteSets, SequencesExt

CONSTANTS
  Program,   \* Program[i]: kind, cid, const, op, icd, in, env of instruction i
  Spare      \* Spare[j]: kind and icd of the j-th check a pass may insert

N == Len(Program)
S == Len(Spare)
Instrs == 0..(N + S)
Entry == 0
NoInstr == -1
NoValue == 0

Comp(i) == IF i = Entry THEN [kind |-> "entry"]
           ELSE IF i <= N THEN Program[i] ELSE Spare[i - N]

Checks == {"checksmi", "checkclass", "checkeither"}

(***************************************************************************)
(* The values the renamer leaves: instruction i's operand j is value       *)
(* InVal(i, j), its environment slot j is EnvVal(i, j).                    *)
(***************************************************************************)
RECURSIVE Base(_)
Base(i) == IF i = 1 THEN 0
           ELSE Base(i - 1) + Len(Program[i - 1].in) + Len(Program[i - 1].env)

InVal(i, j) == Base(i) + j
EnvVal(i, j) == Base(i) + Len(Program[i].in) + j
NInit == Base(N + 1)

MaxEnvLen == Max({Len(Program[i].env) : i \in 1..N})
\* The most operands or environment slots an instruction has.
MaxSlots == Max({MaxEnvLen, 2})
\* Every inserted check has one operand and a copy of an environment.
Values == 1..(NInit + S * (1 + MaxEnvLen))

InitSlots ==
  UNION {{[v |-> InVal(i, j), instr |-> i, index |-> j, isenv |-> FALSE,
           opnd |-> Program[i].in[j]] : j \in 1..Len(Program[i].in)} : i \in 1..N}
  \cup
  UNION {{[v |-> EnvVal(i, j), instr |-> i, index |-> j, isenv |-> TRUE,
           opnd |-> Program[i].env[j]] : j \in 1..Len(Program[i].env)} : i \in 1..N}

VARIABLES
  prev_, next_,                        \* Instruction::previous_, next_
  inputs_, env_,                       \* operand values, Environment::values_
  val_,                                \* Value objects
  input_use_list_, env_use_list_,      \* Definition list heads
  nvals,                               \* values allocated so far
  crashed                              \* the compiler dereferenced NULL

vars == <<prev_, next_, inputs_, env_, val_, input_use_list_, env_use_list_,
          nvals, crashed>>

\* A Value not yet allocated.
NoVal == [def |-> NoInstr, instr |-> NoInstr, index |-> 0, next |-> NoValue]

\* An allocated UseVal: use_index_ is a slot number of its instruction.
ValueRec == [def : Instrs, instr : Instrs, index : 1..MaxSlots,
             next : Values \cup {NoValue}]

IsUse(v) == val_[v].def # NoInstr

\* UseVal::ResultCid: the definition's propagated cid.  Renaming leaves
\* only UseVals as operands, and no modelled pass creates a ConstantVal.
ResultCid(v) == Comp(val_[v].def).cid

\* UseVal::BindsToConstant and BoundConstant: a use of a Materialize bind.
BindsToConstant(v) == IsUse(v) /\ Comp(val_[v].def).kind = "const"
BoundConstant(v) == Comp(val_[v].def).const

InGraph(x) == x = Entry \/ prev_[x] # NoInstr

(***************************************************************************)
(* ComputeUseLists, which builds the lists before the optimizer runs, is   *)
(* not in the excerpt: it threads each definition's uses in slot order,    *)
(* prepending, so a list starts at the last slot.                          *)
(***************************************************************************)
SameList(s, t) == s.isenv = t.isenv /\ s.opnd = t.opnd

PrecedingUse(s) ==
  LET earlier == {t.v : t \in {t \in InitSlots : SameList(s, t) /\ t.v < s.v}}
  IN IF earlier = {} THEN NoValue ELSE Max(earlier)

LastUse(d, isenv) ==
  LET all == {t.v : t \in {t \in InitSlots : t.opnd = d /\ t.isenv = isenv}}
  IN IF all = {} THEN NoValue ELSE Max(all)

InitVal(v) ==
  IF v > NInit THEN NoVal
  ELSE LET s == CHOOSE t \in InitSlots : t.v = v
       IN [def |-> s.opnd, instr |-> s.instr, index |-> s.index,
           next |-> PrecedingUse(s)]

Init ==
  /\ prev_ = [x \in Instrs |-> IF x \in 1..N THEN x - 1 ELSE NoInstr]
  /\ next_ = [x \in Instrs |-> IF x < N THEN x + 1 ELSE NoInstr]
  /\ inputs_ = [x \in Instrs |->
                  IF x \in 1..N THEN [j \in 1..Len(Program[x].in) |-> InVal(x, j)]
                  ELSE <<>>]
  /\ env_ = [x \in Instrs |->
               IF x \in 1..N THEN [j \in 1..Len(Program[x].env) |-> EnvVal(x, j)]
               ELSE <<>>]
  /\ val_ = [v \in Values |-> InitVal(v)]
  /\ input_use_list_ = [d \in Instrs |-> LastUse(d, FALSE)]
  /\ env_use_list_ = [d \in Instrs |-> LastUse(d, TRUE)]
  /\ nvals = NInit
  /\ crashed = FALSE

(***************************************************************************)
(* The editing operations, as functions of the heap record H.  Sequential *)
(* code composes them.                                                     *)
(***************************************************************************)
H == [prev |-> prev_, next |-> next_, inputs |-> inputs_, env |-> env_,
      val |-> val_, ihead |-> input_use_list_, ehead |-> env_use_list_,
      nvals |-> nvals]

Commit(h) ==
  /\ prev_' = h.prev
  /\ next_' = h.next
  /\ inputs_' = h.inputs
  /\ env_' = h.env
  /\ val_' = h.val
  /\ input_use_list_' = h.ihead
  /\ env_use_list_' = h.ehead
  /\ nvals' = h.nvals

\* The assertions of Instruction::RemoveFromGraph.
Removable(h, x) ==
  /\ Comp(x).kind \notin {"entry", "return"}
  /\ h.prev[x] # NoInstr
  /\ h.next[x] # NoInstr

\* Mutant: next_instr->set_previous(prev_instr) forgotten.
RemoveFromGraphKeepsPrev(h, x) ==
  LET p == h.prev[x]
      n == h.next[x]
  IN [h EXCEPT !.next = [@ EXCEPT ![p] = n, ![x] = NoInstr],
               !.prev = [@ EXCEPT ![x] = NoInstr]]

\* Instruction::RemoveFromGraph: unlink x; its operands stay on use lists.
RemoveFromGraph(h, x) ==
  LET p == h.prev[x]
      n == h.next[x]
  IN [h EXCEPT !.next = [@ EXCEPT ![p] = n, ![x] = NoInstr],
               !.prev = [@ EXCEPT ![n] = p, ![x] = NoInstr]]

\* BindInstr::InsertBefore(next).
InsertBefore(h, y, z) ==
  LET p == h.prev[z]
  IN [h EXCEPT !.next = [@ EXCEPT ![y] = z, ![p] = y],
               !.prev = [@ EXCEPT ![y] = p, ![z] = y]]

\* BindInstr::InsertAfter(prev).
InsertAfter(h, y, p) ==
  LET n == h.next[p]
  IN [h EXCEPT !.next = [@ EXCEPT ![y] = n, ![p] = y],
               !.prev = [@ EXCEPT ![y] = p, ![n] = y]]

\* Mutant: set_next_use forgotten, the old list is dropped.
AddToUseListNoNext(h, v, l) ==
  LET d == h.val[v].def
  IN [h EXCEPT ![l][d] = v]

\* UseVal::AddToInputUseList (l = "ihead") and AddToEnvUseList ("ehead").
AddToUseList(h, v, l) ==
  LET d == h.val[v].def
  IN [h EXCEPT !.val[v].next = h[l][d], ![l][d] = v]

\* One loop of Definition::ReplaceUsesWith(Definition*): pop the head of
\* x's list l, point it at o and push it on o's list l.
RECURSIVE MoveUses(_, _, _, _)
MoveUses(h, l, x, o) ==
  IF h[l][x] = NoValue THEN h
  ELSE LET cur == h[l][x]
           h1 == [h EXCEPT ![l][x] = h.val[cur].next, !.val[cur].def = o]
       IN MoveUses(AddToUseList(h1, cur, l), l, x, o)

\* Mutant: the environment use-list loop is missing.
ReplaceUsesWithInputsOnly(h, x, o) == MoveUses(h, "ihead", x, o)

ReplaceUsesWith(h, x, o) == MoveUses(MoveUses(h, "ihead", x, o), "ehead", x, o)

\* Mutant: use_index numbered from 0 where the environment counts from 1.
RECURSIVE CopyEnvIndexFromZero(_, _, _, _)
CopyEnvIndexFromZero(h, vals, y, i) ==
  IF i > Len(vals) THEN h
  ELSE LET nv == h.nvals + 1
           h1 == [h EXCEPT !.val[nv] = [def |-> h.val[vals[i]].def, instr |-> y,
                                        index |-> i - 1, next |-> NoValue],
                           !.env[y] = Append(@, nv),
                           !.nvals = nv]
       IN CopyEnvIndexFromZero(AddToUseList(h1, nv, "ehead"), vals, y, i + 1)

\* The loop of Environment::CopyTo: slot i of y's environment gets a new
\* UseVal of the definition in slot i of vals, on that definition's env list.
RECURSIVE CopyEnv(_, _, _, _)
CopyEnv(h, vals, y, i) ==
  IF i > Len(vals) THEN h
  ELSE LET nv == h.nvals + 1
           h1 == [h EXCEPT !.val[nv] = [def |-> h.val[vals[i]].def, instr |-> y,
                                        index |-> i, next |-> NoValue],
                           !.env[y] = Append(@, nv),
                           !.nvals = nv]
       IN CopyEnv(AddToUseList(h1, nv, "ehead"), vals, y, i + 1)

\* Environment::CopyTo: z's environment copied to y.
CopyTo(h, z, y) == CopyEnv([h EXCEPT !.env[y] = <<>>], h.env[z], y, 1)

(***************************************************************************)
(* The rewriting rules.  TryReplace returns the instruction itself (keep), *)
(* NoInstr (NULL: remove) or another definition (replace).                 *)
(***************************************************************************)
\* Mutant: the right operand's definition returned instead of the left.
StrictTryReplaceRight(x) ==
  LET l == inputs_[x][1]
      r == inputs_[x][2]
  IN IF /\ BindsToConstant(r)
        /\ Comp(x).op = "eq"
        /\ BoundConstant(r) = "true"
        /\ ResultCid(l) = "bool"
     THEN val_[r].def ELSE x

\* StrictCompareComp::TryReplace without its side effect: e === true,
\* with e of class Bool, is replaced by e.
StrictTryReplace(x) ==
  LET l == inputs_[x][1]
      r == inputs_[x][2]
  IN IF /\ BindsToConstant(r)
        /\ Comp(x).op = "eq"
        /\ BoundConstant(r) = "true"
        /\ ResultCid(l) = "bool"
     THEN val_[l].def ELSE x

\* CheckClassComp, CheckSmiComp and CheckEitherNonSmiComp::TryReplace.
CheckTryReplace(x) ==
  LET c == Comp(x)
      v == inputs_[x][1]
  IN CASE c.kind = "checkclass" ->
            IF Len(c.icd) = 1 /\ ResultCid(v) = c.icd[1] THEN NoInstr ELSE x
       [] c.kind = "checksmi" ->
            IF ResultCid(v) = "smi" THEN NoInstr ELSE x
       [] c.kind = "checkeither" ->
            IF "double" \in {ResultCid(v), ResultCid(inputs_[x][2])}
            THEN NoInstr ELSE x

\* Computation::Equals with UseVal::Equals and the AttributesEqual of the
\* checks (CheckClassComp compares its class ids; the others return true).
Equals(x, o) ==
  /\ Comp(x).kind = Comp(o).kind
  /\ Len(inputs_[x]) = Len(inputs_[o])
  /\ \A i \in DOMAIN inputs_[x] : val_[inputs_[x][i]].def = val_[inputs_[o][i]].def
  /\ Comp(x).kind = "checkclass" => Comp(x).icd = Comp(o).icd

\* The instructions reached from the block entry through next_.
RECURSIVE Walk(_, _)
Walk(x, fuel) ==
  IF x = NoInstr \/ fuel = 0 THEN <<>> ELSE <<x>> \o Walk(next_[x], fuel - 1)

BlockOrder == Walk(Entry, N + S + 2)

Position(x) == SelectInSeq(BlockOrder, LAMBDA e : e = x)

(***************************************************************************)
(* Actions.  The passes that call these rules (ApplyICData,               *)
(* OptimizeComputations, DominatorBasedCSE) are not in the excerpt; each   *)
(* action is one call they make, and the model lets the calls come in any  *)
(* order and on any instruction, as spec.md's use-list fuzz test does.     *)
(***************************************************************************)

\* A pass guards call z with check y on one of z's operands: the check's UseVal
\* goes on the operand's input list, y is linked in before z (InsertBefore,
\* or InsertAfter on z's predecessor) and gets a copy of z's environment.
InsertCheck(y, z) ==
  /\ ~crashed
  /\ inputs_[y] = <<>>
  /\ prev_[y] = NoInstr
  /\ Comp(z).kind = "user" /\ InGraph(z)
  /\ \E j \in DOMAIN inputs_[z] :
       LET nv == nvals + 1
           h1 == [H EXCEPT !.val[nv] = [def |-> val_[inputs_[z][j]].def,
                                        instr |-> y, index |-> 1,
                                        next |-> NoValue],
                           !.inputs[y] = <<nv>>,
                           !.nvals = nv]
           h2 == CopyTo(AddToUseList(h1, nv, "ihead"), z, y)
       IN \/ Commit(InsertBefore(h2, y, z))
          \/ Commit(InsertAfter(h2, y, prev_[z]))
  /\ UNCHANGED crashed

\* OptimizeComputations on a check whose TryReplace returns NULL: the
\* iterator removes it from the graph.
RemoveRedundantCheck(x) ==
  /\ ~crashed
  /\ Comp(x).kind \in Checks
  /\ Removable(H, x)
  /\ CheckTryReplace(x) = NoInstr
  /\ Commit(RemoveFromGraph(H, x))
  /\ UNCHANGED crashed

\* OptimizeComputations on e === true: TryReplace removes the constant's
\* bind from the graph, whatever other uses it has; then the uses of the
\* comparison are replaced by e and the comparison is removed.
ReplaceStrictCompare(x) ==
  /\ ~crashed
  /\ Comp(x).kind = "strict"
  /\ Removable(H, x)
  /\ StrictTryReplace(x) # x
  /\ LET r == val_[inputs_[x][2]].def
     IN /\ Removable(H, r)
        /\ Commit(RemoveFromGraph(ReplaceUsesWith(RemoveFromGraph(H, r), x,
                                                  StrictTryReplace(x)), x))
  /\ UNCHANGED crashed

\* The same, when an earlier replacement already removed the constant's
\* bind: RemoveFromGraph reads its NULL previous() and dereferences it.
StrictCompareRemovesRemoved(x) ==
  /\ ~crashed
  /\ Comp(x).kind = "strict"
  /\ Removable(H, x)
  /\ StrictTryReplace(x) # x
  /\ prev_[val_[inputs_[x][2]].def] = NoInstr
  /\ crashed' = TRUE
  /\ UNCHANGED <<prev_, next_, inputs_, env_, val_, input_use_list_,
                 env_use_list_, nvals>>

\* DominatorBasedCSE: x equals the earlier o, so its uses move to o and
\* x is removed.
EliminateCommonSubexpression(x, o) ==
  /\ ~crashed
  /\ Comp(x).kind \in Checks
  /\ Removable(H, x)
  /\ InGraph(o) /\ o # Entry
  /\ Position(o) < Position(x)
  /\ Equals(x, o)
  /\ Commit(RemoveFromGraph(ReplaceUsesWith(H, x, o), x))
  /\ UNCHANGED crashed

Next ==
  \/ \E y \in (N + 1)..(N + S), z \in 1..N : InsertCheck(y, z)
  \/ \E x \in 1..(N + S) : \/ RemoveRedundantCheck(x)
                          \/ ReplaceStrictCompare(x)
                          \/ StrictCompareRemovesRemoved(x)
  \/ \E x, o \in 1..(N + S) : EliminateCommonSubexpression(x, o)

Spec == Init /\ [][Next]_vars

(***************************************************************************)
(* Properties.                                                             *)
(***************************************************************************)
TypeOK ==
  /\ prev_ \in [Instrs -> Instrs \cup {NoInstr}]
  /\ next_ \in [Instrs -> Instrs \cup {NoInstr}]
  /\ inputs_ \in [Instrs -> Seq(Values)]
  /\ env_ \in [Instrs -> Seq(Values)]
  /\ val_ \in [Values -> ValueRec \cup {NoVal}]
  /\ input_use_list_ \in [Instrs -> Values \cup {NoValue}]
  /\ env_use_list_ \in [Instrs -> Values \cup {NoValue}]
  /\ nvals \in 0..Cardinality(Values)
  /\ crashed \in BOOLEAN

\* The values on a use list, following next_use_ from its head.
RECURSIVE ListFrom(_, _)
ListFrom(v, fuel) ==
  IF v = NoValue \/ fuel = 0 THEN <<>> ELSE <<v>> \o ListFrom(val_[v].next, fuel - 1)

UseList(h) == ListFrom(h, Cardinality(Values) + 1)

\* A list is a chain that reaches NULL without repeating a value.
Chain(h) == Len(UseList(h)) <= Cardinality(Values) /\ IsInjective(UseList(h))

SlotHolds(v, isenv) ==
  IF isenv THEN val_[v].index \in DOMAIN env_[val_[v].instr]
                /\ env_[val_[v].instr][val_[v].index] = v
           ELSE val_[v].index \in DOMAIN inputs_[val_[v].instr]
                /\ inputs_[val_[v].instr][val_[v].index] = v

\* The use-list bijection of spec.md (sections 3 and 8), for the lists
\* that ReplaceUsesWith, AddToInputUseList/AddToEnvUseList and CopyTo
\* maintain: every list is a chain of UseVals of its definition, each
\* sitting in the operand or environment slot it records; and every
\* operand or environment slot of every instruction, removed or not, holds
\* a UseVal that is on the matching list of its definition.
UseListBijection ==
  /\ \A d \in Instrs :
       /\ Chain(input_use_list_[d]) /\ Chain(env_use_list_[d])
       /\ \A v \in ToSet(UseList(input_use_list_[d])) :
            val_[v].def = d /\ SlotHolds(v, FALSE)
       /\ \A v \in ToSet(UseList(env_use_list_[d])) :
            val_[v].def = d /\ SlotHolds(v, TRUE)
  /\ \A x \in Instrs :
       /\ \A i \in DOMAIN inputs_[x] :
            inputs_[x][i] \in ToSet(UseList(input_use_list_[val_[inputs_[x][i]].def]))
       /\ \A i \in DOMAIN env_[x] :
            env_[x][i] \in ToSet(UseList(env_use_list_[val_[env_[x][i]].def]))

\* The block's list after any removals and insertions: next_ from the entry
\* reaches the return, previous_ mirrors next_, and exactly the unlinked
\* instructions have NULL links (RemoveFromGraph, InsertBefore/After).
InstrListWellFormed ==
  /\ BlockOrder[Len(BlockOrder)] = N
  /\ next_[N] = NoInstr
  /\ \A i \in 2..Len(BlockOrder) : prev_[BlockOrder[i]] = BlockOrder[i - 1]
  /\ \A x \in Instrs \ ToSet(BlockOrder) :
       prev_[x] = NoInstr /\ next_[x] = NoInstr

\* SSA as the optimizer must keep it: every operand and environment slot
\* of an instruction in the block refers to a definition still in the
\* block and earlier in it.  StrictCompareComp::TryReplace removes the
\* constant's bind without looking at its other uses.
DefsDominateUses ==
  \A x \in ToSet(BlockOrder) :
    \A v \in ToSet(inputs_[x]) \cup ToSet(env_[x]) :
      /\ InGraph(val_[v].def)
      /\ Position(val_[v].def) < Position(x)

\* The lists implement the abstract multimap of DefUse: a use of d is the
\* slot recorded by a value on one of d's lists.
SlotOf(v, kind) == <<val_[v].instr, kind, val_[v].index>>

UsesOf(d) ==
  {SlotOf(v, "input") : v \in ToSet(UseList(input_use_list_[d]))}
  \cup {SlotOf(v, "env") : v \in ToSet(UseList(env_use_list_[d]))}

DU == INSTANCE DefUse WITH
        Defs <- Instrs, Consumers <- Instrs,
        Slots <- Instrs \X {"input", "env"} \X (1..MaxSlots),
        uses <- [d \in Instrs |-> UsesOf(d)]

\* ReplaceUsesWith and CopyTo change the def-use multimap only as DefUse
\* allows: moving all of a definition's uses, or attaching a new consumer.
DefUseRefinement == DU!Spec
=============================================================================
