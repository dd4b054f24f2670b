----------------------------- MODULE FlowGraph -----------------------------
(***************************************************************************)
(* The SSA front end of src/dart/runtime/vm/flow_graph.cc: block discovery *)
(* (the depth-first traversal of intermediate_language.cc that records     *)
(* predecessors, the spanning tree and the pre/postorders), the SEMI-NCA   *)
(* dominator computation with its in-place path compression, the           *)
(* dominance frontiers, and phi insertion.  The graph is what              *)
(* FlowGraphBuilder hands over: block 0 is the graph entry, block 1 the    *)
(* normal entry, catch entries hang off the graph entry, and every other   *)
(* block ends in a return (no successor), a goto to a join entry, or a     *)
(* branch to two target entries (edge-split form).  Each pass is one step; *)
(* its loops are the RECURSIVE operators below, read line by line from the *)
(* code.  Blocks are numbered; preorder numbers index the code's arrays.   *)
(***************************************************************************)
EXTENDS Integers, Sequences, SequencesExt, FiniteSets

CONSTANTS
  MaxBlocks,        \* builder graphs of this many blocks are enumerated
  ExtraGraphs,      \* larger builder graphs, given explicitly
  VarCount,         \* variable_count(): locals that may get phis
  MaxCatchEntries,  \* catch entries of the graph entry
  Bodies(_),        \* the local stores and loads a block of a graph of n
                    \* blocks may hold, in order
  MaxPathLen        \* CFG paths up to this many blocks are checked

kGraphEntry == 0
kNormalEntry == 1
Vars == 0..(VarCount - 1)

\* The statements of a block body that Rename acts on: a StoreLocal of a
\* local (Bind(e); Bind(StoreLocal)) or a LoadLocal with its one use.
StoreStmt(v) == [op |-> "store", var |-> v]
LoadStmt(v) == [op |-> "load", var |-> v]

\* The block entries of a graph besides the graph entry, and all of them.
GBlocks(g) == DOMAIN g.last
GAll(g) == {kGraphEntry} \cup GBlocks(g)

\* The last instruction of a block, as its successors in SuccessorAt order:
\* <<>> for a return, <<join>> for a goto, <<true, false>> for a branch.
Lasts(B) == {<<>>} \cup {<<j>> : j \in B} \cup {<<t, f>> \in B \X B : t # f}

CfgEdges(g) ==
  {<<kGraphEntry, b>> : b \in {kNormalEntry} \cup ToSet(g.catch)}
    \cup {<<b, s>> \in GBlocks(g) \X GBlocks(g) : s \in ToSet(g.last[b])}

Reachable(g) ==
  LET RECURSIVE Grow(_)
      Grow(S) == LET T == S \cup {e[2] : e \in {e \in CfgEdges(g) : e[1] \in S}}
                 IN  IF T = S THEN S ELSE Grow(T)
  IN  Grow({kGraphEntry})

TargetEntries(g) ==
  {kNormalEntry} \cup ToSet(g.catch)
    \cup UNION {ToSet(g.last[x]) : x \in {x \in GBlocks(g) : Len(g.last[x]) = 2}}

JoinEntries(g) == {g.last[x][1] : x \in {x \in GBlocks(g) : Len(g.last[x]) = 1}}

IncomingEdges(g, b) ==
  (IF b \in {kNormalEntry} \cup ToSet(g.catch) THEN 1 ELSE 0)
    + Cardinality({x \in GBlocks(g) : b \in ToSet(g.last[x])})

(***************************************************************************)
(* The graphs the builder produces: target entries (the normal entry,      *)
(* catch entries, branch successors) have exactly one predecessor and are  *)
(* never the successor of a goto; every block is reachable.                *)
(***************************************************************************)
IsBuiltGraph(g) ==
  /\ TargetEntries(g) \cap JoinEntries(g) = {}
  /\ \A b \in TargetEntries(g) : IncomingEdges(g, b) = 1
  /\ Reachable(g) = GAll(g)

\* Builder graphs enumerated block by block, pruning a block's last
\* instruction as soon as it would give a target entry a second predecessor
\* or make a block both a target and a join entry.
RECURSIVE PartialGraphs(_)
PartialGraphs(i) ==
  IF i = 0
  THEN {[catch |-> c, last |-> <<>>] :
          c \in {c \in BoundedSeq(2..MaxBlocks, MaxCatchEntries) : IsInjective(c)}}
  ELSE UNION {{[p EXCEPT !.last = Append(@, l)] :
                 l \in {l \in Lasts(1..MaxBlocks) :
                         ToSet(l) \cap (TargetEntries(p) \cup
                                        IF Len(l) = 2 THEN JoinEntries(p) ELSE {}) = {}}} :
               p \in PartialGraphs(i - 1)}

BuiltGraphs ==
  {g \in PartialGraphs(MaxBlocks) : Reachable(g) = GAll(g)} \cup ExtraGraphs

ASSUME \A g \in ExtraGraphs : IsBuiltGraph(g)

VARIABLES
  graph,        \* the instructions as built: successors, stores, catch entries
  phase,        \* the pass ComputeSSA is at
  preorder_, postorder_,
  parent_,      \* spanning-tree parent, by preorder number
  preds,        \* predecessors_ of each block, in AddPredecessor order
  block_id,     \* block_id() of each block: its reverse postorder number
  idom,         \* immediate dominator, by preorder number
  dominated,    \* dominated_blocks() of each block, in AddDominatedBlock order
  frontier,     \* dominance_frontier, by preorder number
  phis,         \* the variables with a phi in each join entry
  ssa           \* what Rename produced: [env_at, inputs, alive]

Blocks == GBlocks(graph)
AllBlocks == GAll(graph)

vars == <<graph, phase, preorder_, postorder_, parent_, preds, block_id, idom,
          dominated, frontier, phis, ssa>>

----------------------------------------------------------------------------
(* Block discovery.                                                        *)

\* The preorder number of b, or -1 while b is unvisited.
PreorderNumber(st, b) == SelectInSeq(st.preorder, LAMBDA x : x = b) - 1

\* ControlInstruction::DiscoverBlocks visits the false successor
\* (SuccessorAt(1)) before the true one; a goto has one successor.
VisitOrder(b) == Reverse(graph.last[b])

(***************************************************************************)
(* BlockEntryInstr::DiscoverBlocks(current_block) on the traversal state   *)
(* st = [preorder, postorder, parent, preds]: record the predecessor, stop *)
(* if the block was reached before, else number it, take current_block as *)
(* its tree parent, visit its successors, and append it to the postorder.  *)
(***************************************************************************)
RECURSIVE VisitBlock(_, _, _), VisitSuccessors(_, _, _)

\* Mutant: the predecessor is recorded only when the block is first reached.
VisitBlockPredAfterCheck(st, b, current_block) ==
  IF PreorderNumber(st, b) >= 0 THEN st
  ELSE LET s1 == [st EXCEPT !.preds[b] = Append(@, current_block)]
           s2 == [s1 EXCEPT !.parent = Append(@, PreorderNumber(s1, current_block)),
                            !.preorder = Append(@, b)]
           s3 == VisitSuccessors(s2, VisitOrder(b), b)
       IN  [s3 EXCEPT !.postorder = Append(@, b)]

VisitBlock(st, b, current_block) ==
  LET s1 == [st EXCEPT !.preds[b] = Append(@, current_block)]
  IN  IF PreorderNumber(s1, b) >= 0 THEN s1
      ELSE LET s2 == [s1 EXCEPT !.parent = Append(@, PreorderNumber(s1, current_block)),
                                !.preorder = Append(@, b)]
               s3 == VisitSuccessors(s2, VisitOrder(b), b)
           IN  [s3 EXCEPT !.postorder = Append(@, b)]

VisitSuccessors(st, succs, current_block) ==
  IF succs = <<>> THEN st
  ELSE VisitSuccessors(VisitBlock(st, Head(succs), current_block),
                       Tail(succs), current_block)

(***************************************************************************)
(* GraphEntryInstr::DiscoverBlocks: the graph entry is preorder 0 with     *)
(* parent -1; the catch entries are visited in reverse, the normal entry   *)
(* last, and the graph entry ends the postorder.                           *)
(***************************************************************************)
GraphEntryDiscover ==
  LET st0 == [preorder |-> <<kGraphEntry>>, postorder |-> <<>>, parent |-> <<-1>>,
              preds |-> [b \in AllBlocks |-> <<>>]]
      st1 == VisitSuccessors(st0, Reverse(graph.catch) \o <<kNormalEntry>>, kGraphEntry)
  IN  [st1 EXCEPT !.postorder = Append(@, kGraphEntry)]

\* Arrays of the code are indexed from 0; sequences here from 1.
AsArray(seq) == [i \in 0..(Len(seq) - 1) |-> seq[i + 1]]
AsSeq(arr) == [k \in 1..Cardinality(DOMAIN arr) |-> arr[k - 1]]

\* Mutant: block_count - i instead of block_count - i - 1.
DiscoverBlocksIdOffByOne ==
  LET st == GraphEntryDiscover
      n  == Len(st.postorder)
  IN  /\ phase = "built"
      /\ preorder_' = AsArray(st.preorder)
      /\ postorder_' = AsArray(st.postorder)
      /\ parent_' = AsArray(st.parent)
      /\ preds' = st.preds
      /\ block_id' = [b \in AllBlocks |->
                        n + 1 - SelectInSeq(st.postorder, LAMBDA x : x = b)]
      /\ phase' = "discovered"
      /\ UNCHANGED <<graph, idom, dominated, frontier, phis, ssa>>

\* FlowGraph::DiscoverBlocks: traverse, then number blocks in reverse postorder.
DiscoverBlocks ==
  LET st == GraphEntryDiscover
      n  == Len(st.postorder)
  IN  /\ phase = "built"
      /\ preorder_' = AsArray(st.preorder)
      /\ postorder_' = AsArray(st.postorder)
      /\ parent_' = AsArray(st.parent)
      /\ preds' = st.preds
      /\ block_id' = [b \in AllBlocks |->
                        n - SelectInSeq(st.postorder, LAMBDA x : x = b)]
      /\ phase' = "discovered"
      /\ UNCHANGED <<graph, idom, dominated, frontier, phis, ssa>>

----------------------------------------------------------------------------
(* Dominators: FlowGraph::ComputeDominators and CompressPath.              *)

\* Blocks and arrays by preorder number, as in the code.
Size == Cardinality(DOMAIN parent_)  \* parent->length()
PreNum(b) == CHOOSE i \in DOMAIN preorder_ : preorder_[i] = b
PredecessorNumbers(i) == [k \in 1..Len(preds[preorder_[i]]) |-> PreNum(preds[preorder_[i]][k])]

MinOf(a, b) == IF a <= b THEN a ELSE b

(***************************************************************************)
(* FlowGraph::CompressPath(start_index, current_index): path compression  *)
(* in place on parent, keeping in label the least label on the path; the   *)
(* result is the pair [parent, label] after the call.                      *)
(***************************************************************************)
\* Mutant: the compressed path does not carry the least label down.
RECURSIVE CompressPathNoLabel(_, _, _, _)
CompressPathNoLabel(start_index, current_index, parent, label) ==
  LET next_index == parent[current_index]
  IN  IF next_index > start_index
      THEN LET r == CompressPathNoLabel(start_index, next_index, parent, label)
           IN  [parent |-> [r.parent EXCEPT ![current_index] = r.parent[next_index]],
                label  |-> r.label]
      ELSE [parent |-> parent, label |-> label]

RECURSIVE CompressPath(_, _, _, _)
CompressPath(start_index, current_index, parent, label) ==
  LET next_index == parent[current_index]
  IN  IF next_index > start_index
      THEN LET r == CompressPath(start_index, next_index, parent, label)
           IN  [parent |-> [r.parent EXCEPT ![current_index] = r.parent[next_index]],
                label  |-> [r.label EXCEPT ![current_index] =
                                MinOf(r.label[current_index], r.label[next_index])]]
      ELSE [parent |-> parent, label |-> label]

(***************************************************************************)
(* The first pass of SEMI-NCA over st = [semi, label, parent]: for each    *)
(* block in reverse preorder, ascend from each predecessor (compressing    *)
(* paths) for the least semidominator, then use it as the block's label.   *)
(***************************************************************************)
RECURSIVE SemiOverPredecessors(_, _, _)
SemiOverPredecessors(block_index, pred_indices, st) ==
  IF pred_indices = <<>> THEN st
  ELSE LET pred_index == Head(pred_indices)
           c == IF pred_index > block_index
                THEN CompressPath(block_index, pred_index, st.parent, st.label)
                ELSE [parent |-> st.parent, label |-> st.label]
           best == IF pred_index > block_index THEN c.label[pred_index] ELSE pred_index
       IN  SemiOverPredecessors(block_index, Tail(pred_indices),
             [semi |-> [st.semi EXCEPT ![block_index] = MinOf(@, st.semi[best])],
              label |-> c.label, parent |-> c.parent])

RECURSIVE SemidominatorPass(_, _)
SemidominatorPass(block_index, st) ==
  IF block_index < 1 THEN st
  ELSE LET s1 == SemiOverPredecessors(block_index, PredecessorNumbers(block_index), st)
       IN  SemidominatorPass(block_index - 1,
                             [s1 EXCEPT !.label[block_index] = s1.semi[block_index]])

\* The second pass: ascend idom from the tree parent to the semidominator.
\* Mutant: the ascent stops at the first ancestor not above the semidominator.
RECURSIVE AscendIdomPastSemi(_, _, _)
AscendIdomPastSemi(dom, dom_index, semi_index) ==
  IF dom_index >= semi_index /\ dom_index > 0
  THEN AscendIdomPastSemi(dom, dom[dom_index], semi_index)
  ELSE dom_index

RECURSIVE AscendIdom(_, _, _)
AscendIdom(dom, dom_index, semi_index) ==
  IF dom_index > semi_index THEN AscendIdom(dom, dom[dom_index], semi_index)
  ELSE dom_index

\* Mutant: the semidominator taken as the immediate dominator.
IdomPassSemiOnly(block_index, dom, semi) ==
  [i \in DOMAIN dom |-> IF i >= block_index THEN semi[i] ELSE dom[i]]

RECURSIVE IdomPass(_, _, _)
IdomPass(block_index, dom, semi) ==
  IF block_index >= Size THEN dom
  ELSE IdomPass(block_index + 1,
                [dom EXCEPT ![block_index] = AscendIdom(dom, dom[block_index], semi[block_index])],
                semi)

\* The third pass: the dominance frontier, walking up from each predecessor
\* of a block with several predecessors to the block's dominator.
\* Mutant: the walk stops one block short of the block's dominator.
RECURSIVE RunnerWalkShort(_, _, _)
RunnerWalkShort(dom, runner, stop) ==
  IF runner = stop \/ runner = -1 \/ dom[runner] = stop THEN {}
  ELSE {runner} \cup RunnerWalkShort(dom, dom[runner], stop)

\* A walk that passes the graph entry (whose dominator is NULL, -1) would
\* dereference NULL; it then yields -1.
RECURSIVE RunnerWalk(_, _, _)
RunnerWalk(dom, runner, stop) ==
  IF runner = stop THEN {}
  ELSE IF runner = -1 THEN {-1}
  ELSE {runner} \cup RunnerWalk(dom, dom[runner], stop)

\* Indexed from -1: the blocks whose walk would dereference NULL.
FrontierPass(dom) ==
  [x \in -1..(Size - 1) |->
     {block_index \in 0..(Size - 1) :
        LET ps == PredecessorNumbers(block_index)
        IN  /\ Len(ps) > 1
            /\ \E k \in 1..Len(ps) : x \in RunnerWalk(dom, ps[k], dom[block_index])}]

\* idom starts as the uncompressed parent; the first pass then compresses
\* parent_ itself, which ComputeSSA passed as &parent_.
ComputeDominators ==
  LET st0 == [semi |-> [i \in 0..(Size - 1) |-> i],
              label |-> [i \in 0..(Size - 1) |-> i],
              parent |-> parent_]
      st == SemidominatorPass(Size - 1, st0)
      dom == IdomPass(1, parent_, st.semi)
  IN  /\ phase = "discovered"
      /\ idom' = dom
      /\ dominated' = [b \in AllBlocks |->
                         SelectSeq([k \in 1..(Size - 1) |-> preorder_[k]],
                                   LAMBDA c : dom[PreNum(c)] = PreNum(b))]
      /\ frontier' = FrontierPass(dom)
      /\ parent_' = st.parent  \* compressed in place through the parent pointer
      /\ phase' = IF FrontierPass(dom)[-1] = {} THEN "dominators" ELSE "crashed"
      /\ UNCHANGED <<graph, preorder_, postorder_, preds, block_id, phis, ssa>>

----------------------------------------------------------------------------
(* Phi insertion: FlowGraph::InsertPhis.                                   *)

\* assigned_vars of the block with preorder number i (the graph entry has none).
AssignedVars(i) == IF preorder_[i] = kGraphEntry THEN {} ELSE graph.assigned[preorder_[i]]

(***************************************************************************)
(* The loops of InsertPhis over st = [has_already, work, phis, worklist]:  *)
(* a phi for var_index goes to each frontier block not yet having one, and *)
(* such a block goes on the worklist unless it was already put there for   *)
(* this variable.  The worklist is a stack; frontiers iterate ascending.   *)
(***************************************************************************)
\* Mutant: a block given a phi is not put back on the worklist.
RECURSIVE PhisForFrontierNoRequeue(_, _, _)
PhisForFrontierNoRequeue(var_index, indices, st) ==
  IF indices = <<>> THEN st
  ELSE LET index == Head(indices)
           st1 == IF st.has_already[index] < var_index
                  THEN [st EXCEPT !.phis[preorder_[index]] = @ \cup {var_index},
                                  !.has_already[index] = var_index]
                  ELSE st
       IN  PhisForFrontierNoRequeue(var_index, Tail(indices), st1)

\* Mutant: the markers tested as flags (set or not) rather than against
\* var_index, so a block marked for an earlier variable is skipped.
RECURSIVE PhisForFrontierFlagMarkers(_, _, _)
PhisForFrontierFlagMarkers(var_index, indices, st) ==
  IF indices = <<>> THEN st
  ELSE LET index == Head(indices)
           block == preorder_[index]
           st1 == IF st.has_already[index] = -1
                  THEN [st EXCEPT !.phis[block] = @ \cup {var_index},
                                  !.has_already[index] = var_index,
                                  !.work[index] = IF st.work[index] = -1 THEN var_index ELSE @,
                                  !.worklist = IF st.work[index] = -1
                                               THEN Append(@, index) ELSE @]
                  ELSE st
       IN  PhisForFrontierFlagMarkers(var_index, Tail(indices), st1)

RECURSIVE PhisForFrontier(_, _, _)
PhisForFrontier(var_index, indices, st) ==
  IF indices = <<>> THEN st
  ELSE LET index == Head(indices)
           block == preorder_[index]
           st1 == IF st.has_already[index] < var_index
                  THEN [st EXCEPT !.phis[block] = @ \cup {var_index},
                                  !.has_already[index] = var_index,
                                  !.work[index] = IF st.work[index] < var_index THEN var_index ELSE @,
                                  !.worklist = IF st.work[index] < var_index
                                               THEN Append(@, index) ELSE @]
                  ELSE st
       IN  PhisForFrontier(var_index, Tail(indices), st1)

RECURSIVE DrainWorklist(_, _)
DrainWorklist(var_index, st) ==
  IF st.worklist = <<>> THEN st
  ELSE LET current == Last(st.worklist)
           st1 == [st EXCEPT !.worklist = Front(@)]
       IN  DrainWorklist(var_index,
                         PhisForFrontier(var_index, SetToSortSeq(frontier[current], <), st1))

RECURSIVE PhiPass(_, _)
PhiPass(var_index, st) ==
  IF var_index >= VarCount THEN st
  ELSE LET seeds == {i \in 0..(Size - 1) : var_index \in AssignedVars(i)}
           st1 == [st EXCEPT !.work = [i \in DOMAIN @ |-> IF i \in seeds THEN var_index ELSE @[i]],
                             !.worklist = @ \o SetToSortSeq(seeds, <)]
       IN  PhiPass(var_index + 1, DrainWorklist(var_index, st1))

InsertPhis ==
  LET st0 == [has_already |-> [i \in 0..(Size - 1) |-> -1],
              work |-> [i \in 0..(Size - 1) |-> -1],
              phis |-> [b \in AllBlocks |-> {}],
              worklist |-> <<>>]
  IN  /\ phase = "dominators"
      /\ phis' = PhiPass(0, st0).phis
      /\ phase' = "phis"
      /\ UNCHANGED <<graph, preorder_, postorder_, parent_, preds, block_id, idom,
                     dominated, frontier, ssa>>

\* FlowGraph::Rename: a graph entry with catch entries bails out of SSA.
RenameBailout ==
  /\ phase = "phis"
  /\ 1 + Len(graph.catch) > 1
  /\ phase' = "bailout"
  /\ UNCHANGED <<graph, preorder_, postorder_, parent_, preds, block_id, idom,
                 dominated, frontier, phis, ssa>>

----------------------------------------------------------------------------
(* Renaming: FlowGraph::Rename, RenameRecursive and MarkLivePhis.  An SSA  *)
(* value is a parameter or #null from the start environment, the value a   *)
(* StoreLocal stored (the Bind before it, statement k of block b), or the  *)
(* phi of a variable at a join entry.  The expression-stack part of the    *)
(* environment is left out: every statement pushes and pops its own.       *)
(* st = [env_at, inputs, alive, live]: the renaming environment given to   *)
(* each statement, each phi's inputs by predecessor index, the phis marked *)
(* alive, and the live_phis stack.                                         *)
(***************************************************************************)
Initial(v) == [kind |-> "initial", block |-> kGraphEntry, pos |-> v]
Stored(b, k) == [kind |-> "store", block |-> b, pos |-> k]
Phi(j, v) == [kind |-> "phi", block |-> j, pos |-> v]
NoValue == [kind |-> "none", block |-> -1, pos |-> -1]

\* Marks a loaded or input value alive if it is a phi not yet alive.
MarkAlive(val, st) ==
  IF val.kind = "phi" /\ val \notin st.alive
  THEN [st EXCEPT !.alive = @ \cup {val}, !.live = Append(@, val)]
  ELSE st

\* Step 2: each statement gets a copy of env; a load of a phi marks it alive;
\* a store makes the stored value the variable's current one.
RECURSIVE RenameBody(_, _, _, _)
RenameBody(b, k, env, st) ==
  IF k > Len(graph.body[b]) THEN [st |-> st, env |-> env]
  ELSE LET s == graph.body[b][k]
           st1 == [st EXCEPT !.env_at[b] = Append(@, env)]
       IN  RenameBody(b, k + 1,
                      IF s.op = "store" THEN [env EXCEPT ![s.var] = Stored(b, k)] ELSE env,
                      IF s.op = "load" THEN MarkAlive(env[s.var], st1) ELSE st1)

\* Mutant: the predecessor index is taken 1-based.
SetPhiInputsOneBased(b, env, st) ==
  IF Len(graph.last[b]) = 1 /\ graph.last[b][1] \in JoinEntries(graph)
  THEN LET j == graph.last[b][1]
           pred_index == SelectInSeq(preds[j], LAMBDA x : x = b)
       IN  [st EXCEPT !.inputs[j] = [v \in phis[j] |->
                                       [st.inputs[j][v] EXCEPT ![pred_index] = env[v]]]]
  ELSE st

\* Step 4: a block ending in a goto sets, for each phi of the join, the input
\* at its own predecessor index to its current value.
SetPhiInputs(b, env, st) ==
  IF Len(graph.last[b]) = 1 /\ graph.last[b][1] \in JoinEntries(graph)
  THEN LET j == graph.last[b][1]
           pred_index == SelectInSeq(preds[j], LAMBDA x : x = b) - 1
       IN  [st EXCEPT !.inputs[j] = [v \in phis[j] |->
                                       [st.inputs[j][v] EXCEPT ![pred_index] = env[v]]]]
  ELSE st

RECURSIVE RenameRecursive(_, _, _), RenameDominated(_, _, _)

\* Step 3: each dominated block is renamed from its own copy of env.
RenameDominated(blocks, env, st) ==
  IF blocks = <<>> THEN st
  ELSE RenameDominated(Tail(blocks), env, RenameRecursive(Head(blocks), env, st))

\* Mutant: the dominated blocks are renamed from the environment at entry.
RenameRecursiveEntryEnv(b, env, st) ==
  LET env1 == [v \in Vars |-> IF v \in phis[b] THEN Phi(b, v) ELSE env[v]]
      body == RenameBody(b, 1, env1, st)
  IN  SetPhiInputs(b, body.env, RenameDominated(dominated[b], env1, body.st))

RenameRecursive(b, env, st) ==
  LET env1 == [v \in Vars |-> IF v \in phis[b] THEN Phi(b, v) ELSE env[v]]  \* step 1
      body == RenameBody(b, 1, env1, st)
  IN  SetPhiInputs(b, body.env, RenameDominated(dominated[b], body.env, body.st))

\* Mutant: the loop over a phi's inputs stops before the last one.
RECURSIVE MarkInputsSkipLast(_, _, _)
MarkInputsSkipLast(ins, i, st) ==
  IF i + 1 >= Cardinality(DOMAIN ins) THEN st
  ELSE MarkInputsSkipLast(ins, i + 1, MarkAlive(ins[i], st))

\* The loop over a phi's inputs in MarkLivePhis.
RECURSIVE MarkInputs(_, _, _)
MarkInputs(ins, i, st) ==
  IF i >= Cardinality(DOMAIN ins) THEN st
  ELSE MarkInputs(ins, i + 1, MarkAlive(ins[i], st))

RECURSIVE MarkLivePhis(_)
MarkLivePhis(st) ==
  IF st.live = <<>> THEN st
  ELSE LET phi == Last(st.live)
       IN  MarkLivePhis(MarkInputs(st.inputs[phi.block][phi.pos], 0,
                                   [st EXCEPT !.live = Front(@)]))

\* ComputeSSA after InsertPhis, without catch entries: Rename from the start
\* environment (parameters, then #null), then MarkLivePhis.
Rename ==
  LET st0 == [env_at |-> [b \in AllBlocks |-> <<>>],
              inputs |-> [j \in AllBlocks |-> [v \in phis[j] |->
                            [i \in 0..(Len(preds[j]) - 1) |-> NoValue]]],
              alive |-> {}, live |-> <<>>]
      st == MarkLivePhis(RenameRecursive(kNormalEntry, [v \in Vars |-> Initial(v)], st0))
  IN  /\ phase = "phis"
      /\ 1 + Len(graph.catch) = 1
      /\ ssa' = [env_at |-> st.env_at, inputs |-> st.inputs, alive |-> st.alive]
      /\ phase' = "renamed"
      /\ UNCHANGED <<graph, preorder_, postorder_, parent_, preds, block_id, idom,
                     dominated, frontier, phis>>

----------------------------------------------------------------------------

Init ==
  /\ \E g \in BuiltGraphs : \E body \in [GBlocks(g) -> Bodies(Cardinality(GBlocks(g)))] :
        graph = [catch |-> g.catch, last |-> g.last, body |-> body,
                 assigned |-> [b \in GBlocks(g) |->   \* RecordAssignedVars
                                 {body[b][k].var : k \in {k \in DOMAIN body[b] :
                                                             body[b][k].op = "store"}}]]
  /\ phase = "built"
  /\ preorder_ = <<>> /\ postorder_ = <<>> /\ parent_ = <<>>
  /\ preds = [b \in AllBlocks |-> <<>>]
  /\ block_id = [b \in AllBlocks |-> -1]
  /\ idom = <<>> /\ dominated = [b \in AllBlocks |-> <<>>]
  /\ frontier = <<>>
  /\ phis = [b \in AllBlocks |-> {}]
  /\ ssa = [env_at |-> [b \in AllBlocks |-> <<>>], inputs |-> [b \in AllBlocks |-> <<>>],
           alive |-> {}]

Next == DiscoverBlocks \/ ComputeDominators \/ InsertPhis \/ RenameBailout \/ Rename

Spec == Init /\ [][Next]_vars

----------------------------------------------------------------------------
(* Reference definitions and properties.                                   *)

Edges == CfgEdges(graph)

\* The blocks reachable from the graph entry on paths that avoid block d.
ReachAvoiding(d) ==
  LET RECURSIVE Grow(_)
      Grow(S) == LET T == S \cup {e[2] : e \in {e \in Edges : e[1] \in S /\ e[2] # d}}
                 IN  IF T = S THEN S ELSE Grow(T)
  IN  IF d = kGraphEntry THEN {} ELSE Grow({kGraphEntry})

\* d dominates b: every path from the graph entry to b passes through d.
Dominates(d, b) == d = b \/ b \notin ReachAvoiding(d)

RefIdom(b) ==
  CHOOSE d \in AllBlocks \ {b} :
    /\ Dominates(d, b)
    /\ \A d2 \in AllBlocks \ {b} : Dominates(d2, b) => Dominates(d2, d)

RefFrontier(x) ==
  {y \in AllBlocks : /\ \E e \in Edges : e[2] = y /\ Dominates(x, e[1])
                     /\ ~(x # y /\ Dominates(x, y))}

\* The iterated frontier of S, given the frontier DF of every block.
RECURSIVE RefIteratedFrontier(_, _, _)
RefIteratedFrontier(DF, X, S) ==
  LET Y == UNION {DF[x] : x \in S \cup X}
  IN  IF Y = X THEN X ELSE RefIteratedFrontier(DF, Y, S)

\* The spanning-tree ancestors of the block with preorder number i.
RECURSIVE TreeAncestors(_)
TreeAncestors(i) == IF i <= 0 THEN {} ELSE {parent_[i]} \cup TreeAncestors(parent_[i])

TypeOK ==
  /\ phase \in {"built", "discovered", "dominators", "crashed", "phis", "bailout",
              "renamed"}
  /\ graph.last \in [Blocks -> Lasts(Blocks)]
  /\ graph.assigned \in [Blocks -> SUBSET Vars]
  /\ preds \in [AllBlocks -> Seq(AllBlocks)]
  /\ phis \in [AllBlocks -> SUBSET Vars]
  /\ phase # "built" => block_id \in [AllBlocks -> 0..(Cardinality(AllBlocks) - 1)]

(***************************************************************************)
(* Block discovery yields what the later passes rely on: every block is   *)
(* numbered once, the spanning-tree parent of each block is a predecessor  *)
(* with a smaller preorder number, every edge is recorded once as a        *)
(* predecessor, and block_id is a reverse postorder: it increases along    *)
(* every edge except the back edges to a tree ancestor.  Checked when     *)
(* discovery is done: ComputeDominators then compresses parent_ in place.  *)
(***************************************************************************)
DiscoveryOrdersSound ==
  phase = "discovered" =>
    /\ ToSet(AsSeq(preorder_)) = AllBlocks /\ Size = Cardinality(AllBlocks)
    /\ \A i \in 1..(Size - 1) :
          parent_[i] < i /\ <<preorder_[parent_[i]], preorder_[i]>> \in Edges
    /\ \A b \in AllBlocks :
          /\ IsInjective(preds[b])
          /\ ToSet(preds[b]) = {e[1] : e \in {e \in Edges : e[2] = b}}
    /\ \A e \in Edges :
          (block_id[e[1]] < block_id[e[2]]) <=>
            (PreNum(e[2]) \notin TreeAncestors(PreNum(e[1])) \cup {PreNum(e[1])})

(***************************************************************************)
(* SEMI-NCA with in-place path compression computes the immediate          *)
(* dominator of every block: each block's dominator is the dominator, on   *)
(* every path from the graph entry, that all its other dominators dominate.*)
(***************************************************************************)
DominatorTreeCorrect ==
  phase \in {"dominators", "crashed", "phis", "bailout", "renamed"} =>
    \A i \in 1..(Size - 1) : preorder_[idom[i]] = RefIdom(preorder_[i])

(***************************************************************************)
(* The runner walk computes the dominance frontier of every block: the     *)
(* blocks y with a predecessor x dominates, where x does not strictly      *)
(* dominate y.                                                             *)
(***************************************************************************)
FrontierCorrect ==
  phase \in {"dominators", "crashed", "phis", "bailout", "renamed"} =>
    /\ frontier[-1] = {}
    /\ \A x \in AllBlocks : {preorder_[i] : i \in frontier[PreNum(x)]} = RefFrontier(x)

(***************************************************************************)
(* InsertPhis, with its has_already/work markers shared across variables, *)
(* places a phi for a variable exactly at the iterated dominance frontier  *)
(* of the blocks assigning it, and only at join entries (its ASSERT).      *)
(***************************************************************************)
PhisAtIteratedFrontier ==
  phase \in {"phis", "bailout", "renamed"} =>
    LET DF == [x \in AllBlocks |-> RefFrontier(x)]
        IDF == [v \in Vars |-> RefIteratedFrontier(DF, {}, {x \in Blocks : v \in graph.assigned[x]})]
    IN
    /\ \A b \in AllBlocks : phis[b] = {v \in Vars : b \in IDF[v]}
    /\ \A b \in AllBlocks : phis[b] # {} => b \in JoinEntries(graph)


\* CFG paths from the graph entry of at most n blocks.
RECURSIVE PathsFrom(_)
PathsFrom(n) ==
  IF n = 1 THEN {<<kGraphEntry>>}
  ELSE LET P == PathsFrom(n - 1)
       IN  P \cup {Append(pe[1], pe[2][2]) : pe \in {pe \in P \X Edges : pe[2][1] = Last(pe[1])}}

BodyOf(b) == IF b = kGraphEntry THEN <<>> ELSE graph.body[b]

\* What v holds after the first n statements of the last block of a path:
\* the last store to v on the path, or its start value.
RECURSIVE LastDef(_, _, _)
LastDef(v, path, n) ==
  LET S == {k \in 1..n : BodyOf(Last(path))[k] = StoreStmt(v)}
  IN  IF S # {} THEN Stored(Last(path), Max(S))
      ELSE IF Len(path) = 1 THEN Initial(v)
      ELSE LastDef(v, Front(path), Len(BodyOf(Last(Front(path)))))

\* The value an SSA value denotes at the end of a path: a phi takes its input
\* for the edge by which the path last entered the phi's block.
RECURSIVE Eval(_, _)
Eval(val, path) ==
  IF val.kind # "phi" THEN val
  ELSE LET i == SelectLastInSeq(path, LAMBDA x : x = val.block)
       IN  IF i <= 1 THEN NoValue
           ELSE Eval(ssa.inputs[val.block][val.pos]
                       [SelectInSeq(preds[val.block], LAMBDA x : x = path[i - 1]) - 1],
                     SubSeq(path, 1, i - 1))

(***************************************************************************)
(* Renaming preserves the meaning of every local: on every CFG path to a   *)
(* statement, the SSA value RenameRecursive put in that statement's        *)
(* environment for a variable (and so the value a LoadLocal is replaced    *)
(* by) denotes the last StoreLocal to the variable on that path, or its    *)
(* parameter or #null.  It depends on each dominated block getting its own *)
(* copy of the environment and on each phi input landing at the index of  *)
(* its predecessor.                                                        *)
(***************************************************************************)
SsaPreservesValues ==
  phase = "renamed" =>
    \A path \in PathsFrom(MaxPathLen) :
      \A k \in 1..Len(BodyOf(Last(path))) : \A v \in Vars :
        Eval(ssa.env_at[Last(path)][k][v], path) = LastDef(v, path, k - 1)

\* The phis a value depends on through phi inputs, itself included.
RECURSIVE PhiClosure(_)
PhiClosure(S) ==
  LET T == S \cup {x \in UNION {{ssa.inputs[p.block][p.pos][i] :
                                   i \in DOMAIN ssa.inputs[p.block][p.pos]} : p \in S} :
                     x.kind = "phi"}
  IN  IF T = S THEN S ELSE PhiClosure(T)

(***************************************************************************)
(* Rename marks the phis a LoadLocal reads, and MarkLivePhis the phis      *)
(* their inputs reach: every phi some load depends on is alive, so dead    *)
(* phi elimination keeps it.                                               *)
(***************************************************************************)
LivePhisCover ==
  phase = "renamed" =>
    \A b \in Blocks : \A k \in DOMAIN graph.body[b] :
      LET s == graph.body[b][k]
          val == ssa.env_at[b][k][s.var]
      IN  s.op = "load" /\ val.kind = "phi" => PhiClosure({val}) \subseteq ssa.alive

=============================================================================
