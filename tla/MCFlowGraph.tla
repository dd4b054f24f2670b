---------------------------- MODULE MCFlowGraph ----------------------------
(***************************************************************************)
(* FlowGraph for TLC: every builder graph of four blocks, plus larger      *)
(* graphs on which the parts of SEMI-NCA that small graphs never exercise  *)
(* decide the result: on the first two (five blocks, a catch entry) the    *)
(* least label carried down by CompressPath matters; on the other four     *)
(* (seven blocks, nested branches joining) a block's semidominator is not  *)
(* its immediate dominator, so the nearest-common-ancestor ascent matters. *)
(***************************************************************************)
EXTENDS FlowGraph

MCExtraGraphs ==
  { [catch |-> <<2>>, last |-> <<<<3>>, <<4>>, <<5>>, <<>>, <<4>>>>],
    [catch |-> <<2>>, last |-> <<<<3>>, <<4>>, <<5>>, <<4>>, <<4>>>>],
    [catch |-> <<>>,
     last |-> <<<<2, 3>>, <<4>>, <<5, 6>>, <<7>>, <<7>>, <<4>>, <<>>>>],
    [catch |-> <<>>,
     last |-> <<<<2, 3>>, <<4>>, <<5, 6>>, <<7>>, <<7>>, <<4>>, <<4>>>>],
    [catch |-> <<>>,
     last |-> <<<<2>>, <<3, 4>>, <<5>>, <<6>>, <<7>>, <<>>, <<6>>>>],
    [catch |-> <<>>,
     last |-> <<<<2>>, <<3, 4>>, <<5>>, <<6>>, <<7>>, <<2>>, <<6>>>>] }

\* Bodies for the passes up to InsertPhis: a store of one variable or no
\* store; on the larger graphs a store of variable 0 or none.
MCStoreBodies(n) ==
  {<<>>} \cup {<<StoreStmt(v)>> : v \in IF n <= 4 THEN Vars ELSE {0}}

\* Bodies for Rename: on graphs of up to four blocks a load, a store, both
\* in either order, or neither; on larger graphs one load or one store.
MCRenameBodies(n) ==
  {<<>>} \cup UNION {{<<StoreStmt(v)>>, <<LoadStmt(v)>>} \cup
                      (IF n <= 4 THEN {<<LoadStmt(v), StoreStmt(v)>>,
                                       <<StoreStmt(v), LoadStmt(v)>>} ELSE {}) :
                      v \in Vars}

=============================================================================
