-------------------------- MODULE MCCompilerDriver --------------------------
(***************************************************************************)
(* CompilerDriver for TLC.  The function may fail to parse, and the       *)
(* optimized compile may bail out in SSA construction or in the optimizer  *)
(* passes: the stages the comment at compiler.cc:277 names.  A deopt      *)
(* threshold of 1 and two deoptimizations make the compile without type    *)
(* feedback reachable.                                                      *)
(***************************************************************************)
EXTENDS CompilerDriver

MCShapes == [parse_error : BOOLEAN, bail : {"none", "ssa", "optimize"}]

=============================================================================
