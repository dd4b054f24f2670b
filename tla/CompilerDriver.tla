--------------------------- MODULE CompilerDriver ---------------------------
(***************************************************************************)
(* The compiler driver of compiler.cc for one function: CompileFunction    *)
(* and CompileOptimizedFunction through CompileFunctionHelper (parse, then *)
(* CompileParsedFunctionHelper: build, SSA, optimize, emit, finalize),     *)
(* with the setjmp/longjmp bailout, the isolate state the helpers save and *)
(* restore (long_jump_base, deopt_id, ic_data_array, the sticky error) and *)
(* the function's code and is_optimizable flag.                            *)
(*                                                                         *)
(* The long-jump bases form a stack: "caller" is the runtime's own, "cfh"  *)
(* the jump of CompileFunctionHelper, "cpfh" the bailout_jump of           *)
(* CompileParsedFunctionHelper.  A longjmp resumes at the else-branch of   *)
(* the setjmp whose jump is the current base.                              *)
(*                                                                         *)
(* Which stage fails is a property of the function (its source, its graph  *)
(* shape), so each behaviour picks one Shape: whether parsing fails, and   *)
(* the stage that bails out, if any: "build" (graph builder), "ssa"        *)
(* (Rename on catch entries, flow_graph.cc:262), "optimize" (the passes).  *)
(***************************************************************************)
EXTENDS Integers, Sequences

CONSTANTS
  Shapes,          \* set of [parse_error : BOOLEAN, bail : Stages]
  Threshold,       \* FLAG_deoptimization_counter_threshold
  MaxDeopt,        \* bound: deoptimizations of the function in a behaviour
  GraphIds,        \* deopt ids the builder allocates for the function
  OuterDeoptIds    \* deopt ids the isolate may hold when the compile starts

Stages == {"none", "build", "ssa", "optimize"}

VARIABLES
  shape,           \* the function's parse and bailout behaviour
  code,            \* current code: "none", "unopt" or "opt"
  unopt,           \* unoptimized_code() is set
  optimizable,     \* is_optimizable()
  deopt_count,     \* deoptimization_counter()
  lj,              \* long_jump_base chain of the isolate
  deopt_id,        \* isolate->deopt_id()
  ic_data,         \* isolate->ic_data_array(): "null" or "feedback"
  sticky,          \* object_store()->sticky_error() is set
  outer_deopt_id,  \* the caller's deopt id
  pc,              \* where the driver is
  optimized,       \* argument of the helpers for the current compile
  cfh_base,        \* CompileFunctionHelper's local base
  old_base,        \* CompileParsedFunctionHelper's local old_base
  prev_deopt_id,   \* CompileParsedFunctionHelper's local prev_deopt_id
  is_compiled,     \* CompileParsedFunctionHelper's result
  result,          \* last result returned to the runtime: "null" or "error"
                   \* (an error), "value" (ExecuteOnce's result); "none"
                   \* before the first compile returns
  bailed,          \* the current compile longjmp'ed to bailout_jump
  entry            \* the compiler entry of the current compile: "function"
                   \* (CompileFunctionHelper), "parsed" (CompileParsedFunction)
                   \* "execute" (ExecuteOnce) or "library" (Compiler::Compile)

vars == <<shape, code, unopt, optimizable, deopt_count, lj, deopt_id, ic_data,
          sticky, outer_deopt_id, pc, optimized, cfh_base, old_base,
          prev_deopt_id, is_compiled, result, bailed, entry>>

locals == <<cfh_base, old_base, prev_deopt_id, is_compiled>>

Pcs == {"idle", "cfh", "cpfh", "build", "ssa", "optimize", "emit",
        "cpfh_bailout", "cpfh_exit", "cfh_after", "cfh_error", "entry_after",
        "unit"}

Init ==
  /\ shape \in Shapes
  /\ code = "none" /\ unopt = FALSE /\ optimizable = TRUE /\ deopt_count = 0
  /\ lj = <<"caller">>
  /\ outer_deopt_id \in OuterDeoptIds /\ deopt_id = outer_deopt_id
  /\ ic_data = "null" /\ sticky = FALSE
  /\ pc = "idle" /\ optimized = FALSE
  /\ cfh_base = <<>> /\ old_base = <<>> /\ prev_deopt_id = 0
  /\ is_compiled = FALSE /\ result = "none" /\ bailed = FALSE
  /\ entry = "function"

(***************************************************************************)
(* LongJump::Jump: set the sticky error and resume at the setjmp whose     *)
(* jump is the current long_jump_base.                                     *)
(***************************************************************************)
Handler == [f \in {"cfh", "cpfh"} |->
              IF f = "cfh" THEN "cfh_error" ELSE "cpfh_bailout"]

LongJump ==
  /\ sticky' = TRUE
  /\ pc' = Handler[lj[Len(lj)]]
  /\ bailed' = (lj[Len(lj)] = "cpfh")

(***************************************************************************)
(* The runtime's calls.  They are outside the excerpt (spec.md 4.4): a    *)
(* call of a function without code compiles it; a hot function with       *)
(* unoptimized code may be compiled optimized; optimized code may          *)
(* deoptimize, which counts and reinstalls the unoptimized code through    *)
(* CompileFunction.                                                        *)
(***************************************************************************)
CallCompileFunction ==
  /\ pc = "idle" /\ code = "none"
  /\ pc' = "cfh" /\ optimized' = FALSE /\ bailed' = FALSE
  /\ entry' = "function"
  /\ UNCHANGED <<shape, code, unopt, optimizable, deopt_count, lj, deopt_id,
                 ic_data, sticky, outer_deopt_id, locals, result>>

CallCompileOptimizedFunction ==
  /\ pc = "idle" /\ code = "unopt" /\ optimizable
  /\ deopt_count < MaxDeopt
  /\ pc' = "cfh" /\ optimized' = TRUE /\ bailed' = FALSE
  /\ entry' = "function"
  /\ UNCHANGED <<shape, code, unopt, optimizable, deopt_count, lj, deopt_id,
                 ic_data, sticky, outer_deopt_id, locals, result>>

Deoptimize ==
  /\ pc = "idle" /\ code = "opt"
  /\ deopt_count' = deopt_count + 1
  /\ pc' = "cfh" /\ optimized' = FALSE /\ bailed' = FALSE
  /\ entry' = "function"
  /\ UNCHANGED <<shape, code, unopt, optimizable, lj, deopt_id, ic_data,
                 sticky, outer_deopt_id, locals, result>>

(***************************************************************************)
(* The two other entries into CompileParsedFunctionHelper, for a function *)
(* the caller has parsed (compiler.cc:478-499) and for an expression      *)
(* fragment (compiler.cc:520-583).  Each sets its own jump (the "cfh"     *)
(* frame of the stack) and compiles unoptimized; its else-branch is the   *)
(* same as CompileFunctionHelper's (CFHError).                            *)
(***************************************************************************)
CallCompileParsedFunction ==
  /\ pc = "idle" /\ code = "none"
  /\ cfh_base' = lj
  /\ lj' = Append(lj, "cfh")
  /\ pc' = "cpfh" /\ optimized' = FALSE /\ bailed' = FALSE
  /\ entry' = "parsed"
  /\ UNCHANGED <<shape, code, unopt, optimizable, deopt_count, deopt_id,
                 ic_data, sticky, outer_deopt_id, old_base, prev_deopt_id,
                 is_compiled, result>>

\* ExecuteOnce compiles a dummy function it has just created, marked not
\* optimizable ("Manually generated AST, do not recompile").
CallExecuteOnce ==
  /\ pc = "idle" /\ result = "none"
  /\ cfh_base' = lj
  /\ lj' = Append(lj, "cfh")
  /\ optimizable' = FALSE
  /\ pc' = "cpfh" /\ optimized' = FALSE /\ bailed' = FALSE
  /\ entry' = "execute"
  /\ UNCHANGED <<shape, code, unopt, deopt_count, deopt_id, ic_data, sticky,
                 outer_deopt_id, old_base, prev_deopt_id, is_compiled, result>>

(***************************************************************************)
(* Compiler::Compile: set a jump, then tokenize the script and parse the   *)
(* library's compilation unit, which longjmps on a syntax error; the else  *)
(* branch is CFHError's.  Whether the source has an error is the script's, *)
(* so both outcomes are possible.                                          *)
(***************************************************************************)
CallCompile ==
  /\ pc = "idle"
  /\ cfh_base' = lj
  /\ lj' = Append(lj, "cfh")
  /\ pc' = "unit" /\ bailed' = FALSE
  /\ entry' = "library"
  /\ UNCHANGED <<shape, code, unopt, optimizable, deopt_count, deopt_id,
                 ic_data, sticky, outer_deopt_id, optimized, old_base,
                 prev_deopt_id, is_compiled, result>>

ParseCompilationUnit ==
  /\ pc = "unit"
  /\ \/ LongJump /\ UNCHANGED <<lj, result>>
     \/ /\ lj' = cfh_base
        /\ result' = "null" /\ pc' = "idle"
        /\ UNCHANGED <<sticky, bailed>>
  /\ UNCHANGED <<shape, entry, code, unopt, optimizable, deopt_count, deopt_id,
                 ic_data, outer_deopt_id, optimized, locals>>

(***************************************************************************)
(* Compiler::CompileAllFunctions for the class of the function: a function *)
(* that has code is skipped (the call returns no error); one without code  *)
(* is compiled through CompileFunction.                                    *)
(***************************************************************************)
CallCompileAllFunctions ==
  /\ pc = "idle"
  /\ IF code = "none"
     THEN /\ pc' = "cfh" /\ optimized' = FALSE /\ bailed' = FALSE
          /\ entry' = "function"
          /\ UNCHANGED result
     ELSE /\ result' = "null"
          /\ UNCHANGED <<pc, optimized, bailed, entry>>
  /\ UNCHANGED <<shape, code, unopt, optimizable, deopt_count, lj, deopt_id,
                 ic_data, sticky, outer_deopt_id, locals>>

(***************************************************************************)
(* CompileFunctionHelper (compiler.cc:397-460).                            *)
(***************************************************************************)
\* InstallUnoptimizedCode: patch the optimized code's entry and make the
\* unoptimized code current again; the function must have optimized code.
InstallUnoptimizedCode ==
  /\ code = "opt"
  /\ code' = "unopt"

\* Install the jump; an unoptimized compile of a function that already has
\* unoptimized code only reinstalls it (InstallUnoptimizedCode) and returns.
CFHInstallUnoptimized ==
  /\ pc = "cfh" /\ ~optimized /\ unopt
  /\ InstallUnoptimizedCode
  /\ result' = "null" /\ pc' = "idle"
  /\ cfh_base' = lj
  /\ UNCHANGED <<shape, entry, unopt, optimizable, deopt_count, lj, deopt_id, ic_data,
                 sticky, outer_deopt_id, optimized, old_base, prev_deopt_id,
                 is_compiled, bailed>>

\* Otherwise set the jump and parse; a parse error longjmps to it.
CFHParse ==
  /\ pc = "cfh" /\ ~(~optimized /\ unopt)
  /\ cfh_base' = lj
  /\ lj' = Append(lj, "cfh")
  /\ IF shape.parse_error
     THEN /\ sticky' = TRUE /\ pc' = "cfh_error" /\ bailed' = FALSE
     ELSE /\ pc' = "cpfh" /\ UNCHANGED <<sticky, bailed>>
  /\ UNCHANGED <<shape, entry, code, unopt, optimizable, deopt_count, deopt_id,
                 ic_data, outer_deopt_id, optimized, old_base, prev_deopt_id,
                 is_compiled, result>>

\* Mutant: the bailout path returns without restoring the base.
CFHAfterBailoutKeepsBase ==
  /\ pc = "cfh_after"
  /\ optimizable' = IF optimized /\ ~is_compiled THEN FALSE ELSE optimizable
  /\ lj' = IF optimized /\ ~is_compiled THEN lj ELSE cfh_base
  /\ result' = "null" /\ pc' = "idle"
  /\ UNCHANGED <<shape, entry, code, unopt, deopt_count, deopt_id, ic_data, sticky,
                 outer_deopt_id, optimized, locals, bailed>>

\* Mutant: an optimized compile that bailed out is retried.
CFHAfterRetries ==
  /\ pc = "cfh_after"
  /\ lj' = cfh_base
  /\ IF optimized /\ ~is_compiled
     THEN pc' = "cfh" /\ UNCHANGED result
     ELSE result' = "null" /\ pc' = "idle"
  /\ UNCHANGED <<shape, entry, code, unopt, optimizable, deopt_count, deopt_id,
                 ic_data, sticky, outer_deopt_id, optimized, locals, bailed>>

\* Mutant: set_is_optimizable(false) missing.
CFHAfterKeepsOptimizable ==
  /\ pc = "cfh_after"
  /\ lj' = cfh_base
  /\ result' = "null" /\ pc' = "idle"
  /\ UNCHANGED <<shape, entry, code, unopt, optimizable, deopt_count, deopt_id,
                 ic_data, sticky, outer_deopt_id, optimized, locals, bailed>>

\* After the helper returns: an optimized compile that bailed out disables
\* optimization for good; either way the base is restored and no error is
\* returned.
CFHAfter ==
  /\ pc = "cfh_after"
  /\ optimizable' = IF optimized /\ ~is_compiled THEN FALSE ELSE optimizable
  /\ lj' = cfh_base
  /\ result' = "null" /\ pc' = "idle"
  /\ UNCHANGED <<shape, entry, code, unopt, deopt_count, deopt_id, ic_data, sticky,
                 outer_deopt_id, optimized, locals, bailed>>

\* The else-branch of the setjmp: take and clear the sticky error, restore
\* the base and return the error.  CompileParsedFunction's and ExecuteOnce's
\* else-branches are the same.
CFHError ==
  /\ pc = "cfh_error"
  /\ sticky' = FALSE
  /\ lj' = cfh_base
  /\ result' = "error" /\ pc' = "idle"
  /\ UNCHANGED <<shape, entry, code, unopt, optimizable, deopt_count, deopt_id,
                 ic_data, outer_deopt_id, optimized, locals, bailed>>

(***************************************************************************)
(* CompileParsedFunctionHelper (compiler.cc:126-290).                      *)
(***************************************************************************)
\* Mutant: set_deopt_id(0) missing; the graph's ids follow the caller's.
CPFHEnterKeepsDeoptId ==
  /\ pc = "cpfh"
  /\ prev_deopt_id' = deopt_id
  /\ old_base' = lj
  /\ lj' = Append(lj, "cpfh")
  /\ bailed' = FALSE
  /\ pc' = "build"
  /\ UNCHANGED <<shape, entry, code, unopt, optimizable, deopt_count, deopt_id,
                 ic_data, sticky, outer_deopt_id, optimized, cfh_base,
                 is_compiled, result>>

\* Save the deopt id and the base, reset the deopt id, set bailout_jump.
CPFHEnter ==
  /\ pc = "cpfh"
  /\ prev_deopt_id' = deopt_id
  /\ deopt_id' = 0
  /\ old_base' = lj
  /\ lj' = Append(lj, "cpfh")
  /\ bailed' = FALSE
  /\ pc' = "build"
  /\ UNCHANGED <<shape, entry, code, unopt, optimizable, deopt_count, ic_data, sticky,
                 outer_deopt_id, optimized, cfh_base, is_compiled, result>>

\* Type feedback (unless the function deoptimized too often), then the
\* graph builder, which allocates deopt ids and may bail out.
Build ==
  /\ pc = "build"
  /\ ic_data' = IF optimized /\ deopt_count < Threshold THEN "feedback"
                ELSE ic_data
  /\ deopt_id' = deopt_id + GraphIds
  /\ IF shape.bail = "build" THEN LongJump
     ELSE /\ pc' = IF optimized THEN "ssa" ELSE "emit"
          /\ UNCHANGED <<sticky, bailed>>
  /\ UNCHANGED <<shape, entry, code, unopt, optimizable, deopt_count, lj,
                 outer_deopt_id, optimized, locals, result>>

\* ComputeSSA (optimized only): Rename bails out on catch entries.
ComputeSSA ==
  /\ pc = "ssa"
  /\ IF shape.bail = "ssa" THEN LongJump
     ELSE pc' = "optimize" /\ UNCHANGED <<sticky, bailed>>
  /\ UNCHANGED <<shape, entry, code, unopt, optimizable, deopt_count, lj, deopt_id,
                 ic_data, outer_deopt_id, optimized, locals, result>>

\* The optimizer pipeline and register allocation.
OptimizeGraph ==
  /\ pc = "optimize"
  /\ IF shape.bail = "optimize" THEN LongJump
     ELSE pc' = "emit" /\ UNCHANGED <<sticky, bailed>>
  /\ UNCHANGED <<shape, entry, code, unopt, optimizable, deopt_count, lj, deopt_id,
                 ic_data, outer_deopt_id, optimized, locals, result>>

\* Mutant: function.SetCode(code) missing for unoptimized code.
EmitAndFinalizeNoSetCode ==
  /\ pc = "emit"
  /\ code' = IF optimized THEN "opt" ELSE code
  /\ unopt' = (unopt \/ ~optimized)
  /\ is_compiled' = TRUE
  /\ pc' = "cpfh_exit"
  /\ UNCHANGED <<shape, entry, optimizable, deopt_count, lj, deopt_id, ic_data,
                 sticky, outer_deopt_id, optimized, cfh_base, old_base,
                 prev_deopt_id, result, bailed>>

\* Code generation and FinalizeCode: optimized code becomes current code;
\* unoptimized code becomes both the unoptimized and the current code.
EmitAndFinalize ==
  /\ pc = "emit"
  /\ code' = IF optimized THEN "opt" ELSE "unopt"
  /\ unopt' = (unopt \/ ~optimized)
  /\ is_compiled' = TRUE
  /\ pc' = "cpfh_exit"
  /\ UNCHANGED <<shape, entry, optimizable, deopt_count, lj, deopt_id, ic_data,
                 sticky, outer_deopt_id, optimized, cfh_base, old_base,
                 prev_deopt_id, result, bailed>>

\* The else-branch of the setjmp: clear the sticky error; not compiled.
CPFHBailout ==
  /\ pc = "cpfh_bailout"
  /\ sticky' = FALSE
  /\ is_compiled' = FALSE
  /\ pc' = "cpfh_exit"
  /\ UNCHANGED <<shape, entry, code, unopt, optimizable, deopt_count, lj, deopt_id,
                 ic_data, outer_deopt_id, optimized, cfh_base, old_base,
                 prev_deopt_id, result, bailed>>

\* Reset the global isolate state on both paths and return is_compiled.
CPFHExit ==
  /\ pc = "cpfh_exit"
  /\ ic_data' = "null"
  /\ lj' = old_base
  /\ deopt_id' = prev_deopt_id
  /\ pc' = IF entry = "function" THEN "cfh_after" ELSE "entry_after"
  /\ UNCHANGED <<shape, entry, code, unopt, optimizable, deopt_count, sticky,
                 outer_deopt_id, optimized, locals, result, bailed>>

\* CompileParsedFunction ignores the helper's result: it restores the base
\* and returns no error.
CPFAfter ==
  /\ pc = "entry_after" /\ entry = "parsed"
  /\ lj' = cfh_base
  /\ result' = "null" /\ pc' = "idle"
  /\ UNCHANGED <<shape, entry, code, unopt, optimizable, deopt_count, deopt_id,
                 ic_data, sticky, outer_deopt_id, optimized, locals, bailed>>

\* ExecuteOnce invokes the dummy function (DartEntry::InvokeStatic, which
\* returns the fragment's value or the error it raised), then restores the
\* base and returns that result.
ExecuteOnceInvoke ==
  /\ pc = "entry_after" /\ entry = "execute"
  /\ lj' = cfh_base
  /\ result' \in {"value", "error"} /\ pc' = "idle"
  /\ UNCHANGED <<shape, entry, code, unopt, optimizable, deopt_count, deopt_id,
                 ic_data, sticky, outer_deopt_id, optimized, locals, bailed>>

Next ==
  \/ CallCompileFunction \/ CallCompileOptimizedFunction \/ Deoptimize
  \/ CFHInstallUnoptimized \/ CFHParse \/ CFHAfter \/ CFHError
  \/ CPFHEnter \/ Build \/ ComputeSSA \/ OptimizeGraph \/ EmitAndFinalize
  \/ CPFHBailout \/ CPFHExit
  \/ CallCompileParsedFunction \/ CallExecuteOnce \/ CPFAfter
  \/ ExecuteOnceInvoke \/ CallCompile \/ ParseCompilationUnit
  \/ CallCompileAllFunctions

Spec == Init /\ [][Next]_vars

\* The steps of a compile, from the call into the driver to its return.
Compile ==
  \/ CFHInstallUnoptimized \/ CFHParse \/ CFHAfter \/ CFHError
  \/ CPFHEnter \/ Build \/ ComputeSSA \/ OptimizeGraph \/ EmitAndFinalize
  \/ CPFHBailout \/ CPFHExit \/ CPFAfter \/ ExecuteOnceInvoke
  \/ ParseCompilationUnit

(***************************************************************************)
(* A compile runs to its end on the mutator thread that called it: nothing *)
(* in it waits, so its steps are weakly fair.  The runtime's calls are     *)
(* not: it may never call the function again.                              *)
(***************************************************************************)
FairSpec == Spec /\ WF_vars(Compile)

(***************************************************************************)
(* Properties.                                                             *)
(***************************************************************************)
MaxDeoptId == IF \A d \in OuterDeoptIds : d <= GraphIds THEN GraphIds
              ELSE CHOOSE d \in OuterDeoptIds : \A e \in OuterDeoptIds : d >= e

TypeOK ==
  /\ shape \in Shapes
  /\ code \in {"none", "unopt", "opt"}
  /\ unopt \in BOOLEAN /\ optimizable \in BOOLEAN
  /\ deopt_count \in 0..MaxDeopt
  /\ lj \in Seq({"caller", "cfh", "cpfh"})
  /\ deopt_id \in 0..MaxDeoptId
  /\ ic_data \in {"null", "feedback"}
  /\ sticky \in BOOLEAN
  /\ pc \in Pcs
  /\ optimized \in BOOLEAN /\ is_compiled \in BOOLEAN /\ bailed \in BOOLEAN
  /\ result \in {"none", "null", "error", "value"}
  /\ entry \in {"function", "parsed", "execute", "library"}

\* Whatever stage failed, once the driver has returned to the runtime the
\* isolate is as the runtime left it: its own long-jump base, its deopt id,
\* no IC-data scratch array and no sticky error (spec.md 5; the resets at
\* compiler.cc:283-286, 430, 454-456).
IsolateStateRestored ==
  pc = "idle" =>
    /\ lj = <<"caller">>
    /\ deopt_id = outer_deopt_id
    /\ ic_data = "null"
    /\ ~sticky

\* An optimized compile that bailed out falls back: the function is never
\* optimized again, keeps its unoptimized code, and the runtime sees no
\* error (spec.md 4.4; compiler.cc:421-431).
OptimizationFailureFallsBack ==
  pc = "idle" /\ optimized /\ bailed =>
    /\ ~optimizable
    /\ code = "unopt"
    /\ result = "null"

\* A compile the runtime sees succeed leaves the function with code; a
\* compile that fails returns an error (spec.md 4.4, and the runtime entry
\* CompileFunction, which calls the code after a null error).  For
\* CompileParsedFunction and ExecuteOnce, which drop the helper's result,
\* this holds only because an unoptimized compile does not bail out.  A
\* library compile (Compiler::Compile) compiles no function.
CompiledOrError ==
  pc = "idle" /\ entry # "library" /\ result \in {"null", "value"} => code # "none"

\* Every call into the driver returns to the runtime, whatever stage fails:
\* no bailout or parse error leads the helpers back into a compile.
CompileReturns == pc # "idle" ~> pc = "idle"
=============================================================================
