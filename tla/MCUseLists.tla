----------------------------- MODULE MCUseLists -----------------------------
(***************************************************************************)
(* Two blocks as Rename leaves them, for UseLists.  In both, p0 (class    *)
(* Smi) and p1 (class Bool) are the parameters and locals, and an          *)
(* instruction's environment holds the locals and its stack operands.      *)
(***************************************************************************)
EXTENDS UseLists

Param(cid) == [kind |-> "param", cid |-> cid, in |-> <<>>, env |-> <<>>]
True(env) == [kind |-> "const", const |-> "true", cid |-> "bool",
              in |-> <<>>, env |-> env]
Use(in, env) == [kind |-> "user", cid |-> "other", in |-> in, env |-> env]
CheckSmi(in, env) == [kind |-> "checksmi", cid |-> "other", in |-> in, env |-> env]
StrictEq(in, env) == [kind |-> "strict", op |-> "eq", cid |-> "bool",
                      in |-> in, env |-> env]
Return(in, env) == [kind |-> "return", cid |-> "other", in |-> in, env |-> env]

(* f(p0, p1) { CheckSmi(p0); CheckSmi(p0); return g(p1 === true); }       *)
(* The constant has one use.                                                *)
MCProgram ==
  << Param("smi"),                         \* 1  p0
     Param("bool"),                        \* 2  p1
     True(<<1, 2>>),                       \* 3  true
     CheckSmi(<<1>>, <<1, 2, 1>>),         \* 4
     CheckSmi(<<1>>, <<1, 2, 1>>),         \* 5
     StrictEq(<<2, 3>>, <<1, 2, 2, 3>>),   \* 6  p1 === true
     Use(<<6>>, <<1, 2, 6>>),              \* 7  g(...)
     Return(<<7>>, <<1, 2, 7>>) >>         \* 8

(* f(p0, p1) { var t = true; g(p1 === t); return p1 === t; }               *)
(* Renaming replaces each load of t by a copy of the use of the constant,  *)
(* so the constant's bind has uses in both comparisons and in the          *)
(* environments where t is live.                                            *)
MCSharedProgram ==
  << Param("smi"),                         \* 1  p0
     Param("bool"),                        \* 2  p1
     True(<<1, 2>>),                       \* 3  t = true
     StrictEq(<<2, 3>>, <<1, 2, 3>>),      \* 4  p1 === t
     Use(<<4>>, <<1, 2, 3, 4>>),           \* 5  g(...)
     StrictEq(<<2, 3>>, <<1, 2, 3>>),      \* 6  p1 === t
     Return(<<6>>, <<1, 2, 3>>) >>         \* 7

\* The checks a type-feedback pass may insert.
MCSpare ==
  << [kind |-> "checkclass", icd |-> <<"bool">>, cid |-> "other"],
     [kind |-> "checksmi", cid |-> "other"],
     [kind |-> "checksmi", cid |-> "other"] >>
=============================================================================
