---------------------------- MODULE MCPageSpace ----------------------------
(***************************************************************************)
(* PageSpace for TLC: three page regions, regular pages of four units with *)
(* a one-unit header (three allocatable units), large pages rounded to two *)
(* units, and a ceiling of three pages, so that the bump scan, page        *)
(* release, the free list and the ceiling are all reached.                 *)
(***************************************************************************)
EXTENDS PageSpace, TLC

CONSTANTS p1, p2, p3

MCPageIds == {p1, p2, p3}

MCSymmetry == Permutations(MCPageIds)

=============================================================================
