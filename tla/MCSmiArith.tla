----------------------------- MODULE MCSmiArith -----------------------------
(***************************************************************************)
(* SmiArith at an 8-bit register: Smis -64..63, every pair of them, and  *)
(* two heap-object pointers, six Mints and arrays of length up to 3; for  *)
(* ==, the Smis 0 and 1, null and six objects at distinct pointers.        *)
(***************************************************************************)
EXTENDS X64Compare, X64Locations

MCNonSmiWords == {1, -127}

\* Mints at both ends of the 8-bit range and inside it, of either sign, so
\* that SmiTag drops a 0 and a 1 as the top bit.
MCMintValues == {-128, -100, -65, 64, 85, 127}

\* Two A objects (Object's ==), a C, and three B objects of which two are
\* equal by B's == without being identical.
MCEqHeap ==
  { HeapOperand(1, Object("Null", 0, 0, 0)),
    HeapOperand(3, Object("A", 0, 0, 0)), HeapOperand(5, Object("A", 0, 0, 0)),
    HeapOperand(7, Object("C", 0, 0, 0)),
    HeapOperand(9, Object("B", 0, 0, 0)), HeapOperand(11, Object("B", 0, 0, 0)),
    HeapOperand(13, Object("B", 1, 0, 0)) }

\* A behaviour either executes one instruction or generates code for one:
\* the two never share a step, so their states are not multiplied.
MCInit == Init /\ LocInit

MCNext ==
  \/ phase = "idle" /\ X64Next /\ UNCHANGED locVars
  \/ Fresh /\ LocNext /\ UNCHANGED vars

MCSpec == MCInit /\ [][MCNext]_<<vars, locVars>>
=============================================================================
