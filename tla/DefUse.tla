------------------------------- MODULE DefUse -------------------------------
(***************************************************************************)
(* What the def-use information of the IL promises, without the intrusive  *)
(* lists (spec.md section 3, "Value", and the design note on use-lists):   *)
(* a multimap from each definition to the operand slots that use it.  A    *)
(* slot is <<consumer, "input" or "env", index>>.                          *)
(*                                                                         *)
(* The only ways the multimap changes are:                                 *)
(*   - a new consumer is attached, bringing its own fresh slots;           *)
(*   - ReplaceUsesWith moves every use of one definition to another.       *)
(* Removing an instruction from the block list leaves the multimap alone.  *)
(***************************************************************************)
CONSTANTS Defs, Consumers, Slots

VARIABLE uses

SlotsOf(c) == {s \in Slots : s[1] = c}

UsedSlots == UNION {uses[d] : d \in Defs}

TypeOK == uses \in [Defs -> SUBSET Slots]

\* No operand slot refers to two definitions.
SlotsDisjoint ==
  \A d, e \in Defs : d # e => uses[d] \cap uses[e] = {}

Init == TypeOK /\ SlotsDisjoint

\* Consumer c starts to use definitions through slots nobody used before.
Attach(c) ==
  /\ uses' \in [Defs -> SUBSET Slots]
  /\ SlotsOf(c) \cap UsedSlots = {}
  /\ \A d \in Defs : /\ uses[d] \subseteq uses'[d]
                     /\ uses'[d] \ uses[d] \subseteq SlotsOf(c)
  /\ SlotsDisjoint'

\* Every use of d becomes a use of o (Definition::ReplaceUsesWith).
Move(d, o) ==
  /\ d # o
  /\ uses' = [uses EXCEPT ![o] = @ \cup uses[d], ![d] = {}]

Next == \/ \E c \in Consumers : Attach(c)
        \/ \E d, o \in Defs : Move(d, o)

Spec == Init /\ [][Next]_uses
=============================================================================
