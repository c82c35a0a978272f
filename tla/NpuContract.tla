---------------------------- MODULE NpuContract ----------------------------
(***************************************************************************)
(* What program_machine may rely on when execute_npu completes: one of four *)
(* outcomes, each confined to its part of the state.  These are the kinds   *)
(* of outcome Machine offers for a compute word (src/sim/semantic/          *)
(* holon_npu_npu.cpp, and complete in holon_npu_semantic.cpp).              *)
(***************************************************************************)
EXTENDS Integers

CONSTANTS Causes, Words

VARIABLES
    scratchpad,  \* Local memory.
    local,       \* Vector, predicate, view and tile registers.
    outcome      \* What the instruction returned.

(* An instruction that traps changes neither memory nor registers.         *)
Trap ==
    /\ outcome' \in [kind : {"fault"}, cause : Causes, value : Words]
    /\ UNCHANGED <<scratchpad, local>>

(* A scalar result is committed by retire_npu, not here.                   *)
Result ==
    /\ outcome' \in [kind : {"write"}, value : Words]
    /\ UNCHANGED <<scratchpad, local>>

Compute ==
    /\ outcome' = [kind |-> "done"]
    /\ UNCHANGED scratchpad

Store ==
    /\ outcome' = [kind |-> "done"]
    /\ UNCHANGED local

Next == Trap \/ Result \/ Compute \/ Store

Spec == outcome = [kind |-> "none"] /\ [][Next]_<<scratchpad, local, outcome>>
=============================================================================
