------------------------------ MODULE MCSRAM ------------------------------
(* A set of two lines over memory lines of two bytes, of which a spilled     *)
(* record covers the first with its state and the second with its block.    *)
(* Each memory line starts out different from the others.                   *)
EXTENDS SRAM

ProgramByTag == {[t \in Tag |-> [o \in Offset |-> (t + o) % BYTES]]}
=============================================================================
