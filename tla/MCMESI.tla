------------------------------ MODULE MCMESI ------------------------------
(* Four cores and three values: a supplier with cores before and after it, a *)
(* sharer that leaves two or one behind, and a value that is neither the     *)
(* reset value 0 nor the initial memory.                                     *)
EXTENDS MESI
=============================================================================
