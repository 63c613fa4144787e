---------------------------- MODULE FlatMemory ----------------------------
(***************************************************************************)
(* What the SRAM cache and the DRAM behind it promise together: a memory   *)
(* of bytes in which a read delivers the byte last written to its address. *)
(* An address is a pair of a line's tag and an offset in the line.         *)
(***************************************************************************)

CONSTANTS
    Tag, Offset,    \* the addresses
    Byte,           \* what a byte may hold
    Data            \* what may be written

VARIABLES
    byte,       \* the byte at each address
    delivered   \* what the last read returned

memoryVars == <<byte, delivered>>

Init ==
    /\ byte \in [Tag -> [Offset -> Byte]]
    /\ delivered \in Byte

Read(t, o) ==
    /\ delivered' = byte[t][o]
    /\ UNCHANGED byte

Write(t, o, d) ==
    /\ byte' = [byte EXCEPT ![t][o] = d]
    /\ UNCHANGED delivered

Next ==
    \E t \in Tag, o \in Offset :
        \/ Read(t, o)
        \/ \E d \in Data : Write(t, o, d)

Spec == Init /\ [][Next]_memoryVars
=============================================================================
