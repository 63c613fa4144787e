--------------------------- MODULE MCSRAMHistory ---------------------------
EXTENDS SRAMHistory

ProgramOfZeros == {[t \in Tag |-> [o \in Offset |-> 0]]}
=============================================================================
