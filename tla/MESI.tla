------------------------------- MODULE MESI --------------------------------
(***************************************************************************)
(* The MESI simulator of src/mains/mesi.c: one cache line per core, one    *)
(* memory cell, and a main loop that lets a random core read, write or     *)
(* evict and then checks the states of all lines.                          *)
(*                                                                         *)
(* Every call of the program runs to its end before the next one begins,   *)
(* so a call is one step here; the interleaving is the order in which the  *)
(* loop draws cores and operations.  The loop's limit of 100000 rounds is  *)
(* left out: every property below is about all runs, however long.         *)
(***************************************************************************)
EXTENDS Integers, FiniteSets

CONSTANTS
    NUM_PROCESSOR,  \* number of cores; 2048 in the program
    Values,         \* what a line or memory can hold; 0..1023 in the program
    InitialMemory   \* what mem_value starts with; 256 in the program

ASSUME ProcessorAssumption == NUM_PROCESSOR \in Nat \ {0}
\* 0 is the value an invalidated line is reset to.
ASSUME ValuesAssumption == 0 \in Values /\ InitialMemory \in Values

VARIABLES
    cache,          \* the line of each core
    mem_value,      \* memory
    read_value      \* where main() receives what a read delivers

vars == <<cache, mem_value, read_value>>

Core  == 0 .. NUM_PROCESSOR - 1
State == {"MODIFIED", "EXCLUSIVE", "SHARED", "INVALID"}

Line(s, v)  == [state |-> s, value |-> v]
InvalidatedLeftover == Line("INVALID", -1)
Invalidated == Line("INVALID", 0)

TypeOK ==
    /\ cache \in [Core -> [state : State, value : Values]]
    /\ mem_value \in Values
    /\ read_value \in Values

\* read_value is an uninitialised local of main().
Init ==
    /\ cache = [i \in Core |-> Invalidated]
    /\ mem_value = InitialMemory
    /\ read_value \in Values

-----------------------------------------------------------------------------
Valid(i) == cache[i].state # "INVALID"

\* The scan of the other cores stops at the first one that holds a copy.
Supplier(i, j) ==
    /\ j \in Core \ {i}
    /\ Valid(j)
    /\ \A k \in Core \ {i} : Valid(k) => j <= k

NoSupplier(i) == \A j \in Core \ {i} : ~Valid(j)

\* A dirty supplier is written back before it loses its state.
WriteBackFrom(j) ==
    mem_value' = IF cache[j].state = "MODIFIED" THEN cache[j].value ELSE mem_value

-----------------------------------------------------------------------------
(* read_cacheline *)

ReadHit(i) ==
    /\ Valid(i)
    /\ read_value' = cache[i].value
    /\ UNCHANGED <<cache, mem_value>>

ReadMissCachedFromMemory(i) ==
    /\ ~Valid(i)
    /\ \E j \in Core :
        /\ Supplier(i, j)
        /\ WriteBackFrom(j)
        /\ cache' = [cache EXCEPT ![j].state = "SHARED", ![i] = Line("SHARED", mem_value)]
        /\ read_value' = mem_value

ReadMissCached(i) ==
    /\ ~Valid(i)
    /\ \E j \in Core :
        /\ Supplier(i, j)
        /\ WriteBackFrom(j)
        /\ cache' = [cache EXCEPT ![j].state = "SHARED",
                                  ![i] = Line("SHARED", cache[j].value)]
        /\ read_value' = cache[j].value

ReadMissMemory(i) ==
    /\ ~Valid(i)
    /\ NoSupplier(i)
    /\ cache' = [cache EXCEPT ![i] = Line("EXCLUSIVE", mem_value)]
    /\ read_value' = mem_value
    /\ UNCHANGED mem_value

Read(i) == ReadHit(i) \/ ReadMissCached(i) \/ ReadMissMemory(i)

-----------------------------------------------------------------------------
(* write_cacheline *)

WriteModified(i, v) ==
    /\ cache[i].state = "MODIFIED"
    /\ cache' = [cache EXCEPT ![i].value = v]
    /\ UNCHANGED <<mem_value, read_value>>

\* Line 223 compares the state with MODIFIED where it means to assign it, so
\* the line keeps the state EXCLUSIVE.
WriteExclusive(i, v) ==
    /\ cache[i].state = "EXCLUSIVE"
    /\ cache' = [cache EXCEPT ![i].value = v]
    /\ UNCHANGED <<mem_value, read_value>>

OnlyCopy(i, v) == [j \in Core |-> IF j = i THEN Line("MODIFIED", v) ELSE Invalidated]

WriteShared(i, v) ==
    /\ cache[i].state = "SHARED"
    /\ cache' = OnlyCopy(i, v)
    /\ UNCHANGED <<mem_value, read_value>>

\* A single MODIFIED or EXCLUSIVE holder is invalidated alone; the SHARED case
\* invalidates every other core.
WriteMissCached(i, v) ==
    /\ ~Valid(i)
    /\ \E j \in Core :
        /\ Supplier(i, j)
        /\ WriteBackFrom(j)
        /\ cache' = IF cache[j].state = "SHARED"
                    THEN OnlyCopy(i, v)
                    ELSE [cache EXCEPT ![j] = Invalidated, ![i] = Line("MODIFIED", v)]
    /\ UNCHANGED read_value

WriteMissMemory(i, v) ==
    /\ ~Valid(i)
    /\ NoSupplier(i)
    /\ cache' = [cache EXCEPT ![i] = Line("MODIFIED", v)]
    /\ UNCHANGED <<mem_value, read_value>>

Write(i, v) ==
    \/ WriteModified(i, v)
    \/ WriteExclusive(i, v)
    \/ WriteShared(i, v)
    \/ WriteMissCached(i, v)
    \/ WriteMissMemory(i, v)

-----------------------------------------------------------------------------
(* evict_cacheline *)

EvictModifiedNoWriteBack(i) ==
    /\ cache[i].state = "MODIFIED"
    /\ cache' = [cache EXCEPT ![i] = Invalidated]
    /\ UNCHANGED <<mem_value, read_value>>

EvictModifiedResetFirst(i) ==
    /\ cache[i].state = "MODIFIED"
    /\ cache' = [cache EXCEPT ![i] = Invalidated]
    /\ mem_value' = Invalidated.value
    /\ UNCHANGED read_value

EvictModified(i) ==
    /\ cache[i].state = "MODIFIED"
    /\ mem_value' = cache[i].value
    /\ cache' = [cache EXCEPT ![i] = Invalidated]
    /\ UNCHANGED read_value

EvictExclusive(i) ==
    /\ cache[i].state = "EXCLUSIVE"
    /\ cache' = [cache EXCEPT ![i] = Invalidated]
    /\ UNCHANGED <<mem_value, read_value>>

EvictSharedNoPromotion(i) ==
    /\ cache[i].state = "SHARED"
    /\ cache' = [cache EXCEPT ![i] = Invalidated]
    /\ UNCHANGED <<mem_value, read_value>>

\* When one sharer is left it becomes the exclusive holder.
EvictShared(i) ==
    LET left == {j \in Core \ {i} : cache[j].state = "SHARED"}
    IN  /\ cache[i].state = "SHARED"
        /\ cache' = [j \in Core |->
                        IF j = i THEN Invalidated
                        ELSE IF left = {j} THEN Line("EXCLUSIVE", cache[j].value)
                        ELSE cache[j]]
        /\ UNCHANGED <<mem_value, read_value>>

EvictInvalid(i) ==
    /\ cache[i].state = "INVALID"
    /\ UNCHANGED vars

Evict(i) == EvictModified(i) \/ EvictExclusive(i) \/ EvictShared(i) \/ EvictInvalid(i)

-----------------------------------------------------------------------------
(* main *)

Count(s) == Cardinality({i \in Core : cache[i].state = s})

\* The table of legal combinations that main() tests after every operation.
check_state ==
    \/ Count("MODIFIED") = 1 /\ Count("INVALID") = NUM_PROCESSOR - 1
    \/ Count("EXCLUSIVE") = 1 /\ Count("INVALID") = NUM_PROCESSOR - 1
    \/ Count("SHARED") >= 2 /\ Count("INVALID") = NUM_PROCESSOR - Count("SHARED")
    \/ Count("INVALID") = NUM_PROCESSOR

\* The loop goes on only while the check succeeds; otherwise main() exits.
Next ==
    /\ check_state
    /\ \E i \in Core :
        \/ Read(i)
        \/ \E v \in Values : Write(i, v)
        \/ Evict(i)

Spec == Init /\ [][Next]_vars

-----------------------------------------------------------------------------
(* Properties *)

\* The assertion main() makes of itself: after every operation of every core
\* the states of all lines are one of the four legal combinations, so main()
\* never takes the exit behind "faliled to check MESI state!".
CheckState == check_state

\* Two cores that hold a copy hold the same value, whatever route (supplied by
\* a core, read from memory, written) each copy took.
ValuesAgree == \A i, j \in Core : Valid(i) /\ Valid(j) => cache[i].value = cache[j].value

\* What the next read by any core returns.
Visible ==
    IF \E i \in Core : Valid(i)
    THEN cache[CHOOSE i \in Core : Valid(i)].value
    ELSE mem_value

\* No read, no eviction of a MODIFIED or SHARED line and no eviction of an
\* EXCLUSIVE line that really is clean changes what the cores see: apart from
\* writes, the one step that loses a value is the eviction of an EXCLUSIVE line
\* that was written while line 223 left it EXCLUSIVE.
OnlyExclusiveEvictionLoses ==
    [][Visible' # Visible =>
        \/ \E i \in Core, v \in Values : Write(i, v) /\ Visible' = v
        \/ \E i \in Core : EvictExclusive(i) /\ cache[i].value # mem_value]_vars

\* The cores together behave as one cell: a read delivers the visible value,
\* memory only ever receives the visible value, and dropping a line leaves
\* either the visible value or memory's.
Cell == INSTANCE WriteBackCell
            WITH visible <- Visible, backing <- mem_value, delivered <- read_value
ImplementsCell == Cell!Spec

=============================================================================
