------------------------------- MODULE SRAM -------------------------------
(***************************************************************************)
(* One set of the write-back, write-allocate cache of                      *)
(* src/hardware/cpu/sram.c, and the part of the physical memory that maps  *)
(* to it, moved over the bus of src/hardware/memory/dram.c in whole lines. *)
(* The sets never touch each other's lines or addresses, so one set stands *)
(* for all; an address of the set is a tag and an offset.                  *)
(*                                                                         *)
(* Each call of sram_cache_read and sram_cache_write is one step.  The     *)
(* definitions follow the code where it departs from the comments in it:   *)
(* a read hit does not refresh the line's timer, a dirty victim is written *)
(* over the line that is about to be read, starting with the header of the *)
(* victim's record, and a write that replaces a line keeps its old tag.    *)
(***************************************************************************)
EXTENDS Integers

CONSTANTS
    NUM_CACHE_LINE_PER_SET,  \* lines of the set; 8 in the program
    NUM_TAG,                 \* memory lines that map to the set; 16 in the program
    BLOCK,                   \* bytes of a line; 64 in the program
    HEADER,                  \* bytes of the record ahead of its block; 16 in the program
    BYTES,                   \* values of a byte; 256 in the program
    Program,                 \* what memory may hold when the program starts
    Data,                    \* bytes the program writes
    MAX_TIME                 \* bound: no line's timer is driven beyond it

ASSUME LineAssumption   == NUM_CACHE_LINE_PER_SET \in Nat \ {0}
ASSUME MemoryAssumption == NUM_TAG \in Nat \ {0} /\ BLOCK \in Nat \ {0} /\ HEADER \in 0 .. BLOCK
\* The state's code 2 and the numbers of the tags fit into a byte.
ASSUME ByteAssumption   == BYTES \in Nat /\ BYTES > 2 /\ NUM_TAG <= BYTES
\* The timer fits into the two low bytes of its field.
ASSUME TimeAssumption   == MAX_TIME \in Nat /\ MAX_TIME < BYTES * BYTES

VARIABLES
    lines,      \* the lines of the set
    pm,         \* the memory lines, by tag
    delivered   \* what the last sram_cache_read returned

vars == <<lines, pm, delivered>>

LineIndex == 0 .. NUM_CACHE_LINE_PER_SET - 1
Tag       == 0 .. NUM_TAG - 1
Offset    == 0 .. BLOCK - 1
Byte      == 0 .. BYTES - 1
Block     == [Offset -> Byte]

\* A program image is any contents of memory.
ASSUME ProgramAssumption == Program \subseteq [Tag -> Block] /\ Data \subseteq Byte

sram_cacheline_t ==
    [state : {"INVALID", "CLEAN", "DIRTY"}, time : 0 .. MAX_TIME, tag : Tag, block : Block]

TypeOK ==
    /\ lines \in [LineIndex -> sram_cacheline_t]
    /\ pm \in [Tag -> Block]
    /\ delivered \in Byte

\* The cache is static and starts as zeros; memory holds the loaded program;
\* nothing has been read.
Init ==
    /\ lines = [i \in LineIndex |->
                    [state |-> "INVALID", time |-> 0, tag |-> 0, block |-> [o \in Offset |-> 0]]]
    /\ pm \in Program
    /\ delivered = 0

-----------------------------------------------------------------------------
Holds(i, t) == lines[i].state # "INVALID" /\ lines[i].tag = t

\* The search for a hit stops at the first line that holds the tag.
Hit(i, t) ==
    /\ i \in LineIndex
    /\ Holds(i, t)
    /\ \A k \in LineIndex : k < i => ~Holds(k, t)

MissFromLineOne(t) == \A i \in LineIndex : i > 0 => ~Holds(i, t)
Miss(t) == \A i \in LineIndex : ~Holds(i, t)

\* The scan remembers the last invalid line ...
Free(i) ==
    /\ i \in LineIndex
    /\ lines[i].state = "INVALID"
    /\ \A k \in LineIndex : k > i => lines[k].state # "INVALID"

Full == \A i \in LineIndex : lines[i].state # "INVALID"

\* ... and the first line with the highest timer.
Victim(i) ==
    /\ i \in LineIndex
    /\ \A k \in LineIndex :
        /\ lines[k].time <= lines[i].time
        /\ k < i => lines[k].time < lines[i].time

\* Every access first adds one to the timer of every line.
Aged == [i \in LineIndex |-> [lines[i] EXCEPT !.time = @ + 1]]
MayAge == \A i \in LineIndex : lines[i].time < MAX_TIME

\* The first BLOCK bytes of a dirty line's record, little-endian: 4 bytes of
\* state, 4 of timer, 8 of tag, then the beginning of its block.
Image(line) ==
    [o \in Offset |->
        CASE o >= HEADER           -> line.block[o - HEADER]
          [] o = 0 /\ o < HEADER   -> 2
          [] o = 4 /\ o < HEADER   -> line.time % BYTES
          [] o = 5 /\ o < HEADER   -> (line.time \div BYTES) % BYTES
          [] o = 8 /\ o < HEADER   -> line.tag
          [] OTHER                 -> 0]

\* bus_write_cacheline(paddr, victim): a dirty victim goes to the line of the
\* address that missed, as the record it is.
SpillAnyLine(line, t) == IF line.state # "INVALID" THEN [pm EXCEPT ![t] = Image(line)] ELSE pm
Spill(line, t) == IF line.state = "DIRTY" THEN [pm EXCEPT ![t] = Image(line)] ELSE pm

LoadedAsMESI(t, b) == [state |-> "EXCLUSIVE", time |-> 0, tag |-> t, block |-> b]
Loaded(t, b) == [state |-> "CLEAN", time |-> 0, tag |-> t, block |-> b]

-----------------------------------------------------------------------------
(* sram_cache_read *)

\* line is a copy of the array's element, so its timer is reset in the copy.
ReadHit(t, o) ==
    /\ \E i \in LineIndex : Hit(i, t) /\ delivered' = lines[i].block[o]
    /\ lines' = Aged
    /\ UNCHANGED pm

ReadFill(t, o) ==
    /\ Miss(t)
    /\ \E i \in LineIndex : Free(i) /\ lines' = [Aged EXCEPT ![i] = Loaded(t, pm[t])]
    /\ delivered' = pm[t][o]
    /\ UNCHANGED pm

ReadReplace(t, o) ==
    /\ Miss(t)
    /\ Full
    /\ \E i \in LineIndex :
        /\ Victim(i)
        /\ pm' = Spill(Aged[i], t)
        /\ lines' = [Aged EXCEPT ![i] = Loaded(t, pm'[t])]
    /\ delivered' = pm'[t][o]

sram_cache_read(t, o) == MayAge /\ (ReadHit(t, o) \/ ReadFill(t, o) \/ ReadReplace(t, o))

-----------------------------------------------------------------------------
(* sram_cache_write *)

WriteHitStaysClean(t, o, d) ==
    /\ \E i \in LineIndex :
        /\ Hit(i, t)
        /\ lines' = [Aged EXCEPT ![i].time = 0, ![i].block[o] = d]
    /\ UNCHANGED <<pm, delivered>>

WriteHit(t, o, d) ==
    /\ \E i \in LineIndex :
        /\ Hit(i, t)
        /\ lines' = [Aged EXCEPT ![i].state = "DIRTY", ![i].time = 0, ![i].block[o] = d]
    /\ UNCHANGED <<pm, delivered>>

\* The line keeps the timer it had while it was invalid.
WriteFill(t, o, d) ==
    /\ Miss(t)
    /\ \E i \in LineIndex :
        /\ Free(i)
        /\ lines' = [Aged EXCEPT ![i].state = "DIRTY",
                                 ![i].tag = t,
                                 ![i].block = [pm[t] EXCEPT ![o] = d]]
    /\ UNCHANGED <<pm, delivered>>

\* The tag of the victim is left as it was.
WriteReplace(t, o, d) ==
    /\ Miss(t)
    /\ Full
    /\ \E i \in LineIndex :
        /\ Victim(i)
        /\ pm' = Spill(Aged[i], t)
        /\ lines' = [Aged EXCEPT ![i].state = "DIRTY",
                                 ![i].time = 0,
                                 ![i].block = [pm'[t] EXCEPT ![o] = d]]
    /\ UNCHANGED delivered

sram_cache_write(t, o, d) ==
    MayAge /\ (WriteHit(t, o, d) \/ WriteFill(t, o, d) \/ WriteReplace(t, o, d))

-----------------------------------------------------------------------------
Next ==
    \E t \in Tag, o \in Offset :
        \/ sram_cache_read(t, o)
        \/ \E d \in Data : sram_cache_write(t, o, d)

Spec == Init /\ [][Next]_vars

-----------------------------------------------------------------------------
(* Properties *)

\* A memory line is in the cache at most once, so that the order in which the
\* hit loop looks at the lines cannot matter.
UniqueTags ==
    \A i, k \in LineIndex : \A t \in Tag : Holds(i, t) /\ Holds(k, t) => i = k

\* A line in state CLEAN equals memory, so that dropping it loses nothing,
\* whatever dirty lines have been spilled in the meantime and wherever to.
CleanLinesMatchMemory ==
    \A i \in LineIndex : lines[i].state = "CLEAN" => lines[i].block = pm[lines[i].tag]

\* The byte at an address as the next read would find it without replacing.
ByteAt(t, o) ==
    IF Miss(t) THEN pm[t][o] ELSE lines[CHOOSE i \in LineIndex : Holds(i, t)].block[o]

Visible == [t \in Tag |-> [o \in Offset |-> ByteAt(t, o)]]

Memory == INSTANCE FlatMemory WITH byte <- Visible

\* The step reads into the place of a dirty line, or writes into the place of any: a
\* miss in a set without a free line.  What it may cost is the line that missed and the
\* line that is replaced; all others are seen as before.
LossyReplacement ==
    \E t \in Tag, o \in Offset, i \in LineIndex :
        /\ Victim(i)
        /\ \/ lines[i].state = "DIRTY" /\ ReadReplace(t, o)
           \/ \E d \in Data : WriteReplace(t, o, d)
        /\ \A u \in Tag \ {t, lines[i].tag} : Visible'[u] = Visible[u]

\* Cache and memory together are the flat memory, but for lossy replacements:
\* hits, misses with a free line and reads that replace a clean line deliver the
\* byte last written to their address and disturb no other, and a lossy replacement
\* disturbs no third line.
FlatButForReplacement == Memory!Init /\ [][Memory!Next \/ LossyReplacement]_vars

\* A program that uses no more memory lines than the set has sees nothing but
\* the flat memory.  (Of instances with NUM_TAG <= NUM_CACHE_LINE_PER_SET.)
ImplementsMemory == Memory!Spec

\* The comment at line 25: data that was modified in the cache is written to
\* memory when it is replaced.
ReplacedDataReachesMemory ==
    [][\A i \in LineIndex :
        LET line == lines[i]
        IN  line.state = "DIRTY" /\ (lines'[i].tag # line.tag \/ lines'[i].state # "DIRTY")
                => pm'[line.tag] = line.block]_vars
=============================================================================
