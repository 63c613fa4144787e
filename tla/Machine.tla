------------------------------ MODULE Machine ------------------------------
(***************************************************************************)
(* The memory system as an instruction meets it: a virtual address is      *)
(* translated (module MMU, which may swap pages), and the physical address *)
(* is accessed by the functions of src/hardware/memory/dram.c, byte by     *)
(* byte: data through the cache (module SRAM), instructions directly.      *)
(*                                                                         *)
(* A page offset has 12 bits, as many as a cache index and a cache offset  *)
(* together.  So one set of the cache holds exactly one line of each       *)
(* frame, and its tag is the number of the frame: the memory of module     *)
(* SRAM and the frames of module MMU are the same pm, and the one line     *)
(* stands for its page.  A word fills the line.                            *)
(*                                                                         *)
(* Nothing keeps the three in step: page_fault_handler swaps frames and    *)
(* the loader writes them behind the cache, and a store never flags its    *)
(* frame as dirty.  The properties say what that may cost, and that        *)
(* nothing else is lost.                                                   *)
(***************************************************************************)
EXTENDS Integers

CONSTANTS
    NUM_CACHE_LINE_PER_SET,     \* lines of the set; 8
    MAX_NUM_PHYSICAL_PAGE,      \* frames, and the lines that map to the set; 16
    NUM_PAGE,                   \* virtual pages the program uses
    BYTES,                      \* values of a byte; 256
    WORD_BYTES,                 \* sizeof(uint64_t); 8
    INT_BYTES,                  \* sizeof(int); 4
    HEADER,                     \* bytes of a cache line's record ahead of its block
    MAX_TIME,                   \* bound: no line's timer is driven beyond it
    Stores,                     \* words that the program stores
    Texts,                      \* instructions that the loader writes
    TextPages,                  \* pages it writes them to, and they are fetched from
    Images                      \* the word each page starts with

ASSUME WidthAssumption ==
    /\ BYTES \in Nat /\ BYTES > 2
    /\ WORD_BYTES \in Nat /\ INT_BYTES \in 1 .. WORD_BYTES /\ HEADER \in 0 .. WORD_BYTES

\* The numbers of the frames fit into a byte, and a timer into two.
ASSUME SizeAssumption ==
    /\ NUM_CACHE_LINE_PER_SET \in Nat \ {0}
    /\ MAX_NUM_PHYSICAL_PAGE \in Nat \ {0} /\ MAX_NUM_PHYSICAL_PAGE <= BYTES
    /\ NUM_PAGE \in Nat
    /\ MAX_TIME \in Nat /\ MAX_TIME < BYTES * BYTES

\* Powers of BYTES are what they are; the provers know nothing of ^.
ASSUME PowerAssumption ==
    /\ BYTES^0 = 1
    /\ \A i \in 0 .. WORD_BYTES - 1 : BYTES^(i + 1) = BYTES * BYTES^i

Words == 0 .. BYTES^WORD_BYTES - 1

ASSUME ImageAssumption ==
    /\ Stores \subseteq Words /\ Texts \subseteq Words
    /\ TextPages \subseteq 1 .. NUM_PAGE
    /\ Images \in [1 .. NUM_PAGE -> Words]

VARIABLES
    lines, pm, delivered,                       \* of module SRAM, pm also of module MMU
    pte, page_map, disk, walked, running,       \* of module MMU
    task                                        \* the access under way

cacheVars  == <<lines, delivered>>
pagingVars == <<pte, page_map, disk, running>>
vars       == <<lines, pm, delivered, pte, page_map, disk, walked, running, task>>

\* The byte of a word at an offset, little-endian
ByteOf(w, o) == (w \div BYTES^o) % BYTES
Bytes(w)     == [o \in 0 .. WORD_BYTES - 1 |-> ByteOf(w, o)]

Cache == INSTANCE SRAM WITH
            NUM_TAG <- MAX_NUM_PHYSICAL_PAGE,
            BLOCK   <- WORD_BYTES,
            Program <- {},
            Data    <- 0 .. BYTES - 1

Paging == INSTANCE MMU WITH
            NoTable   <- {},
            Content   <- Cache!Block,
            Written   <- {},
            PageImage <- [p \in 1 .. NUM_PAGE |-> Bytes(Images[p])],
            Zeros     <- Bytes(0)

Page == Paging!Page

Idle == [op |-> "none", moved |-> 0, word |-> 0]

TypeOK ==
    /\ Cache!TypeOK
    /\ Paging!TypeOK
    /\ task \in [op : {"none", "read", "write", "fetch", "load"}, moved : 0 .. WORD_BYTES, word : Words]
    /\ task.op = "none" <=> walked = Paging!Nowhere

\* The cache starts empty; memory, tables and swap files are as a kernel leaves
\* them, with every frame in use just loaded.
Init ==
    /\ lines = [i \in Cache!LineIndex |->
                    [state |-> "INVALID", time |-> 0, tag |-> 0, block |-> Bytes(0)]]
    /\ delivered = 0
    /\ Paging!Init
    /\ \A f \in Paging!Frame : page_map[f].time = 0
    /\ task = Idle

-----------------------------------------------------------------------------
(* An access begins with the translation of its address *)

Begin(p, op, w) ==
    /\ Paging!va2pa(p)
    /\ task' = [op |-> op, moved |-> 0, word |-> w]
    /\ UNCHANGED cacheVars

\* ... and goes on with a byte at a time.
Moves(op) == running /\ task.op = op /\ task.moved < WORD_BYTES

\* The byte that is stored at an offset: the word is shifted by eight bits for each.
ShiftedByBits(w, o) == (w \div 2^o) % BYTES
StoredByte(w, o) == (w \div BYTES^o) % BYTES

\* What byte b adds to the word when it is read at offset o.  The byte is promoted to
\* int before it is shifted: the int's top bit is its sign, and a shift by the width
\* of int or more is undefined.  The processor takes the shift count modulo the
\* width, and a compiler that sees the count may leave nothing of the byte.
Promoted(b, i) ==
    b * BYTES^i + (IF i = INT_BYTES - 1 /\ 2 * b >= BYTES THEN BYTES^WORD_BYTES - BYTES^INT_BYTES ELSE 0)
ShiftedFromOne(b, o) == {Promoted(b, o + 1)}
Shifted(b, o) == IF o < INT_BYTES THEN {Promoted(b, o)} ELSE {0, Promoted(b, o % INT_BYTES)}

cpu_read64bits_dram ==
    /\ Moves("read")
    /\ Cache!sram_cache_read(walked.ppn, task.moved)
    /\ \E v \in Shifted(delivered', task.moved) :
        task' = [task EXCEPT !.moved = @ + 1, !.word = (@ + v) % BYTES^WORD_BYTES]
    /\ UNCHANGED <<pagingVars, walked>>

cpu_write64bits_dram ==
    /\ Moves("write")
    /\ Cache!sram_cache_write(walked.ppn, task.moved, StoredByte(task.word, task.moved))
    /\ task' = [task EXCEPT !.moved = @ + 1]
    /\ UNCHANGED <<pagingVars, walked>>

cpu_readinst_dram ==
    /\ Moves("fetch")
    /\ delivered' = pm[walked.ppn][task.moved]
    /\ task' = [task EXCEPT !.moved = @ + 1]
    /\ UNCHANGED <<lines, pm, pagingVars, walked>>

\* An instruction shorter than its place in memory is followed by zeros.
cpu_writeinst_dram ==
    /\ Moves("load")
    /\ pm' = [pm EXCEPT ![walked.ppn][task.moved] = ByteOf(task.word, task.moved)]
    /\ task' = [task EXCEPT !.moved = @ + 1]
    /\ UNCHANGED <<cacheVars, pagingVars, walked>>

\* The instruction has its word, and nothing remembers its bytes.
Return ==
    /\ running
    /\ task.moved = WORD_BYTES
    /\ walked' = Paging!Nowhere
    /\ task' = Idle
    /\ delivered' = 0
    /\ UNCHANGED <<lines, pm, pagingVars>>

Next ==
    \/ \E p \in Page :
        \/ Begin(p, "read", 0)
        \/ \E w \in Stores : Begin(p, "write", w)
    \/ \E p \in TextPages :
        \/ Begin(p, "fetch", 0)
        \/ \E w \in Texts : Begin(p, "load", w)
    \/ cpu_read64bits_dram
    \/ cpu_write64bits_dram
    \/ cpu_readinst_dram
    \/ cpu_writeinst_dram
    \/ Return

Spec == Init /\ [][Next]_vars

-----------------------------------------------------------------------------
(* Properties *)

\* What the program would load from a page, without faults and replacements: its
\* frame as the cache shows it, or its file.
Seen ==
    [p \in Page |-> IF Paging!IsResident(p) THEN Cache!Visible[pte[p].ppn]
                                            ELSE disk[pte[p].daddr].content]

\* Virtual memory: each page is a line of a flat memory.
Virtual == INSTANCE FlatMemory WITH
            Tag <- Page, Offset <- Cache!Offset, Byte <- Cache!Byte, Data <- Cache!Byte,
            byte <- Seen

Cached(f)       == ~Cache!Miss(f)
CacheDiffers(f) == Cache!Visible[f] # pm[f]

\* The translation of the access ended in a page fault, which translates to frame 0.
Mistranslated ==
    ~(Paging!IsResident(walked.page) /\ pte[walked.page].ppn = walked.ppn)

\* The access misses in a full set, and replaces by a write, or replaces a line that is
\* dirty or no longer what its frame holds.
Replaces ==
    /\ Cache!Full /\ Cache!Miss(walked.ppn)
    /\ \/ task.op = "write"
       \/ \E i \in Cache!LineIndex :
            Cache!Victim(i) /\ (lines[i].state = "DIRTY" \/ CacheDiffers(lines[i].tag))

\* Each byte of an access reaches the page and the offset it was made for and no
\* other, so that translation, paging and cache together are a flat virtual memory
\* (module FlatMemory), but for four causes: the access of a page fault, a lossy
\* replacement, an instruction fetched while the cache holds other bytes, and an
\* instruction loaded while the cache holds the line.
BytesReachTheirPage ==
    [][walked # Paging!Nowhere /\ walked' = walked =>
        \/ Mistranslated
        \/ task.op \in {"read", "write"} /\ Replaces
        \/ task.op = "fetch" /\ CacheDiffers(walked.ppn)
        \/ task.op = "load" /\ Cached(walked.ppn)
        \/ /\ task.op \in {"read", "fetch"}
           /\ Virtual!Read(walked.page, task.moved)
        \/ /\ task.op \in {"write", "load"}
           /\ Virtual!Write(walked.page, task.moved, ByteOf(task.word, task.moved))]_vars

\* A translation changes what the program sees of a page only if it binds the page to
\* a free frame without reading it; if it evicts the page while the cache differs
\* from its frame, or drops a frame that is not flagged but differs from its file; or
\* if it reads the page into a frame of which the cache holds a line.
PagesSurviveTranslation ==
    [][walked = Paging!Nowhere => \A p \in Page : Seen[p]' # Seen[p] =>
        \/ Paging!TakesFreeFrame(p)
        \/ /\ Paging!IsResident(p) /\ ~Paging!IsResident(p)'
           /\ \/ CacheDiffers(pte[p].ppn)
              \/ /\ page_map[pte[p].ppn].dirty = 0
                 /\ pm[pte[p].ppn] # disk[Paging!SlotOf(p)].content
        \/ ~Paging!IsResident(p) /\ Paging!IsResident(p)' /\ Cached(pte'[p].ppn)]_vars

Done(op) == task.op = op /\ task.moved = WORD_BYTES

\* A load delivers the word that its line holds if that is no negative int and no
\* larger than one, although the line may have been replaced and filled on the way.
SmallWordsAreLoaded ==
    Done("read") =>
        \A w \in 0 .. BYTES^INT_BYTES \div 2 - 1 :
            Cache!Visible[walked.ppn] = Bytes(w) => task.word = w

\* A store that finds its line in the cache, or a line for it, lands as a whole; one
\* that replaced a line has not left its line in the cache.
StoresLandWhole ==
    Done("write") /\ Cached(walked.ppn) => Cache!Visible[walked.ppn] = Bytes(task.word)
=============================================================================
