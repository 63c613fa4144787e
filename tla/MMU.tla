-------------------------------- MODULE MMU --------------------------------
(***************************************************************************)
(* Demand paging: the translation of src/hardware/cpu/mmu.c, the swap      *)
(* files of src/hardware/memory/swap.c and the reverse mapping page_map of *)
(* src/headers/memory.h, used by instructions the way                      *)
(* src/hardware/cpu/isa.c uses them: translate, then access the physical   *)
(* address.  A page is one content, an address is its page.                *)
(*                                                                         *)
(* Nothing in the repository fills page tables or page_map before the      *)
(* first translation; a kernel outside of it has to.  Init is what such a  *)
(* kernel may leave behind: some pages resident, the others in swap files, *)
(* every frame bound to an entry.  The TLB is compiled out, so every       *)
(* translation walks.                                                      *)
(***************************************************************************)
EXTENDS Integers

CONSTANTS
    MAX_NUM_PHYSICAL_PAGE,  \* frames; 16 in the program
    NUM_PAGE,               \* virtual pages the program uses
    NoTable,                \* pages whose tables are missing above the last level
    Content,                \* what a page may hold
    Written,                \* contents the program writes
    PageImage,              \* the content each page starts with
    Zeros                   \* the content of memory nobody has written

ASSUME FrameAssumption   == MAX_NUM_PHYSICAL_PAGE \in Nat \ {0}
ASSUME PageAssumption    == NUM_PAGE \in Nat /\ NoTable \subseteq 1 .. NUM_PAGE
ASSUME ContentAssumption ==
    /\ Zeros \in Content
    /\ Written \subseteq Content
    /\ PageImage \in [1 .. NUM_PAGE -> Content]

Frame == 0 .. MAX_NUM_PHYSICAL_PAGE - 1
Page  == 1 .. NUM_PAGE

\* At boot the file of page p has address p; 0 is the address in a zeroed
\* descriptor, and no page's.
Slot == 0 .. NUM_PAGE

\* Where pte4 of an unused frame points: an entry that is never present.
Blank == 0

VARIABLES
    pte,        \* the last-level entry of each page
    page_map,   \* the descriptor of each frame
    pm,         \* the content of each frame
    disk,       \* the swap files
    walked,     \* the last translation, until the access it was made for
    running     \* the process has not exited

vars == <<pte, page_map, pm, disk, walked, running>>

\* pte4_t is a union: an entry that is present holds a frame, any other a disk
\* address.
Resident(f) == [present |-> 1, ppn |-> f]
Swapped(s)  == [present |-> 0, daddr |-> s]

\* How a file holds the 512 numbers of its page: one on each line, as the comments have
\* it; in blocks of 63 characters, as fgets() takes them into its buffer of 64; or
\* joined as swap_out() prints them.  Or there is no such file.
Form == {"absent", "lines", "blocks", "joined"}

\* No translation is waiting for its access.
Nowhere == [page |-> 0, ppn |-> 0]

Descriptor ==
    [dirty : {0, 1}, time : 0 .. MAX_NUM_PHYSICAL_PAGE, pte4 : Page \cup {Blank}, daddr : Slot]

TypeOK ==
    /\ pte \in [Page -> [present : {1}, ppn : Frame] \cup [present : {0}, daddr : Slot]]
    /\ page_map \in [Frame -> Descriptor]
    /\ pm \in [Frame -> Content]
    /\ disk \in [Slot -> [file : Form, content : Content]]
    /\ walked \in [page : Page \cup {0}, ppn : Frame]
    /\ running \in BOOLEAN

IsResident(p) == pte[p].present = 1

-----------------------------------------------------------------------------
(* The state a kernel leaves (outside of the repository) *)

\* Which page, if any, boots into each frame.
BootOwners ==
    {owner \in [Frame -> (Page \ NoTable) \cup {Blank}] :
        \A f, g \in Frame : owner[f] # Blank /\ owner[f] = owner[g] => f = g}

\* A frame in use may be flagged dirty and have aged; the descriptor of a free
\* frame is zeros.  Files may be written as swap.c describes them or as it reads them.
Init ==
    /\ \E owner \in BootOwners,
          flag \in [Frame -> {0, 1}],
          age \in [Frame -> 0 .. MAX_NUM_PHYSICAL_PAGE] :
        /\ \A f \in Frame : owner[f] = Blank => flag[f] = 0 /\ age[f] = 0
        /\ pte = [p \in Page |->
                    IF \E f \in Frame : owner[f] = p
                    THEN Resident(CHOOSE f \in Frame : owner[f] = p)
                    ELSE Swapped(p)]
        /\ page_map = [f \in Frame |-> [dirty |-> flag[f],
                                        time  |-> age[f],
                                        pte4  |-> owner[f],
                                        daddr |-> owner[f]]]
        /\ pm = [f \in Frame |-> IF owner[f] = Blank THEN Zeros ELSE PageImage[owner[f]]]
    /\ \E form \in [Page -> {"lines", "blocks"}] :
        disk = [s \in Slot |-> IF s = 0
                               THEN [file |-> "absent", content |-> Zeros]
                               ELSE [file |-> form[s], content |-> PageImage[s]]]
    /\ walked = Nowhere
    /\ running = TRUE

-----------------------------------------------------------------------------
(* swap.c *)

\* The file is written as numbers padded with blanks and joined without line
\* breaks ...
swap_out(s, c) == [disk EXCEPT ![s] = [file |-> "joined", content |-> c]]

\* ... and read in 512 calls of fgets(), each of whose results has to be a number and
\* nothing else.  A line comes with its line break, on which string2uint() exits; so it
\* does on what it gets of a joined file, a second 0x behind the first number or the
\* blanks ahead of it.  An absent file fails an assertion.
CanSwapIn(d, s) == d[s].file = "blocks"

-----------------------------------------------------------------------------
(* page_fault_handler *)

IsFree(f) == page_map[f].pte4 = Blank

\* 1. The first frame whose entry is not present.
FreeFrame(f) == IsFree(f) /\ \A g \in Frame : g < f => ~IsFree(g)

\* The scans for a victim keep the first frame with the highest time.
Oldest(f, S) ==
    /\ f \in S
    /\ \A g \in S : /\ page_map[g].time <= page_map[f].time
                    /\ g < f => page_map[g].time < page_map[f].time

Clean == {f \in Frame : page_map[f].dirty = 0}

\* 2. The oldest clean frame, if its time is below the number of frames.
CleanVictim(f) ==
    /\ \A g \in Frame : ~IsFree(g)
    /\ Oldest(f, Clean)
    /\ page_map[f].time < MAX_NUM_PHYSICAL_PAGE

\* 3. The oldest frame of all.
DirtyVictim(f) ==
    /\ \A g \in Frame : ~IsFree(g) /\ ~CleanVictim(g)
    /\ Oldest(f, Frame)

\* A free frame is bound to the page: nothing is read from disk, and the
\* descriptor keeps the disk address it had.
DescriptorsKeepSlot(p, f) ==
    [page_map EXCEPT ![f] = [dirty |-> 0, time |-> 0, pte4 |-> p, daddr |-> @.daddr]]

FaultFree(p, f) ==
    /\ FreeFrame(f)
    /\ page_map' = DescriptorsKeepSlot(p, f)
    /\ pte' = [pte EXCEPT ![p] = Resident(f)]
    /\ UNCHANGED <<pm, disk, running>>

\* The victim's entry takes over its disk address, ...
EntriesKeepVictim(p, f) == [pte EXCEPT ![p] = Resident(f)]
EntriesOnlyClearPresent(p, f) ==
    [pte EXCEPT ![page_map[f].pte4] = [present |-> 0, ppn |-> f], ![p] = Resident(f)]
EntriesAfter(p, f) ==
    [pte EXCEPT ![page_map[f].pte4] = Swapped(page_map[f].daddr), ![p] = Resident(f)]

\* ... the page's content is read into the frame, ...
MemoryFromVictimSlot(p, f) == [pm EXCEPT ![f] = disk'[page_map[f].daddr].content]
MemoryAfter(p, f) == [pm EXCEPT ![f] = disk'[pte[p].daddr].content]

\* ... and the descriptor takes over the page's disk address.
DescriptorsAfter(p, f) ==
    [page_map EXCEPT ![f] = [dirty |-> 0, time |-> 0, pte4 |-> p, daddr |-> pte[p].daddr]]

\* If the page cannot be read the process ends in the middle of this.
Replace(p, f) ==
    \/ /\ CanSwapIn(disk', pte[p].daddr)
       /\ pte' = EntriesAfter(p, f)
       /\ pm' = MemoryAfter(p, f)
       /\ page_map' = DescriptorsAfter(p, f)
       /\ UNCHANGED running
    \/ /\ ~CanSwapIn(disk', pte[p].daddr)
       /\ running' = FALSE
       /\ UNCHANGED <<pte, pm, page_map>>

FaultClean(p, f) ==
    /\ CleanVictim(f)
    /\ UNCHANGED disk
    /\ Replace(p, f)

FaultDirtyReadsFirst(p, f) ==
    /\ DirtyVictim(f)
    /\ disk' = swap_out(page_map[f].daddr, disk[pte[p].daddr].content)
    /\ Replace(p, f)

FaultDirty(p, f) ==
    /\ DirtyVictim(f)
    /\ disk' = swap_out(page_map[f].daddr, pm[f])
    /\ Replace(p, f)

page_fault_handler(p) ==
    \E f \in Frame : FaultFree(p, f) \/ FaultClean(p, f) \/ FaultDirty(p, f)

-----------------------------------------------------------------------------
(* page_walk, and the access an instruction makes with its result *)

WalkHit(p) ==
    /\ IsResident(p)
    /\ walked' = [page |-> p, ppn |-> pte[p].ppn]
    /\ UNCHANGED <<pte, page_map, pm, disk, running>>

\* After the fault has been handled page_walk falls through to its last line and
\* returns 0: the first byte of frame 0.
WalkFault(p) ==
    /\ ~IsResident(p)
    /\ page_fault_handler(p)
    /\ walked' = [page |-> p, ppn |-> 0]

\* A missing table is allocated, and the process exits.
WalkNoTable(p) ==
    /\ p \in NoTable
    /\ running' = FALSE
    /\ UNCHANGED <<pte, page_map, pm, disk, walked>>

va2pa(p) ==
    /\ running
    /\ walked = Nowhere
    /\ \/ p \notin NoTable /\ (WalkHit(p) \/ WalkFault(p))
       \/ WalkNoTable(p)

\* cpu_read64bits_dram, cpu_readinst_dram
ReadAccess ==
    /\ running
    /\ walked # Nowhere
    /\ walked' = Nowhere
    /\ UNCHANGED <<pte, page_map, pm, disk, running>>

\* cpu_write64bits_dram: nothing tells the descriptor that the frame is dirty.
WriteAccess(c) ==
    /\ running
    /\ walked # Nowhere
    /\ pm' = [pm EXCEPT ![walked.ppn] = c]
    /\ walked' = Nowhere
    /\ UNCHANGED <<pte, page_map, disk, running>>

Next ==
    \/ \E p \in Page : va2pa(p)
    \/ ReadAccess
    \/ \E c \in Written : WriteAccess(c)

Spec == Init /\ [][Next]_vars

-----------------------------------------------------------------------------
(* Properties *)

\* The disk address and the content of a page, wherever the page is.
SlotOf(p)    == IF IsResident(p) THEN page_map[pte[p].ppn].daddr ELSE pte[p].daddr
ContentOf(p) == IF IsResident(p) THEN pm[pte[p].ppn] ELSE disk[pte[p].daddr].content

\* page_map and the page tables are inverse to each other, so no two pages share
\* a frame and the victim of a frame is the page that really is in it.
ReverseMapping ==
    /\ \A f \in Frame : page_map[f].pte4 # Blank =>
            IsResident(page_map[f].pte4) /\ pte[page_map[f].pte4].ppn = f
    /\ \A p \in Page : IsResident(p) => page_map[pte[p].ppn].pte4 = p

\* The page that the step binds to a free frame.
TakesFreeFrame(p) == \E f \in Frame : FreeFrame(f) /\ page_map'[f].pte4 = p

\* Through all evictions and returns a page keeps its disk address: only a fault
\* that finds a free frame loses one.
SlotLostOnlyToFreeFrame ==
    [][\A p \in Page : SlotOf(p)' # SlotOf(p) => TakesFreeFrame(p)]_vars

\* A page that leaves memory is found again at the disk address its frame had: the file
\* there is as it was and the frame not flagged dirty, or it holds the content of the
\* frame in the form swap_out() gives it.  A page that comes back, other than into a free
\* frame, has its content from a file that can be read: not from one of lines, and never
\* from one that was written at an eviction.
PagesMoveThroughFiles ==
    [][\A p \in Page :
        /\ IsResident(p) /\ ~IsResident(p)' =>
            LET f == pte[p].ppn
                s == page_map[f].daddr
            IN  /\ pte'[p].daddr = s
                /\ \/ page_map[f].dirty = 0 /\ disk'[s] = disk[s]
                   \/ disk'[s] = [file |-> "joined", content |-> pm[f]]
        /\ ~IsResident(p) /\ IsResident(p)' =>
            LET file == disk[pte[p].daddr]
            IN  \/ TakesFreeFrame(p)
                \/ file = [file |-> "blocks", content |-> pm'[pte'[p].ppn]]]_vars

\* The content of a page changes only by a write to its frame, or in one of the
\* two ways the handler loses it: a free frame is taken without reading the page,
\* or a frame that differs from its file without being flagged is dropped as
\* clean.  In particular no page's file is ever overwritten with another page.
ContentLossHasACause ==
    [][\A p \in Page : ContentOf(p)' # ContentOf(p) =>
        \/ walked # Nowhere /\ IsResident(p) /\ walked.ppn = pte[p].ppn
        \/ TakesFreeFrame(p)
        \/ /\ IsResident(p) /\ ~IsResident(p)'
           /\ page_map[pte[p].ppn].dirty = 0
           /\ pm[pte[p].ppn] # disk[SlotOf(p)].content]_vars
=============================================================================
