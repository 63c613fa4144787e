----------------------------- MODULE MMUProofs -----------------------------
(***************************************************************************)
(* Proofs about demand paging, for any number of frames and pages, any     *)
(* choice of pages without tables and any initial placement.               *)
(***************************************************************************)
EXTENDS MMU, TLAPS

\* The slots behind the proof that no page's file is overwritten with another
\* page: a disk address other than 0 belongs to one page, a frame whose content
\* may be written to disk has such an address, and an unused frame has not.
SlotsApart == \A p, q \in Page : p # q /\ SlotOf(p) # 0 => SlotOf(p) # SlotOf(q)
WrittenFramesHaveSlots ==
    \A f \in Frame : page_map[f].dirty = 1 \/ page_map[f].time >= MAX_NUM_PHYSICAL_PAGE
                        => page_map[f].daddr # 0
FreeFramesHaveNone == \A f \in Frame : IsFree(f) => page_map[f].daddr = 0

\* The inductive invariant, in two parts: where pages are, and where their
\* content goes.
MapInv  == TypeOK /\ ReverseMapping
SlotInv == SlotsApart /\ WrittenFramesHaveSlots /\ FreeFramesHaveNone

-----------------------------------------------------------------------------
\* An entry holds a frame or a disk address, by its present bit.
LEMMA EntryTypes ==
    ASSUME TypeOK, NEW p \in Page
    PROVE  /\ IsResident(p) => pte[p].ppn \in Frame
           /\ ~IsResident(p) => pte[p].daddr \in Slot
  BY DEF TypeOK, IsResident

\* A frame in use holds a resident page.
LEMMA Occupant ==
    ASSUME MapInv, NEW f \in Frame, ~IsFree(f)
    PROVE  /\ page_map[f].pte4 \in Page
           /\ IsResident(page_map[f].pte4)
           /\ pte[page_map[f].pte4].ppn = f
  BY DEF MapInv, TypeOK, Descriptor, IsFree, ReverseMapping

\* Boot places each page in at most one frame and leaves the others in their
\* files.
LEMMA InitInv == Init => MapInv /\ SlotInv
<1> SUFFICES ASSUME Init PROVE MapInv /\ SlotInv
  OBVIOUS
<1> USE ContentAssumption, PageAssumption, FrameAssumption
<1>1. PICK owner \in BootOwners, flag \in [Frame -> {0, 1}],
           age \in [Frame -> 0 .. MAX_NUM_PHYSICAL_PAGE] :
        /\ \A f \in Frame : owner[f] = Blank => flag[f] = 0 /\ age[f] = 0
        /\ pte = [p \in Page |->
                    IF \E f \in Frame : owner[f] = p
                    THEN Resident(CHOOSE f \in Frame : owner[f] = p)
                    ELSE Swapped(p)]
        /\ page_map = [f \in Frame |-> [dirty |-> flag[f], time |-> age[f],
                                        pte4 |-> owner[f], daddr |-> owner[f]]]
        /\ pm = [f \in Frame |-> IF owner[f] = Blank THEN Zeros ELSE PageImage[owner[f]]]
  BY DEF Init
<1>2. /\ owner \in [Frame -> Page \cup {Blank}]
      /\ \A f, g \in Frame : owner[f] # Blank /\ owner[f] = owner[g] => f = g
  BY <1>1 DEF BootOwners
<1>3. Blank = 0 /\ 0 \notin Page /\ Page \subseteq Slot /\ 0 \in Slot
  BY DEF Blank, Page, Slot
<1>4. ASSUME NEW p \in Page, NEW f \in Frame, owner[f] = p
      PROVE  pte[p] = Resident(f)
  <2>1. (CHOOSE g \in Frame : owner[g] = p) = f
    BY <1>2, <1>3, <1>4
  <2> QED
    BY <1>1, <1>4, <2>1
<1>5. ASSUME NEW p \in Page, \A f \in Frame : owner[f] # p
      PROVE  pte[p] = Swapped(p)
  BY <1>1, <1>5
<1>6. TypeOK
  <2>1. pte \in [Page -> [present : {1}, ppn : Frame] \cup [present : {0}, daddr : Slot]]
    <3>1. ASSUME NEW p \in Page
          PROVE  pte[p] \in [present : {1}, ppn : Frame] \cup [present : {0}, daddr : Slot]
      <4>1. CASE \E f \in Frame : owner[f] = p
        <5>1. PICK f \in Frame : pte[p] = Resident(f)
          BY <1>4, <4>1
        <5>2. Resident(f) \in [present : {1}, ppn : Frame]
          BY DEF Resident
        <5> QED
          BY <5>1, <5>2
      <4>2. CASE \A f \in Frame : owner[f] # p
        <5>1. pte[p] = Swapped(p) /\ p \in Slot
          BY <1>3, <1>5, <4>2
        <5>2. Swapped(p) \in [present : {0}, daddr : Slot]
          BY <5>1 DEF Swapped
        <5> QED
          BY <5>1, <5>2
      <4> QED
        BY <4>1, <4>2
    <3> QED
      BY <1>1, <3>1
  <2>2. page_map \in [Frame -> Descriptor]
    BY <1>1, <1>2, <1>3 DEF Descriptor
  <2>3. pm \in [Frame -> Content]
    BY <1>1, <1>2, <1>3 DEF Page
  <2>4. disk \in [Slot -> [file : Form, content : Content]]
    <3>1. PICK form \in [Page -> {"lines", "blocks"}] :
            disk = [s \in Slot |-> IF s = 0 THEN [file |-> "absent", content |-> Zeros]
                                            ELSE [file |-> form[s], content |-> PageImage[s]]]
      BY DEF Init
    <3>2. \A s \in Slot \ {0} : s \in Page
      BY PageAssumption DEF Slot, Page
    <3>3. \A s \in Slot \ {0} : form[s] \in Form /\ PageImage[s] \in Content
      BY <3>2, ContentAssumption DEF Page, Form
    <3> QED
      BY <3>1, <3>3, ContentAssumption DEF Form
  <2>5. walked \in [page : Page \cup {0}, ppn : Frame] /\ running \in BOOLEAN
    <3>1. 0 \in Frame
      BY DEF Frame
    <3> QED
      BY <3>1 DEF Init, Nowhere
  <2> QED
    BY <2>1, <2>2, <2>3, <2>4, <2>5 DEF TypeOK
<1>7. ReverseMapping
  <2>1. \A f \in Frame : page_map[f].pte4 = owner[f] /\ page_map[f].daddr = owner[f]
    BY <1>1
  <2>2. \A f \in Frame : owner[f] # Blank => owner[f] \in Page
    BY <1>2
  <2>3. ASSUME NEW f \in Frame, page_map[f].pte4 # Blank
        PROVE  IsResident(page_map[f].pte4) /\ pte[page_map[f].pte4].ppn = f
    <3>1. owner[f] \in Page /\ pte[owner[f]] = Resident(f)
      BY <1>4, <2>1, <2>2, <2>3
    <3> QED
      BY <2>1, <3>1 DEF IsResident, Resident
  <2>4. ASSUME NEW p \in Page, IsResident(p)
        PROVE  page_map[pte[p].ppn].pte4 = p
    <3>1. pte[p] # Swapped(p)
      <4> Swapped(p).present = 0
        BY DEF Swapped
      <4> QED
        BY <2>4 DEF IsResident
    <3>2. PICK f \in Frame : owner[f] = p
      BY <1>5, <3>1
    <3>3. pte[p] = Resident(f)
      BY <1>4, <3>2
    <3>4. pte[p].ppn = f
      BY <3>3 DEF Resident
    <3> QED
      BY <2>1, <3>2, <3>4
  <2> QED
    BY <2>3, <2>4 DEF ReverseMapping
<1>8. \A p \in Page : SlotOf(p) = p
  <2> TAKE p \in Page
  <2>1. CASE \E f \in Frame : owner[f] = p
    <3>1. PICK f \in Frame : owner[f] = p
      BY <2>1
    <3>2. pte[p] = Resident(f) /\ page_map[f].daddr = p
      BY <1>1, <1>4, <3>1
    <3>3. IsResident(p) /\ pte[p].ppn = f
      BY <3>2 DEF IsResident, Resident
    <3> QED
      BY <3>2, <3>3 DEF SlotOf
  <2>2. CASE ~\E f \in Frame : owner[f] = p
    <3>1. pte[p] = Swapped(p)
      BY <1>5, <2>2
    <3>2. ~IsResident(p) /\ pte[p].daddr = p
      BY <3>1 DEF IsResident, Swapped
    <3> QED
      BY <3>2 DEF SlotOf
  <2> QED
    BY <2>1, <2>2
<1>9. SlotsApart
  BY <1>8 DEF SlotsApart
<1>10. WrittenFramesHaveSlots /\ FreeFramesHaveNone
  BY <1>1, <1>2, <1>3 DEF WrittenFramesHaveSlots, FreeFramesHaveNone, IsFree
<1> QED
  BY <1>6, <1>7, <1>9, <1>10 DEF MapInv, SlotInv

-----------------------------------------------------------------------------
(* What one fault does to the entries and the descriptors *)

\* Page p moves into frame f, whose occupant, if any, leaves memory; no other
\* entry and no other descriptor changes.
Moves(p, f) ==
    /\ pte' \in [Page -> [present : {1}, ppn : Frame] \cup [present : {0}, daddr : Slot]]
    /\ page_map' \in [Frame -> Descriptor]
    /\ pte'[p] = Resident(f)
    /\ page_map'[f].pte4 = p
    /\ \A q \in Page : q # p /\ q # page_map[f].pte4 => pte'[q] = pte[q]
    /\ ~IsFree(f) => pte'[page_map[f].pte4] = Swapped(page_map[f].daddr)
    /\ \A g \in Frame : g # f => page_map'[g] = page_map[g]

\* What a fault into a free frame moves, and what it leaves.
LEMMA FreeMoves ==
    ASSUME MapInv, NEW p \in Page, NEW f \in Frame, FaultFree(p, f)
    PROVE  Moves(p, f) /\ page_map'[f].daddr = page_map[f].daddr
<1> USE PageAssumption, FrameAssumption
<1>1. IsFree(f) /\ p # Blank
  BY DEF FaultFree, FreeFrame, Page, Blank
<1>2. pte' = [pte EXCEPT ![p] = Resident(f)]
  BY DEF FaultFree
<1>3. page_map' = [page_map EXCEPT
            ![f] = [dirty |-> 0, time |-> 0, pte4 |-> p, daddr |-> page_map[f].daddr]]
  BY DEF FaultFree, DescriptorsKeepSlot
<1>4. pte' \in [Page -> [present : {1}, ppn : Frame] \cup [present : {0}, daddr : Slot]]
  BY <1>2 DEF MapInv, TypeOK, Resident
<1>5. page_map' \in [Frame -> Descriptor]
  <2>1. page_map[f].daddr \in Slot
    BY DEF MapInv, TypeOK, Descriptor
  <2>2. [dirty |-> 0, time |-> 0, pte4 |-> p, daddr |-> page_map[f].daddr] \in Descriptor
    BY <2>1 DEF Descriptor
  <2> QED
    BY <1>3, <2>2 DEF MapInv, TypeOK
<1>6. pte'[p] = Resident(f) /\ \A q \in Page : q # p => pte'[q] = pte[q]
  BY <1>2 DEF MapInv, TypeOK
<1>7. /\ page_map'[f].pte4 = p
      /\ page_map'[f].daddr = page_map[f].daddr
      /\ \A g \in Frame : g # f => page_map'[g] = page_map[g]
  BY <1>3 DEF MapInv, TypeOK, Descriptor
<1> QED
  BY <1>1, <1>4, <1>5, <1>6, <1>7 DEF Moves

\* What a fault that evicts a page moves, and what it leaves.
LEMMA ReplaceMoves ==
    ASSUME MapInv, NEW p \in Page, NEW f \in Frame, ~IsResident(p), ~IsFree(f),
           pte' = EntriesAfter(p, f), page_map' = DescriptorsAfter(p, f)
    PROVE  Moves(p, f) /\ page_map'[f].daddr = pte[p].daddr
<1> USE PageAssumption, FrameAssumption
<1> DEFINE v == page_map[f].pte4
<1>1. v \in Page /\ v # p
  BY Occupant
<1>2. pte[p].daddr \in Slot /\ page_map[f].daddr \in Slot
  BY EntryTypes DEF MapInv, TypeOK, Descriptor
<1>3. pte' = [pte EXCEPT ![v] = Swapped(page_map[f].daddr), ![p] = Resident(f)]
  BY DEF EntriesAfter
<1>4. page_map' = [page_map EXCEPT
            ![f] = [dirty |-> 0, time |-> 0, pte4 |-> p, daddr |-> pte[p].daddr]]
  BY DEF DescriptorsAfter
<1>5. pte' \in [Page -> [present : {1}, ppn : Frame] \cup [present : {0}, daddr : Slot]]
  <2>1. Resident(f) \in [present : {1}, ppn : Frame]
    BY DEF Resident
  <2>2. Swapped(page_map[f].daddr) \in [present : {0}, daddr : Slot]
    BY <1>2 DEF Swapped
  <2> HIDE DEF v
  <2> QED
    BY <1>3, <2>1, <2>2 DEF MapInv, TypeOK
<1>6. page_map' \in [Frame -> Descriptor]
  <2>1. [dirty |-> 0, time |-> 0, pte4 |-> p, daddr |-> pte[p].daddr] \in Descriptor
    BY <1>2 DEF Descriptor
  <2> QED
    BY <1>4, <2>1 DEF MapInv, TypeOK
<1>7. /\ pte'[p] = Resident(f)
      /\ pte'[v] = Swapped(page_map[f].daddr)
      /\ \A q \in Page : q # p /\ q # v => pte'[q] = pte[q]
  <2> HIDE DEF v
  <2> QED
    BY <1>1, <1>3 DEF MapInv, TypeOK
<1>8. /\ page_map'[f].pte4 = p
      /\ page_map'[f].daddr = pte[p].daddr
      /\ \A g \in Frame : g # f => page_map'[g] = page_map[g]
  BY <1>4 DEF MapInv, TypeOK
<1> QED
  BY <1>5, <1>6, <1>7, <1>8 DEF Moves

\* A move keeps page_map and the page tables inverse to each other.
LEMMA MoveKeepsMapping ==
    ASSUME MapInv, NEW p \in Page, NEW f \in Frame, ~IsResident(p), Moves(p, f)
    PROVE  ReverseMapping'
<1>1. pte'[p].present = 1 /\ pte'[p].ppn = f
  <2>1. pte'[p] = Resident(f)
    BY DEF Moves
  <2> QED
    BY <2>1 DEF Resident
<1>2. ~IsFree(f) => pte'[page_map[f].pte4].present = 0
  <2>1. ~IsFree(f) => pte'[page_map[f].pte4] = Swapped(page_map[f].daddr)
    BY DEF Moves
  <2> QED
    BY <2>1 DEF Swapped
<1>3. ASSUME NEW g \in Frame, page_map'[g].pte4 # Blank
      PROVE  IsResident(page_map[g].pte4)' /\ (pte[page_map[g].pte4].ppn)' = g
  <2>1. CASE g = f
    BY <1>1, <2>1 DEF Moves, IsResident
  <2>2. CASE g # f
    <3> DEFINE q == page_map[g].pte4
    <3>1. page_map'[g] = page_map[g]
      BY <2>2 DEF Moves
    <3>2. q \in Page /\ IsResident(q) /\ pte[q].ppn = g
      BY <1>3, <3>1, Occupant DEF IsFree
    <3>3. q # p
      BY <3>2
    <3>4. q # page_map[f].pte4
      <4>1. CASE IsFree(f)
        BY <1>3, <3>1, <4>1 DEF IsFree
      <4>2. CASE ~IsFree(f)
        BY <2>2, <3>2, <4>2, Occupant
      <4> QED
        BY <4>1, <4>2
    <3>5. pte'[q] = pte[q]
      BY <3>2, <3>3, <3>4 DEF Moves
    <3> QED
      BY <3>1, <3>2, <3>5 DEF IsResident
  <2> QED
    BY <2>1, <2>2
<1>4. ASSUME NEW q \in Page, IsResident(q)'
      PROVE  (page_map[pte[q].ppn].pte4)' = q
  <2>1. CASE q = p
    BY <1>1, <2>1 DEF Moves
  <2>2. CASE q # p
    <3>1. q # page_map[f].pte4
      <4>1. page_map[f].pte4 \in Page \cup {Blank}
        BY DEF MapInv, TypeOK, Descriptor
      <4>2. q # Blank
        BY PageAssumption DEF Page, Blank
      <4> QED
        BY <1>2, <1>4, <4>1, <4>2 DEF IsFree, IsResident
    <3>2. pte'[q] = pte[q]
      BY <2>2, <3>1 DEF Moves
    <3>3. IsResident(q)
      BY <1>4, <3>2 DEF IsResident
    <3>4. pte[q].ppn \in Frame /\ page_map[pte[q].ppn].pte4 = q
      BY <3>3, EntryTypes DEF MapInv, ReverseMapping
    <3>5. pte[q].ppn # f
      BY <3>1, <3>4
    <3> QED
      BY <3>2, <3>4, <3>5 DEF Moves
  <2> QED
    BY <2>1, <2>2
<1> QED
  BY <1>3, <1>4 DEF ReverseMapping

-----------------------------------------------------------------------------
(* The steps *)

\* The victim of a clean or a dirty fault is in use.
LEMMA VictimInUse ==
    ASSUME NEW f \in Frame, CleanVictim(f) \/ DirtyVictim(f)
    PROVE  ~IsFree(f)
  BY DEF CleanVictim, DirtyVictim

\* A fault either ends the process, with entries, descriptors and memory as they
\* were, or moves the page into a frame.
LEMMA FaultShape ==
    ASSUME MapInv, NEW p \in Page, ~IsResident(p), running, page_fault_handler(p)
    PROVE  \/ UNCHANGED <<pte, page_map, pm>> /\ running' = FALSE
           \/ \E f \in Frame : FaultFree(p, f) /\ Moves(p, f)
           \/ \E f \in Frame :
                /\ FaultClean(p, f) \/ FaultDirty(p, f)
                /\ Moves(p, f)
                /\ ~IsFree(f)
                /\ page_map'[f].daddr = pte[p].daddr
                /\ pm' = [pm EXCEPT ![f] = disk'[pte[p].daddr].content]
                /\ CanSwapIn(disk', pte[p].daddr)
<1>1. PICK f \in Frame : FaultFree(p, f) \/ FaultClean(p, f) \/ FaultDirty(p, f)
  BY DEF page_fault_handler
<1>2. CASE FaultFree(p, f)
  BY <1>2, FreeMoves
<1>3. CASE FaultClean(p, f) \/ FaultDirty(p, f)
  <2>1. ~IsFree(f)
    BY <1>3, VictimInUse DEF FaultClean, FaultDirty
  <2>2. Replace(p, f)
    BY <1>3 DEF FaultClean, FaultDirty
  <2>3. CASE running' = FALSE /\ UNCHANGED <<pte, pm, page_map>>
    BY <2>3
  <2>4. CASE /\ CanSwapIn(disk', pte[p].daddr)
             /\ pte' = EntriesAfter(p, f)
             /\ pm' = MemoryAfter(p, f)
             /\ page_map' = DescriptorsAfter(p, f)
    <3>1. Moves(p, f) /\ page_map'[f].daddr = pte[p].daddr
      BY <2>1, <2>4, ReplaceMoves
    <3>2. pm' = [pm EXCEPT ![f] = disk'[pte[p].daddr].content]
      BY <2>4 DEF MemoryAfter
    <3> QED
      BY <1>3, <2>1, <2>4, <3>1, <3>2
  <2> QED
    BY <2>2, <2>3, <2>4 DEF Replace
<1> QED
  BY <1>1, <1>2, <1>3

\* Swapping out writes one file.
LEMMA DiskTyped ==
    ASSUME MapInv, NEW p \in Page, page_fault_handler(p)
    PROVE  disk' \in [Slot -> [file : Form, content : Content]]
<1>1. PICK f \in Frame : FaultFree(p, f) \/ FaultClean(p, f) \/ FaultDirty(p, f)
  BY DEF page_fault_handler
<1>2. CASE UNCHANGED disk
  BY <1>2 DEF MapInv, TypeOK
<1>3. CASE disk' = swap_out(page_map[f].daddr, pm[f])
  <2>1. disk' = [disk EXCEPT ![page_map[f].daddr] = [file |-> "joined", content |-> pm[f]]]
    BY <1>3 DEF swap_out
  <2>2. pm[f] \in Content
    BY DEF MapInv, TypeOK
  <2> QED
    BY <2>1, <2>2 DEF MapInv, TypeOK, Form
<1> QED
  BY <1>1, <1>2, <1>3 DEF FaultFree, FaultClean, FaultDirty

\* A fault keeps types and mapping.
LEMMA FaultKeepsMap ==
    ASSUME MapInv, NEW p \in Page, ~IsResident(p), running, WalkFault(p)
    PROVE  MapInv'
<1> USE FrameAssumption
<1>1. page_fault_handler(p) /\ walked' = [page |-> p, ppn |-> 0]
  BY DEF WalkFault
<1>2. walked' \in [page : Page \cup {0}, ppn : Frame]
  BY <1>1 DEF Frame
<1>3. disk' \in [Slot -> [file : Form, content : Content]]
  BY <1>1, DiskTyped
<1>4. CASE UNCHANGED <<pte, page_map, pm>> /\ running' = FALSE
  BY <1>2, <1>3, <1>4 DEF MapInv, TypeOK, ReverseMapping, IsResident
<1>5. ASSUME NEW f \in Frame, FaultFree(p, f), Moves(p, f)
      PROVE  MapInv'
  <2>1. ReverseMapping'
    BY <1>5, MoveKeepsMapping
  <2>2. UNCHANGED <<pm, running>>
    BY <1>5 DEF FaultFree
  <2> QED
    BY <1>2, <1>3, <1>5, <2>1, <2>2 DEF MapInv, TypeOK, Moves
<1>6. ASSUME NEW f \in Frame, FaultClean(p, f) \/ FaultDirty(p, f), Moves(p, f),
             pm' = [pm EXCEPT ![f] = disk'[pte[p].daddr].content]
      PROVE  MapInv'
  <2>1. ReverseMapping'
    BY <1>6, MoveKeepsMapping
  <2>2. pte[p].daddr \in Slot
    BY EntryTypes DEF MapInv
  <2>3. pm' \in [Frame -> Content]
    BY <1>3, <1>6, <2>2 DEF MapInv, TypeOK
  <2>4. running' \in BOOLEAN
    BY <1>6 DEF FaultClean, FaultDirty, Replace, MapInv, TypeOK
  <2> QED
    BY <1>2, <1>3, <1>6, <2>1, <2>3, <2>4 DEF MapInv, TypeOK, Moves
<1> QED
  BY <1>1, <1>4, <1>5, <1>6, FaultShape

\* Every translation and access keeps entries and descriptors in step.
LEMMA NextKeepsMap == MapInv /\ [Next]_vars => MapInv'
<1> SUFFICES ASSUME MapInv, [Next]_vars PROVE MapInv'
  OBVIOUS
<1>1. CASE UNCHANGED vars
  BY <1>1 DEF vars, MapInv, TypeOK, ReverseMapping, IsResident
<1>2. ASSUME NEW p \in Page, va2pa(p)
      PROVE  MapInv'
  <2>1. CASE WalkHit(p)
    <3>1. walked' \in [page : Page \cup {0}, ppn : Frame]
      BY <2>1, EntryTypes DEF WalkHit, MapInv
    <3> QED
      BY <2>1, <3>1 DEF WalkHit, MapInv, TypeOK, ReverseMapping, IsResident
  <2>2. CASE WalkFault(p)
    BY <1>2, <2>2, FaultKeepsMap DEF va2pa, WalkFault
  <2>3. CASE WalkNoTable(p)
    BY <2>3 DEF WalkNoTable, MapInv, TypeOK, ReverseMapping, IsResident
  <2> QED
    BY <1>2, <2>1, <2>2, <2>3 DEF va2pa
<1>3. Nowhere \in [page : Page \cup {0}, ppn : Frame]
  BY FrameAssumption DEF Nowhere, Frame
<1>4. CASE ReadAccess
  BY <1>3, <1>4 DEF ReadAccess, MapInv, TypeOK, ReverseMapping, IsResident
<1>5. ASSUME NEW c \in Written, WriteAccess(c)
      PROVE  MapInv'
  <2>1. pm' \in [Frame -> Content]
    BY <1>5, ContentAssumption DEF WriteAccess, MapInv, TypeOK
  <2> QED
    BY <1>3, <1>5, <2>1 DEF WriteAccess, MapInv, TypeOK, ReverseMapping, IsResident
<1> QED
  BY <1>1, <1>2, <1>4, <1>5 DEF Next

\* Page table entries and frame descriptors describe one mapping, at all times.
THEOREM MapInvariance == Spec => []MapInv
<1>1. Init => MapInv
  BY InitInv
<1> QED
  BY <1>1, NextKeepsMap, PTL DEF Spec

\* Every reachable state has the types of the variables.
THEOREM TypeCorrect == Spec => []TypeOK
<1>1. MapInv => TypeOK
  BY DEF MapInv
<1> QED
  BY <1>1, MapInvariance, PTL

\* Every reachable state has page_map and the page tables inverse to each other.
THEOREM MappingIsInverse == Spec => []ReverseMapping
<1>1. MapInv => ReverseMapping
  BY DEF MapInv
<1> QED
  BY <1>1, MapInvariance, PTL

-----------------------------------------------------------------------------
(* Where content goes *)

\* The slot of a page outside of a fault's frame does not move, and the page and
\* the victim keep theirs through a replacement.
LEMMA MoveKeepsSlots ==
    ASSUME MapInv, NEW p \in Page, NEW f \in Frame, ~IsResident(p), Moves(p, f)
    PROVE  /\ SlotOf(p)' = page_map'[f].daddr
           /\ \A q \in Page : q # p => SlotOf(q)' = SlotOf(q)
<1>1. pte'[p].present = 1 /\ pte'[p].ppn = f
  <2>1. pte'[p] = Resident(f)
    BY DEF Moves
  <2> QED
    BY <2>1 DEF Resident
<1>2. SlotOf(p)' = page_map'[f].daddr
  BY <1>1 DEF SlotOf, IsResident
<1>3. ASSUME NEW q \in Page, q # p
      PROVE  SlotOf(q)' = SlotOf(q)
  <2>1. CASE q = page_map[f].pte4
    <3>1. ~IsFree(f)
      BY <2>1, PageAssumption DEF IsFree, Blank, Page
    <3>2. IsResident(q) /\ pte[q].ppn = f
      BY <2>1, <3>1, Occupant
    <3>3. pte'[q] = Swapped(page_map[f].daddr)
      BY <2>1, <3>1 DEF Moves
    <3>4. pte'[q].present = 0 /\ pte'[q].daddr = page_map[f].daddr
      BY <3>3 DEF Swapped
    <3> QED
      BY <3>2, <3>4 DEF SlotOf, IsResident
  <2>2. CASE q # page_map[f].pte4
    <3>1. pte'[q] = pte[q]
      BY <1>3, <2>2 DEF Moves
    <3>2. CASE IsResident(q)
      <4>1. pte[q].ppn \in Frame /\ page_map[pte[q].ppn].pte4 = q
        BY <3>2, EntryTypes DEF MapInv, ReverseMapping
      <4>2. page_map'[pte[q].ppn] = page_map[pte[q].ppn]
        BY <2>2, <4>1 DEF Moves
      <4> QED
        BY <3>1, <3>2, <4>2 DEF SlotOf, IsResident
    <3>3. CASE ~IsResident(q)
      BY <3>1, <3>3 DEF SlotOf, IsResident
    <3> QED
      BY <3>2, <3>3
  <2> QED
    BY <2>1, <2>2
<1> QED
  BY <1>2, <1>3

\* What a fault does to the slots: all of them stay, or a page takes a free
\* frame and the slot, 0, that the frame's descriptor has.
LEMMA FaultSlots ==
    ASSUME MapInv, NEW p \in Page, ~IsResident(p), running, page_fault_handler(p)
    PROVE  \/ \A q \in Page : SlotOf(q)' = SlotOf(q)
           \/ \E f \in Frame :
                /\ FreeFrame(f)
                /\ page_map'[f].pte4 = p
                /\ SlotOf(p)' = page_map[f].daddr
                /\ \A q \in Page : q # p => SlotOf(q)' = SlotOf(q)
<1>1. CASE UNCHANGED <<pte, page_map, pm>>
  BY <1>1 DEF SlotOf, IsResident
<1>2. ASSUME NEW f \in Frame, FaultFree(p, f), Moves(p, f)
      PROVE  /\ FreeFrame(f)
             /\ page_map'[f].pte4 = p
             /\ SlotOf(p)' = page_map[f].daddr
             /\ \A q \in Page : q # p => SlotOf(q)' = SlotOf(q)
  <2>1. page_map'[f].daddr = page_map[f].daddr
    BY <1>2, FreeMoves
  <2> QED
    BY <1>2, <2>1, MoveKeepsSlots DEF FaultFree, Moves
<1>3. ASSUME NEW f \in Frame, Moves(p, f), page_map'[f].daddr = pte[p].daddr
      PROVE  \A q \in Page : SlotOf(q)' = SlotOf(q)
  <2>1. SlotOf(p) = pte[p].daddr
    BY DEF SlotOf
  <2> QED
    BY <1>3, <2>1, MoveKeepsSlots
<1> QED
  BY <1>1, <1>2, <1>3, FaultShape

\* A step that is no fault leaves entries and descriptors alone.
LEMMA OtherSteps ==
    ASSUME MapInv, [Next]_vars
    PROVE  \/ UNCHANGED <<pte, page_map>>
           \/ \E p \in Page : ~IsResident(p) /\ running /\ WalkFault(p)
  BY DEF Next, vars, va2pa, WalkHit, WalkFault, WalkNoTable, ReadAccess, WriteAccess

\* A fault gives a frame a fresh descriptor of a page in use.
LEMMA FreshDescriptor ==
    ASSUME MapInv, NEW p \in Page, ~IsResident(p), running, page_fault_handler(p),
           NEW g \in Frame
    PROVE  \/ page_map'[g] = page_map[g]
           \/ page_map'[g].dirty = 0 /\ page_map'[g].time = 0 /\ page_map'[g].pte4 = p
<1>1. CASE UNCHANGED <<pte, page_map, pm>>
  BY <1>1
<1>2. ASSUME NEW f \in Frame, page_map' = DescriptorsKeepSlot(p, f)
      PROVE  \/ page_map'[g] = page_map[g]
             \/ page_map'[g].dirty = 0 /\ page_map'[g].time = 0 /\ page_map'[g].pte4 = p
  BY <1>2 DEF DescriptorsKeepSlot, MapInv, TypeOK
<1>3. ASSUME NEW f \in Frame, page_map' = DescriptorsAfter(p, f)
      PROVE  \/ page_map'[g] = page_map[g]
             \/ page_map'[g].dirty = 0 /\ page_map'[g].time = 0 /\ page_map'[g].pte4 = p
  BY <1>3 DEF DescriptorsAfter, MapInv, TypeOK
<1> QED
  BY <1>1, <1>2, <1>3 DEF page_fault_handler, FaultFree, FaultClean, FaultDirty, Replace

\* No eviction writes into the file of another page.
LEMMA NextKeepsSlots == MapInv /\ SlotInv /\ [Next]_vars => SlotInv'
<1> SUFFICES ASSUME MapInv, SlotInv, [Next]_vars PROVE SlotInv'
  OBVIOUS
<1>1. CASE UNCHANGED <<pte, page_map>>
  BY <1>1 DEF SlotInv, SlotsApart, WrittenFramesHaveSlots, FreeFramesHaveNone,
              SlotOf, IsResident, IsFree
<1>2. ASSUME NEW p \in Page, ~IsResident(p), running, WalkFault(p)
      PROVE  SlotInv'
  <2>1. page_fault_handler(p)
    BY <1>2 DEF WalkFault
  <2>2. SlotsApart'
    <3>1. CASE \A q \in Page : SlotOf(q)' = SlotOf(q)
      BY <3>1 DEF SlotInv, SlotsApart
    <3>2. ASSUME NEW f \in Frame, FreeFrame(f), SlotOf(p)' = page_map[f].daddr,
                 \A q \in Page : q # p => SlotOf(q)' = SlotOf(q)
          PROVE  SlotsApart'
      <4>1. SlotOf(p)' = 0
        BY <3>2 DEF FreeFrame, SlotInv, FreeFramesHaveNone
      <4> QED
        BY <3>2, <4>1 DEF SlotInv, SlotsApart
    <3> QED
      BY <1>2, <2>1, <3>1, <3>2, FaultSlots
  <2>3. WrittenFramesHaveSlots'
    <3> SUFFICES ASSUME NEW g \in Frame,
                        page_map'[g].dirty = 1
                            \/ page_map'[g].time >= MAX_NUM_PHYSICAL_PAGE
                 PROVE  page_map'[g].daddr # 0
      BY DEF WrittenFramesHaveSlots
    <3>1. ~(0 >= MAX_NUM_PHYSICAL_PAGE)
      BY FrameAssumption
    <3>2. page_map'[g] = page_map[g]
      BY <1>2, <2>1, <3>1, FreshDescriptor
    <3> QED
      BY <3>2 DEF SlotInv, WrittenFramesHaveSlots
  <2>4. FreeFramesHaveNone'
    <3> SUFFICES ASSUME NEW g \in Frame, page_map'[g].pte4 = Blank
                 PROVE  page_map'[g].daddr = 0
      BY DEF FreeFramesHaveNone, IsFree
    <3>1. p # Blank
      BY PageAssumption DEF Page, Blank
    <3>2. page_map'[g] = page_map[g]
      BY <1>2, <2>1, <3>1, FreshDescriptor
    <3> QED
      BY <3>2 DEF SlotInv, FreeFramesHaveNone, IsFree
  <2> QED
    BY <2>2, <2>3, <2>4 DEF SlotInv
<1> QED
  BY <1>1, <1>2, OtherSteps

\* Every page on disk has a file of its own, at all times.
THEOREM SlotInvariance == Spec => [](MapInv /\ SlotInv)
<1>1. MapInv /\ SlotInv /\ [Next]_vars => (MapInv /\ SlotInv)'
  BY NextKeepsMap, NextKeepsSlots
<1> QED
  BY <1>1, InitInv, PTL DEF Spec

\* Through all evictions and returns a page keeps its disk address, unless a
\* fault finds a free frame for it.
THEOREM SlotsAreKept == Spec => SlotLostOnlyToFreeFrame
<1>1. ASSUME MapInv, [Next]_vars
      PROVE  [\A p \in Page : SlotOf(p)' # SlotOf(p) => TakesFreeFrame(p)]_vars
  <2>1. CASE UNCHANGED <<pte, page_map>>
    BY <2>1 DEF SlotOf, IsResident
  <2>2. ASSUME NEW p \in Page, ~IsResident(p), running, WalkFault(p)
        PROVE  \A q \in Page : SlotOf(q)' # SlotOf(q) => TakesFreeFrame(q)
    <3>1. page_fault_handler(p)
      BY <2>2 DEF WalkFault
    <3> QED
      BY <1>1, <2>2, <3>1, FaultSlots DEF TakesFreeFrame
  <2> QED
    BY <1>1, <2>1, <2>2, OtherSteps
<1>2. MapInv /\ [Next]_vars
        => [\A p \in Page : SlotOf(p)' # SlotOf(p) => TakesFreeFrame(p)]_vars
  BY <1>1
<1> QED
  BY <1>2, MapInvariance, PTL DEF Spec, SlotLostOnlyToFreeFrame

-----------------------------------------------------------------------------
(* The content of pages *)

\* The frame a dirty fault writes to disk has a slot.
LEMMA WrittenFrame ==
    ASSUME MapInv, SlotInv, NEW f \in Frame, DirtyVictim(f)
    PROVE  page_map[f].daddr # 0
<1>1. page_map[f].dirty \in {0, 1} /\ page_map[f].time \in Nat
  BY FrameAssumption DEF MapInv, TypeOK, Descriptor
<1>2. CASE page_map[f].dirty = 0 /\ page_map[f].time < MAX_NUM_PHYSICAL_PAGE
  <2>1. Oldest(f, Clean)
    BY <1>2 DEF DirtyVictim, Oldest, Clean
  <2>2. CleanVictim(f)
    BY <1>2, <2>1 DEF CleanVictim, DirtyVictim
  <2> QED
    BY <2>2 DEF DirtyVictim
<1>3. CASE page_map[f].dirty = 1 \/ page_map[f].time >= MAX_NUM_PHYSICAL_PAGE
  BY <1>3 DEF SlotInv, WrittenFramesHaveSlots
<1> QED
  BY <1>1, <1>2, <1>3, FrameAssumption

\* A fault does not touch the file of any page that is on disk.
LEMMA FilesAreKept ==
    ASSUME MapInv, SlotInv, NEW p \in Page, page_fault_handler(p),
           NEW q \in Page, ~IsResident(q)
    PROVE  disk'[pte[q].daddr] = disk[pte[q].daddr]
<1>1. PICK f \in Frame : FaultFree(p, f) \/ FaultClean(p, f) \/ FaultDirty(p, f)
  BY DEF page_fault_handler
<1>2. CASE FaultFree(p, f) \/ FaultClean(p, f)
  BY <1>2 DEF FaultFree, FaultClean
<1>3. CASE FaultDirty(p, f)
  <2> DEFINE v == page_map[f].pte4
  <2>1. DirtyVictim(f) /\ disk' = swap_out(page_map[f].daddr, pm[f])
    BY <1>3 DEF FaultDirty
  <2>2. page_map[f].daddr # 0 /\ ~IsFree(f)
    BY <2>1, WrittenFrame, VictimInUse
  <2>3. v \in Page /\ v # q /\ SlotOf(v) = page_map[f].daddr
    BY <2>2, Occupant DEF SlotOf
  <2>4. SlotOf(q) = pte[q].daddr
    BY DEF SlotOf
  <2>5. pte[q].daddr # page_map[f].daddr
    BY <2>2, <2>3, <2>4 DEF SlotInv, SlotsApart
  <2> QED
    BY <2>1, <2>5, EntryTypes DEF swap_out, MapInv, TypeOK
<1> QED
  BY <1>1, <1>2, <1>3

\* The page that leaves memory was in the frame of a replacement.
LEMMA Leaves ==
    ASSUME MapInv, NEW p \in Page, ~IsResident(p), running, page_fault_handler(p),
           NEW q \in Page, IsResident(q), ~IsResident(q)'
    PROVE  \E f \in Frame :
            /\ FaultClean(p, f) \/ FaultDirty(p, f)
            /\ pte[q].ppn = f
            /\ pte'[q].daddr = page_map[f].daddr
<1>1. CASE UNCHANGED pte
  BY <1>1 DEF IsResident
<1>2. ASSUME NEW f \in Frame, Moves(p, f)
      PROVE  q = page_map[f].pte4 /\ ~IsFree(f)
  <2>1. q = page_map[f].pte4
    BY <1>2 DEF Moves, IsResident
  <2> QED
    BY <2>1, PageAssumption DEF IsFree, Blank, Page
<1>3. ASSUME NEW f \in Frame, FaultFree(p, f), Moves(p, f)
      PROVE  FALSE
  BY <1>2, <1>3 DEF FaultFree, FreeFrame
<1>4. ASSUME NEW f \in Frame, FaultClean(p, f) \/ FaultDirty(p, f), Moves(p, f)
      PROVE  pte[q].ppn = f /\ pte'[q].daddr = page_map[f].daddr
  <2>1. q = page_map[f].pte4 /\ ~IsFree(f)
    BY <1>2, <1>4
  <2>2. pte'[q] = Swapped(page_map[f].daddr)
    BY <1>4, <2>1 DEF Moves
  <2> QED
    BY <2>1, <2>2, Occupant DEF Swapped
<1> QED
  BY <1>1, <1>3, <1>4, FaultShape

\* The page that enters memory does so into a free frame, or its file can be read and the
\* frame it comes to has what is in it.
LEMMA Enters ==
    ASSUME MapInv, SlotInv, NEW p \in Page, ~IsResident(p), running, page_fault_handler(p),
           NEW q \in Page, ~IsResident(q), IsResident(q)'
    PROVE  \/ TakesFreeFrame(q)
           \/ disk[pte[q].daddr] = [file |-> "blocks", content |-> pm'[pte'[q].ppn]]
<1>1. CASE UNCHANGED pte
  BY <1>1 DEF IsResident
<1>2. ASSUME NEW f \in Frame, Moves(p, f)
      PROVE  q = p /\ pte'[q].ppn = f /\ page_map'[f].pte4 = q
  <2>1. q = p
    <3>1. CASE q = page_map[f].pte4
      BY <1>2, <3>1, Occupant, PageAssumption DEF IsFree, Blank, Page
    <3>2. CASE q # page_map[f].pte4 /\ q # p
      BY <1>2, <3>2 DEF Moves, IsResident
    <3> QED
      BY <3>1, <3>2
  <2> QED
    BY <1>2, <2>1 DEF Moves, Resident
<1>3. ASSUME NEW f \in Frame, FaultFree(p, f), Moves(p, f)
      PROVE  TakesFreeFrame(q)
  BY <1>2, <1>3 DEF FaultFree, TakesFreeFrame
<1>4. ASSUME NEW f \in Frame, Moves(p, f), CanSwapIn(disk', pte[p].daddr),
             pm' = [pm EXCEPT ![f] = disk'[pte[p].daddr].content]
      PROVE  disk[pte[q].daddr] = [file |-> "blocks", content |-> pm'[pte'[q].ppn]]
  <2>1. q = p /\ pte'[q].ppn = f
    BY <1>2, <1>4
  <2>2. disk'[pte[q].daddr] = disk[pte[q].daddr]
    BY FilesAreKept
  <2>3. pm'[f] = disk[pte[q].daddr].content
    BY <1>4, <2>1, <2>2 DEF MapInv, TypeOK
  <2>4. disk[pte[q].daddr].file = "blocks"
    BY <1>4, <2>1, <2>2 DEF CanSwapIn
  <2>5. disk[pte[q].daddr] \in [file : Form, content : Content]
    BY EntryTypes DEF MapInv, TypeOK
  <2> QED
    BY <2>1, <2>3, <2>4, <2>5
<1> QED
  BY <1>1, <1>3, <1>4, FaultShape

\* A page that leaves memory is found at the disk address its frame had, with its
\* content unless the frame was not flagged dirty, and in the form swap_out() writes; one
\* that comes back comes from a file in the form swap_in() reads.
THEOREM FilesCarryPages == Spec => PagesMoveThroughFiles
<1> DEFINE Reaches(q) ==
        LET f == pte[q].ppn
            s == page_map[f].daddr
        IN  /\ pte'[q].daddr = s
            /\ \/ page_map[f].dirty = 0 /\ disk'[s] = disk[s]
               \/ disk'[s] = [file |-> "joined", content |-> pm[f]]
           Returns(q) ==
        LET file == disk[pte[q].daddr]
        IN  \/ TakesFreeFrame(q)
            \/ file = [file |-> "blocks", content |-> pm'[pte'[q].ppn]]
<1>1. ASSUME MapInv, [Next]_vars, NEW q \in Page, IsResident(q), ~IsResident(q)'
      PROVE  Reaches(q)
  <2>1. CASE UNCHANGED <<pte, page_map>>
    BY <1>1, <2>1 DEF IsResident
  <2>2. ASSUME NEW p \in Page, ~IsResident(p), running, WalkFault(p)
        PROVE  Reaches(q)
    <3>1. page_fault_handler(p)
      BY <2>2 DEF WalkFault
    <3>2. PICK f \in Frame : /\ FaultClean(p, f) \/ FaultDirty(p, f)
                             /\ pte[q].ppn = f
                             /\ pte'[q].daddr = page_map[f].daddr
      BY <1>1, <2>2, <3>1, Leaves
    <3>3. CASE FaultClean(p, f)
      <4>1. page_map[f].dirty = 0 /\ disk' = disk
        BY <3>3 DEF FaultClean, CleanVictim, Oldest, Clean
      <4> QED
        BY <3>2, <4>1
    <3>4. CASE FaultDirty(p, f)
      <4>1. page_map[f].daddr \in Slot
        BY <1>1 DEF MapInv, TypeOK, Descriptor
      <4>2. disk'[page_map[f].daddr] = [file |-> "joined", content |-> pm[f]]
        BY <1>1, <3>4, <4>1 DEF FaultDirty, swap_out, MapInv, TypeOK
      <4> QED
        BY <3>2, <4>2
    <3> QED
      BY <3>2, <3>3, <3>4
  <2> QED
    BY <1>1, <2>1, <2>2, OtherSteps
<1>2. ASSUME MapInv, SlotInv, [Next]_vars, NEW q \in Page, ~IsResident(q), IsResident(q)'
      PROVE  Returns(q)
  <2>1. CASE UNCHANGED <<pte, page_map>>
    BY <1>2, <2>1 DEF IsResident
  <2>2. ASSUME NEW p \in Page, ~IsResident(p), running, WalkFault(p)
        PROVE  Returns(q)
    BY <1>2, <2>2, Enters DEF WalkFault
  <2> HIDE DEF Returns
  <2> QED
    BY <1>2, <2>1, <2>2, OtherSteps
<1>3. MapInv /\ SlotInv /\ [Next]_vars
        => [\A p \in Page :
                /\ IsResident(p) /\ ~IsResident(p)' =>
                    LET f == pte[p].ppn
                        s == page_map[f].daddr
                    IN  /\ pte'[p].daddr = s
                        /\ \/ page_map[f].dirty = 0 /\ disk'[s] = disk[s]
                           \/ disk'[s] = [file |-> "joined", content |-> pm[f]]
                /\ ~IsResident(p) /\ IsResident(p)' =>
                    LET file == disk[pte[p].daddr]
                    IN  \/ TakesFreeFrame(p)
                        \/ file = [file |-> "blocks", content |-> pm'[pte'[p].ppn]]]_vars
  BY <1>1, <1>2
<1> QED
  BY <1>3, SlotInvariance, PTL DEF Spec, PagesMoveThroughFiles

\* The content of a page changes for the stated causes only.
THEOREM ContentIsKept == Spec => ContentLossHasACause
<1> DEFINE Cause(q) ==
        \/ walked # Nowhere /\ IsResident(q) /\ walked.ppn = pte[q].ppn
        \/ TakesFreeFrame(q)
        \/ /\ IsResident(q) /\ ~IsResident(q)'
           /\ page_map[pte[q].ppn].dirty = 0
           /\ pm[pte[q].ppn] # disk[SlotOf(q)].content
<1>1. ASSUME MapInv, SlotInv, NEW p \in Page, ~IsResident(p), running, WalkFault(p),
             NEW q \in Page, ContentOf(q)' # ContentOf(q)
      PROVE  Cause(q)
  <2> USE <1>1
  <2>1. page_fault_handler(p)
    BY DEF WalkFault
  <2>2. ~IsResident(q) => disk'[pte[q].daddr] = disk[pte[q].daddr]
    BY <2>1, FilesAreKept
  <2>3. CASE UNCHANGED <<pte, page_map, pm>>
    BY <2>2, <2>3 DEF ContentOf, IsResident
  <2>4. ASSUME NEW f \in Frame, Moves(p, f), q # p, q # page_map[f].pte4,
               \A g \in Frame : g # f => pm'[g] = pm[g]
        PROVE  FALSE
    <3>1. pte'[q] = pte[q]
      BY <2>4 DEF Moves
    <3>2. CASE IsResident(q)
      <4>1. pte[q].ppn \in Frame /\ pte[q].ppn # f
        BY <2>4, <3>2, EntryTypes DEF MapInv, ReverseMapping
      <4> QED
        BY <2>4, <3>1, <3>2, <4>1 DEF ContentOf, IsResident
    <3>3. CASE ~IsResident(q)
      BY <2>2, <3>1, <3>3 DEF ContentOf, IsResident
    <3> QED
      BY <3>2, <3>3
  <2>5. ASSUME NEW f \in Frame, FaultFree(p, f), Moves(p, f)
        PROVE  Cause(q)
    <3>1. FreeFrame(f) /\ page_map'[f].pte4 = p /\ UNCHANGED pm
      BY <2>5 DEF FaultFree, Moves
    <3>2. CASE q = p
      BY <3>1, <3>2 DEF TakesFreeFrame
    <3>3. CASE q # p
      <4>1. q # page_map[f].pte4
        BY <3>1, PageAssumption DEF FreeFrame, IsFree, Blank, Page
      <4> QED
        BY <2>4, <2>5, <3>1, <3>3, <4>1
    <3> QED
      BY <3>2, <3>3
  <2>6. ASSUME NEW f \in Frame, FaultClean(p, f) \/ FaultDirty(p, f), Moves(p, f),
               ~IsFree(f), pm' = [pm EXCEPT ![f] = disk'[pte[p].daddr].content]
        PROVE  Cause(q)
    <3>1. /\ pm'[f] = disk'[pte[p].daddr].content
          /\ \A g \in Frame : g # f => pm'[g] = pm[g]
      BY <2>6 DEF MapInv, TypeOK
    <3>2. CASE q = p
      <4>1. pte'[q] = Resident(f)
        BY <2>6, <3>2 DEF Moves
      <4>2. pte'[q].present = 1 /\ pte'[q].ppn = f
        BY <4>1 DEF Resident
      <4>3. ContentOf(q)' = pm'[f]
        BY <4>2 DEF ContentOf, IsResident
      <4>4. ContentOf(q) = disk[pte[q].daddr].content
        BY <3>2 DEF ContentOf
      <4> QED
        BY <2>2, <3>1, <3>2, <4>3, <4>4
    <3>3. CASE q = page_map[f].pte4
      <4>1. IsResident(q) /\ pte[q].ppn = f
        BY <2>6, <3>3, Occupant
      <4>2. pte'[q] = Swapped(page_map[f].daddr)
        BY <2>6, <3>3 DEF Moves
      <4>3. pte'[q].present = 0 /\ pte'[q].daddr = page_map[f].daddr
        BY <4>2 DEF Swapped
      <4>4. /\ ~IsResident(q)'
            /\ ContentOf(q)' = disk'[page_map[f].daddr].content
        BY <4>3 DEF ContentOf, IsResident
      <4>5. ContentOf(q) = pm[f] /\ SlotOf(q) = page_map[f].daddr
        BY <4>1 DEF ContentOf, SlotOf
      <4>6. CASE FaultClean(p, f)
        <5>1. page_map[f].dirty = 0 /\ UNCHANGED disk
          BY <4>6 DEF FaultClean, CleanVictim, Oldest, Clean
        <5> QED
          BY <4>1, <4>4, <4>5, <5>1
      <4>7. CASE FaultDirty(p, f)
        <5>1. page_map[f].daddr \in Slot
          BY DEF MapInv, TypeOK, Descriptor
        <5>2. disk'[page_map[f].daddr].content = pm[f]
          BY <4>7, <5>1 DEF FaultDirty, swap_out, MapInv, TypeOK
        <5> QED
          BY <4>4, <4>5, <5>2
      <4> QED
        BY <2>6, <4>6, <4>7
    <3> QED
      BY <2>4, <2>6, <3>1, <3>2, <3>3
  <2> HIDE DEF Cause
  <2> QED
    BY <2>1, <2>3, <2>5, <2>6, FaultShape
<1>2. ASSUME MapInv, [Next]_vars, NEW q \in Page, ContentOf(q)' # ContentOf(q),
             ~\E p \in Page : ~IsResident(p) /\ running /\ WalkFault(p)
      PROVE  Cause(q)
  <2> USE <1>2
  <2>1. CASE UNCHANGED <<pte, pm, disk>>
    BY <2>1 DEF ContentOf, IsResident
  <2>2. ASSUME NEW c \in Written, WriteAccess(c)
        PROVE  Cause(q)
    <3>1. UNCHANGED <<pte, disk>> /\ walked # Nowhere
      BY <2>2 DEF WriteAccess
    <3>2. IsResident(q) /\ pm'[pte[q].ppn] # pm[pte[q].ppn]
      BY <3>1 DEF ContentOf, IsResident
    <3>3. \A g \in Frame : g # walked.ppn => pm'[g] = pm[g]
      BY <2>2 DEF WriteAccess, MapInv, TypeOK
    <3> QED
      BY <3>1, <3>2, <3>3, EntryTypes DEF MapInv
  <2> HIDE DEF Cause
  <2> QED
    BY <2>1, <2>2 DEF Next, vars, va2pa, WalkHit, WalkFault, WalkNoTable, ReadAccess
<1>3. MapInv /\ SlotInv /\ [Next]_vars
        => [\A p \in Page : ContentOf(p)' # ContentOf(p) =>
                \/ walked # Nowhere /\ IsResident(p) /\ walked.ppn = pte[p].ppn
                \/ TakesFreeFrame(p)
                \/ /\ IsResident(p) /\ ~IsResident(p)'
                   /\ page_map[pte[p].ppn].dirty = 0
                   /\ pm[pte[p].ppn] # disk[SlotOf(p)].content]_vars
  BY <1>1, <1>2
<1> QED
  BY <1>3, SlotInvariance, PTL DEF Spec, ContentLossHasACause
=============================================================================
