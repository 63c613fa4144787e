---------------------------- MODULE SRAMProofs ----------------------------
(***************************************************************************)
(* Proofs about the SRAM cache set, for any number of lines, memory lines  *)
(* and bytes.  A line and memory change only for the tag of the access,    *)
(* and on a miss no line holds that tag: from this follow the uniqueness   *)
(* of tags and the agreement of clean lines with memory, and, when the     *)
(* memory lines are no more than the lines, that a miss always finds a     *)
(* free line, so that nothing is ever replaced.                            *)
(***************************************************************************)
EXTENDS SRAM, FiniteSetTheorems, TLAPS

\* Inductive as it stands: the three invariants hold each other up.
IInv == TypeOK /\ UniqueTags /\ CleanLinesMatchMemory

-----------------------------------------------------------------------------
\* The spilled record is a block of bytes, and so is a loaded line.
LEMMA ImageIsBlock ==
    ASSUME NEW line \in sram_cacheline_t PROVE Image(line) \in Block
<1>1. BYTES \in Nat /\ BYTES > 2 /\ NUM_TAG \in Nat /\ BLOCK \in Nat /\ HEADER \in 0 .. BLOCK
  BY ByteAssumption, MemoryAssumption
<1> SUFFICES ASSUME NEW o \in Offset
             PROVE  (CASE o >= HEADER         -> line.block[o - HEADER]
                       [] o = 0 /\ o < HEADER -> 2
                       [] o = 4 /\ o < HEADER -> line.time % BYTES
                       [] o = 5 /\ o < HEADER -> (line.time \div BYTES) % BYTES
                       [] o = 8 /\ o < HEADER -> line.tag
                       [] OTHER               -> 0) \in Byte
  BY DEF Image, Block
<1>2. o \in Int /\ HEADER \in Int
  BY <1>1 DEF Offset
<1>3. CASE o >= HEADER
  <2>1. o - HEADER \in Offset
    BY <1>1, <1>3 DEF Offset
  <2>2. line.block[o - HEADER] \in Byte
    BY <2>1 DEF sram_cacheline_t, Block
  <2> QED
    BY <1>2, <1>3, <2>2
<1>4. CASE ~(o >= HEADER)
  <2>1. 2 \in Byte /\ 0 \in Byte
    BY <1>1 DEF Byte
  <2>2. line.tag \in Byte
    BY ByteAssumption, <1>1 DEF sram_cacheline_t, Tag, Byte
  <2>3. \A n \in Int : n % BYTES \in Byte
    BY <1>1 DEF Byte
  <2>4. line.time \in Int /\ line.time \div BYTES \in Int
    BY <1>1, TimeAssumption DEF sram_cacheline_t
  <2> QED
    BY <1>2, <1>4, <2>1, <2>2, <2>3, <2>4
<1> QED
  BY <1>3, <1>4

\* The bus writes a whole line of bytes, over the tag of the access only.
LEMMA SpillShape ==
    ASSUME pm \in [Tag -> Block], NEW line \in sram_cacheline_t, NEW t \in Tag
    PROVE  /\ Spill(line, t) \in [Tag -> Block]
           /\ \A u \in Tag \ {t} : Spill(line, t)[u] = pm[u]
           /\ line.state # "DIRTY" => Spill(line, t) = pm
  BY ImageIsBlock DEF Spill

\* Ageing keeps the lines' types below the bound, and changes only timers.
LEMMA AgedShape ==
    ASSUME TypeOK, MayAge
    PROVE  /\ Aged \in [LineIndex -> sram_cacheline_t]
           /\ \A k \in LineIndex : /\ Aged[k].state = lines[k].state
                                   /\ Aged[k].tag = lines[k].tag
                                   /\ Aged[k].block = lines[k].block
<1>1. MAX_TIME \in Nat
  BY TimeAssumption
<1>2. ASSUME NEW k \in LineIndex
      PROVE  [lines[k] EXCEPT !.time = @ + 1] \in sram_cacheline_t
  BY <1>1 DEF TypeOK, MayAge, sram_cacheline_t
<1> QED
  BY <1>2 DEF Aged, TypeOK, sram_cacheline_t

\* Byte, Tag and Offset have the elements the initial state needs.
LEMMA Elements == 0 \in Byte /\ 0 \in Tag /\ BYTES \in Nat
  BY ByteAssumption, MemoryAssumption DEF Byte, Tag

\* All lines boot invalid.
LEMMA InitInv == Init => IInv
<1> SUFFICES ASSUME Init PROVE IInv
  OBVIOUS
<1>1. [o \in Offset |-> 0] \in Block
  BY Elements DEF Block
<1>2. TypeOK
  BY <1>1, Elements, ProgramAssumption, TimeAssumption DEF Init, TypeOK, sram_cacheline_t
<1>3. \A i \in LineIndex : lines[i].state = "INVALID"
  BY DEF Init
<1> QED
  BY <1>2, <1>3 DEF IInv, UniqueTags, CleanLinesMatchMemory, Holds

-----------------------------------------------------------------------------
\* What every access has in common, for the line i it uses: the other lines
\* keep state, tag and block; memory keeps all lines but the one of tag t, and
\* that one too unless t was missed; line i ends valid, either for tag t that
\* no other line holds or for the tag it had.
Access(t, i) ==
    /\ TypeOK'
    /\ \A k \in LineIndex \ {i} : /\ lines'[k].state = lines[k].state
                                  /\ lines'[k].tag = lines[k].tag
                                  /\ lines'[k].block = lines[k].block
    /\ \A u \in Tag \ {t} : pm'[u] = pm[u]
    /\ pm' = pm \/ Miss(t)
    /\ lines'[i].state # "INVALID"
    /\ \/ lines'[i].tag = t /\ \A k \in LineIndex \ {i} : ~Holds(k, t)
       \/ lines[i].state # "INVALID" /\ lines'[i].tag = lines[i].tag
    /\ lines'[i].state = "CLEAN" => lines'[i].block = pm'[lines'[i].tag]

\* Each read and write keeps types, tags and clean lines.
LEMMA AccessKeepsInv ==
    ASSUME IInv, NEW t \in Tag, NEW i \in LineIndex, Access(t, i) PROVE IInv'
<1> USE DEF IInv, Access
<1>1. UniqueTags'
  <2> SUFFICES ASSUME NEW a \in LineIndex, NEW b \in LineIndex, a # b,
                      lines'[a].state # "INVALID", lines'[b].state # "INVALID",
                      lines'[a].tag = lines'[b].tag
               PROVE  FALSE
    BY DEF UniqueTags, Holds
  <2>1. \A k \in LineIndex : lines[k].tag \in Tag /\ lines'[k].tag \in Tag
    BY DEF TypeOK, sram_cacheline_t
  <2>2. CASE a # i /\ b # i
    BY <2>1, <2>2 DEF UniqueTags, Holds
  <2>3. CASE a = i
    BY <2>1, <2>3 DEF UniqueTags, Holds
  <2>4. CASE b = i
    BY <2>1, <2>4 DEF UniqueTags, Holds
  <2> QED
    BY <2>2, <2>3, <2>4
<1>2. CleanLinesMatchMemory'
  <2> SUFFICES ASSUME NEW k \in LineIndex, lines'[k].state = "CLEAN", k # i
               PROVE  lines'[k].block = pm'[lines'[k].tag]
    BY DEF CleanLinesMatchMemory
  <2>1. lines[k].block = pm[lines[k].tag]
    BY DEF CleanLinesMatchMemory
  <2>2. pm'[lines[k].tag] = pm[lines[k].tag]
    <3>1. lines[k].tag \in Tag
      BY DEF TypeOK, sram_cacheline_t
    <3> QED
      BY <3>1 DEF Miss, Holds
  <2> QED
    BY <2>1, <2>2
<1> QED
  BY <1>1, <1>2

\* What a read does to the line it uses: it hits, it loads the line without
\* losing anything, or it replaces a dirty line of a full set.
ReadEffect(t, o, i) ==
    /\ lines'[i].tag = t
    /\ delivered' = lines'[i].block[o]
    /\ \/ Holds(i, t) /\ pm' = pm /\ lines'[i].block = lines[i].block
       \/ Miss(t) /\ pm' = pm /\ lines[i].state # "DIRTY" /\ lines'[i].block = pm[t]
       \/ ReadReplace(t, o) /\ Victim(i) /\ lines[i].state = "DIRTY"

\* What a write does to the line it uses: it hits, it fills a free line, or it
\* replaces one of a full set.
WriteEffect(t, o, d, i) ==
    /\ delivered' = delivered
    /\ \/ /\ Holds(i, t) /\ pm' = pm /\ lines'[i].tag = t
          /\ lines'[i].block = [lines[i].block EXCEPT ![o] = d]
       \/ /\ Miss(t) /\ pm' = pm /\ lines'[i].tag = t /\ lines[i].state = "INVALID"
          /\ lines'[i].block = [pm[t] EXCEPT ![o] = d]
       \/ Victim(i) /\ WriteReplace(t, o, d)

\* A read uses one line.
LEMMA ReadAccess ==
    ASSUME IInv, NEW t \in Tag, NEW o \in Offset, sram_cache_read(t, o)
    PROVE  \E i \in LineIndex : Access(t, i) /\ ReadEffect(t, o, i)
<1> USE DEF IInv
<1>1. MayAge /\ Aged \in [LineIndex -> sram_cacheline_t]
  BY AgedShape DEF sram_cache_read
<1>2. \A b \in Block : Loaded(t, b) \in sram_cacheline_t /\ b[o] \in Byte
  BY TimeAssumption DEF Loaded, sram_cacheline_t, Block
<1>3. CASE ReadHit(t, o)
  <2>1. PICK i \in LineIndex : Hit(i, t) /\ delivered' = lines[i].block[o]
    BY <1>3 DEF ReadHit
  <2>2. TypeOK'
    BY <1>1, <1>3, <2>1 DEF ReadHit, TypeOK, sram_cacheline_t, Block
  <2>3. Access(t, i)
    BY <1>1, <1>3, <2>1, <2>2, AgedShape
    DEF ReadHit, Hit, Holds, Access, CleanLinesMatchMemory
  <2>4. ReadEffect(t, o, i)
    BY <1>3, <2>1, AgedShape, <1>1 DEF ReadHit, Hit, Holds, ReadEffect
  <2> QED
    BY <2>3, <2>4
<1>4. CASE ReadFill(t, o)
  <2>1. PICK i \in LineIndex : Free(i) /\ lines' = [Aged EXCEPT ![i] = Loaded(t, pm[t])]
    BY <1>4 DEF ReadFill, Free
  <2>2. TypeOK'
    BY <1>1, <1>2, <1>4, <2>1 DEF ReadFill, TypeOK
  <2>3. lines'[i] = Loaded(t, pm[t]) /\ \A k \in LineIndex \ {i} : lines'[k] = Aged[k]
    BY <1>1, <2>1
  <2>4. Access(t, i)
    BY <1>1, <1>4, <2>2, <2>3, AgedShape DEF ReadFill, Miss, Loaded, Access
  <2>5. ReadEffect(t, o, i)
    BY <1>4, <2>1, <2>3 DEF ReadFill, Free, Loaded, ReadEffect
  <2> QED
    BY <2>4, <2>5
<1>5. CASE ReadReplace(t, o)
  <2>1. PICK i \in LineIndex : /\ Victim(i)
                               /\ pm' = Spill(Aged[i], t)
                               /\ lines' = [Aged EXCEPT ![i] = Loaded(t, pm'[t])]
    BY <1>5 DEF ReadReplace, Victim
  <2>2. pm' \in [Tag -> Block] /\ \A u \in Tag \ {t} : pm'[u] = pm[u]
    BY <1>1, <2>1, SpillShape DEF TypeOK
  <2>3. TypeOK'
    BY <1>1, <1>2, <1>5, <2>1, <2>2 DEF ReadReplace, TypeOK
  <2>4. lines'[i] = Loaded(t, pm'[t]) /\ \A k \in LineIndex \ {i} : lines'[k] = Aged[k]
    BY <1>1, <2>1
  <2>5. Access(t, i)
    BY <1>1, <1>5, <2>2, <2>3, <2>4, AgedShape DEF ReadReplace, Miss, Loaded, Access
  <2>6. lines[i].state # "DIRTY" => pm' = pm
    BY <1>1, <2>1, SpillShape, AgedShape DEF TypeOK
  <2>7. ReadEffect(t, o, i)
    <3> HIDE DEF IInv
    <3>1. lines'[i].tag = t /\ lines'[i].block = pm'[t]
      BY <2>4 DEF Loaded
    <3>2. Miss(t) /\ delivered' = pm'[t][o]
      BY <1>5 DEF ReadReplace
    <3> QED
      BY <1>5, <2>1, <2>6, <3>1, <3>2 DEF ReadEffect
  <2> QED
    BY <2>5, <2>7
<1> QED
  BY <1>3, <1>4, <1>5 DEF sram_cache_read

\* A write uses one line.
LEMMA WriteAccess ==
    ASSUME IInv, NEW t \in Tag, NEW o \in Offset, NEW d \in Data, sram_cache_write(t, o, d)
    PROVE  \E i \in LineIndex : Access(t, i) /\ WriteEffect(t, o, d, i)
<1> USE DEF IInv
<1>1. MayAge /\ Aged \in [LineIndex -> sram_cacheline_t]
  BY AgedShape DEF sram_cache_write
<1>2. \A b \in Block : [b EXCEPT ![o] = d] \in Block
  BY ProgramAssumption DEF Block
<1>3. 0 \in 0 .. MAX_TIME
  BY TimeAssumption
<1>4. CASE WriteHit(t, o, d)
  <2>1. PICK i \in LineIndex :
          /\ Hit(i, t)
          /\ lines' = [Aged EXCEPT ![i].state = "DIRTY", ![i].time = 0, ![i].block[o] = d]
    BY <1>4 DEF WriteHit, Hit
  <2>2. /\ lines'[i] = [state |-> "DIRTY", time |-> 0, tag |-> Aged[i].tag,
                        block |-> [Aged[i].block EXCEPT ![o] = d]]
        /\ \A k \in LineIndex \ {i} : lines'[k] = Aged[k]
    BY <1>1, <2>1 DEF sram_cacheline_t
  <2>3. TypeOK'
    BY <1>1, <1>2, <1>3, <1>4, <2>1, <2>2 DEF WriteHit, TypeOK, sram_cacheline_t
  <2>4. lines'[i].state = "DIRTY" /\ lines'[i].tag = lines[i].tag
    BY <1>1, <2>2, AgedShape
  <2>5. Access(t, i)
    <3> HIDE DEF IInv
    <3>1. \A k \in LineIndex \ {i} : /\ lines'[k].state = lines[k].state
                                     /\ lines'[k].tag = lines[k].tag
                                     /\ lines'[k].block = lines[k].block
      BY <1>1, <2>2, AgedShape DEF IInv
    <3> QED
      BY <1>4, <2>1, <2>3, <2>4, <3>1 DEF WriteHit, Hit, Holds, Access
  <2>6. WriteEffect(t, o, d, i)
    <3>1. lines'[i].block = [lines[i].block EXCEPT ![o] = d] /\ lines'[i].tag = lines[i].tag
      BY <1>1, <2>2, AgedShape
    <3> QED
      BY <1>4, <2>1, <3>1 DEF WriteHit, Hit, Holds, WriteEffect
  <2> QED
    BY <2>5, <2>6
<1>5. CASE WriteFill(t, o, d)
  <2>1. PICK i \in LineIndex :
          /\ Free(i)
          /\ lines' = [Aged EXCEPT ![i].state = "DIRTY", ![i].tag = t,
                                   ![i].block = [pm[t] EXCEPT ![o] = d]]
    BY <1>5 DEF WriteFill, Free
  <2>2. /\ lines'[i] = [state |-> "DIRTY", time |-> Aged[i].time, tag |-> t,
                        block |-> [pm[t] EXCEPT ![o] = d]]
        /\ \A k \in LineIndex \ {i} : lines'[k] = Aged[k]
    BY <1>1, <2>1 DEF sram_cacheline_t
  <2>3. TypeOK'
    BY <1>1, <1>2, <1>5, <2>1, <2>2 DEF WriteFill, TypeOK, sram_cacheline_t
  <2>4. lines'[i].state = "DIRTY" /\ lines'[i].tag = t
    BY <2>2
  <2>5. Access(t, i)
    <3> HIDE DEF IInv
    <3>1. \A k \in LineIndex \ {i} : /\ lines'[k].state = lines[k].state
                                     /\ lines'[k].tag = lines[k].tag
                                     /\ lines'[k].block = lines[k].block
      BY <1>1, <2>2, AgedShape DEF IInv
    <3> QED
      BY <1>5, <2>3, <2>4, <3>1 DEF WriteFill, Miss, Access
  <2>6. WriteEffect(t, o, d, i)
    <3>1. lines'[i].block = [pm[t] EXCEPT ![o] = d]
      BY <2>2
    <3> QED
      BY <1>5, <2>1, <2>4, <3>1 DEF WriteFill, Free, WriteEffect
  <2> QED
    BY <2>5, <2>6
<1>6. CASE WriteReplace(t, o, d)
  <2>1. PICK i \in LineIndex :
          /\ Victim(i)
          /\ pm' = Spill(Aged[i], t)
          /\ lines' = [Aged EXCEPT ![i].state = "DIRTY", ![i].time = 0,
                                   ![i].block = [pm'[t] EXCEPT ![o] = d]]
    BY <1>6 DEF WriteReplace, Victim
  <2>2. pm' \in [Tag -> Block] /\ \A u \in Tag \ {t} : pm'[u] = pm[u]
    BY <1>1, <2>1, SpillShape DEF TypeOK
  <2>3. /\ lines'[i] = [state |-> "DIRTY", time |-> 0, tag |-> Aged[i].tag,
                        block |-> [pm'[t] EXCEPT ![o] = d]]
        /\ \A k \in LineIndex \ {i} : lines'[k] = Aged[k]
    BY <1>1, <2>1 DEF sram_cacheline_t
  <2>4. TypeOK'
    BY <1>1, <1>2, <1>3, <1>6, <2>1, <2>2, <2>3 DEF WriteReplace, TypeOK, sram_cacheline_t
  <2>5. lines'[i].state = "DIRTY" /\ lines'[i].tag = lines[i].tag
    BY <1>1, <2>3, AgedShape
  <2>6. Access(t, i)
    <3> HIDE DEF IInv
    <3>1. \A k \in LineIndex \ {i} : /\ lines'[k].state = lines[k].state
                                     /\ lines'[k].tag = lines[k].tag
                                     /\ lines'[k].block = lines[k].block
      BY <1>1, <2>3, AgedShape DEF IInv
    <3> QED
      BY <1>6, <2>2, <2>4, <2>5, <3>1 DEF WriteReplace, Full, Access
  <2>7. WriteEffect(t, o, d, i)
    <3> HIDE DEF IInv
    <3> QED
      BY <1>6, <2>1 DEF WriteReplace, WriteEffect
  <2> QED
    BY <2>6, <2>7
<1> QED
  BY <1>4, <1>5, <1>6 DEF sram_cache_write

\* The three invariants hold in every state.
THEOREM Invariance == Spec => []IInv
<1>1. IInv /\ [Next]_vars => IInv'
  <2> SUFFICES ASSUME IInv, [Next]_vars PROVE IInv'
    OBVIOUS
  <2>1. CASE UNCHANGED vars
    BY <2>1 DEF vars, IInv, TypeOK, UniqueTags, CleanLinesMatchMemory, Holds
  <2>2. CASE Next
    BY <2>2, ReadAccess, WriteAccess, AccessKeepsInv DEF Next
  <2> QED
    BY <2>1, <2>2
<1> QED
  BY InitInv, <1>1, PTL DEF Spec

\* Lines, memory and the delivered byte have their types; the timers respect
\* the bound.
THEOREM TypeCorrect == Spec => []TypeOK
  BY Invariance, PTL DEF IInv

\* No memory line is in the set twice.
THEOREM TagsUnique == Spec => []UniqueTags
  BY Invariance, PTL DEF IInv

\* Clean lines equal memory, although dirty victims are spilled to the wrong
\* place: the place is always a line that the set does not hold.
THEOREM CleanLinesClean == Spec => []CleanLinesMatchMemory
  BY Invariance, PTL DEF IInv

-----------------------------------------------------------------------------
(* What the program sees *)

\* The byte of a line that holds the tag is the one seen.
LEMMA HeldByte ==
    ASSUME UniqueTags, NEW t \in Tag, NEW o \in Offset, NEW i \in LineIndex, Holds(i, t)
    PROVE  ByteAt(t, o) = lines[i].block[o]
  BY DEF UniqueTags, ByteAt, Miss

\* The same of the next state.
LEMMA HeldByteNext ==
    ASSUME UniqueTags', NEW t \in Tag, NEW o \in Offset, NEW i \in LineIndex, Holds(i, t)'
    PROVE  ByteAt(t, o)' = lines'[i].block[o]
<1>1. \A k \in LineIndex : Holds(k, t)' => k = i
  BY DEF UniqueTags
<1>2. (CHOOSE k \in LineIndex : Holds(k, t)') = i
  BY <1>1
<1> QED
  BY <1>2 DEF ByteAt, Miss

\* An access leaves the bytes of other tags as they are seen, unless it takes a
\* dirty line away from them.
LEMMA OtherBytesKept ==
    ASSUME IInv, IInv', NEW t \in Tag, NEW i \in LineIndex, Access(t, i),
           lines'[i].tag = t, lines[i].state # "DIRTY" \/ Holds(i, t),
           NEW u \in Tag, u # t, NEW p \in Offset
    PROVE  ByteAt(u, p)' = ByteAt(u, p)
<1> USE DEF IInv
<1>1. \A k \in LineIndex \ {i} : /\ Holds(k, u)' <=> Holds(k, u)
                                 /\ lines'[k].block = lines[k].block
  BY DEF Access, Holds
<1>2. ~Holds(i, u)'
  BY DEF Holds
<1>3. CASE \E k \in LineIndex \ {i} : Holds(k, u)
  <2>1. PICK k \in LineIndex \ {i} : Holds(k, u)
    BY <1>3
  <2> QED
    BY <1>1, <2>1, HeldByte, HeldByteNext
<1>4. CASE \A k \in LineIndex \ {i} : ~Holds(k, u)
  <2>1. Miss(u)'
    BY <1>1, <1>2, <1>4 DEF Miss
  <2>2. ByteAt(u, p)' = pm[u][p]
    BY <2>1 DEF ByteAt, Access
  <2>3. CASE Holds(i, u)
    <3>1. lines[i].state = "CLEAN" /\ lines[i].tag = u
      BY <2>3 DEF Holds, TypeOK, sram_cacheline_t
    <3> QED
      BY <2>2, <2>3, <3>1, HeldByte DEF CleanLinesMatchMemory
  <2>4. CASE ~Holds(i, u)
    BY <1>4, <2>2, <2>4 DEF ByteAt, Miss
  <2> QED
    BY <2>3, <2>4
<1> QED
  BY <1>3, <1>4

\* A replacement leaves the lines alone that are neither the one it was made for nor the
\* one it replaces.
LEMMA ThirdLinesKept ==
    ASSUME IInv, NEW t \in Tag, NEW i \in LineIndex, Access(t, i),
           lines'[i].tag \in {t, lines[i].tag}, NEW u \in Tag \ {t, lines[i].tag}
    PROVE  Visible'[u] = Visible[u]
<1>1. IInv'
  BY AccessKeepsInv
<1>2. \A k \in LineIndex \ {i} : /\ Holds(k, u)' <=> Holds(k, u)
                                 /\ lines'[k].block = lines[k].block
  BY DEF Access, Holds
<1>3. ~Holds(i, u) /\ ~Holds(i, u)'
  BY DEF Holds
<1>4. ASSUME NEW p \in Offset PROVE ByteAt(u, p)' = ByteAt(u, p)
  <2>1. CASE \E k \in LineIndex \ {i} : Holds(k, u)
    <3>1. PICK k \in LineIndex \ {i} : Holds(k, u)
      BY <2>1
    <3> QED
      BY <1>1, <1>2, <3>1, HeldByte, HeldByteNext DEF IInv
  <2>2. CASE \A k \in LineIndex \ {i} : ~Holds(k, u)
    <3>1. Miss(u) /\ Miss(u)'
      BY <1>2, <1>3, <2>2 DEF Miss
    <3> QED
      BY <3>1 DEF ByteAt, Access
  <2> QED
    BY <2>1, <2>2
<1> QED
  BY <1>4 DEF Visible

\* A read leaves every byte as it is seen, unless it replaces a dirty line.
LEMMA ReadKeepsVisible ==
    ASSUME IInv, NEW t \in Tag, NEW o \in Offset, NEW i \in LineIndex,
           Access(t, i), ReadEffect(t, o, i)
    PROVE  \/ Visible' = Visible /\ delivered' = Visible[t][o]
           \/ ReadReplace(t, o) /\ Victim(i) /\ lines[i].state = "DIRTY"
<1> SUFFICES ASSUME ~(ReadReplace(t, o) /\ Victim(i) /\ lines[i].state = "DIRTY")
             PROVE  Visible' = Visible /\ delivered' = Visible[t][o]
  OBVIOUS
<1>1. IInv'
  BY AccessKeepsInv
<1>2. Holds(i, t)'
  BY DEF Access, ReadEffect, Holds
<1>3. ASSUME NEW p \in Offset PROVE ByteAt(t, p) = lines'[i].block[p]
  BY HeldByte DEF ReadEffect, IInv, ByteAt
<1>4. ASSUME NEW u \in Tag, NEW p \in Offset PROVE ByteAt(u, p)' = ByteAt(u, p)
  <2>1. CASE u = t
    BY <1>1, <1>2, <1>3, <2>1, HeldByteNext DEF IInv
  <2>2. CASE u # t
    BY <1>1, <2>2, OtherBytesKept DEF ReadEffect
  <2> QED
    BY <2>1, <2>2
<1> QED
  BY <1>3, <1>4 DEF Visible, ReadEffect

\* A write changes the byte it is asked to write, unless it replaces a line.
LEMMA WriteSetsVisible ==
    ASSUME IInv, NEW t \in Tag, NEW o \in Offset, NEW d \in Data, NEW i \in LineIndex,
           Access(t, i), WriteEffect(t, o, d, i)
    PROVE  \/ Visible' = [Visible EXCEPT ![t][o] = d] /\ delivered' = delivered
           \/ Victim(i) /\ WriteReplace(t, o, d)
<1> SUFFICES ASSUME ~(Victim(i) /\ WriteReplace(t, o, d))
             PROVE  Visible' = [Visible EXCEPT ![t][o] = d] /\ delivered' = delivered
  OBVIOUS
<1>1. IInv'
  BY AccessKeepsInv
<1>2. Holds(i, t)' /\ lines'[i].tag = t
  BY DEF Access, WriteEffect, Holds
<1>3. ASSUME NEW p \in Offset
      PROVE  ByteAt(t, p)' = IF p = o THEN d ELSE ByteAt(t, p)
  <2>1. ByteAt(t, p)' = lines'[i].block[p]
    BY <1>1, <1>2, HeldByteNext DEF IInv
  <2>2. CASE Holds(i, t) /\ lines'[i].block = [lines[i].block EXCEPT ![o] = d]
    <3>1. DOMAIN lines[i].block = Offset
      BY DEF IInv, TypeOK, sram_cacheline_t, Block
    <3> QED
      BY <2>1, <2>2, <3>1, HeldByte DEF IInv
  <2>3. CASE Miss(t) /\ lines'[i].block = [pm[t] EXCEPT ![o] = d]
    <3>1. DOMAIN pm[t] = Offset
      BY DEF IInv, TypeOK, Block
    <3> QED
      BY <2>1, <2>3, <3>1 DEF ByteAt
  <2> QED
    BY <2>2, <2>3 DEF WriteEffect
<1>4. ASSUME NEW u \in Tag, u # t, NEW p \in Offset PROVE ByteAt(u, p)' = ByteAt(u, p)
  BY <1>1, <1>2, <1>4, OtherBytesKept DEF WriteEffect
<1>5. \A u \in Tag : Visible'[u] = IF u = t THEN [Visible[t] EXCEPT ![o] = d] ELSE Visible[u]
  BY <1>3, <1>4 DEF Visible
<1> QED
  BY <1>5 DEF Visible, WriteEffect

\* Nothing is cached at first, and the visible bytes are those of memory.
LEMMA InitMemory == Init => Memory!Init
<1> SUFFICES ASSUME Init PROVE Memory!Init
  OBVIOUS
<1>1. TypeOK
  BY InitInv DEF IInv
<1>2. \A t \in Tag : Miss(t)
  BY DEF Init, Miss, Holds
<1> QED
  BY <1>1, <1>2 DEF TypeOK, Memory!Init, Visible, ByteAt, Block

\* A step that is no lossy replacement is a read or a write of the flat memory.
LEMMA StepIsMemoryStep == IInv /\ Next => Memory!Next \/ LossyReplacement
<1> SUFFICES ASSUME IInv, Next PROVE Memory!Next \/ LossyReplacement
  OBVIOUS
<1>1. PICK t \in Tag, o \in Offset :
        sram_cache_read(t, o) \/ \E d \in Data : sram_cache_write(t, o, d)
  BY DEF Next
<1>2. CASE sram_cache_read(t, o)
  <2>1. PICK i \in LineIndex : Access(t, i) /\ ReadEffect(t, o, i)
    BY <1>2, ReadAccess
  <2>2. \/ Visible' = Visible /\ delivered' = Visible[t][o]
        \/ ReadReplace(t, o) /\ Victim(i) /\ lines[i].state = "DIRTY"
    BY <2>1, ReadKeepsVisible
  <2>3. \A u \in Tag \ {t, lines[i].tag} : Visible'[u] = Visible[u]
    BY <2>1, ThirdLinesKept DEF ReadEffect
  <2> QED
    BY <2>2, <2>3 DEF Memory!Next, Memory!Read, LossyReplacement
<1>3. CASE \E d \in Data : sram_cache_write(t, o, d)
  <2>1. PICK d \in Data : sram_cache_write(t, o, d)
    BY <1>3
  <2>2. PICK i \in LineIndex : Access(t, i) /\ WriteEffect(t, o, d, i)
    BY <2>1, WriteAccess
  <2>3. \/ Visible' = [Visible EXCEPT ![t][o] = d] /\ delivered' = delivered
        \/ Victim(i) /\ WriteReplace(t, o, d)
    BY <2>2, WriteSetsVisible
  <2>4. lines'[i].tag \in {t, lines[i].tag}
    BY <2>2 DEF Access
  <2>5. \A u \in Tag \ {t, lines[i].tag} : Visible'[u] = Visible[u]
    BY <2>2, <2>4, ThirdLinesKept
  <2> QED
    BY <2>3, <2>5 DEF Memory!Next, Memory!Write, LossyReplacement
<1> QED
  BY <1>1, <1>2, <1>3

\* Every step of cache and memory is one of the flat memory, unless it is itself one that
\* reads into the place of a dirty line or writes into the place of any; and of such a
\* step no third line notices anything.
THEOREM OnlyReplacementDisturbs == Spec => FlatButForReplacement
<1>1. IInv /\ [Next]_vars => [Memory!Next \/ LossyReplacement]_vars
  BY StepIsMemoryStep
<1> QED
  BY Invariance, InitMemory, <1>1, PTL DEF Spec, FlatButForReplacement

-----------------------------------------------------------------------------
(* A working set that fits *)

\* When there are no more memory lines than lines in the set, a miss finds a
\* free line: otherwise the lines would hold as many different tags, none of
\* them the missed one.
LEMMA MissFindsFreeLine ==
    ASSUME NUM_TAG <= NUM_CACHE_LINE_PER_SET, IInv, NEW t \in Tag, Miss(t)
    PROVE  ~Full
<1> SUFFICES ASSUME Full PROVE FALSE
  OBVIOUS
<1> DEFINE tagOf == [i \in LineIndex |-> lines[i].tag]
<1>1. NUM_TAG \in Nat \ {0} /\ NUM_CACHE_LINE_PER_SET \in Nat \ {0}
  BY MemoryAssumption, LineAssumption
<1>2. IsFiniteSet(LineIndex) /\ Cardinality(LineIndex) = NUM_CACHE_LINE_PER_SET
  <2>1. 0 \in Int /\ NUM_CACHE_LINE_PER_SET - 1 \in Int /\ NUM_CACHE_LINE_PER_SET > 0
    BY <1>1
  <2> QED
    BY <1>1, <2>1, FS_Interval DEF LineIndex
<1>3. IsFiniteSet(Tag \ {t}) /\ Cardinality(Tag \ {t}) = NUM_TAG - 1
  <2>1. 0 \in Int /\ NUM_TAG - 1 \in Int /\ NUM_TAG > 0
    BY <1>1
  <2>2. IsFiniteSet(Tag) /\ Cardinality(Tag) = NUM_TAG
    BY <1>1, <2>1, FS_Interval DEF Tag
  <2> QED
    BY <2>2, FS_RemoveElement
<1>4. tagOf \in [LineIndex -> Tag \ {t}]
  BY DEF IInv, TypeOK, sram_cacheline_t, Full, Miss, Holds
<1>5. Cardinality(Tag \ {t}) < Cardinality(LineIndex)
  BY <1>1, <1>2, <1>3
<1>6. \E x, y \in LineIndex : x # y /\ tagOf[x] = tagOf[y]
  <2> HIDE DEF tagOf
  <2> QED
    BY <1>2, <1>3, <1>4, <1>5, FS_PigeonHole
<1> QED
  BY <1>4, <1>6 DEF IInv, UniqueTags, Holds, Full

\* The cache is transparent to a program whose memory lines fit into the set:
\* cache and memory implement the flat memory.
THEOREM FittingProgramSeesMemory ==
    ASSUME NUM_TAG <= NUM_CACHE_LINE_PER_SET
    PROVE  Spec => ImplementsMemory
<1>1. IInv /\ [Next]_vars => [Memory!Next]_(Memory!memoryVars)
  <2> SUFFICES ASSUME IInv, [Next]_vars PROVE Memory!Next \/ UNCHANGED Memory!memoryVars
    OBVIOUS
  <2>1. CASE UNCHANGED vars
    BY <2>1 DEF vars, Memory!memoryVars, Visible, ByteAt, Miss, Holds
  <2>2. CASE Next
    BY <2>2, StepIsMemoryStep, MissFindsFreeLine DEF LossyReplacement, ReadReplace, WriteReplace
  <2> QED
    BY <2>1, <2>2
<1> QED
  BY Invariance, InitMemory, <1>1, PTL DEF Spec, Memory!Spec, ImplementsMemory
=============================================================================
