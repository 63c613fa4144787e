--------------------------- MODULE MachineProofs ---------------------------
(***************************************************************************)
(* Proofs about the memory system as an instruction meets it, for any      *)
(* number of cache lines, frames and pages and any width of bytes and      *)
(* words.                                                                  *)
(*                                                                         *)
(* The cache and the paging are instances of SRAM and MMU, driven in a way *)
(* their own specifications do not know: frames are swapped behind the     *)
(* cache, so that clean lines need not agree with memory, and written      *)
(* through the cache, byte by byte.  So the lemmas of SRAMProofs and       *)
(* MMUProofs are stated anew for the instances, with what is left of them. *)
(***************************************************************************)
EXTENDS Machine, TLAPS, WellFoundedInduction

\* Lines, frames and the delivered byte have their types, and no frame is cached
\* twice.
CacheInv == Cache!TypeOK /\ Cache!UniqueTags

\* Entries and descriptors are inverse to each other.
MapInv == Paging!TypeOK /\ Paging!ReverseMapping

\* A disk address other than 0 belongs to one page, a frame that may be written to
\* disk has one, and an unused frame has none.
SlotsApart ==
    \A p, q \in Paging!Page : p # q /\ Paging!SlotOf(p) # 0 => Paging!SlotOf(p) # Paging!SlotOf(q)
WrittenFramesHaveSlots ==
    \A f \in Paging!Frame :
        page_map[f].dirty = 1 \/ page_map[f].time >= MAX_NUM_PHYSICAL_PAGE => page_map[f].daddr # 0
FreeFramesHaveNone == \A f \in Paging!Frame : Paging!IsFree(f) => page_map[f].daddr = 0
SlotInv == SlotsApart /\ WrittenFramesHaveSlots /\ FreeFramesHaveNone

\* An access has begun exactly when the translation of a page waits for it.
TaskInv ==
    /\ task = [op |-> task.op, moved |-> task.moved, word |-> task.word]
    /\ task.op \in {"none", "read", "write", "fetch", "load"} /\ task.moved \in 0 .. WORD_BYTES
    /\ task.op \in {"write", "load"} => task.word \in Words
    /\ task.op = "none" <=> walked = Paging!Nowhere
    /\ walked = Paging!Nowhere \/ walked.page \in Paging!Page

\* The bytes a store has moved are in the line of its frame, or it replaced a line and
\* will go on replacing lines, of a set that stays full.
Storing ==
    task.op = "write" /\ task.moved > 0 =>
        \/ /\ Cached(walked.ppn)
           /\ \A o \in 0 .. task.moved - 1 : Cache!Visible[walked.ppn][o] = StoredByte(task.word, o)
        \/ ~Cached(walked.ppn) /\ Cache!Full

\* The inductive invariant.
Machinery == CacheInv /\ MapInv /\ SlotInv /\ TaskInv /\ Storing

-----------------------------------------------------------------------------
(* The constants *)

\* What the assumptions say of the numbers.
LEMMA Numbers ==
    /\ BYTES \in Nat /\ BYTES > 2 /\ MAX_TIME \in Nat
    /\ WORD_BYTES \in Nat /\ WORD_BYTES > 0 /\ HEADER \in 0 .. WORD_BYTES
    /\ MAX_NUM_PHYSICAL_PAGE \in Nat /\ MAX_NUM_PHYSICAL_PAGE > 0 /\ MAX_NUM_PHYSICAL_PAGE <= BYTES
    /\ NUM_PAGE \in Nat
  BY WidthAssumption, SizeAssumption

\* The tags of the cache are the frames of the memory.
LEMMA TagsAreFrames == Cache!Tag = Paging!Frame /\ Page = 1 .. NUM_PAGE
  BY DEF Cache!Tag, Paging!Frame, Page, Paging!Page

\* What is cut out of a word is a byte, whatever the powers are.
LEMMA CutIsByte ==
    ASSUME NEW w \in Int, NEW o \in Cache!Offset
    PROVE  StoredByte(w, o) \in Cache!Byte /\ ByteOf(w, o) \in Cache!Byte
<1>1. o \in Int /\ BYTES \in Nat /\ BYTES > 2
  BY Numbers DEF Cache!Offset
<1>2. (w \div BYTES^o) % BYTES \in 0 .. BYTES - 1
  BY <1>1
<1> QED
  BY <1>2 DEF StoredByte, ByteOf, Cache!Byte

\* The bytes of a number make a block.
LEMMA CutIsBlock == ASSUME NEW w \in Int PROVE Bytes(w) \in Cache!Block
<1>1. \A o \in Cache!Offset : ByteOf(w, o) \in Cache!Byte
  BY CutIsByte
<1> QED
  BY <1>1 DEF Bytes, Cache!Block, Cache!Offset

\* So the pages start as blocks, and so do the frames that are not in use.
LEMMA WordsAreInts == \A w \in Words : w \in Int
<1> DEFINE m == BYTES^WORD_BYTES
<1>1. m \in Int
  BY Numbers
<1>2. \A w \in 0 .. m - 1 : w \in Int
  <2> HIDE DEF m
  <2> QED
    BY <1>1
<1> QED
  BY <1>2 DEF Words

\* Memory and disk start out with blocks.
LEMMA ImagesAreBlocks ==
    /\ [p \in 1 .. NUM_PAGE |-> Bytes(Images[p])] \in [1 .. NUM_PAGE -> Cache!Block]
    /\ Bytes(0) \in Cache!Block
<1>1. \A p \in 1 .. NUM_PAGE : Images[p] \in Words
  BY ImageAssumption
<1>2. \A p \in 1 .. NUM_PAGE : Images[p] \in Int
  BY <1>1, WordsAreInts
<1>3. \A w \in Int : Bytes(w) \in Cache!Block
  BY CutIsBlock
<1> QED
  BY <1>2, <1>3

-----------------------------------------------------------------------------
(* The cache *)

\* The spilled record is a block of bytes.
LEMMA ImageIsBlock ==
    ASSUME NEW line \in Cache!sram_cacheline_t PROVE Cache!Image(line) \in Cache!Block
<1> USE Numbers
<1> SUFFICES ASSUME NEW o \in Cache!Offset
             PROVE  (CASE o >= HEADER         -> line.block[o - HEADER]
                       [] o = 0 /\ o < HEADER -> 2
                       [] o = 4 /\ o < HEADER -> line.time % BYTES
                       [] o = 5 /\ o < HEADER -> (line.time \div BYTES) % BYTES
                       [] o = 8 /\ o < HEADER -> line.tag
                       [] OTHER               -> 0) \in Cache!Byte
  BY DEF Cache!Image, Cache!Block
<1>1. o \in Int /\ HEADER \in Int
  BY DEF Cache!Offset
<1>2. CASE o >= HEADER
  <2>1. o - HEADER \in Cache!Offset
    BY <1>2 DEF Cache!Offset
  <2>2. line.block[o - HEADER] \in Cache!Byte
    BY <2>1 DEF Cache!sram_cacheline_t, Cache!Block
  <2> QED
    BY <1>1, <1>2, <2>2
<1>3. CASE ~(o >= HEADER)
  <2>1. 2 \in Cache!Byte /\ 0 \in Cache!Byte
    BY DEF Cache!Byte
  <2>2. line.tag \in Cache!Byte
    BY DEF Cache!sram_cacheline_t, Cache!Tag, Cache!Byte
  <2>3. \A n \in Int : n % BYTES \in Cache!Byte
    BY DEF Cache!Byte
  <2>4. line.time \in Int /\ line.time \div BYTES \in Int
    BY DEF Cache!sram_cacheline_t
  <2> QED
    BY <1>1, <1>3, <2>1, <2>2, <2>3, <2>4
<1> QED
  BY <1>2, <1>3

\* The bus writes a whole line of bytes, over the frame of the access only.
LEMMA SpillShape ==
    ASSUME Cache!TypeOK, NEW line \in Cache!sram_cacheline_t, NEW t \in Cache!Tag,
           pm' = Cache!Spill(line, t)
    PROVE  /\ pm' \in [Cache!Tag -> Cache!Block]
           /\ \A u \in Cache!Tag \ {t} : pm'[u] = pm[u]
           /\ line.state # "DIRTY" => pm' = pm
  BY ImageIsBlock DEF Cache!Spill, Cache!TypeOK

\* Ageing keeps the lines' types below the bound, and changes only timers.
LEMMA AgedShape ==
    ASSUME Cache!TypeOK, Cache!MayAge
    PROVE  /\ Cache!Aged \in [Cache!LineIndex -> Cache!sram_cacheline_t]
           /\ \A k \in Cache!LineIndex : /\ Cache!Aged[k].state = lines[k].state
                                         /\ Cache!Aged[k].tag = lines[k].tag
                                         /\ Cache!Aged[k].block = lines[k].block
<1>1. ASSUME NEW k \in Cache!LineIndex
      PROVE  [lines[k] EXCEPT !.time = @ + 1] \in Cache!sram_cacheline_t
  BY Numbers DEF Cache!TypeOK, Cache!MayAge, Cache!sram_cacheline_t
<1> QED
  BY <1>1 DEF Cache!Aged, Cache!TypeOK, Cache!sram_cacheline_t

\* What every access has in common, for the line i it uses: the other lines keep
\* state, tag and block, and memory all frames but the one of the access; line i ends
\* valid, either for frame t that no other line holds or for the one it had.
Access(t, i) ==
    /\ Cache!TypeOK'
    /\ \A k \in Cache!LineIndex \ {i} : /\ lines'[k].state = lines[k].state
                                        /\ lines'[k].tag = lines[k].tag
                                        /\ lines'[k].block = lines[k].block
    /\ \A u \in Cache!Tag \ {t} : pm'[u] = pm[u]
    /\ lines'[i].state # "INVALID"
    /\ \/ lines'[i].tag = t /\ \A k \in Cache!LineIndex \ {i} : ~Cache!Holds(k, t)
       \/ lines[i].state # "INVALID" /\ lines'[i].tag = lines[i].tag

\* An access to the cache keeps its invariant.
LEMMA AccessKeepsInv ==
    ASSUME CacheInv, NEW t \in Cache!Tag, NEW i \in Cache!LineIndex, Access(t, i)
    PROVE  CacheInv'
<1> SUFFICES ASSUME NEW a \in Cache!LineIndex, NEW b \in Cache!LineIndex, a # b,
                    lines'[a].state # "INVALID", lines'[b].state # "INVALID",
                    lines'[a].tag = lines'[b].tag
             PROVE  FALSE
  BY DEF CacheInv, Access, Cache!UniqueTags, Cache!Holds
<1>1. \A k \in Cache!LineIndex : lines[k].tag \in Cache!Tag /\ lines'[k].tag \in Cache!Tag
  BY DEF CacheInv, Access, Cache!TypeOK, Cache!sram_cacheline_t
<1>2. CASE a # i /\ b # i
  BY <1>1, <1>2 DEF CacheInv, Access, Cache!UniqueTags, Cache!Holds
<1>3. CASE a = i
  BY <1>1, <1>3 DEF CacheInv, Access, Cache!UniqueTags, Cache!Holds
<1>4. CASE b = i
  BY <1>1, <1>4 DEF CacheInv, Access, Cache!UniqueTags, Cache!Holds
<1> QED
  BY <1>2, <1>3, <1>4

\* What a read does to the line it uses: it hits, it loads the line into one that is not
\* dirty, or it replaces a dirty line of a full set.
ReadEffect(t, o, i) ==
    /\ lines'[i].tag = t
    /\ \/ /\ Cache!Holds(i, t) /\ pm' = pm /\ lines'[i].block = lines[i].block
          /\ delivered' = lines[i].block[o]
       \/ /\ Cache!Miss(t) /\ pm' = pm /\ lines'[i].block = pm[t]
          /\ lines[i].state = "INVALID" \/ (Cache!Full /\ Cache!Victim(i) /\ lines[i].state # "DIRTY")
          /\ delivered' = pm[t][o]
       \/ Cache!Miss(t) /\ Cache!Full /\ Cache!Victim(i) /\ lines[i].state = "DIRTY"

\* What a write does: it hits, it fills a free line, or it replaces a line of a full set
\* and leaves the tag.
WriteEffect(t, o, d, i) ==
    /\ delivered' = delivered
    /\ \/ /\ Cache!Holds(i, t) /\ pm' = pm /\ lines'[i].tag = t
          /\ lines'[i].block = [lines[i].block EXCEPT ![o] = d]
       \/ /\ Cache!Miss(t) /\ pm' = pm /\ lines'[i].tag = t /\ lines[i].state = "INVALID"
          /\ lines'[i].block = [pm[t] EXCEPT ![o] = d]
       \/ Cache!Miss(t) /\ Cache!Full /\ lines'[i].tag = lines[i].tag

\* A read uses one line.
LEMMA ReadAccess ==
    ASSUME CacheInv, NEW t \in Cache!Tag, NEW o \in Cache!Offset, Cache!sram_cache_read(t, o)
    PROVE  \E i \in Cache!LineIndex : Access(t, i) /\ ReadEffect(t, o, i)
<1> USE DEF CacheInv
<1>1. Cache!MayAge /\ Cache!Aged \in [Cache!LineIndex -> Cache!sram_cacheline_t]
  BY AgedShape DEF Cache!sram_cache_read
<1>2. \A b \in Cache!Block : Cache!Loaded(t, b) \in Cache!sram_cacheline_t /\ b[o] \in Cache!Byte
  BY Numbers DEF Cache!Loaded, Cache!sram_cacheline_t, Cache!Block
<1>3. CASE Cache!ReadHit(t, o)
  <2>1. PICK i \in Cache!LineIndex : Cache!Hit(i, t) /\ delivered' = lines[i].block[o]
    BY <1>3 DEF Cache!ReadHit, Cache!Hit
  <2>2. Cache!TypeOK'
    BY <1>1, <1>3, <2>1 DEF Cache!ReadHit, Cache!TypeOK, Cache!sram_cacheline_t, Cache!Block
  <2>3. Access(t, i)
    BY <1>1, <1>3, <2>1, <2>2, AgedShape DEF Cache!ReadHit, Cache!Hit, Cache!Holds, Access
  <2>4. ReadEffect(t, o, i)
    BY <1>3, <2>1, AgedShape, <1>1 DEF Cache!ReadHit, Cache!Hit, Cache!Holds, ReadEffect
  <2> QED
    BY <2>3, <2>4
<1>4. CASE Cache!ReadFill(t, o)
  <2>1. PICK i \in Cache!LineIndex :
            Cache!Free(i) /\ lines' = [Cache!Aged EXCEPT ![i] = Cache!Loaded(t, pm[t])]
    BY <1>4 DEF Cache!ReadFill, Cache!Free
  <2>2. Cache!TypeOK'
    BY <1>1, <1>2, <1>4, <2>1 DEF Cache!ReadFill, Cache!TypeOK
  <2>3. /\ lines'[i] = Cache!Loaded(t, pm[t])
        /\ \A k \in Cache!LineIndex \ {i} : lines'[k] = Cache!Aged[k]
    BY <1>1, <2>1
  <2>4. Access(t, i)
    BY <1>1, <1>4, <2>2, <2>3, AgedShape DEF Cache!ReadFill, Cache!Miss, Cache!Loaded, Access
  <2>5. ReadEffect(t, o, i)
    BY <1>4, <2>1, <2>3 DEF Cache!ReadFill, Cache!Free, Cache!Loaded, ReadEffect
  <2> QED
    BY <2>4, <2>5
<1>5. CASE Cache!ReadReplace(t, o)
  <2>1. PICK i \in Cache!LineIndex :
            /\ Cache!Victim(i)
            /\ pm' = Cache!Spill(Cache!Aged[i], t)
            /\ lines' = [Cache!Aged EXCEPT ![i] = Cache!Loaded(t, pm'[t])]
    BY <1>5 DEF Cache!ReadReplace, Cache!Victim
  <2>2. /\ pm' \in [Cache!Tag -> Cache!Block]
        /\ \A u \in Cache!Tag \ {t} : pm'[u] = pm[u]
        /\ lines[i].state # "DIRTY" => pm' = pm
    BY <1>1, <2>1, SpillShape, AgedShape
  <2>3. Cache!TypeOK'
    BY <1>1, <1>2, <1>5, <2>1, <2>2 DEF Cache!ReadReplace, Cache!TypeOK
  <2>4. /\ lines'[i] = Cache!Loaded(t, pm'[t])
        /\ \A k \in Cache!LineIndex \ {i} : lines'[k] = Cache!Aged[k]
    BY <1>1, <2>1
  <2>5. Access(t, i)
    BY <1>1, <1>5, <2>2, <2>3, <2>4, AgedShape
    DEF Cache!ReadReplace, Cache!Miss, Cache!Loaded, Access
  <2>6. ReadEffect(t, o, i)
    BY <1>5, <2>1, <2>2, <2>4 DEF Cache!ReadReplace, Cache!Loaded, ReadEffect
  <2> QED
    BY <2>5, <2>6
<1> QED
  BY <1>3, <1>4, <1>5 DEF Cache!sram_cache_read

\* A write uses one line.
LEMMA WriteAccess ==
    ASSUME CacheInv, NEW t \in Cache!Tag, NEW o \in Cache!Offset, NEW d \in Cache!Byte,
           Cache!sram_cache_write(t, o, d)
    PROVE  \E i \in Cache!LineIndex : Access(t, i) /\ WriteEffect(t, o, d, i)
<1> USE DEF CacheInv
<1>1. Cache!MayAge /\ Cache!Aged \in [Cache!LineIndex -> Cache!sram_cacheline_t]
  BY AgedShape DEF Cache!sram_cache_write
<1>2. \A b \in Cache!Block : [b EXCEPT ![o] = d] \in Cache!Block
  BY DEF Cache!Block
<1>3. 0 \in 0 .. MAX_TIME
  BY Numbers
<1>4. ASSUME NEW i \in Cache!LineIndex, Cache!TypeOK',
             \A k \in Cache!LineIndex \ {i} : lines'[k] = Cache!Aged[k],
             \A u \in Cache!Tag \ {t} : pm'[u] = pm[u],
             lines'[i].state = "DIRTY",
             \/ lines'[i].tag = t /\ (Cache!Miss(t) \/ Cache!Hit(i, t))
             \/ lines[i].state # "INVALID" /\ lines'[i].tag = lines[i].tag
      PROVE  Access(t, i)
  <2>1. \A k \in Cache!LineIndex \ {i} : /\ lines'[k].state = lines[k].state
                                         /\ lines'[k].tag = lines[k].tag
                                         /\ lines'[k].block = lines[k].block
    BY <1>1, <1>4, AgedShape
  <2>2. Cache!Hit(i, t) => \A k \in Cache!LineIndex \ {i} : ~Cache!Holds(k, t)
    BY DEF Cache!Hit, Cache!UniqueTags
  <2> HIDE DEF CacheInv
  <2> QED
    BY <1>4, <2>1, <2>2 DEF Access, Cache!Miss
<1>5. CASE Cache!WriteHit(t, o, d)
  <2>1. PICK i \in Cache!LineIndex :
          /\ Cache!Hit(i, t)
          /\ lines' = [Cache!Aged EXCEPT ![i].state = "DIRTY", ![i].time = 0, ![i].block[o] = d]
    BY <1>5 DEF Cache!WriteHit, Cache!Hit
  <2>2. /\ lines'[i] = [state |-> "DIRTY", time |-> 0, tag |-> Cache!Aged[i].tag,
                        block |-> [Cache!Aged[i].block EXCEPT ![o] = d]]
        /\ \A k \in Cache!LineIndex \ {i} : lines'[k] = Cache!Aged[k]
    BY <1>1, <2>1 DEF Cache!sram_cacheline_t
  <2>3. Cache!TypeOK'
    BY <1>1, <1>2, <1>3, <1>5, <2>1, <2>2
    DEF Cache!WriteHit, Cache!TypeOK, Cache!sram_cacheline_t
  <2>4. /\ lines'[i].state = "DIRTY" /\ lines'[i].tag = lines[i].tag /\ lines[i].tag = t
        /\ lines'[i].block = [lines[i].block EXCEPT ![o] = d]
    BY <1>1, <2>1, <2>2, AgedShape DEF Cache!Hit, Cache!Holds
  <2>5. Access(t, i)
    <3> HIDE DEF CacheInv
    <3> QED
      BY <1>4, <1>5, <2>1, <2>2, <2>3, <2>4 DEF Cache!WriteHit
  <2>6. WriteEffect(t, o, d, i)
    BY <1>5, <2>1, <2>4 DEF Cache!WriteHit, Cache!Hit, WriteEffect
  <2> QED
    BY <2>5, <2>6
<1>6. CASE Cache!WriteFill(t, o, d)
  <2>1. PICK i \in Cache!LineIndex :
          /\ Cache!Free(i)
          /\ lines' = [Cache!Aged EXCEPT ![i].state = "DIRTY", ![i].tag = t,
                                         ![i].block = [pm[t] EXCEPT ![o] = d]]
    BY <1>6 DEF Cache!WriteFill, Cache!Free
  <2>2. /\ lines'[i] = [state |-> "DIRTY", time |-> Cache!Aged[i].time, tag |-> t,
                        block |-> [pm[t] EXCEPT ![o] = d]]
        /\ \A k \in Cache!LineIndex \ {i} : lines'[k] = Cache!Aged[k]
    BY <1>1, <2>1 DEF Cache!sram_cacheline_t
  <2>3. Cache!TypeOK'
    BY <1>1, <1>2, <1>6, <2>1, <2>2 DEF Cache!WriteFill, Cache!TypeOK, Cache!sram_cacheline_t
  <2>4. /\ lines'[i].state = "DIRTY" /\ lines'[i].tag = t
        /\ lines'[i].block = [pm[t] EXCEPT ![o] = d]
    BY <2>2
  <2>5. Access(t, i)
    <3> HIDE DEF CacheInv
    <3> QED
      BY <1>4, <1>6, <2>2, <2>3, <2>4 DEF Cache!WriteFill
  <2>6. WriteEffect(t, o, d, i)
    BY <1>6, <2>1, <2>4 DEF Cache!WriteFill, Cache!Free, WriteEffect
  <2> QED
    BY <2>5, <2>6
<1>7. CASE Cache!WriteReplace(t, o, d)
  <2>1. PICK i \in Cache!LineIndex :
          /\ pm' = Cache!Spill(Cache!Aged[i], t)
          /\ lines' = [Cache!Aged EXCEPT ![i].state = "DIRTY", ![i].time = 0,
                                         ![i].block = [pm'[t] EXCEPT ![o] = d]]
    BY <1>7 DEF Cache!WriteReplace, Cache!Victim
  <2>2. pm' \in [Cache!Tag -> Cache!Block] /\ \A u \in Cache!Tag \ {t} : pm'[u] = pm[u]
    BY <1>1, <2>1, SpillShape
  <2>3. /\ lines'[i] = [state |-> "DIRTY", time |-> 0, tag |-> Cache!Aged[i].tag,
                        block |-> [pm'[t] EXCEPT ![o] = d]]
        /\ \A k \in Cache!LineIndex \ {i} : lines'[k] = Cache!Aged[k]
    BY <1>1, <2>1 DEF Cache!sram_cacheline_t
  <2>4. Cache!TypeOK'
    BY <1>1, <1>2, <1>3, <1>7, <2>1, <2>2, <2>3
    DEF Cache!WriteReplace, Cache!TypeOK, Cache!sram_cacheline_t
  <2>5. lines'[i].state = "DIRTY" /\ lines'[i].tag = lines[i].tag
    BY <1>1, <2>3, AgedShape
  <2>6. Access(t, i)
    <3> HIDE DEF CacheInv
    <3>1. lines[i].state # "INVALID"
      BY <1>7 DEF Cache!WriteReplace, Cache!Full
    <3> QED
      BY <1>4, <2>2, <2>3, <2>4, <2>5, <3>1
  <2>7. WriteEffect(t, o, d, i)
    <3> HIDE DEF CacheInv
    <3> QED
      BY <1>7, <2>5 DEF Cache!WriteReplace, WriteEffect
  <2> QED
    BY <2>6, <2>7
<1> QED
  BY <1>5, <1>6, <1>7 DEF Cache!sram_cache_write

-----------------------------------------------------------------------------
(* What the cache shows *)

\* The byte of a line that holds the tag is the one seen.
LEMMA HeldByte ==
    ASSUME Cache!UniqueTags, NEW t \in Cache!Tag, NEW o \in Cache!Offset,
           NEW i \in Cache!LineIndex, Cache!Holds(i, t)
    PROVE  Cache!ByteAt(t, o) = lines[i].block[o]
  BY DEF Cache!UniqueTags, Cache!ByteAt, Cache!Miss

\* The same of the next state.
LEMMA HeldByteNext ==
    ASSUME Cache!UniqueTags', NEW t \in Cache!Tag, NEW o \in Cache!Offset,
           NEW i \in Cache!LineIndex, Cache!Holds(i, t)'
    PROVE  Cache!ByteAt(t, o)' = lines'[i].block[o]
<1>1. \A k \in Cache!LineIndex : Cache!Holds(k, t)' => k = i
  BY DEF Cache!UniqueTags
<1>2. (CHOOSE k \in Cache!LineIndex : Cache!Holds(k, t)') = i
  BY <1>1
<1> QED
  BY <1>2 DEF Cache!ByteAt, Cache!Miss

\* An access leaves the bytes of other frames as they are seen, unless it takes away a
\* line of theirs that is not what the frame holds.
LEMMA OtherBytesKept ==
    ASSUME CacheInv, CacheInv', NEW t \in Cache!Tag, NEW i \in Cache!LineIndex, Access(t, i),
           lines'[i].tag = t, NEW u \in Cache!Tag, u # t, NEW p \in Cache!Offset,
           Cache!Holds(i, u) => Cache!ByteAt(u, p) = pm[u][p]
    PROVE  Cache!ByteAt(u, p)' = Cache!ByteAt(u, p)
<1> USE DEF CacheInv
<1>1. \A k \in Cache!LineIndex \ {i} : /\ Cache!Holds(k, u)' <=> Cache!Holds(k, u)
                                       /\ lines'[k].block = lines[k].block
  BY DEF Access, Cache!Holds
<1>2. ~Cache!Holds(i, u)'
  BY DEF Cache!Holds
<1>3. CASE \E k \in Cache!LineIndex \ {i} : Cache!Holds(k, u)
  <2>1. PICK k \in Cache!LineIndex \ {i} : Cache!Holds(k, u)
    BY <1>3
  <2> QED
    BY <1>1, <2>1, HeldByte, HeldByteNext
<1>4. CASE \A k \in Cache!LineIndex \ {i} : ~Cache!Holds(k, u)
  <2>1. Cache!Miss(u)'
    BY <1>1, <1>2, <1>4 DEF Cache!Miss
  <2>2. Cache!ByteAt(u, p)' = pm[u][p]
    BY <2>1 DEF Cache!ByteAt, Access
  <2>3. CASE Cache!Holds(i, u)
    BY <2>2, <2>3
  <2>4. CASE ~Cache!Holds(i, u)
    BY <1>4, <2>2, <2>4 DEF Cache!ByteAt, Cache!Miss
  <2> QED
    BY <2>3, <2>4
<1> QED
  BY <1>3, <1>4

\* A read delivers what is seen and leaves every byte as it is seen, unless it replaces
\* a line that is dirty or not what its frame holds.
LEMMA ReadKeepsVisible ==
    ASSUME CacheInv, NEW t \in Cache!Tag, NEW o \in Cache!Offset, NEW i \in Cache!LineIndex,
           Access(t, i), ReadEffect(t, o, i)
    PROVE  \/ Cache!Visible' = Cache!Visible /\ delivered' = Cache!Visible[t][o]
           \/ /\ Cache!Miss(t) /\ Cache!Full /\ Cache!Victim(i)
              /\ lines[i].state = "DIRTY" \/ CacheDiffers(lines[i].tag)
<1> SUFFICES ASSUME ~(/\ Cache!Miss(t) /\ Cache!Full /\ Cache!Victim(i)
                      /\ lines[i].state = "DIRTY" \/ CacheDiffers(lines[i].tag))
             PROVE  Cache!Visible' = Cache!Visible /\ delivered' = Cache!Visible[t][o]
  OBVIOUS
<1>1. CacheInv'
  BY AccessKeepsInv
<1>2. Cache!Holds(i, t)' /\ lines'[i].tag = t
  BY DEF Access, ReadEffect, Cache!Holds
<1>3. ASSUME NEW p \in Cache!Offset PROVE Cache!ByteAt(t, p) = lines'[i].block[p]
  BY HeldByte DEF ReadEffect, CacheInv, Cache!ByteAt
<1>4. ASSUME NEW u \in Cache!Tag, u # t, NEW p \in Cache!Offset, Cache!Holds(i, u)
      PROVE  Cache!ByteAt(u, p) = pm[u][p]
  <2>1. ~Cache!Holds(i, t) /\ lines[i].state # "INVALID" /\ lines[i].tag = u
    BY <1>4 DEF Cache!Holds
  <2>2. ~CacheDiffers(u)
    BY <2>1 DEF ReadEffect
  <2> QED
    BY <2>2 DEF CacheDiffers, Cache!Visible
<1>5. ASSUME NEW u \in Cache!Tag, NEW p \in Cache!Offset
      PROVE  Cache!ByteAt(u, p)' = Cache!ByteAt(u, p)
  <2>1. CASE u = t
    BY <1>1, <1>2, <1>3, <2>1, HeldByteNext DEF CacheInv
  <2>2. CASE u # t
    BY <1>1, <1>2, <1>4, <2>2, OtherBytesKept
  <2> QED
    BY <2>1, <2>2
<1>6. delivered' = Cache!ByteAt(t, o)
  BY <1>3 DEF ReadEffect
<1> QED
  BY <1>5, <1>6 DEF Cache!Visible

\* A write that hits or finds a free line changes the byte it is asked to write.
LEMMA WriteSetsVisible ==
    ASSUME CacheInv, NEW t \in Cache!Tag, NEW o \in Cache!Offset, NEW d \in Cache!Byte,
           NEW i \in Cache!LineIndex, Access(t, i), WriteEffect(t, o, d, i),
           ~(Cache!Miss(t) /\ Cache!Full)
    PROVE  Cache!Visible' = [Cache!Visible EXCEPT ![t][o] = d] /\ Cached(t)'
<1>1. CacheInv'
  BY AccessKeepsInv
<1>2. Cache!Holds(i, t)' /\ lines'[i].tag = t
  BY DEF Access, WriteEffect, Cache!Holds
<1>3. ASSUME NEW p \in Cache!Offset
      PROVE  Cache!ByteAt(t, p)' = IF p = o THEN d ELSE Cache!ByteAt(t, p)
  <2>1. Cache!ByteAt(t, p)' = lines'[i].block[p]
    BY <1>1, <1>2, HeldByteNext DEF CacheInv
  <2>2. CASE Cache!Holds(i, t) /\ lines'[i].block = [lines[i].block EXCEPT ![o] = d]
    <3>1. DOMAIN lines[i].block = Cache!Offset
      BY DEF CacheInv, Cache!TypeOK, Cache!sram_cacheline_t, Cache!Block
    <3> QED
      BY <2>1, <2>2, <3>1, HeldByte DEF CacheInv
  <2>3. CASE Cache!Miss(t) /\ lines'[i].block = [pm[t] EXCEPT ![o] = d]
    <3>1. DOMAIN pm[t] = Cache!Offset
      BY DEF CacheInv, Cache!TypeOK, Cache!Block
    <3> QED
      BY <2>1, <2>3, <3>1 DEF Cache!ByteAt
  <2> QED
    BY <2>2, <2>3 DEF WriteEffect
<1>4. ASSUME NEW u \in Cache!Tag, u # t, NEW p \in Cache!Offset
      PROVE  Cache!ByteAt(u, p)' = Cache!ByteAt(u, p)
  <2>1. ~Cache!Holds(i, u)
    BY <1>4 DEF WriteEffect, Cache!Holds
  <2> QED
    BY <1>1, <1>2, <1>4, <2>1, OtherBytesKept
<1>5. \A u \in Cache!Tag :
        Cache!Visible'[u] = IF u = t THEN [Cache!Visible[t] EXCEPT ![o] = d] ELSE Cache!Visible[u]
  BY <1>3, <1>4 DEF Cache!Visible
<1>6. Cached(t)'
  BY <1>2 DEF Cached, Cache!Miss
<1> QED
  BY <1>5, <1>6 DEF Cache!Visible

\* A write that replaces a line leaves the set full, and its own line out of it.
LEMMA ReplacingWrite ==
    ASSUME CacheInv, NEW t \in Cache!Tag, NEW o \in Cache!Offset, NEW d \in Cache!Byte,
           NEW i \in Cache!LineIndex, Access(t, i), WriteEffect(t, o, d, i),
           Cache!Miss(t), Cache!Full
    PROVE  ~Cached(t)' /\ Cache!Full'
<1>1. lines'[i].tag = lines[i].tag /\ lines[i].state # "INVALID"
  BY DEF WriteEffect, Cache!Full, Cache!Miss
<1> QED
  BY <1>1 DEF Access, Cached, Cache!Full, Cache!Miss, Cache!Holds

-----------------------------------------------------------------------------
(* The paging *)

\* What a page's entry may be.
Entry == [present : {1}, ppn : Paging!Frame] \cup [present : {0}, daddr : Paging!Slot]

\* An entry holds a frame or a disk address, by its present bit.
LEMMA EntryTypes ==
    ASSUME Paging!TypeOK, NEW p \in Paging!Page
    PROVE  /\ Paging!IsResident(p) => pte[p].ppn \in Paging!Frame
           /\ ~Paging!IsResident(p) => pte[p].daddr \in Paging!Slot
  BY DEF Paging!TypeOK, Paging!IsResident

\* A frame in use holds a resident page.
LEMMA Occupant ==
    ASSUME MapInv, NEW f \in Paging!Frame, ~Paging!IsFree(f)
    PROVE  /\ page_map[f].pte4 \in Paging!Page
           /\ Paging!IsResident(page_map[f].pte4)
           /\ pte[page_map[f].pte4].ppn = f
  BY DEF MapInv, Paging!TypeOK, Paging!Descriptor, Paging!IsFree, Paging!ReverseMapping

\* Boot places each page in at most one frame and leaves the others in their
\* files.
LEMMA InitInv == Paging!Init => MapInv /\ SlotInv
<1> SUFFICES ASSUME Paging!Init PROVE MapInv /\ SlotInv
  OBVIOUS
<1> USE Numbers
<1> DEFINE image == [p \in 1 .. NUM_PAGE |-> Bytes(Images[p])]
<1>0. image \in [1 .. NUM_PAGE -> Cache!Block] /\ Bytes(0) \in Cache!Block
  BY ImagesAreBlocks
<1>1. PICK owner \in Paging!BootOwners, flag \in [Paging!Frame -> {0, 1}],
           age \in [Paging!Frame -> 0 .. MAX_NUM_PHYSICAL_PAGE] :
        /\ \A f \in Paging!Frame : owner[f] = Paging!Blank => flag[f] = 0 /\ age[f] = 0
        /\ pte = [p \in Paging!Page |->
                    IF \E f \in Paging!Frame : owner[f] = p
                    THEN Paging!Resident(CHOOSE f \in Paging!Frame : owner[f] = p)
                    ELSE Paging!Swapped(p)]
        /\ page_map = [f \in Paging!Frame |-> [dirty |-> flag[f], time |-> age[f],
                                        pte4 |-> owner[f], daddr |-> owner[f]]]
        /\ pm = [f \in Paging!Frame |-> IF owner[f] = Paging!Blank THEN Bytes(0) ELSE image[owner[f]]]
  BY DEF Paging!Init
<1>2. /\ owner \in [Paging!Frame -> Paging!Page \cup {Paging!Blank}]
      /\ \A f, g \in Paging!Frame : owner[f] # Paging!Blank /\ owner[f] = owner[g] => f = g
  BY <1>1 DEF Paging!BootOwners
<1>3. Paging!Blank = 0 /\ 0 \notin Paging!Page /\ Paging!Page \subseteq Paging!Slot /\ 0 \in Paging!Slot
  BY DEF Paging!Blank, Paging!Page, Paging!Slot
<1>4. ASSUME NEW p \in Paging!Page, NEW f \in Paging!Frame, owner[f] = p
      PROVE  pte[p] = Paging!Resident(f)
  <2>1. (CHOOSE g \in Paging!Frame : owner[g] = p) = f
    BY <1>2, <1>3, <1>4
  <2> QED
    BY <1>1, <1>4, <2>1
<1>5. ASSUME NEW p \in Paging!Page, \A f \in Paging!Frame : owner[f] # p
      PROVE  pte[p] = Paging!Swapped(p)
  BY <1>1, <1>5
<1>6. Paging!TypeOK
  <2>1. pte \in [Paging!Page -> Entry]
    <3>1. ASSUME NEW p \in Paging!Page
          PROVE  pte[p] \in Entry
      <4>1. CASE \E f \in Paging!Frame : owner[f] = p
        <5>1. PICK f \in Paging!Frame : pte[p] = Paging!Resident(f)
          BY <1>4, <4>1
        <5>2. Paging!Resident(f) \in [present : {1}, ppn : Paging!Frame]
          BY DEF Paging!Resident
        <5> QED
          BY <5>1, <5>2 DEF Entry
      <4>2. CASE \A f \in Paging!Frame : owner[f] # p
        <5>1. pte[p] = Paging!Swapped(p) /\ p \in Paging!Slot
          BY <1>3, <1>5, <4>2
        <5>2. Paging!Swapped(p) \in [present : {0}, daddr : Paging!Slot]
          BY <5>1 DEF Paging!Swapped
        <5> QED
          BY <5>1, <5>2 DEF Entry
      <4> QED
        BY <4>1, <4>2
    <3> QED
      BY <1>1, <3>1
  <2>2. page_map \in [Paging!Frame -> Paging!Descriptor]
    BY <1>1, <1>2, <1>3 DEF Paging!Descriptor
  <2>3. pm \in [Paging!Frame -> Cache!Block]
    <3> HIDE DEF image
    <3> QED
      BY <1>0, <1>1, <1>2, <1>3 DEF Paging!Page
  <2>4. disk \in [Paging!Slot -> [file : Paging!Form, content : Cache!Block]]
    <3>1. PICK form \in [Paging!Page -> {"lines", "blocks"}] :
            disk = [s \in Paging!Slot |->
                    IF s = 0 THEN [file |-> "absent", content |-> Bytes(0)]
                             ELSE [file |-> form[s], content |-> image[s]]]
      BY DEF Paging!Init
    <3> HIDE DEF image
    <3>2. \A s \in Paging!Slot \ {0} : s \in 1 .. NUM_PAGE
      BY SizeAssumption DEF Paging!Slot
    <3>3. \A s \in Paging!Slot \ {0} : form[s] \in Paging!Form /\ image[s] \in Cache!Block
      BY <1>0, <3>2 DEF Paging!Page, Paging!Form
    <3> QED
      BY <1>0, <3>1, <3>3 DEF Paging!Form
  <2>5. walked \in [page : Paging!Page \cup {0}, ppn : Paging!Frame] /\ running \in BOOLEAN
    <3>1. 0 \in Paging!Frame
      BY DEF Paging!Frame
    <3> QED
      BY <3>1 DEF Paging!Init, Paging!Nowhere
  <2> QED
    BY <2>1, <2>2, <2>3, <2>4, <2>5 DEF Paging!TypeOK, Entry
<1>7. Paging!ReverseMapping
  <2>1. \A f \in Paging!Frame : page_map[f].pte4 = owner[f] /\ page_map[f].daddr = owner[f]
    BY <1>1
  <2>2. \A f \in Paging!Frame : owner[f] # Paging!Blank => owner[f] \in Paging!Page
    BY <1>2
  <2>3. ASSUME NEW f \in Paging!Frame, page_map[f].pte4 # Paging!Blank
        PROVE  Paging!IsResident(page_map[f].pte4) /\ pte[page_map[f].pte4].ppn = f
    <3>1. owner[f] \in Paging!Page /\ pte[owner[f]] = Paging!Resident(f)
      BY <1>4, <2>1, <2>2, <2>3
    <3> QED
      BY <2>1, <3>1 DEF Paging!IsResident, Paging!Resident
  <2>4. ASSUME NEW p \in Paging!Page, Paging!IsResident(p)
        PROVE  page_map[pte[p].ppn].pte4 = p
    <3>1. pte[p] # Paging!Swapped(p)
      <4> Paging!Swapped(p).present = 0
        BY DEF Paging!Swapped
      <4> QED
        BY <2>4 DEF Paging!IsResident
    <3>2. PICK f \in Paging!Frame : owner[f] = p
      BY <1>5, <3>1
    <3>3. pte[p] = Paging!Resident(f)
      BY <1>4, <3>2
    <3>4. pte[p].ppn = f
      BY <3>3 DEF Paging!Resident
    <3> QED
      BY <2>1, <3>2, <3>4
  <2> QED
    BY <2>3, <2>4 DEF Paging!ReverseMapping
<1>8. \A p \in Paging!Page : Paging!SlotOf(p) = p
  <2> TAKE p \in Paging!Page
  <2>1. CASE \E f \in Paging!Frame : owner[f] = p
    <3>1. PICK f \in Paging!Frame : owner[f] = p
      BY <2>1
    <3>2. pte[p] = Paging!Resident(f) /\ page_map[f].daddr = p
      BY <1>1, <1>4, <3>1
    <3>3. Paging!IsResident(p) /\ pte[p].ppn = f
      BY <3>2 DEF Paging!IsResident, Paging!Resident
    <3> QED
      BY <3>2, <3>3 DEF Paging!SlotOf
  <2>2. CASE ~\E f \in Paging!Frame : owner[f] = p
    <3>1. pte[p] = Paging!Swapped(p)
      BY <1>5, <2>2
    <3>2. ~Paging!IsResident(p) /\ pte[p].daddr = p
      BY <3>1 DEF Paging!IsResident, Paging!Swapped
    <3> QED
      BY <3>2 DEF Paging!SlotOf
  <2> QED
    BY <2>1, <2>2
<1>9. SlotsApart
  BY <1>8 DEF SlotsApart
<1>10. WrittenFramesHaveSlots /\ FreeFramesHaveNone
  BY <1>1, <1>2, <1>3 DEF WrittenFramesHaveSlots, FreeFramesHaveNone, Paging!IsFree
<1> QED
  BY <1>6, <1>7, <1>9, <1>10 DEF MapInv, SlotInv

-----------------------------------------------------------------------------
(* What one fault does to the entries and the descriptors *)

\* Paging!Page p moves into frame f, whose occupant, if any, leaves memory; no other
\* entry and no other descriptor changes.
Relocates(p, f) ==
    /\ pte' \in [Paging!Page -> Entry]
    /\ page_map' \in [Paging!Frame -> Paging!Descriptor]
    /\ pte'[p] = Paging!Resident(f)
    /\ page_map'[f].pte4 = p
    /\ \A q \in Paging!Page : q # p /\ q # page_map[f].pte4 => pte'[q] = pte[q]
    /\ ~Paging!IsFree(f) => pte'[page_map[f].pte4] = Paging!Swapped(page_map[f].daddr)
    /\ \A g \in Paging!Frame : g # f => page_map'[g] = page_map[g]

\* What a fault into a free frame moves, and what it leaves.
LEMMA FreeMoves ==
    ASSUME MapInv, NEW p \in Paging!Page, NEW f \in Paging!Frame, Paging!FaultFree(p, f)
    PROVE  Relocates(p, f) /\ page_map'[f].daddr = page_map[f].daddr
<1> USE Numbers
<1>1. Paging!IsFree(f) /\ p # Paging!Blank
  BY DEF Paging!FaultFree, Paging!FreeFrame, Paging!Page, Paging!Blank
<1>2. pte' = [pte EXCEPT ![p] = Paging!Resident(f)]
  BY DEF Paging!FaultFree
<1>3. page_map' = [page_map EXCEPT
            ![f] = [dirty |-> 0, time |-> 0, pte4 |-> p, daddr |-> page_map[f].daddr]]
  BY DEF Paging!FaultFree, Paging!DescriptorsKeepSlot
<1>4. pte' \in [Paging!Page -> Entry]
  BY <1>2 DEF MapInv, Paging!TypeOK, Paging!Resident, Entry
<1>5. page_map' \in [Paging!Frame -> Paging!Descriptor]
  <2>1. page_map[f].daddr \in Paging!Slot
    BY DEF MapInv, Paging!TypeOK, Paging!Descriptor
  <2>2. [dirty |-> 0, time |-> 0, pte4 |-> p, daddr |-> page_map[f].daddr] \in Paging!Descriptor
    BY <2>1 DEF Paging!Descriptor
  <2> QED
    BY <1>3, <2>2 DEF MapInv, Paging!TypeOK
<1>6. pte'[p] = Paging!Resident(f) /\ \A q \in Paging!Page : q # p => pte'[q] = pte[q]
  BY <1>2 DEF MapInv, Paging!TypeOK
<1>7. /\ page_map'[f].pte4 = p
      /\ page_map'[f].daddr = page_map[f].daddr
      /\ \A g \in Paging!Frame : g # f => page_map'[g] = page_map[g]
  BY <1>3 DEF MapInv, Paging!TypeOK, Paging!Descriptor
<1> QED
  BY <1>1, <1>4, <1>5, <1>6, <1>7 DEF Relocates

\* What a fault that evicts a page moves, and what it leaves.
LEMMA ReplaceMoves ==
    ASSUME MapInv, NEW p \in Paging!Page, NEW f \in Paging!Frame, ~Paging!IsResident(p), ~Paging!IsFree(f),
           pte' = Paging!EntriesAfter(p, f), page_map' = Paging!DescriptorsAfter(p, f)
    PROVE  Relocates(p, f) /\ page_map'[f].daddr = pte[p].daddr
<1> USE Numbers
<1> DEFINE v == page_map[f].pte4
<1>1. v \in Paging!Page /\ v # p
  BY Occupant
<1>2. pte[p].daddr \in Paging!Slot /\ page_map[f].daddr \in Paging!Slot
  BY EntryTypes DEF MapInv, Paging!TypeOK, Paging!Descriptor
<1>3. pte' = [pte EXCEPT ![v] = Paging!Swapped(page_map[f].daddr), ![p] = Paging!Resident(f)]
  BY DEF Paging!EntriesAfter
<1>4. page_map' = [page_map EXCEPT
            ![f] = [dirty |-> 0, time |-> 0, pte4 |-> p, daddr |-> pte[p].daddr]]
  BY DEF Paging!DescriptorsAfter
<1>5. pte' \in [Paging!Page -> Entry]
  <2>1. Paging!Resident(f) \in [present : {1}, ppn : Paging!Frame]
    BY DEF Paging!Resident
  <2>2. Paging!Swapped(page_map[f].daddr) \in [present : {0}, daddr : Paging!Slot]
    BY <1>2 DEF Paging!Swapped
  <2> HIDE DEF v
  <2> QED
    BY <1>3, <2>1, <2>2 DEF MapInv, Paging!TypeOK, Entry
<1>6. page_map' \in [Paging!Frame -> Paging!Descriptor]
  <2>1. [dirty |-> 0, time |-> 0, pte4 |-> p, daddr |-> pte[p].daddr] \in Paging!Descriptor
    BY <1>2 DEF Paging!Descriptor
  <2> QED
    BY <1>4, <2>1 DEF MapInv, Paging!TypeOK
<1>7. /\ pte'[p] = Paging!Resident(f)
      /\ pte'[v] = Paging!Swapped(page_map[f].daddr)
      /\ \A q \in Paging!Page : q # p /\ q # v => pte'[q] = pte[q]
  <2> HIDE DEF v
  <2> QED
    BY <1>1, <1>3 DEF MapInv, Paging!TypeOK
<1>8. /\ page_map'[f].pte4 = p
      /\ page_map'[f].daddr = pte[p].daddr
      /\ \A g \in Paging!Frame : g # f => page_map'[g] = page_map[g]
  BY <1>4 DEF MapInv, Paging!TypeOK
<1> QED
  BY <1>5, <1>6, <1>7, <1>8 DEF Relocates

\* A move keeps page_map and the page tables inverse to each other.
LEMMA MoveKeepsMapping ==
    ASSUME MapInv, NEW p \in Paging!Page, NEW f \in Paging!Frame, ~Paging!IsResident(p), Relocates(p, f)
    PROVE  Paging!ReverseMapping'
<1>1. pte'[p].present = 1 /\ pte'[p].ppn = f
  <2>1. pte'[p] = Paging!Resident(f)
    BY DEF Relocates
  <2> QED
    BY <2>1 DEF Paging!Resident
<1>2. ~Paging!IsFree(f) => pte'[page_map[f].pte4].present = 0
  <2>1. ~Paging!IsFree(f) => pte'[page_map[f].pte4] = Paging!Swapped(page_map[f].daddr)
    BY DEF Relocates
  <2> QED
    BY <2>1 DEF Paging!Swapped
<1>3. ASSUME NEW g \in Paging!Frame, page_map'[g].pte4 # Paging!Blank
      PROVE  Paging!IsResident(page_map[g].pte4)' /\ (pte[page_map[g].pte4].ppn)' = g
  <2>1. CASE g = f
    BY <1>1, <2>1 DEF Relocates, Paging!IsResident
  <2>2. CASE g # f
    <3> DEFINE q == page_map[g].pte4
    <3>1. page_map'[g] = page_map[g]
      BY <2>2 DEF Relocates
    <3>2. q \in Paging!Page /\ Paging!IsResident(q) /\ pte[q].ppn = g
      BY <1>3, <3>1, Occupant DEF Paging!IsFree
    <3>3. q # p
      BY <3>2
    <3>4. q # page_map[f].pte4
      <4>1. CASE Paging!IsFree(f)
        BY <1>3, <3>1, <4>1 DEF Paging!IsFree
      <4>2. CASE ~Paging!IsFree(f)
        BY <2>2, <3>2, <4>2, Occupant
      <4> QED
        BY <4>1, <4>2
    <3>5. pte'[q] = pte[q]
      BY <3>2, <3>3, <3>4 DEF Relocates
    <3> QED
      BY <3>1, <3>2, <3>5 DEF Paging!IsResident
  <2> QED
    BY <2>1, <2>2
<1>4. ASSUME NEW q \in Paging!Page, Paging!IsResident(q)'
      PROVE  (page_map[pte[q].ppn].pte4)' = q
  <2>1. CASE q = p
    BY <1>1, <2>1 DEF Relocates
  <2>2. CASE q # p
    <3>1. q # page_map[f].pte4
      <4>1. page_map[f].pte4 \in Paging!Page \cup {Paging!Blank}
        BY DEF MapInv, Paging!TypeOK, Paging!Descriptor
      <4>2. q # Paging!Blank
        BY Numbers DEF Paging!Page, Paging!Blank
      <4> QED
        BY <1>2, <1>4, <4>1, <4>2 DEF Paging!IsFree, Paging!IsResident
    <3>2. pte'[q] = pte[q]
      BY <2>2, <3>1 DEF Relocates
    <3>3. Paging!IsResident(q)
      BY <1>4, <3>2 DEF Paging!IsResident
    <3>4. pte[q].ppn \in Paging!Frame /\ page_map[pte[q].ppn].pte4 = q
      BY <3>3, EntryTypes DEF MapInv, Paging!ReverseMapping
    <3>5. pte[q].ppn # f
      BY <3>1, <3>4
    <3> QED
      BY <3>2, <3>4, <3>5 DEF Relocates
  <2> QED
    BY <2>1, <2>2
<1> QED
  BY <1>3, <1>4 DEF Paging!ReverseMapping

-----------------------------------------------------------------------------
(* The steps *)

\* The victim of a clean or a dirty fault is in use.
LEMMA VictimInUse ==
    ASSUME NEW f \in Paging!Frame, Paging!CleanVictim(f) \/ Paging!DirtyVictim(f)
    PROVE  ~Paging!IsFree(f)
  BY DEF Paging!CleanVictim, Paging!DirtyVictim

\* A fault either ends the process, with entries, descriptors and memory as they
\* were, or moves the page into a frame.
LEMMA FaultShape ==
    ASSUME MapInv, NEW p \in Paging!Page, ~Paging!IsResident(p), running, Paging!page_fault_handler(p)
    PROVE  \/ UNCHANGED <<pte, page_map, pm>> /\ running' = FALSE
           \/ \E f \in Paging!Frame : Paging!FaultFree(p, f) /\ Relocates(p, f)
           \/ \E f \in Paging!Frame :
                /\ Paging!FaultClean(p, f) \/ Paging!FaultDirty(p, f)
                /\ Relocates(p, f)
                /\ ~Paging!IsFree(f)
                /\ page_map'[f].daddr = pte[p].daddr
                /\ pm' = [pm EXCEPT ![f] = disk'[pte[p].daddr].content]
<1>1. PICK f \in Paging!Frame : Paging!FaultFree(p, f) \/ Paging!FaultClean(p, f) \/ Paging!FaultDirty(p, f)
  BY DEF Paging!page_fault_handler
<1>2. CASE Paging!FaultFree(p, f)
  BY <1>2, FreeMoves
<1>3. CASE Paging!FaultClean(p, f) \/ Paging!FaultDirty(p, f)
  <2>1. ~Paging!IsFree(f)
    BY <1>3, VictimInUse DEF Paging!FaultClean, Paging!FaultDirty
  <2>2. Paging!Replace(p, f)
    BY <1>3 DEF Paging!FaultClean, Paging!FaultDirty
  <2>3. CASE running' = FALSE /\ UNCHANGED <<pte, pm, page_map>>
    BY <2>3
  <2>4. CASE /\ pte' = Paging!EntriesAfter(p, f)
             /\ pm' = Paging!MemoryAfter(p, f)
             /\ page_map' = Paging!DescriptorsAfter(p, f)
    <3>1. Relocates(p, f) /\ page_map'[f].daddr = pte[p].daddr
      BY <2>1, <2>4, ReplaceMoves
    <3>2. pm' = [pm EXCEPT ![f] = disk'[pte[p].daddr].content]
      BY <2>4 DEF Paging!MemoryAfter
    <3> QED
      BY <1>3, <2>1, <3>1, <3>2
  <2> QED
    BY <2>2, <2>3, <2>4 DEF Paging!Replace
<1> QED
  BY <1>1, <1>2, <1>3

\* Swapping out writes one file.
LEMMA DiskTyped ==
    ASSUME MapInv, NEW p \in Paging!Page, Paging!page_fault_handler(p)
    PROVE  disk' \in [Paging!Slot -> [file : Paging!Form, content : Cache!Block]]
<1>1. PICK f \in Paging!Frame : Paging!FaultFree(p, f) \/ Paging!FaultClean(p, f) \/ Paging!FaultDirty(p, f)
  BY DEF Paging!page_fault_handler
<1>2. CASE UNCHANGED disk
  BY <1>2 DEF MapInv, Paging!TypeOK
<1>3. CASE disk' = Paging!swap_out(page_map[f].daddr, pm[f])
  <2>1. disk' = [disk EXCEPT ![page_map[f].daddr] = [file |-> "joined", content |-> pm[f]]]
    BY <1>3 DEF Paging!swap_out
  <2>2. pm[f] \in Cache!Block
    BY DEF MapInv, Paging!TypeOK
  <2> QED
    BY <2>1, <2>2 DEF MapInv, Paging!TypeOK, Paging!Form
<1> QED
  BY <1>1, <1>2, <1>3 DEF Paging!FaultFree, Paging!FaultClean, Paging!FaultDirty

\* A fault keeps types and mapping.
LEMMA FaultKeepsMap ==
    ASSUME MapInv, NEW p \in Paging!Page, ~Paging!IsResident(p), running, Paging!WalkFault(p)
    PROVE  MapInv'
<1> USE Numbers
<1>1. Paging!page_fault_handler(p) /\ walked' = [page |-> p, ppn |-> 0]
  BY DEF Paging!WalkFault
<1>2. walked' \in [page : Paging!Page \cup {0}, ppn : Paging!Frame]
  BY <1>1 DEF Paging!Frame
<1>3. disk' \in [Paging!Slot -> [file : Paging!Form, content : Cache!Block]]
  BY <1>1, DiskTyped
<1>4. CASE UNCHANGED <<pte, page_map, pm>> /\ running' = FALSE
  BY <1>2, <1>3, <1>4 DEF MapInv, Paging!TypeOK, Paging!ReverseMapping, Paging!IsResident
<1>5. ASSUME NEW f \in Paging!Frame, Paging!FaultFree(p, f), Relocates(p, f)
      PROVE  MapInv'
  <2>1. Paging!ReverseMapping'
    BY <1>5, MoveKeepsMapping
  <2>2. UNCHANGED <<pm, running>>
    BY <1>5 DEF Paging!FaultFree
  <2> QED
    BY <1>2, <1>3, <1>5, <2>1, <2>2 DEF MapInv, Paging!TypeOK, Relocates, Entry
<1>6. ASSUME NEW f \in Paging!Frame, Paging!FaultClean(p, f) \/ Paging!FaultDirty(p, f), Relocates(p, f),
             pm' = [pm EXCEPT ![f] = disk'[pte[p].daddr].content]
      PROVE  MapInv'
  <2>1. Paging!ReverseMapping'
    BY <1>6, MoveKeepsMapping
  <2>2. pte[p].daddr \in Paging!Slot
    BY EntryTypes DEF MapInv
  <2>3. pm' \in [Paging!Frame -> Cache!Block]
    BY <1>3, <1>6, <2>2 DEF MapInv, Paging!TypeOK
  <2>4. running' \in BOOLEAN
    BY <1>6 DEF Paging!FaultClean, Paging!FaultDirty, Paging!Replace, MapInv, Paging!TypeOK
  <2> QED
    BY <1>2, <1>3, <1>6, <2>1, <2>3, <2>4 DEF MapInv, Paging!TypeOK, Relocates, Entry
<1> QED
  BY <1>1, <1>4, <1>5, <1>6, FaultShape


(* Where content goes *)

\* The slot of a page outside of a fault's frame does not move, and the page and
\* the victim keep theirs through a replacement.
LEMMA MoveKeepsSlots ==
    ASSUME MapInv, NEW p \in Paging!Page, NEW f \in Paging!Frame, ~Paging!IsResident(p), Relocates(p, f)
    PROVE  /\ Paging!SlotOf(p)' = page_map'[f].daddr
           /\ \A q \in Paging!Page : q # p => Paging!SlotOf(q)' = Paging!SlotOf(q)
<1>1. pte'[p].present = 1 /\ pte'[p].ppn = f
  <2>1. pte'[p] = Paging!Resident(f)
    BY DEF Relocates
  <2> QED
    BY <2>1 DEF Paging!Resident
<1>2. Paging!SlotOf(p)' = page_map'[f].daddr
  BY <1>1 DEF Paging!SlotOf, Paging!IsResident
<1>3. ASSUME NEW q \in Paging!Page, q # p
      PROVE  Paging!SlotOf(q)' = Paging!SlotOf(q)
  <2>1. CASE q = page_map[f].pte4
    <3>1. ~Paging!IsFree(f)
      BY <2>1, Numbers DEF Paging!IsFree, Paging!Blank, Paging!Page
    <3>2. Paging!IsResident(q) /\ pte[q].ppn = f
      BY <2>1, <3>1, Occupant
    <3>3. pte'[q] = Paging!Swapped(page_map[f].daddr)
      BY <2>1, <3>1 DEF Relocates
    <3>4. pte'[q].present = 0 /\ pte'[q].daddr = page_map[f].daddr
      BY <3>3 DEF Paging!Swapped
    <3> QED
      BY <3>2, <3>4 DEF Paging!SlotOf, Paging!IsResident
  <2>2. CASE q # page_map[f].pte4
    <3>1. pte'[q] = pte[q]
      BY <1>3, <2>2 DEF Relocates
    <3>2. CASE Paging!IsResident(q)
      <4>1. pte[q].ppn \in Paging!Frame /\ page_map[pte[q].ppn].pte4 = q
        BY <3>2, EntryTypes DEF MapInv, Paging!ReverseMapping
      <4>2. page_map'[pte[q].ppn] = page_map[pte[q].ppn]
        BY <2>2, <4>1 DEF Relocates
      <4> QED
        BY <3>1, <3>2, <4>2 DEF Paging!SlotOf, Paging!IsResident
    <3>3. CASE ~Paging!IsResident(q)
      BY <3>1, <3>3 DEF Paging!SlotOf, Paging!IsResident
    <3> QED
      BY <3>2, <3>3
  <2> QED
    BY <2>1, <2>2
<1> QED
  BY <1>2, <1>3

\* What a fault does to the slots: all of them stay, or a page takes a free
\* frame and the slot, 0, that the frame's descriptor has.
LEMMA FaultSlots ==
    ASSUME MapInv, NEW p \in Paging!Page, ~Paging!IsResident(p), running, Paging!page_fault_handler(p)
    PROVE  \/ \A q \in Paging!Page : Paging!SlotOf(q)' = Paging!SlotOf(q)
           \/ \E f \in Paging!Frame :
                /\ Paging!FreeFrame(f)
                /\ page_map'[f].pte4 = p
                /\ Paging!SlotOf(p)' = page_map[f].daddr
                /\ \A q \in Paging!Page : q # p => Paging!SlotOf(q)' = Paging!SlotOf(q)
<1>1. CASE UNCHANGED <<pte, page_map, pm>>
  BY <1>1 DEF Paging!SlotOf, Paging!IsResident
<1>2. ASSUME NEW f \in Paging!Frame, Paging!FaultFree(p, f), Relocates(p, f)
      PROVE  /\ Paging!FreeFrame(f)
             /\ page_map'[f].pte4 = p
             /\ Paging!SlotOf(p)' = page_map[f].daddr
             /\ \A q \in Paging!Page : q # p => Paging!SlotOf(q)' = Paging!SlotOf(q)
  <2>1. page_map'[f].daddr = page_map[f].daddr
    BY <1>2, FreeMoves
  <2> QED
    BY <1>2, <2>1, MoveKeepsSlots DEF Paging!FaultFree, Relocates
<1>3. ASSUME NEW f \in Paging!Frame, Relocates(p, f), page_map'[f].daddr = pte[p].daddr
      PROVE  \A q \in Paging!Page : Paging!SlotOf(q)' = Paging!SlotOf(q)
  <2>1. Paging!SlotOf(p) = pte[p].daddr
    BY DEF Paging!SlotOf
  <2> QED
    BY <1>3, <2>1, MoveKeepsSlots
<1> QED
  BY <1>1, <1>2, <1>3, FaultShape


\* A fault gives a frame a fresh descriptor of a page in use.
LEMMA FreshDescriptor ==
    ASSUME MapInv, NEW p \in Paging!Page, ~Paging!IsResident(p), running, Paging!page_fault_handler(p),
           NEW g \in Paging!Frame
    PROVE  \/ page_map'[g] = page_map[g]
           \/ page_map'[g].dirty = 0 /\ page_map'[g].time = 0 /\ page_map'[g].pte4 = p
<1>1. CASE UNCHANGED <<pte, page_map, pm>>
  BY <1>1
<1>2. ASSUME NEW f \in Paging!Frame, page_map' = Paging!DescriptorsKeepSlot(p, f)
      PROVE  \/ page_map'[g] = page_map[g]
             \/ page_map'[g].dirty = 0 /\ page_map'[g].time = 0 /\ page_map'[g].pte4 = p
  BY <1>2 DEF Paging!DescriptorsKeepSlot, MapInv, Paging!TypeOK
<1>3. ASSUME NEW f \in Paging!Frame, page_map' = Paging!DescriptorsAfter(p, f)
      PROVE  \/ page_map'[g] = page_map[g]
             \/ page_map'[g].dirty = 0 /\ page_map'[g].time = 0 /\ page_map'[g].pte4 = p
  BY <1>3 DEF Paging!DescriptorsAfter, MapInv, Paging!TypeOK
<1> QED
  BY <1>1, <1>2, <1>3 DEF Paging!page_fault_handler, Paging!FaultFree, Paging!FaultClean, Paging!FaultDirty, Paging!Replace


\* The frame a dirty fault writes to disk has a slot.
LEMMA WrittenFrame ==
    ASSUME MapInv, SlotInv, NEW f \in Paging!Frame, Paging!DirtyVictim(f)
    PROVE  page_map[f].daddr # 0
<1>1. page_map[f].dirty \in {0, 1} /\ page_map[f].time \in Nat
  BY Numbers DEF MapInv, Paging!TypeOK, Paging!Descriptor
<1>2. CASE page_map[f].dirty = 0 /\ page_map[f].time < MAX_NUM_PHYSICAL_PAGE
  <2>1. Paging!Oldest(f, Paging!Clean)
    BY <1>2 DEF Paging!DirtyVictim, Paging!Oldest, Paging!Clean
  <2>2. Paging!CleanVictim(f)
    BY <1>2, <2>1 DEF Paging!CleanVictim, Paging!DirtyVictim
  <2> QED
    BY <2>2 DEF Paging!DirtyVictim
<1>3. CASE page_map[f].dirty = 1 \/ page_map[f].time >= MAX_NUM_PHYSICAL_PAGE
  BY <1>3 DEF SlotInv, WrittenFramesHaveSlots
<1> QED
  BY <1>1, <1>2, <1>3, Numbers

\* A fault does not touch the file of any page that is on disk.
LEMMA FilesAreKept ==
    ASSUME MapInv, SlotInv, NEW p \in Paging!Page, Paging!page_fault_handler(p),
           NEW q \in Paging!Page, ~Paging!IsResident(q)
    PROVE  disk'[pte[q].daddr] = disk[pte[q].daddr]
<1>1. PICK f \in Paging!Frame : Paging!FaultFree(p, f) \/ Paging!FaultClean(p, f) \/ Paging!FaultDirty(p, f)
  BY DEF Paging!page_fault_handler
<1>2. CASE Paging!FaultFree(p, f) \/ Paging!FaultClean(p, f)
  BY <1>2 DEF Paging!FaultFree, Paging!FaultClean
<1>3. CASE Paging!FaultDirty(p, f)
  <2> DEFINE v == page_map[f].pte4
  <2>1. Paging!DirtyVictim(f) /\ disk' = Paging!swap_out(page_map[f].daddr, pm[f])
    BY <1>3 DEF Paging!FaultDirty
  <2>2. page_map[f].daddr # 0 /\ ~Paging!IsFree(f)
    BY <2>1, WrittenFrame, VictimInUse
  <2>3. v \in Paging!Page /\ v # q /\ Paging!SlotOf(v) = page_map[f].daddr
    BY <2>2, Occupant DEF Paging!SlotOf
  <2>4. Paging!SlotOf(q) = pte[q].daddr
    BY DEF Paging!SlotOf
  <2>5. pte[q].daddr # page_map[f].daddr
    BY <2>2, <2>3, <2>4 DEF SlotInv, SlotsApart
  <2> QED
    BY <2>1, <2>5, EntryTypes DEF Paging!swap_out, MapInv, Paging!TypeOK
<1> QED
  BY <1>1, <1>2, <1>3

-----------------------------------------------------------------------------
(* The steps *)

\* The machine boots with the invariant.
LEMMA InitMachinery == Init => Machinery
<1> SUFFICES ASSUME Init PROVE Machinery
  OBVIOUS
<1>1. MapInv /\ SlotInv
  BY InitInv DEF Init
<1>2. CacheInv
  <2>1. pm \in [Cache!Tag -> Cache!Block] /\ Bytes(0) \in Cache!Block
    BY <1>1, TagsAreFrames, ImagesAreBlocks DEF MapInv, Paging!TypeOK
  <2>2. 0 \in Cache!Tag /\ 0 \in Cache!Byte /\ 0 \in 0 .. MAX_TIME
    BY Numbers DEF Cache!Tag, Cache!Byte
  <2>3. Cache!TypeOK
    BY <2>1, <2>2 DEF Init, Cache!TypeOK, Cache!sram_cacheline_t
  <2>4. Cache!UniqueTags
    BY DEF Init, Cache!UniqueTags, Cache!Holds
  <2> QED
    BY <2>3, <2>4 DEF CacheInv
<1>3. TaskInv
  BY Numbers DEF Init, Idle, TaskInv, Paging!Init
<1>4. Storing
  BY DEF Init, Idle, Storing
<1> QED
  BY <1>1, <1>2, <1>3, <1>4 DEF Machinery

\* Entries, descriptors and files are left alone by everything but a translation.
LEMMA AccessKeepsPaging ==
    ASSUME MapInv, SlotInv, UNCHANGED pagingVars, pm' \in [Paging!Frame -> Cache!Block],
           walked' \in [page : Paging!Page \cup {0}, ppn : Paging!Frame]
    PROVE  MapInv' /\ SlotInv'
<1> USE DEF pagingVars
<1>1. MapInv'
  BY DEF MapInv, Paging!TypeOK, Paging!ReverseMapping, Paging!IsResident
<1>2. SlotInv'
  BY DEF SlotInv, SlotsApart, WrittenFramesHaveSlots, FreeFramesHaveNone,
         Paging!SlotOf, Paging!IsResident, Paging!IsFree
<1> QED
  BY <1>1, <1>2

\* A fault keeps the slots: it gives frames fresh descriptors, and moves slots with the
\* pages.
LEMMA FaultKeepsSlots ==
    ASSUME MapInv, SlotInv, NEW p \in Paging!Page, ~Paging!IsResident(p), running,
           Paging!page_fault_handler(p)
    PROVE  SlotInv'
<1>1. SlotsApart'
  <2>1. CASE \A q \in Paging!Page : Paging!SlotOf(q)' = Paging!SlotOf(q)
    BY <2>1 DEF SlotInv, SlotsApart
  <2>2. ASSUME NEW f \in Paging!Frame, Paging!FreeFrame(f), Paging!SlotOf(p)' = page_map[f].daddr,
               \A q \in Paging!Page : q # p => Paging!SlotOf(q)' = Paging!SlotOf(q)
        PROVE  SlotsApart'
    <3>1. Paging!SlotOf(p)' = 0
      BY <2>2 DEF Paging!FreeFrame, SlotInv, FreeFramesHaveNone
    <3> QED
      BY <2>2, <3>1 DEF SlotInv, SlotsApart
  <2> QED
    BY <2>1, <2>2, FaultSlots
<1>2. ASSUME NEW g \in Paging!Frame,
             page_map'[g].dirty = 1 \/ page_map'[g].time >= MAX_NUM_PHYSICAL_PAGE
      PROVE  page_map'[g].daddr # 0
  <2>1. ~(0 >= MAX_NUM_PHYSICAL_PAGE)
    BY Numbers
  <2>2. page_map'[g] = page_map[g]
    BY <1>2, <2>1, FreshDescriptor
  <2> QED
    BY <1>2, <2>2 DEF SlotInv, WrittenFramesHaveSlots
<1>3. ASSUME NEW g \in Paging!Frame, page_map'[g].pte4 = Paging!Blank
      PROVE  page_map'[g].daddr = 0
  <2>1. p # Paging!Blank
    BY Numbers DEF Paging!Page, Paging!Blank
  <2>2. page_map'[g] = page_map[g]
    BY <1>3, <2>1, FreshDescriptor
  <2> QED
    BY <1>3, <2>2 DEF SlotInv, FreeFramesHaveNone, Paging!IsFree
<1> QED
  BY <1>1, <1>2, <1>3
  DEF SlotInv, WrittenFramesHaveSlots, FreeFramesHaveNone, Paging!IsFree

\* A translation finds the page in its frame and changes nothing, or faults.
LEMMA Translates ==
    ASSUME MapInv, NEW p \in Paging!Page, Paging!va2pa(p)
    PROVE  /\ running /\ walked = Paging!Nowhere
           /\ walked' \in [page : Paging!Page \cup {0}, ppn : Paging!Frame] /\ walked'.page = p
           /\ \/ UNCHANGED <<pte, page_map, pm, disk, running>>
              \/ ~Paging!IsResident(p) /\ Paging!WalkFault(p)
<1>1. 0 \in Paging!Frame
  BY Numbers DEF Paging!Frame
<1>2. CASE Paging!WalkHit(p)
  <2>1. pte[p].ppn \in Paging!Frame
    BY <1>2, EntryTypes DEF Paging!WalkHit, MapInv
  <2> QED
    BY <1>2, <2>1 DEF Paging!WalkHit, Paging!va2pa
<1>3. CASE Paging!WalkFault(p)
  BY <1>1, <1>3 DEF Paging!WalkFault, Paging!va2pa
<1> QED
  BY <1>2, <1>3 DEF Paging!va2pa, Paging!WalkNoTable

\* An access begins with a translation, which moves pages and no line.
LEMMA BeginKeeps ==
    ASSUME Machinery, NEW p \in Paging!Page, NEW op \in {"read", "write", "fetch", "load"},
           NEW w, op \in {"write", "load"} => w \in Words, Begin(p, op, w)
    PROVE  Machinery'
<1> USE DEF Machinery
<1>1. Paging!va2pa(p) /\ task' = [op |-> op, moved |-> 0, word |-> w] /\ UNCHANGED cacheVars
  BY DEF Begin
<1>2. /\ running /\ walked = Paging!Nowhere
      /\ walked' \in [page : Paging!Page \cup {0}, ppn : Paging!Frame] /\ walked'.page = p
      /\ \/ UNCHANGED <<pte, page_map, pm, disk, running>>
         \/ ~Paging!IsResident(p) /\ Paging!WalkFault(p)
  BY <1>1, Translates
<1>3. MapInv' /\ SlotInv'
  <2>1. CASE UNCHANGED <<pte, page_map, pm, disk, running>>
    BY <1>2, <2>1, AccessKeepsPaging DEF pagingVars, MapInv, Paging!TypeOK
  <2>2. CASE ~Paging!IsResident(p) /\ Paging!WalkFault(p)
    BY <1>2, <2>2, FaultKeepsMap, FaultKeepsSlots DEF Paging!WalkFault
  <2> QED
    BY <1>2, <2>1, <2>2
<1>4. CacheInv'
  <2>1. pm' \in [Cache!Tag -> Cache!Block]
    BY <1>3, TagsAreFrames DEF MapInv, Paging!TypeOK
  <2> QED
    BY <1>1, <2>1
    DEF cacheVars, CacheInv, Cache!TypeOK, Cache!UniqueTags, Cache!Holds
<1>5. TaskInv'
  <2>1. walked' # Paging!Nowhere
    BY <1>2, Numbers DEF Paging!Nowhere, Paging!Page
  <2>2. /\ Paging!Nowhere' = Paging!Nowhere /\ Paging!Page' = Paging!Page /\ Words' = Words
        /\ 0 \in 0 .. WORD_BYTES
    BY Numbers DEF Paging!Nowhere, Paging!Page, Words
  <2> QED
    BY <1>1, <1>2, <2>1, <2>2 DEF TaskInv
<1>6. Storing'
  BY <1>1 DEF Storing
<1> QED
  BY <1>3, <1>4, <1>5, <1>6

\* What a step that moves a byte finds.
LEMMA Underway ==
    ASSUME Machinery, NEW op \in {"read", "write", "fetch", "load"}, Moves(op)
    PROVE  /\ task.op = op /\ walked # Paging!Nowhere /\ walked.page \in Paging!Page
           /\ walked.ppn \in Cache!Tag /\ walked.ppn \in Paging!Frame
           /\ task.moved \in Cache!Offset
           /\ op \in {"write", "load"} => task.word \in Int
<1>1. task.moved \in Cache!Offset
  BY Numbers DEF Machinery, TaskInv, Moves, Cache!Offset
<1>2. op \in {"write", "load"} => task.word \in Int
  BY WordsAreInts DEF Machinery, TaskInv, Moves
<1> QED
  BY <1>1, <1>2, TagsAreFrames DEF Machinery, TaskInv, Moves, MapInv, Paging!TypeOK

\* The task after it.
LEMMA MovesOn ==
    ASSUME TaskInv, NEW op \in {"read", "write", "fetch", "load"}, Moves(op), walked' = walked,
           NEW w, op \in {"write", "load"} => w = task.word,
           task' = [op |-> op, moved |-> task.moved + 1, word |-> w]
    PROVE  TaskInv' /\ task'.op = op /\ task'.moved = task.moved + 1 /\ task'.word = w
<1>1. task.op = op /\ task.moved < WORD_BYTES
  BY DEF Moves
<1>2. task.moved + 1 \in 0 .. WORD_BYTES
  BY <1>1, Numbers DEF TaskInv
<1>3. Paging!Nowhere' = Paging!Nowhere /\ Paging!Page' = Paging!Page /\ Words' = Words
  BY DEF Paging!Nowhere, Paging!Page, Words
<1> QED
  BY <1>1, <1>2, <1>3 DEF TaskInv

\* What the steps of the cache do: the access they make uses one line.
LEMMA ReadStep ==
    ASSUME Machinery, cpu_read64bits_dram
    PROVE  /\ Moves("read") /\ UNCHANGED <<pagingVars, walked>>
           /\ \E i \in Cache!LineIndex :
                Access(walked.ppn, i) /\ ReadEffect(walked.ppn, task.moved, i)
           /\ \E w : task' = [op |-> "read", moved |-> task.moved + 1, word |-> w]
<1>1. Moves("read") /\ Cache!sram_cache_read(walked.ppn, task.moved)
  BY DEF cpu_read64bits_dram
<1>2. walked.ppn \in Cache!Tag /\ task.moved \in Cache!Offset /\ task.op = "read"
  BY <1>1, Underway
<1>3. PICK v \in Shifted(delivered', task.moved) :
        task' = [task EXCEPT !.moved = @ + 1, !.word = (@ + v) % BYTES^WORD_BYTES]
  BY DEF cpu_read64bits_dram
<1>4. task' = [op |-> "read", moved |-> task.moved + 1,
               word |-> (task.word + v) % BYTES^WORD_BYTES]
  BY <1>2, <1>3 DEF Machinery, TaskInv
<1> QED
  BY <1>1, <1>2, <1>4, ReadAccess DEF cpu_read64bits_dram, Machinery

\* A byte that is written is the next byte of the word at hand.
LEMMA WriteStep ==
    ASSUME Machinery, cpu_write64bits_dram
    PROVE  /\ Moves("write") /\ UNCHANGED <<pagingVars, walked>>
           /\ StoredByte(task.word, task.moved) \in Cache!Byte
           /\ \E i \in Cache!LineIndex :
                /\ Access(walked.ppn, i)
                /\ WriteEffect(walked.ppn, task.moved, StoredByte(task.word, task.moved), i)
           /\ task' = [op |-> "write", moved |-> task.moved + 1, word |-> task.word]
<1>1. /\ Moves("write")
      /\ Cache!sram_cache_write(walked.ppn, task.moved, StoredByte(task.word, task.moved))
  BY DEF cpu_write64bits_dram
<1>2. /\ walked.ppn \in Cache!Tag /\ task.moved \in Cache!Offset /\ task.op = "write"
      /\ task.word \in Int
  BY <1>1, Underway
<1>3. StoredByte(task.word, task.moved) \in Cache!Byte
  BY <1>2, CutIsByte
<1>4. task' = [op |-> "write", moved |-> task.moved + 1, word |-> task.word]
  BY <1>2 DEF cpu_write64bits_dram, Machinery, TaskInv
<1>5. CacheInv
  BY DEF Machinery
<1> QED
  BY <1>1, <1>2, <1>3, <1>4, <1>5, WriteAccess DEF cpu_write64bits_dram

\* The byte that the loader moves goes to memory.
LEMMA LoadStep ==
    ASSUME Machinery, cpu_writeinst_dram
    PROVE  /\ Moves("load") /\ UNCHANGED <<cacheVars, pagingVars, walked>>
           /\ pm' \in [Cache!Tag -> Cache!Block]
           /\ pm' = [pm EXCEPT ![walked.ppn][task.moved] = ByteOf(task.word, task.moved)]
           /\ task' = [op |-> "load", moved |-> task.moved + 1, word |-> task.word]
<1>1. Moves("load")
  BY DEF cpu_writeinst_dram
<1>2. /\ walked.ppn \in Cache!Tag /\ task.moved \in Cache!Offset /\ task.op = "load"
      /\ task.word \in Int
  BY <1>1, Underway
<1>3. ByteOf(task.word, task.moved) \in Cache!Byte
  BY <1>2, CutIsByte
<1>4. pm' = [pm EXCEPT ![walked.ppn][task.moved] = ByteOf(task.word, task.moved)]
  BY DEF cpu_writeinst_dram
<1>5. pm' \in [Cache!Tag -> Cache!Block]
  BY <1>2, <1>3, <1>4 DEF Machinery, CacheInv, Cache!TypeOK, Cache!Block
<1>6. task' = [op |-> "load", moved |-> task.moved + 1, word |-> task.word]
  BY <1>2 DEF cpu_writeinst_dram, Machinery, TaskInv
<1> QED
  BY <1>1, <1>4, <1>5, <1>6 DEF cpu_writeinst_dram

\* A step that uses the cache or moves a byte past it keeps the invariant but for what it
\* says of stores.
LEMMA MoveKeeps ==
    ASSUME Machinery, NEW op \in {"read", "write", "fetch", "load"}, Moves(op),
           UNCHANGED <<pagingVars, walked>>, CacheInv', NEW w,
           op \in {"write", "load"} => w = task.word,
           task' = [op |-> op, moved |-> task.moved + 1, word |-> w], Storing'
    PROVE  Machinery'
<1>1. TaskInv'
  BY MovesOn DEF Machinery
<1>2. pm' \in [Paging!Frame -> Cache!Block]
  BY TagsAreFrames DEF CacheInv, Cache!TypeOK
<1>3. walked' \in [page : Paging!Page \cup {0}, ppn : Paging!Frame]
  BY DEF Machinery, MapInv, Paging!TypeOK
<1>4. MapInv' /\ SlotInv'
  BY <1>2, <1>3, AccessKeepsPaging DEF Machinery
<1> QED
  BY <1>1, <1>4 DEF Machinery

\* Reading a byte may replace a line.
LEMMA ReadKeeps == Machinery /\ cpu_read64bits_dram => Machinery'
<1> SUFFICES ASSUME Machinery, cpu_read64bits_dram PROVE Machinery'
  OBVIOUS
<1>1. PICK w : /\ Moves("read") /\ UNCHANGED <<pagingVars, walked>>
               /\ task' = [op |-> "read", moved |-> task.moved + 1, word |-> w]
  BY ReadStep
<1>2. walked.ppn \in Cache!Tag
  BY <1>1, Underway
<1>3. CacheInv'
  BY <1>2, ReadStep, AccessKeepsInv DEF Machinery
<1>4. Storing'
  BY <1>1 DEF Storing
<1> QED
  BY <1>1, <1>3, <1>4, MoveKeeps

\* A store that has hit before, or starts, puts its byte beside those it has moved; one
\* that has replaced a line goes on replacing.
LEMMA WriteKeeps == Machinery /\ cpu_write64bits_dram => Machinery'
<1> SUFFICES ASSUME Machinery, cpu_write64bits_dram PROVE Machinery'
  OBVIOUS
<1> DEFINE t == walked.ppn
           o == task.moved
           d == StoredByte(task.word, task.moved)
<1>1. /\ Moves("write") /\ UNCHANGED <<pagingVars, walked>> /\ d \in Cache!Byte
      /\ task' = [op |-> "write", moved |-> task.moved + 1, word |-> task.word]
  BY WriteStep
<1>2. t \in Cache!Tag /\ o \in Cache!Offset /\ task.op = "write"
  BY <1>1, Underway
<1>3. PICK i \in Cache!LineIndex : Access(t, i) /\ WriteEffect(t, o, d, i)
  BY WriteStep
<1>4. CacheInv /\ TaskInv /\ Storing
  BY DEF Machinery
<1>5. CacheInv'
  BY <1>2, <1>3, <1>4, AccessKeepsInv
<1>6. walked'.ppn = t /\ task'.moved = o + 1 /\ task'.word = task.word
  BY <1>1
<1>7. ASSUME Cache!Miss(t), Cache!Full PROVE Storing'
  <2>1. ~Cached(t)' /\ Cache!Full'
    BY <1>1, <1>2, <1>3, <1>4, <1>7, ReplacingWrite
  <2> QED
    BY <1>6, <2>1 DEF Storing, Cached, Cache!Miss, Cache!Holds
<1>8. ASSUME ~(Cache!Miss(t) /\ Cache!Full) PROVE Storing'
  <2>1. Cache!Visible' = [Cache!Visible EXCEPT ![t][o] = d] /\ Cached(t)'
    BY <1>1, <1>2, <1>3, <1>4, <1>8, WriteSetsVisible
  <2>2. ASSUME NEW k \in 0 .. o
        PROVE  Cache!Visible'[t][k] = StoredByte(task.word, k)
    <3>1. k \in Cache!Offset /\ o \in Int
      BY <1>2, Numbers DEF Cache!Offset
    <3>2. Cache!Visible'[t][k] = IF k = o THEN d ELSE Cache!Visible[t][k]
      BY <1>2, <2>1, <3>1 DEF Cache!Visible
    <3>3. CASE k # o
      <4>1. k \in 0 .. o - 1 /\ o > 0
        BY <2>2, <3>1, <3>3
      <4>2. Cache!Visible[t][k] = StoredByte(task.word, k)
        BY <1>2, <1>4, <1>8, <4>1 DEF Storing, Cached
      <4> QED
        BY <3>2, <3>3, <4>2
    <3> QED
      BY <3>2, <3>3
  <2>3. 0 .. task'.moved - 1 = 0 .. o
    BY <1>2, <1>6, Numbers DEF Cache!Offset
  <2>4. \A k \in 0 .. task'.moved - 1 : Cache!Visible'[walked'.ppn][k] = StoredByte(task'.word, k)
    BY <1>6, <2>2, <2>3
  <2>5. Cached(walked.ppn)'
    BY <1>6, <2>1 DEF Cached, Cache!Miss, Cache!Holds
  <2> HIDE DEF t, o, d
  <2> QED
    BY <2>4, <2>5 DEF Storing, StoredByte
<1>9. Storing'
  BY <1>7, <1>8
<1> QED
  BY <1>1, <1>5, <1>9, MoveKeeps

\* An instruction is read behind the cache.
LEMMA FetchKeeps == Machinery /\ cpu_readinst_dram => Machinery'
<1> SUFFICES ASSUME Machinery, cpu_readinst_dram PROVE Machinery'
  OBVIOUS
<1>1. /\ Moves("fetch") /\ UNCHANGED <<lines, pm, pagingVars, walked>>
      /\ delivered' = pm[walked.ppn][task.moved]
  BY DEF cpu_readinst_dram
<1>2. task.op = "fetch" /\ walked.ppn \in Cache!Tag /\ task.moved \in Cache!Offset
  BY <1>1, Underway
<1>3. task' = [op |-> "fetch", moved |-> task.moved + 1, word |-> task.word]
  BY <1>2 DEF cpu_readinst_dram, Machinery, TaskInv
<1>4. delivered' \in Cache!Byte
  BY <1>1, <1>2 DEF Machinery, CacheInv, Cache!TypeOK, Cache!Block
<1>5. CacheInv'
  BY <1>1, <1>4 DEF Machinery, CacheInv, Cache!TypeOK, Cache!UniqueTags, Cache!Holds
<1>6. Storing'
  BY <1>3 DEF Storing
<1> QED
  BY <1>1, <1>3, <1>5, <1>6, MoveKeeps

\* An instruction is written behind the cache.
LEMMA LoadKeeps == Machinery /\ cpu_writeinst_dram => Machinery'
<1> SUFFICES ASSUME Machinery, cpu_writeinst_dram PROVE Machinery'
  OBVIOUS
<1>1. /\ Moves("load") /\ UNCHANGED <<cacheVars, pagingVars, walked>>
      /\ pm' \in [Cache!Tag -> Cache!Block]
      /\ task' = [op |-> "load", moved |-> task.moved + 1, word |-> task.word]
  BY LoadStep
<1>2. CacheInv'
  BY <1>1 DEF cacheVars, Machinery, CacheInv, Cache!TypeOK, Cache!UniqueTags, Cache!Holds
<1>3. Storing'
  BY <1>1 DEF Storing
<1> QED
  BY <1>1, <1>2, <1>3, MoveKeeps

\* The end of an access leaves memory alone.
LEMMA ReturnKeeps == Machinery /\ Return => Machinery'
<1> SUFFICES ASSUME Machinery, Return PROVE Machinery'
  OBVIOUS
<1>1. /\ walked' = Paging!Nowhere /\ task' = Idle /\ delivered' = 0
      /\ UNCHANGED <<lines, pm, pagingVars>>
  BY DEF Return
<1>2. 0 \in Cache!Byte
  BY Numbers DEF Cache!Byte
<1>3. CacheInv'
  BY <1>1, <1>2 DEF Machinery, CacheInv, Cache!TypeOK, Cache!UniqueTags, Cache!Holds
<1>4. 0 \in Paging!Frame /\ Paging!Nowhere \in [page : Paging!Page \cup {0}, ppn : Paging!Frame]
  BY Numbers DEF Paging!Frame, Paging!Nowhere
<1>5. MapInv' /\ SlotInv'
  BY <1>1, <1>4, AccessKeepsPaging DEF Machinery, MapInv, Paging!TypeOK
<1>6. TaskInv'
  <2>1. Paging!Nowhere' = Paging!Nowhere /\ 0 \in 0 .. WORD_BYTES
    BY Numbers DEF Paging!Nowhere
  <2> QED
    BY <1>1, <2>1 DEF TaskInv, Idle
<1>7. Storing'
  BY <1>1 DEF Storing, Idle
<1> QED
  BY <1>3, <1>5, <1>6, <1>7 DEF Machinery

\* An access begins with a page of the program.
LEMMA Begins ==
    ASSUME NEW p, NEW op, NEW w, Begin(p, op, w),
           \/ p \in Page /\ op = "read" /\ w = 0
           \/ p \in Page /\ op = "write" /\ w \in Stores
           \/ p \in TextPages /\ op = "fetch" /\ w = 0
           \/ p \in TextPages /\ op = "load" /\ w \in Texts
    PROVE  /\ p \in Paging!Page /\ op \in {"read", "write", "fetch", "load"}
           /\ op \in {"write", "load"} => w \in Words
<1>1. TextPages \subseteq Page /\ Page = Paging!Page
  BY ImageAssumption, TagsAreFrames DEF Page
<1> QED
  BY <1>1, ImageAssumption

\* The steps of the machine.
LEMMA Steps ==
    ASSUME Next
    PROVE  \/ \E p \in Paging!Page, op \in {"read", "write", "fetch", "load"} :
                \E w : (op \in {"write", "load"} => w \in Words) /\ Begin(p, op, w)
           \/ cpu_read64bits_dram
           \/ cpu_write64bits_dram
           \/ cpu_readinst_dram
           \/ cpu_writeinst_dram
           \/ Return
  BY Begins DEF Next

\* The invariant holds in every state: the cache never holds a frame twice, the page
\* tables and the descriptors stay inverse and the disk addresses apart, although neither
\* knows of the other, and a store's bytes stay together.
THEOREM MachineryInvariance == Spec => []Machinery
<1>1. ASSUME Machinery, [Next]_vars PROVE Machinery'
  <2>1. CASE UNCHANGED vars
    <3>1. Storing'
      BY <1>1, <2>1 DEF Machinery, vars, Storing, Cached, Cache!Visible, Cache!ByteAt, Cache!Miss,
                        Cache!Holds, Cache!Full, StoredByte
    <3>2. CacheInv'
      BY <1>1, <2>1 DEF Machinery, vars, CacheInv, Cache!TypeOK, Cache!UniqueTags, Cache!Holds
    <3>3. MapInv' /\ SlotInv'
      BY <1>1, <2>1, AccessKeepsPaging DEF Machinery, vars, pagingVars, MapInv, Paging!TypeOK
    <3>4. TaskInv'
      BY <1>1, <2>1 DEF Machinery, vars, TaskInv
    <3> QED
      BY <3>1, <3>2, <3>3, <3>4 DEF Machinery
  <2>2. CASE Next
    BY <1>1, <2>2, Steps, BeginKeeps, ReadKeeps, WriteKeeps, FetchKeeps, LoadKeeps, ReturnKeeps
  <2> QED
    BY <1>1, <2>1, <2>2
<1>2. Machinery /\ [Next]_vars => Machinery'
  BY <1>1
<1> QED
  BY <1>2, InitMachinery, PTL DEF Spec

\* A store whose line is in the cache at its end has all its bytes there.
THEOREM StoresAreWhole == Spec => []StoresLandWhole
<1>1. ASSUME Machinery, Done("write"), Cached(walked.ppn)
      PROVE  Cache!Visible[walked.ppn] = Bytes(task.word)
  <2>1. task.op = "write" /\ task.moved = WORD_BYTES /\ walked.ppn \in Cache!Tag
    BY <1>1, TagsAreFrames DEF Done, Machinery, MapInv, Paging!TypeOK
  <2>2. \A o \in Cache!Offset : Cache!Visible[walked.ppn][o] = StoredByte(task.word, o)
    BY <1>1, <2>1, Numbers DEF Machinery, Storing, Cache!Offset
  <2>3. Cache!Visible[walked.ppn] = [o \in Cache!Offset |-> Cache!ByteAt(walked.ppn, o)]
    BY <2>1 DEF Cache!Visible
  <2> QED
    BY <2>2, <2>3 DEF Bytes, ByteOf, StoredByte, Cache!Offset
<1>2. Machinery => StoresLandWhole
  BY <1>1 DEF StoresLandWhole
<1> QED
  BY <1>2, MachineryInvariance, PTL

-----------------------------------------------------------------------------
(* Bytes *)

\* When neither frames nor what the cache shows of them change, nothing does that the
\* program sees.
LEMMA SeenStays ==
    ASSUME UNCHANGED <<pte, disk>>, Cache!Visible' = Cache!Visible
    PROVE  Seen' = Seen
  BY TagsAreFrames DEF Seen, Paging!IsResident

\* One byte of a frame changes in what the cache shows, one of a page in what is seen.
ShowsByte(f, o, d) == Cache!Visible' = [Cache!Visible EXCEPT ![f][o] = d]
SeesByte(p, o, d)  == Seen' = [Seen EXCEPT ![p][o] = d]

\* A byte that changes in the frame of a page changes in that page, and in no other: no
\* two pages share a frame.
LEMMA SeenChanges ==
    ASSUME Machinery, NEW p \in Page, Paging!IsResident(p), NEW o \in Cache!Offset, NEW d,
           UNCHANGED <<pte, disk>>, ShowsByte(pte[p].ppn, o, d)
    PROVE  SeesByte(p, o, d)
<1> DEFINE f == pte[p].ppn
<1>1. MapInv /\ Page = Paging!Page
  BY DEF Machinery, Page
<1>2. f \in Cache!Tag
  BY <1>1, EntryTypes, TagsAreFrames DEF MapInv
<1>3. \A u \in Cache!Tag :
        Cache!Visible'[u] = IF u = f THEN [Cache!Visible[f] EXCEPT ![o] = d] ELSE Cache!Visible[u]
  BY <1>2 DEF Cache!Visible, ShowsByte
<1>4. Seen[p] = Cache!Visible[f] /\ Seen'[p] = Cache!Visible'[f]
  BY DEF Seen, Paging!IsResident
<1>5. Seen'[p] = [Seen[p] EXCEPT ![o] = d]
  BY <1>2, <1>3, <1>4
<1>6. ASSUME NEW q \in Page, q # p PROVE Seen'[q] = Seen[q]
  <2>1. CASE Paging!IsResident(q)
    <3>1. pte[q].ppn \in Cache!Tag /\ pte[q].ppn # f
      BY <1>1, <1>6, <2>1, EntryTypes, TagsAreFrames DEF MapInv, Paging!ReverseMapping
    <3>2. Cache!Visible'[pte[q].ppn] = Cache!Visible[pte[q].ppn]
      BY <1>3, <3>1
    <3> QED
      BY <2>1, <3>2 DEF Seen, Paging!IsResident
  <2>2. CASE ~Paging!IsResident(q)
    BY <2>2 DEF Seen, Paging!IsResident
  <2> QED
    BY <2>1, <2>2
<1>7. DOMAIN Seen = Page /\ DOMAIN Seen' = Page
  BY DEF Seen, Page, Paging!Page
<1>8. \A q \in Page : Seen'[q] = IF q = p THEN [Seen[p] EXCEPT ![o] = d] ELSE Seen[q]
  BY <1>5, <1>6
<1> QED
  BY <1>8 DEF SeesByte, Seen, Page, Paging!Page

\* A byte that is loaded into a frame that is not cached shows.
LEMMA LoadShows ==
    ASSUME CacheInv, NEW t \in Cache!Tag, NEW o \in Cache!Offset, NEW d, UNCHANGED lines,
           ~Cached(t), pm' = [pm EXCEPT ![t][o] = d]
    PROVE  Cache!Visible' = [Cache!Visible EXCEPT ![t][o] = d]
<1>1. \A u \in Cache!Tag : Cache!Miss(u)' = Cache!Miss(u)
  BY DEF Cache!Miss, Cache!Holds
<1>2. Cache!Miss(t)
  BY DEF Cached
<1>3. \A p \in Cache!Offset : pm'[t][p] = IF p = o THEN d ELSE pm[t][p]
  BY DEF CacheInv, Cache!TypeOK, Cache!Block
<1>4. \A u \in Cache!Tag : u # t => pm'[u] = pm[u]
  BY DEF CacheInv, Cache!TypeOK
<1>5. \A p \in Cache!Offset : Cache!ByteAt(t, p)' = IF p = o THEN d ELSE Cache!ByteAt(t, p)
  BY <1>1, <1>2, <1>3 DEF Cache!ByteAt
<1>6. ASSUME NEW u \in Cache!Tag, u # t, NEW p \in Cache!Offset
      PROVE  Cache!ByteAt(u, p)' = Cache!ByteAt(u, p)
  BY <1>1, <1>4, <1>6 DEF Cache!ByteAt, Cache!Holds
<1>7. \A u \in Cache!Tag :
        Cache!Visible'[u] = IF u = t THEN [Cache!Visible[t] EXCEPT ![o] = d] ELSE Cache!Visible[u]
  BY <1>5, <1>6 DEF Cache!Visible
<1> QED
  BY <1>7 DEF Cache!Visible

\* What the program has of an access that is not mistranslated.
LEMMA Translated ==
    ASSUME Machinery, NEW op \in {"read", "write", "fetch", "load"}, Moves(op), ~Mistranslated
    PROVE  /\ walked.page \in Page /\ Paging!IsResident(walked.page)
           /\ walked.ppn = pte[walked.page].ppn
           /\ Seen[walked.page] = Cache!Visible[walked.ppn]
<1>1. walked.page \in Page
  BY Underway DEF Page
<1> QED
  BY <1>1 DEF Mistranslated, Seen

\* A byte that is read is the one the page has, but for the exceptions.
LEMMA ReadReaches ==
    ASSUME Machinery, cpu_read64bits_dram, ~Mistranslated, ~Replaces
    PROVE  task.op = "read" /\ Virtual!Read(walked.page, task.moved)
<1>1. Moves("read") /\ UNCHANGED pagingVars
  BY ReadStep
<1>2. walked.ppn \in Cache!Tag /\ task.moved \in Cache!Offset /\ task.op = "read" /\ CacheInv
  BY <1>1, Underway DEF Machinery
<1>3. PICK i \in Cache!LineIndex :
        Access(walked.ppn, i) /\ ReadEffect(walked.ppn, task.moved, i)
  BY ReadStep
<1>4. Cache!Visible' = Cache!Visible /\ delivered' = Cache!Visible[walked.ppn][task.moved]
  BY <1>2, <1>3, ReadKeepsVisible DEF Replaces
<1>5. Seen[walked.page] = Cache!Visible[walked.ppn]
  BY <1>1, Translated
<1>6. Seen' = Seen
  BY <1>1, <1>4, SeenStays DEF pagingVars
<1> QED
  BY <1>2, <1>4, <1>5, <1>6 DEF Virtual!Read

\* A byte that is written shows in its page and in no other, but for the exceptions.
LEMMA WriteReaches ==
    ASSUME Machinery, cpu_write64bits_dram, ~Mistranslated, ~Replaces
    PROVE  /\ task.op = "write"
           /\ Virtual!Write(walked.page, task.moved, ByteOf(task.word, task.moved))
<1> DEFINE d == StoredByte(task.word, task.moved)
<1>1. Moves("write") /\ UNCHANGED pagingVars /\ d \in Cache!Byte
  BY WriteStep
<1>2. walked.ppn \in Cache!Tag /\ task.moved \in Cache!Offset /\ task.op = "write" /\ CacheInv
  BY <1>1, Underway DEF Machinery
<1>3. PICK i \in Cache!LineIndex :
        Access(walked.ppn, i) /\ WriteEffect(walked.ppn, task.moved, d, i)
  BY WriteStep
<1>4. d = ByteOf(task.word, task.moved)
  BY DEF StoredByte, ByteOf
<1>5. /\ Cache!Visible' = [Cache!Visible EXCEPT ![walked.ppn][task.moved] = d]
      /\ delivered' = delivered
  <2>1. ~(Cache!Miss(walked.ppn) /\ Cache!Full)
    BY <1>2 DEF Replaces
  <2>2. delivered' = delivered
    BY <1>3 DEF WriteEffect
  <2> HIDE DEF d
  <2> QED
    BY <1>1, <1>2, <1>3, <2>1, <2>2, WriteSetsVisible
<1>6. /\ walked.page \in Page /\ Paging!IsResident(walked.page)
      /\ walked.ppn = pte[walked.page].ppn
  BY <1>1, Translated
<1>7. SeesByte(walked.page, task.moved, d)
  <2>1. UNCHANGED <<pte, disk>>
    BY <1>1 DEF pagingVars
  <2>2. ShowsByte(pte[walked.page].ppn, task.moved, d)
    BY <1>5, <1>6 DEF ShowsByte
  <2> HIDE DEF d
  <2> QED
    BY <1>2, <1>6, <2>1, <2>2, SeenChanges
<1> QED
  BY <1>2, <1>4, <1>5, <1>7 DEF SeesByte, Virtual!Write

\* A fetched byte is the one the page has, but for the exceptions.
LEMMA FetchReaches ==
    ASSUME Machinery, cpu_readinst_dram, ~Mistranslated, ~CacheDiffers(walked.ppn)
    PROVE  task.op = "fetch" /\ Virtual!Read(walked.page, task.moved)
<1>1. /\ Moves("fetch") /\ UNCHANGED <<lines, pm, pagingVars>>
      /\ delivered' = pm[walked.ppn][task.moved]
  BY DEF cpu_readinst_dram
<1>2. task.op = "fetch"
  BY <1>1, Underway
<1>3. Seen[walked.page] = Cache!Visible[walked.ppn]
  BY <1>1, Translated
<1>4. Cache!Visible' = Cache!Visible
  BY <1>1 DEF Cache!Visible, Cache!ByteAt, Cache!Miss, Cache!Holds
<1>5. Seen' = Seen
  BY <1>1, <1>4, SeenStays DEF pagingVars
<1> QED
  BY <1>1, <1>2, <1>3, <1>5 DEF Virtual!Read, CacheDiffers

\* A byte that the loader writes shows in its page and in no other, but for the exceptions.
LEMMA LoadReaches ==
    ASSUME Machinery, cpu_writeinst_dram, ~Mistranslated, ~Cached(walked.ppn)
    PROVE  /\ task.op = "load"
           /\ Virtual!Write(walked.page, task.moved, ByteOf(task.word, task.moved))
<1> DEFINE d == ByteOf(task.word, task.moved)
<1>1. /\ Moves("load") /\ UNCHANGED <<cacheVars, pagingVars>>
      /\ pm' = [pm EXCEPT ![walked.ppn][task.moved] = d]
  BY LoadStep
<1>2. walked.ppn \in Cache!Tag /\ task.moved \in Cache!Offset /\ task.op = "load" /\ CacheInv
  BY <1>1, Underway DEF Machinery
<1>3. Cache!Visible' = [Cache!Visible EXCEPT ![walked.ppn][task.moved] = d]
  <2> HIDE DEF d
  <2> QED
    BY <1>1, <1>2, LoadShows DEF cacheVars
<1>4. /\ walked.page \in Page /\ Paging!IsResident(walked.page)
      /\ walked.ppn = pte[walked.page].ppn
  BY <1>1, Translated
<1>5. SeesByte(walked.page, task.moved, d)
  <2>1. UNCHANGED <<pte, disk>>
    BY <1>1 DEF pagingVars
  <2>2. ShowsByte(pte[walked.page].ppn, task.moved, d)
    BY <1>3, <1>4 DEF ShowsByte
  <2> HIDE DEF d
  <2> QED
    BY <1>2, <1>4, <2>1, <2>2, SeenChanges
<1> QED
  BY <1>1, <1>2, <1>5 DEF SeesByte, Virtual!Write, cacheVars

\* Every byte of an access reaches its page and its offset and no other, but for the four
\* causes.
THEOREM BytesArrive == Spec => BytesReachTheirPage
<1> DEFINE Arrives ==
        walked # Paging!Nowhere /\ walked' = walked =>
            \/ Mistranslated
            \/ task.op \in {"read", "write"} /\ Replaces
            \/ task.op = "fetch" /\ CacheDiffers(walked.ppn)
            \/ task.op = "load" /\ Cached(walked.ppn)
            \/ /\ task.op \in {"read", "fetch"}
               /\ Virtual!Read(walked.page, task.moved)
            \/ /\ task.op \in {"write", "load"}
               /\ Virtual!Write(walked.page, task.moved, ByteOf(task.word, task.moved))
<1>1. ASSUME Machinery, Next PROVE Arrives
  <2>1. CASE walked = Paging!Nowhere \/ walked' # walked
    BY <2>1
  <2>2. ASSUME NEW p \in Paging!Page, NEW op, NEW w, Begin(p, op, w)
        PROVE  walked = Paging!Nowhere
    BY <1>1, <2>2, Translates DEF Begin, Machinery
  <2>3. CASE Return
    <3>1. walked' = Paging!Nowhere
      BY <2>3 DEF Return
    <3> QED
      BY <3>1
  <2>4. CASE cpu_read64bits_dram
    <3>1. task.op = "read"
      BY <1>1, <2>4, ReadStep DEF Moves
    <3> QED
      BY <1>1, <2>4, <3>1, ReadReaches
  <2>5. CASE cpu_write64bits_dram
    <3>1. task.op = "write"
      BY <1>1, <2>5, WriteStep DEF Moves
    <3> QED
      BY <1>1, <2>5, <3>1, WriteReaches
  <2>6. CASE cpu_readinst_dram
    <3>1. task.op = "fetch"
      BY <2>6 DEF cpu_readinst_dram, Moves
    <3> QED
      BY <1>1, <2>6, <3>1, FetchReaches
  <2>7. CASE cpu_writeinst_dram
    <3>1. task.op = "load"
      BY <2>7 DEF cpu_writeinst_dram, Moves
    <3> QED
      BY <1>1, <2>7, <3>1, LoadReaches
  <2> HIDE DEF Arrives
  <2>8. CASE \E p \in Paging!Page, op \in {"read", "write", "fetch", "load"} :
                \E w : (op \in {"write", "load"} => w \in Words) /\ Begin(p, op, w)
    BY <2>1, <2>2, <2>8
  <2> QED
    BY <1>1, <2>3, <2>4, <2>5, <2>6, <2>7, <2>8, Steps
<1>2. Machinery /\ [Next]_vars => [Arrives]_vars
  BY <1>1
<1> QED
  BY <1>2, MachineryInvariance, PTL DEF Spec, BytesReachTheirPage

-----------------------------------------------------------------------------
(* Translations *)

\* The lines stay where they are when frames are swapped: a frame that is cached shows
\* what it showed, any other what it holds.
LEMMA SwapsBehindCache ==
    ASSUME Machinery, UNCHANGED lines, NEW g \in Cache!Tag, pm'[g] = pm[g] \/ Cached(g)
    PROVE  Cache!Visible'[g] = Cache!Visible[g]
<1>1. Cache!Miss(g)' = Cache!Miss(g)
  BY DEF Cache!Miss, Cache!Holds
<1>2. ASSUME NEW o \in Cache!Offset PROVE Cache!ByteAt(g, o)' = Cache!ByteAt(g, o)
  BY <1>1 DEF Cache!ByteAt, Cache!Holds, Cached
<1> QED
  BY <1>2 DEF Cache!Visible

\* A page with no line shows what its frame holds.
LEMMA UncachedShows ==
    ASSUME Cache!TypeOK, NEW g \in Cache!Tag, ~Cached(g)
    PROVE  Cache!Visible[g] = pm[g]
<1>1. \A o \in Cache!Offset : Cache!ByteAt(g, o) = pm[g][o]
  BY DEF Cache!ByteAt, Cached
<1>2. pm[g] = [o \in Cache!Offset |-> pm[g][o]]
  BY DEF Cache!TypeOK, Cache!Block
<1> QED
  BY <1>1, <1>2 DEF Cache!Visible

\* The same after a step.
LEMMA UncachedShowsNext ==
    ASSUME UNCHANGED lines, pm' \in [Cache!Tag -> Cache!Block], NEW g \in Cache!Tag, ~Cached(g)
    PROVE  Cache!Visible'[g] = pm'[g]
<1>1. Cache!Miss(g)'
  BY DEF Cache!Miss, Cache!Holds, Cached
<1>2. \A o \in Cache!Offset : Cache!ByteAt(g, o)' = pm'[g][o]
  BY <1>1 DEF Cache!ByteAt
<1>3. pm'[g] = [o \in Cache!Offset |-> pm'[g][o]]
  BY DEF Cache!Block
<1> QED
  BY <1>2, <1>3 DEF Cache!Visible

\* What may change a page in a fault.
Cause(q) ==
    \/ Paging!TakesFreeFrame(q)
    \/ /\ Paging!IsResident(q) /\ ~Paging!IsResident(q)'
       /\ \/ CacheDiffers(pte[q].ppn)
          \/ /\ page_map[pte[q].ppn].dirty = 0
             /\ pm[pte[q].ppn] # disk[Paging!SlotOf(q)].content
    \/ ~Paging!IsResident(q) /\ Paging!IsResident(q)' /\ Cached(pte'[q].ppn)

\* A page that is not the victim's and not the one that moves stays as it was.
LEMMA BystanderStays ==
    ASSUME Machinery, UNCHANGED lines, NEW p \in Paging!Page, NEW f \in Paging!Frame,
           Relocates(p, f), \A g \in Paging!Frame : g # f => pm'[g] = pm[g],
           NEW q \in Paging!Page, q # p, q # page_map[f].pte4,
           ~Paging!IsResident(q) => disk'[pte[q].daddr] = disk[pte[q].daddr]
    PROVE  Seen'[q] = Seen[q]
<1>1. pte'[q] = pte[q] /\ q \in Page
  BY DEF Relocates, Page
<1>2. CASE Paging!IsResident(q)
  <2>1. pte[q].ppn \in Paging!Frame /\ pte[q].ppn # f
    BY <1>2, EntryTypes DEF Machinery, MapInv, Paging!ReverseMapping
  <2>2. Cache!Visible'[pte[q].ppn] = Cache!Visible[pte[q].ppn]
    BY <2>1, SwapsBehindCache, TagsAreFrames
  <2> QED
    BY <1>1, <1>2, <2>2 DEF Seen, Paging!IsResident
<1>3. CASE ~Paging!IsResident(q)
  BY <1>1, <1>3 DEF Seen, Paging!IsResident
<1> QED
  BY <1>2, <1>3

\* The page that is read into a frame is seen there as it was on disk, unless the cache
\* holds a line of the frame.
LEMMA ArrivalIsSeen ==
    ASSUME Machinery, UNCHANGED lines, pm' \in [Paging!Frame -> Cache!Block],
           NEW p \in Paging!Page, NEW f \in Paging!Frame, ~Paging!IsResident(p),
           Relocates(p, f), pm'[f] = disk'[pte[p].daddr].content,
           disk'[pte[p].daddr] = disk[pte[p].daddr], Seen'[p] # Seen[p]
    PROVE  Cause(p)
<1>1. pte'[p].present = 1 /\ pte'[p].ppn = f
  <2>1. pte'[p] = Paging!Resident(f)
    BY DEF Relocates
  <2> QED
    BY <2>1 DEF Paging!Resident
<1>2. Seen'[p] = Cache!Visible'[f] /\ Seen[p] = disk[pte[p].daddr].content
  BY <1>1 DEF Seen, Page, Paging!IsResident
<1>3. Cached(f)
  BY <1>2, UncachedShowsNext, TagsAreFrames
<1> QED
  BY <1>1, <1>3 DEF Cause, Paging!IsResident

\* The page that leaves a frame is found on disk as it was seen, unless the cache shows it
\* otherwise or its file is older.
LEMMA DepartureIsSeen ==
    ASSUME Machinery, NEW p \in Paging!Page, NEW f \in Paging!Frame,
           Relocates(p, f), ~Paging!IsFree(f), Paging!FaultClean(p, f) \/ Paging!FaultDirty(p, f),
           NEW q, q = page_map[f].pte4, q # p, Seen'[q] # Seen[q]
    PROVE  Cause(q)
<1>1. MapInv
  BY DEF Machinery
<1>2. q \in Page /\ Paging!IsResident(q) /\ pte[q].ppn = f
  BY <1>1, Occupant DEF Page
<1>3. pte'[q].present = 0 /\ pte'[q].daddr = page_map[f].daddr
  <2>1. pte'[q] = Paging!Swapped(page_map[f].daddr)
    BY DEF Relocates
  <2> QED
    BY <2>1 DEF Paging!Swapped
<1>4. ~Paging!IsResident(q)' /\ Seen'[q] = disk'[page_map[f].daddr].content
  BY <1>2, <1>3 DEF Seen, Page, Paging!IsResident
<1>5. Seen[q] = Cache!Visible[f] /\ Paging!SlotOf(q) = page_map[f].daddr
  BY <1>2 DEF Seen, Paging!SlotOf
<1>6. CASE CacheDiffers(f)
  BY <1>2, <1>4, <1>6 DEF Cause
<1>7. CASE ~CacheDiffers(f) /\ Paging!FaultClean(p, f)
  <2>1. page_map[f].dirty = 0 /\ UNCHANGED disk
    BY <1>7 DEF Paging!FaultClean, Paging!CleanVictim, Paging!Oldest, Paging!Clean
  <2>2. pm[f] # disk[page_map[f].daddr].content
    BY <1>4, <1>5, <1>7, <2>1 DEF CacheDiffers
  <2> QED
    BY <1>2, <1>4, <1>5, <2>1, <2>2 DEF Cause
<1>8. CASE ~CacheDiffers(f) /\ Paging!FaultDirty(p, f)
  <2>1. page_map[f].daddr \in Paging!Slot
    BY <1>1 DEF MapInv, Paging!TypeOK, Paging!Descriptor
  <2>2. disk'[page_map[f].daddr].content = pm[f]
    BY <1>1, <1>8, <2>1 DEF Paging!FaultDirty, Paging!swap_out, MapInv, Paging!TypeOK
  <2> QED
    BY <1>4, <1>5, <1>8, <2>2 DEF CacheDiffers
<1> QED
  BY <1>6, <1>7, <1>8

\* A page that a fault changes has changed for one of the causes.
LEMMA FaultHasCause ==
    ASSUME Machinery, UNCHANGED lines, NEW p \in Paging!Page, ~Paging!IsResident(p), running,
           Paging!WalkFault(p), NEW q \in Paging!Page, Seen'[q] # Seen[q]
    PROVE  Cause(q)
<1>1. MapInv /\ SlotInv /\ Paging!page_fault_handler(p)
  BY DEF Machinery, Paging!WalkFault
<1>2. \A r \in Paging!Page : ~Paging!IsResident(r) => disk'[pte[r].daddr] = disk[pte[r].daddr]
  BY <1>1, FilesAreKept
<1>3. pm' \in [Paging!Frame -> Cache!Block]
  <2>1. MapInv'
    BY <1>1, FaultKeepsMap
  <2> QED
    BY <2>1 DEF MapInv, Paging!TypeOK
<1>4. CASE UNCHANGED <<pte, page_map, pm>>
  <2>1. Cache!Visible' = Cache!Visible
    BY <1>4 DEF Cache!Visible, Cache!ByteAt, Cache!Miss, Cache!Holds
  <2> QED
    BY <1>2, <1>4, <2>1 DEF Seen, Page, Paging!IsResident
<1>5. ASSUME NEW f \in Paging!Frame, Paging!FaultFree(p, f), Relocates(p, f)
      PROVE  Cause(q)
  <2>1. /\ Paging!FreeFrame(f) /\ page_map'[f].pte4 = p /\ UNCHANGED <<pm, disk>>
    BY <1>5 DEF Paging!FaultFree, Relocates
  <2>2. CASE q = p
    BY <2>1, <2>2 DEF Cause, Paging!TakesFreeFrame
  <2>3. CASE q # p
    <3>1. q # page_map[f].pte4
      BY <2>1, Numbers DEF Paging!FreeFrame, Paging!IsFree, Paging!Blank, Paging!Page
    <3> QED
      BY <1>2, <1>5, <2>1, <2>3, <3>1, BystanderStays
  <2> QED
    BY <2>2, <2>3
<1>6. ASSUME NEW f \in Paging!Frame, Paging!FaultClean(p, f) \/ Paging!FaultDirty(p, f),
             Relocates(p, f), ~Paging!IsFree(f),
             pm' = [pm EXCEPT ![f] = disk'[pte[p].daddr].content]
      PROVE  Cause(q)
  <2>1. /\ pm'[f] = disk'[pte[p].daddr].content
        /\ \A g \in Paging!Frame : g # f => pm'[g] = pm[g]
    BY <1>1, <1>6 DEF MapInv, Paging!TypeOK
  <2>2. CASE q = p
    BY <1>2, <1>3, <1>6, <2>1, <2>2, ArrivalIsSeen
  <2>3. CASE q # p /\ q = page_map[f].pte4
    BY <1>6, <2>3, DepartureIsSeen
  <2>4. CASE q # p /\ q # page_map[f].pte4
    BY <1>2, <1>6, <2>1, <2>4, BystanderStays
  <2> QED
    BY <2>2, <2>3, <2>4
<1> QED
  BY <1>1, <1>4, <1>5, <1>6, FaultShape

\* A translation changes what the program sees of a page for the stated causes only.
THEOREM PagesSurvive == Spec => PagesSurviveTranslation
<1>1. ASSUME Machinery, Next, walked = Paging!Nowhere, NEW q \in Page, Seen[q]' # Seen[q]
      PROVE  Cause(q)
  <2>1. q \in Paging!Page
    BY DEF Page
  <2>2. CASE Return
    <3>1. UNCHANGED <<lines, pm, pte, disk>>
      BY <2>2 DEF Return, pagingVars
    <3> QED
      BY <1>1, <3>1 DEF Seen, Paging!IsResident, Cache!Visible, Cache!ByteAt, Cache!Miss, Cache!Holds
  <2>3. ASSUME NEW p \in Paging!Page, NEW op, NEW w, Begin(p, op, w)
        PROVE  Cause(q)
    <3>1. Paging!va2pa(p) /\ UNCHANGED lines
      BY <2>3 DEF Begin, cacheVars
    <3>2. /\ running
          /\ \/ UNCHANGED <<pte, page_map, pm, disk, running>>
             \/ ~Paging!IsResident(p) /\ Paging!WalkFault(p)
      BY <1>1, <3>1, Translates DEF Machinery
    <3>3. CASE UNCHANGED <<pte, page_map, pm, disk, running>>
      BY <1>1, <3>1, <3>3
      DEF Seen, Paging!IsResident, Cache!Visible, Cache!ByteAt, Cache!Miss, Cache!Holds
    <3>4. CASE ~Paging!IsResident(p) /\ Paging!WalkFault(p)
      BY <1>1, <2>1, <3>1, <3>2, <3>4, FaultHasCause
    <3> QED
      BY <3>2, <3>3, <3>4
  <2>4. ~(Moves("read") \/ Moves("write") \/ Moves("fetch") \/ Moves("load"))
    BY <1>1 DEF Machinery, TaskInv, Moves
  <2> QED
    BY <1>1, <2>2, <2>3, <2>4, Steps
    DEF cpu_read64bits_dram, cpu_write64bits_dram, cpu_readinst_dram, cpu_writeinst_dram
<1>2. Machinery /\ [Next]_vars
        => [walked = Paging!Nowhere => \A p \in Page : Seen[p]' # Seen[p] => Cause(p)]_vars
  BY <1>1
<1> QED
  BY <1>2, MachineryInvariance, PTL DEF Spec, PagesSurviveTranslation, Cause

-----------------------------------------------------------------------------
(* Numbers: powers, digits, and what the bytes of a small word add up to *)

\* What is so at 0, and at n + 1 if it is so at n, is so of every number.
LEMMA Induction ==
    ASSUME NEW N \in Nat, NEW S, 0 \in S, \A n \in 0 .. N - 1 : n \in S => n + 1 \in S
    PROVE  \A n \in 0 .. N : n \in S
<1> SUFFICES ASSUME NEW n \in 0 .. N, n \notin S PROVE FALSE
  OBVIOUS
<1> DEFINE T == {k \in Nat : k <= N /\ k \notin S}
<1>1. n \in T
  OBVIOUS
<1>2. PICK k \in T : \A j \in T : ~ (<<j, k>> \in OpToRel(<, Nat))
  <2>1. T \subseteq Nat /\ T # {}
    BY <1>1
  <2> HIDE DEF T
  <2> QED
    BY <2>1, WFMin, NatLessThanWellFounded
<1>3. k # 0
  OBVIOUS
<1>4. k - 1 \in 0 .. N - 1 /\ (k - 1) + 1 = k
  BY <1>3
<1>5. k - 1 \notin S
  BY <1>4
<1>6. k - 1 \in T /\ k - 1 < k
  BY <1>4, <1>5
<1>7. <<k - 1, k>> \in OpToRel(<, Nat)
  BY <1>4, <1>6 DEF OpToRel
<1> QED
  BY <1>2, <1>6, <1>7

\* A power of BYTES, which the provers know by the recurrence only.
Power(i) == BYTES^i

\* The recurrence, by assumption.
LEMMA PowerStep ==
    /\ Power(0) = 1
    /\ \A i \in 0 .. WORD_BYTES - 1 : Power(i + 1) = BYTES * Power(i)
  BY PowerAssumption DEF Power

\* Powers are positive.
LEMMA PowerPositive == \A i \in 0 .. WORD_BYTES : Power(i) \in Nat \ {0}
<1> DEFINE S == {i \in Nat : Power(i) \in Nat \ {0}}
<1>1. 0 \in S
  BY PowerStep
<1>2. ASSUME NEW n \in 0 .. WORD_BYTES - 1, n \in S PROVE n + 1 \in S
  <2>1. ASSUME NEW P \in Nat \ {0} PROVE BYTES * P \in Nat \ {0}
    BY Numbers
  <2> QED
    BY <1>2, <2>1, PowerStep
<1>3. WORD_BYTES \in Nat
  BY Numbers
<1> HIDE DEF S
<1>4. \A i \in 0 .. WORD_BYTES : i \in S
  BY <1>1, <1>2, <1>3, Induction
<1> QED
  BY <1>4 DEF S

\* They grow.
LEMMA PowerGrows ==
    ASSUME NEW i \in 0 .. WORD_BYTES, NEW j \in 0 .. WORD_BYTES, i <= j
    PROVE  Power(i) <= Power(j)
<1> DEFINE S == {k \in Nat : i <= k => Power(i) <= Power(k)}
<1>0. WORD_BYTES \in Nat /\ i \in Nat
  BY Numbers
<1>1. 0 \in S
  BY <1>0, PowerPositive
<1>2. ASSUME NEW n \in 0 .. WORD_BYTES - 1, n \in S PROVE n + 1 \in S
  <2>1. ASSUME NEW P \in Nat \ {0} PROVE P <= BYTES * P
    BY Numbers
  <2>2. Power(n) <= Power(n + 1) /\ Power(n) \in Nat /\ Power(n + 1) \in Nat /\ Power(i) \in Nat
    BY <1>0, <2>1, PowerStep, PowerPositive
  <2> QED
    BY <1>0, <1>2, <2>2
<1> HIDE DEF S
<1>4. j \in S
  BY <1>0, <1>1, <1>2, Induction
<1> QED
  BY <1>4 DEF S

\* What quotient and remainder are.
LEMMA Division ==
    ASSUME NEW w \in Int, NEW D \in Nat \ {0}
    PROVE  /\ w \div D \in Int /\ w % D \in 0 .. D - 1
           /\ w % D = w - D * (w \div D)
<1>1. w \div D \in Int
  OBVIOUS
<1>2. w % D \in 0 .. D - 1
  OBVIOUS
<1>3. w % D = w - D * (w \div D)
  OBVIOUS
<1> QED
  BY <1>1, <1>2, <1>3

\* Quotient and remainder are unique.
LEMMA DivUnique ==
    ASSUME NEW D \in Nat \ {0}, NEW q \in Int, NEW r \in 0 .. D - 1
    PROVE  (D * q + r) % D = r /\ (D * q + r) \div D = q
<1> DEFINE w == D * q + r
<1>0. w \in Int
  OBVIOUS
<1>1. w \in Int /\ w \div D \in Int /\ w % D \in 0 .. D - 1 /\ w % D = w - D * (w \div D)
  <2> HIDE DEF w
  <2> QED
    BY <1>0, Division
<1> DEFINE a == w \div D
           b == w % D
<1>2. a \in Int /\ b \in 0 .. D - 1 /\ b = (D * q + r) - D * a
  BY <1>1
<1> HIDE DEF a, b, w
<1>3. a = q
  <2>1. D * (a - q) = r - b /\ -D < r - b /\ r - b < D
    BY <1>2
  <2>2. a - q < 1
    <3> SUFFICES ASSUME a - q >= 1 PROVE FALSE
      BY <1>2
    <3>1. D * (a - q) >= D
      BY <1>2
    <3> QED
      BY <1>2, <2>1, <3>1
  <2>3. a - q > -1
    <3> SUFFICES ASSUME a - q <= -1 PROVE FALSE
      BY <1>2
    <3>1. D * (a - q) <= -D
      BY <1>2
    <3> QED
      BY <1>2, <2>1, <3>1
  <2> QED
    BY <1>2, <2>2, <2>3
<1>4. b = r
  BY <1>2, <1>3
<1> QED
  BY <1>3, <1>4 DEF a, b, w

\* One more digit of a number.
LEMMA NextDigit ==
    ASSUME NEW w \in Nat, NEW B \in Nat \ {0}, NEW P \in Nat \ {0}
    PROVE  w % (B * P) = (w % P) + ((w \div P) % B) * P
<1> DEFINE q == w \div P
           r == w % P
           c == q \div B
           d == q % B
<1>1. r = w - P * q /\ q \in Int /\ r \in 0 .. P - 1
  OBVIOUS
<1>2. d = q - B * c /\ c \in Int /\ d \in 0 .. B - 1
  <2> HIDE DEF q
  <2> QED
    BY <1>1
<1> HIDE DEF q, r, c, d
<1>3. B * P \in Nat \ {0}
  OBVIOUS
<1>4. d * P + r \in 0 .. B * P - 1
  <2>1. d * P <= B * P - P /\ d * P >= 0 /\ d * P \in Int
    <3>1. ASSUME NEW x \in Int, NEW y \in Int, y > 0, NEW z \in 0 .. x - 1
          PROVE  z * y <= x * y - y /\ z * y >= 0
      BY <3>1
    <3> QED
      BY <1>2, <3>1
  <2> QED
    BY <1>1, <1>3, <2>1
<1>5. w = (B * P) * c + (d * P + r)
  <2>1. P * (B * c + d) = (B * P) * c + d * P
    BY <1>2
  <2> QED
    BY <1>1, <1>2, <2>1
<1>6. w % (B * P) = d * P + r
  BY <1>2, <1>3, <1>4, <1>5, DivUnique
<1> QED
  BY <1>1, <1>2, <1>6 DEF q, r, d

\* A word that is no negative int, and no larger than one.
SmallWord == 0 .. BYTES^INT_BYTES \div 2 - 1

\* What is read of it after m bytes.
SoFar(w, m) == IF m < INT_BYTES THEN w % BYTES^m ELSE w

\* The widths, among the indices of powers.
LEMMA Widths ==
    /\ INT_BYTES \in 1 .. WORD_BYTES /\ WORD_BYTES \in Nat /\ BYTES \in Nat /\ BYTES > 2
    /\ INT_BYTES \in 0 .. WORD_BYTES /\ WORD_BYTES \in 0 .. WORD_BYTES
  BY WidthAssumption

\* A small word leaves the top bit of the int alone, and fits into a word.
LEMMA SmallIsSmall ==
    ASSUME NEW w \in SmallWord
    PROVE  w \in Nat /\ 2 * w < Power(INT_BYTES) /\ w < Power(WORD_BYTES)
<1>1. Power(INT_BYTES) \in Nat /\ Power(WORD_BYTES) \in Nat /\ Power(INT_BYTES) <= Power(WORD_BYTES)
  BY Widths, PowerPositive, PowerGrows
<1>2. \A P \in Nat : \A x \in 0 .. P \div 2 - 1 : x \in Nat /\ 2 * x < P
  OBVIOUS
<1>3. w \in 0 .. Power(INT_BYTES) \div 2 - 1
  BY DEF SmallWord, Power
<1>4. w \in Nat /\ 2 * w < Power(INT_BYTES)
  BY <1>1, <1>2, <1>3
<1> QED
  BY <1>1, <1>4

\* The byte at the top of the int is no negative one.
LEMMA TopByte ==
    ASSUME NEW w \in SmallWord
    PROVE  2 * ByteOf(w, INT_BYTES - 1) < BYTES
<1> DEFINE o == INT_BYTES - 1
           P == Power(o)
           q == w \div P
<1>1. o \in 0 .. WORD_BYTES - 1 /\ o \in 0 .. WORD_BYTES /\ o + 1 = INT_BYTES
  BY Widths
<1>2. P \in Nat \ {0} /\ Power(INT_BYTES) = BYTES * P
  BY <1>1, PowerPositive, PowerStep
<1>3. w \in Nat /\ 2 * w < BYTES * P
  BY <1>2, SmallIsSmall
<1>4. q \in Nat /\ q * P <= w
  BY <1>2, <1>3
<1> HIDE DEF q, P
<1>5. 2 * q < BYTES
  <2> SUFFICES ASSUME BYTES <= 2 * q PROVE FALSE
    BY <1>4, Widths
  <2>1. ASSUME NEW x \in Int, NEW y \in Int, NEW z \in Int, z > 0, x <= y PROVE x * z <= y * z
    BY <2>1
  <2>2. BYTES * P <= (2 * q) * P
    BY <1>2, <1>4, <2>1, Widths
  <2>3. (2 * q) * P = 2 * (q * P)
    BY <1>2, <1>4
  <2> QED
    BY <1>2, <1>3, <1>4, <2>2, <2>3, Widths
<1>6. q % BYTES = q
  BY <1>4, <1>5, Widths
<1>7. ByteOf(w, o) = q % BYTES
  BY DEF ByteOf, Power, P, q
<1> QED
  BY <1>5, <1>6, <1>7

\* Each byte of the int adds its digit.
LEMMA FirstBytes ==
    ASSUME NEW w \in SmallWord, NEW o \in 0 .. WORD_BYTES - 1, o < INT_BYTES,
           NEW v \in Shifted(ByteOf(w, o), o)
    PROVE  (SoFar(w, o) + v) % BYTES^WORD_BYTES = SoFar(w, o + 1)
<1> DEFINE P == Power(o)
           b == ByteOf(w, o)
<1>1. o \in Nat /\ o \in 0 .. WORD_BYTES /\ o + 1 \in 0 .. WORD_BYTES /\ o + 1 <= INT_BYTES
  BY Widths
<1>2. P \in Nat \ {0} /\ Power(o + 1) = BYTES * P /\ BYTES \in Nat \ {0}
  BY <1>1, PowerPositive, PowerStep, Widths
<1>3. w \in Nat /\ w < Power(INT_BYTES) /\ w < Power(WORD_BYTES)
  BY SmallIsSmall, PowerPositive, Widths
<1>4. b = (w \div P) % BYTES /\ b \in Int
  BY <1>2, <1>3 DEF ByteOf, Power
<1>5. v = b * P
  <2>1. ~(o = INT_BYTES - 1 /\ 2 * b >= BYTES)
    BY <1>4, TopByte, Widths
  <2>2. v = b * P + 0
    BY <2>1 DEF Shifted, Promoted, Power
  <2>3. b * P \in Int
    BY <1>2, <1>4
  <2> HIDE DEF b, P
  <2> QED
    BY <2>2, <2>3
<1>6. w % Power(o + 1) = (w % P) + v
  BY <1>2, <1>3, <1>4, <1>5, NextDigit
<1>7. SoFar(w, o) = w % P
  BY DEF SoFar, Power
<1>8. SoFar(w, o + 1) = w % Power(o + 1)
  <2>1. CASE o + 1 < INT_BYTES
    BY <2>1 DEF SoFar, Power
  <2>2. CASE o + 1 = INT_BYTES
    <3>1. w % Power(INT_BYTES) = w
      BY <1>3, PowerPositive, Widths
    <3> QED
      BY <2>2, <3>1, Widths DEF SoFar
  <2> QED
    BY <1>1, <2>1, <2>2, Widths
<1>9. w % Power(o + 1) \in 0 .. Power(WORD_BYTES) - 1
  <2>1. Power(o + 1) \in Nat \ {0} /\ Power(o + 1) <= Power(WORD_BYTES) /\ Power(WORD_BYTES) \in Nat \ {0}
    BY <1>1, PowerPositive, PowerGrows, Widths
  <2> QED
    BY <1>3, <2>1
<1>10. (w % Power(o + 1)) % Power(WORD_BYTES) = w % Power(o + 1)
  BY <1>9, PowerPositive, Widths
<1> QED
  BY <1>6, <1>7, <1>8, <1>10 DEF Power

\* The bytes behind it are zeros, and add nothing, whatever a shift by so much does.
LEMMA LaterBytes ==
    ASSUME NEW w \in SmallWord, NEW o \in 0 .. WORD_BYTES - 1, o >= INT_BYTES,
           NEW v \in Shifted(ByteOf(w, o), o)
    PROVE  (SoFar(w, o) + v) % BYTES^WORD_BYTES = SoFar(w, o + 1)
<1> DEFINE P == Power(o)
<1>1. o \in Nat /\ o \in 0 .. WORD_BYTES
  BY Widths
<1>2. P \in Nat \ {0} /\ Power(INT_BYTES) <= P /\ Power(INT_BYTES) \in Nat /\ Power(WORD_BYTES) \in Nat \ {0}
  BY <1>1, PowerPositive, PowerGrows, Widths
<1>3. w \in Nat /\ w < P /\ w < Power(WORD_BYTES)
  BY <1>2, SmallIsSmall
<1>4. ByteOf(w, o) = 0
  <2>1. w \div P = 0
    BY <1>2, <1>3
  <2>2. 0 % BYTES = 0
    BY Widths
  <2> QED
    BY <2>1, <2>2 DEF ByteOf, Power
<1>5. \A i : Power(i) \in Int => Promoted(0, i) = 0
  BY Widths DEF Promoted, Power
<1>6. o % INT_BYTES \in 0 .. WORD_BYTES
  BY <1>1, Widths
<1>7. v = 0
  BY <1>1, <1>4, <1>5, <1>6, PowerPositive, Widths DEF Shifted
<1>8. SoFar(w, o) = w /\ SoFar(w, o + 1) = w
  BY <1>1, Widths DEF SoFar
<1>9. w % Power(WORD_BYTES) = w
  BY <1>2, <1>3
<1> QED
  BY <1>3, <1>7, <1>8, <1>9 DEF Power

\* So does every byte.
LEMMA EachByte ==
    ASSUME NEW w \in SmallWord, NEW o \in 0 .. WORD_BYTES - 1, NEW v \in Shifted(ByteOf(w, o), o)
    PROVE  (SoFar(w, o) + v) % BYTES^WORD_BYTES = SoFar(w, o + 1)
  BY FirstBytes, LaterBytes, Widths

-----------------------------------------------------------------------------
(* Loads *)

\* The word at hand is a word, a load starts with 0, and once it has read a byte its
\* line is in the cache, and its word what has been read of any small word that the
\* line agrees with so far.
Loading ==
    /\ task.word \in Words
    /\ task.op = "read" /\ task.moved = 0 => task.word = 0
    /\ task.op = "read" /\ task.moved > 0 =>
        /\ Cached(walked.ppn)
        /\ \A w \in SmallWord :
            (\A o \in 0 .. task.moved - 1 : Cache!Visible[walked.ppn][o] = ByteOf(w, o))
                => task.word = SoFar(w, task.moved)

\* Words are not empty, and a sum wraps around to one.
LEMMA WordsWrap == 0 \in Words /\ \A x \in Int : x % BYTES^WORD_BYTES \in Words
<1>1. Power(WORD_BYTES) \in Nat \ {0}
  BY PowerPositive, Widths
<1>2. 0 \in 0 .. Power(WORD_BYTES) - 1 /\ \A x \in Int : x % Power(WORD_BYTES) \in 0 .. Power(WORD_BYTES) - 1
  BY <1>1
<1> QED
  BY <1>2 DEF Words, Power

\* What a byte adds is a number.
LEMMA ShiftedIsInt ==
    ASSUME NEW b \in Cache!Byte, NEW o \in Cache!Offset, NEW v \in Shifted(b, o)
    PROVE  v \in Int
<1>1. b \in Int /\ o \in 0 .. WORD_BYTES /\ o % INT_BYTES \in 0 .. WORD_BYTES
  BY Widths DEF Cache!Byte, Cache!Offset
<1>2. ASSUME NEW i \in 0 .. WORD_BYTES PROVE Promoted(b, i) \in Int
  <2>1. Power(i) \in Int /\ Power(WORD_BYTES) \in Int /\ Power(INT_BYTES) \in Int
    BY PowerPositive, Widths
  <2>2. b * Power(i) \in Int /\ Power(WORD_BYTES) - Power(INT_BYTES) \in Int
    BY <1>1, <2>1
  <2> QED
    BY <2>2 DEF Promoted, Power
<1> QED
  BY <1>1, <1>2 DEF Shifted

\* A read leaves its frame in the cache, and delivers the byte that is seen there.
LEMMA ReadDelivers ==
    ASSUME CacheInv, NEW t \in Cache!Tag, NEW o \in Cache!Offset, Cache!sram_cache_read(t, o)
    PROVE  /\ CacheInv' /\ Cached(t)' /\ delivered' = Cache!Visible'[t][o]
           /\ Cached(t) => Cache!Visible' = Cache!Visible
<1>1. PICK i \in Cache!LineIndex : Access(t, i) /\ ReadEffect(t, o, i)
  BY ReadAccess
<1>2. CacheInv'
  BY <1>1, AccessKeepsInv
<1>3. Cache!Holds(i, t)'
  BY <1>1 DEF Access, ReadEffect, Cache!Holds
<1>4. Cached(t)'
  BY <1>3 DEF Cached, Cache!Miss
<1>5. \E k \in Cache!LineIndex : Cache!Holds(k, t)' /\ delivered' = lines'[k].block[o]
  <2>0. Cache!Aged \in [Cache!LineIndex -> Cache!sram_cacheline_t] /\ Cache!MayAge
    BY AgedShape DEF CacheInv, Cache!sram_cache_read
  <2>1. CASE Cache!ReadHit(t, o)
    <3>1. PICK k \in Cache!LineIndex : Cache!Hit(k, t) /\ delivered' = lines[k].block[o]
      BY <2>1 DEF Cache!ReadHit, Cache!Hit
    <3>2. lines'[k].state = lines[k].state /\ lines'[k].tag = lines[k].tag /\ lines'[k].block = lines[k].block
      BY <2>0, <2>1, AgedShape DEF Cache!ReadHit, CacheInv
    <3> QED
      BY <3>1, <3>2 DEF Cache!Hit, Cache!Holds
  <2>2. CASE Cache!ReadFill(t, o)
    <3>1. PICK k \in Cache!LineIndex : lines' = [Cache!Aged EXCEPT ![k] = Cache!Loaded(t, pm[t])]
      BY <2>2 DEF Cache!ReadFill, Cache!Free
    <3>2. lines'[k] = Cache!Loaded(t, pm[t]) /\ delivered' = pm[t][o]
      BY <2>0, <2>2, <3>1 DEF Cache!ReadFill
    <3> QED
      BY <3>2 DEF Cache!Loaded, Cache!Holds
  <2>3. CASE Cache!ReadReplace(t, o)
    <3>1. PICK k \in Cache!LineIndex : lines' = [Cache!Aged EXCEPT ![k] = Cache!Loaded(t, pm'[t])]
      BY <2>3 DEF Cache!ReadReplace, Cache!Victim
    <3>2. lines'[k] = Cache!Loaded(t, pm'[t]) /\ delivered' = pm'[t][o]
      BY <2>0, <2>3, <3>1 DEF Cache!ReadReplace
    <3> QED
      BY <3>2 DEF Cache!Loaded, Cache!Holds
  <2> QED
    BY <2>1, <2>2, <2>3 DEF Cache!sram_cache_read
<1>6. delivered' = Cache!Visible'[t][o]
  <2>1. delivered' = Cache!ByteAt(t, o)'
    BY <1>2, <1>5, HeldByteNext DEF CacheInv
  <2> QED
    BY <2>1 DEF Cache!Visible
<1>7. Cached(t) => Cache!Visible' = Cache!Visible
  BY <1>1, ReadKeepsVisible DEF Cached
<1> QED
  BY <1>2, <1>4, <1>6, <1>7

\* So a load goes on with the next byte of what it reads.
LEMMA ReadLoads == Machinery /\ Loading /\ cpu_read64bits_dram => Loading'
<1> SUFFICES ASSUME Machinery, Loading, cpu_read64bits_dram PROVE Loading'
  OBVIOUS
<1> DEFINE t == walked.ppn
           o == task.moved
<1>1. Moves("read") /\ Cache!sram_cache_read(t, o) /\ walked' = walked
  BY DEF cpu_read64bits_dram
<1>2. t \in Cache!Tag /\ o \in Cache!Offset /\ task.op = "read" /\ CacheInv
  BY <1>1, Underway DEF Machinery
<1>3. PICK v \in Shifted(delivered', o) :
        task' = [task EXCEPT !.moved = @ + 1, !.word = (@ + v) % BYTES^WORD_BYTES]
  BY DEF cpu_read64bits_dram
<1>4. /\ task'.op = "read" /\ task'.moved = o + 1
      /\ task'.word = (task.word + v) % BYTES^WORD_BYTES
  BY <1>2, <1>3 DEF Machinery, TaskInv
<1>5. /\ CacheInv' /\ Cached(t)' /\ delivered' = Cache!Visible'[t][o]
      /\ Cached(t) => Cache!Visible' = Cache!Visible
  BY <1>1, <1>2, ReadDelivers
<1>6. task'.word \in Words
  <2>1. delivered' \in Cache!Byte
    BY <1>5 DEF CacheInv, Cache!TypeOK
  <2>2. v \in Int /\ task.word \in Int
    BY <1>2, <2>1, ShiftedIsInt, WordsAreInts DEF Loading
  <2>3. task.word + v \in Int
    BY <2>2
  <2> QED
    BY <1>4, <2>3, WordsWrap
<1>7. o \in Nat /\ o \in 0 .. WORD_BYTES - 1 /\ 0 .. task'.moved - 1 = 0 .. o
  BY <1>2, <1>4, Numbers DEF Cache!Offset
<1>8. ASSUME NEW w \in SmallWord, \A k \in 0 .. o : Cache!Visible'[t][k] = ByteOf(w, k)
      PROVE  task'.word = SoFar(w, task'.moved)
  <2>1. delivered' = ByteOf(w, o)
    BY <1>5, <1>7, <1>8
  <2>2. task.word = SoFar(w, o)
    <3>1. CASE o = 0
      <4>1. w \in Nat /\ w % 1 = 0
        BY SmallIsSmall
      <4>2. SoFar(w, 0) = w % Power(0)
        BY Widths DEF SoFar, Power
      <4> QED
        BY <1>2, <3>1, <4>1, <4>2, PowerStep DEF Loading
    <3>2. CASE o > 0
      <4>1. Cached(t)
        BY <1>2, <3>2 DEF Loading
      <4>2. \A k \in 0 .. o - 1 : k \in 0 .. o
        BY <1>7
      <4>3. \A k \in 0 .. o - 1 : Cache!Visible[t][k] = ByteOf(w, k)
        BY <1>5, <1>8, <4>1, <4>2
      <4> QED
        BY <1>2, <3>2, <4>3 DEF Loading
    <3> QED
      BY <1>7, <3>1, <3>2
  <2>3. v \in Shifted(ByteOf(w, o), o)
    BY <2>1, <1>3
  <2> QED
    BY <1>4, <1>7, <2>2, <2>3, EachByte
<1>9. Cached(walked.ppn)' /\ walked'.ppn = t
  BY <1>1, <1>5 DEF Cached, Cache!Miss, Cache!Holds
<1> HIDE DEF t, o
<1> QED
  BY <1>4, <1>6, <1>7, <1>8, <1>9 DEF Loading, Words, SmallWord, ByteOf, SoFar

\* Every other step has no load under way after it, or one that starts.
LEMMA OthersLoad == Machinery /\ Loading /\ Next /\ ~cpu_read64bits_dram => Loading'
<1> SUFFICES ASSUME Machinery, Loading, Next, ~cpu_read64bits_dram PROVE Loading'
  OBVIOUS
<1>1. ASSUME NEW p, NEW op, NEW w, Begin(p, op, w), w \in Words, op = "read" => w = 0
      PROVE  Loading'
  <2>1. task' = [op |-> op, moved |-> 0, word |-> w]
    BY <1>1 DEF Begin
  <2> QED
    BY <1>1, <2>1 DEF Loading, Words
<1>2. ASSUME NEW op \in {"write", "fetch", "load"}, Moves(op), task' = [task EXCEPT !.moved = @ + 1]
      PROVE  Loading'
  <2>1. task'.op = op /\ task'.word = task.word
    BY <1>2 DEF Moves, Machinery, TaskInv
  <2> QED
    BY <2>1 DEF Loading, Words
<1>3. CASE Return
  <2>1. task' = Idle
    BY <1>3 DEF Return
  <2> QED
    BY <2>1, WordsWrap DEF Loading, Idle, Words
<1>4. 0 \in Words /\ Stores \subseteq Words /\ Texts \subseteq Words
  BY WordsWrap, ImageAssumption
<1>5. CASE \E p \in Page : Begin(p, "read", 0) \/ \E w \in Stores : Begin(p, "write", w)
  BY <1>1, <1>4, <1>5
<1>6. CASE \E p \in TextPages : Begin(p, "fetch", 0) \/ \E w \in Texts : Begin(p, "load", w)
  BY <1>1, <1>4, <1>6
<1>7. CASE cpu_write64bits_dram
  BY <1>2, <1>7 DEF cpu_write64bits_dram
<1>8. CASE cpu_readinst_dram
  BY <1>2, <1>8 DEF cpu_readinst_dram
<1>9. CASE cpu_writeinst_dram
  BY <1>2, <1>9 DEF cpu_writeinst_dram
<1> QED
  BY <1>3, <1>5, <1>6, <1>7, <1>8, <1>9 DEF Next

\* What is being loaded is what has been read of the line.
LEMMA LoadingInvariance == Spec => []Loading
<1>1. Init => Loading
  BY WordsWrap DEF Init, Idle, Loading
<1>2. Machinery /\ Loading /\ [Next]_vars => Loading'
  <2>1. ASSUME Loading, UNCHANGED vars PROVE Loading'
    BY <2>1 DEF vars, Loading, Cached, Cache!Visible, Cache!ByteAt, Cache!Miss, Cache!Holds,
                Words, SmallWord, ByteOf, SoFar
  <2> QED
    BY <2>1, ReadLoads, OthersLoad
<1> QED
  BY <1>1, <1>2, MachineryInvariance, PTL DEF Spec

\* A load whose line holds a small word delivers it, for any width of a byte, an int and
\* a word, and although nobody knows what a compiler makes of the shifts behind the int.
THEOREM SmallWordsArrive == Spec => []SmallWordsAreLoaded
<1>1. ASSUME Machinery, Loading, Done("read"), NEW w \in SmallWord,
             Cache!Visible[walked.ppn] = Bytes(w)
      PROVE  task.word = w
  <2>1. task.op = "read" /\ task.moved = WORD_BYTES
    BY <1>1 DEF Done
  <2>2. \A o \in 0 .. task.moved - 1 : Cache!Visible[walked.ppn][o] = ByteOf(w, o)
    BY <1>1, <2>1 DEF Bytes
  <2>3. task.word = SoFar(w, WORD_BYTES)
    BY <1>1, <2>1, <2>2, Widths DEF Loading
  <2> QED
    BY <2>3, Widths DEF SoFar
<1>2. Machinery /\ Loading => SmallWordsAreLoaded
  BY <1>1 DEF SmallWordsAreLoaded, SmallWord
<1> QED
  BY <1>2, MachineryInvariance, LoadingInvariance, PTL

\* Cache, paging and the access under way keep their types.
THEOREM MachineTypeCorrect == Spec => []TypeOK
<1>1. Machinery /\ Loading => TypeOK
  BY DEF Machinery, CacheInv, MapInv, TaskInv, Loading, TypeOK
<1> QED
  BY <1>1, MachineryInvariance, LoadingInvariance, PTL
=============================================================================
