---------------------------- MODULE MESIProofs ----------------------------
(***************************************************************************)
(* Proofs about the MESI simulator, for every number of cores and every    *)
(* set of values.  The states of the lines are kept legal by two facts:    *)
(* a MODIFIED or EXCLUSIVE holder is alone, and a SHARED copy never is.    *)
(***************************************************************************)
EXTENDS MESI, FiniteSetTheorems, TLAPS

\* A core in state MODIFIED or EXCLUSIVE has the only copy.
Exclusion ==
    \A i, j \in Core :
        i # j /\ cache[i].state \in {"MODIFIED", "EXCLUSIVE"} => cache[j].state = "INVALID"

\* A SHARED copy has a companion: the last sharer is promoted.
NoLoneSharer ==
    \A i \in Core : cache[i].state = "SHARED" =>
        \E j \in Core \ {i} : cache[j].state = "SHARED"

\* Inductive invariant: the types, the two facts about states that the scan for
\* a supplier relies on (any valid copy decides the state of all), and the
\* agreement of the copies it hands on.
IInv == TypeOK /\ Exclusion /\ NoLoneSharer /\ ValuesAgree

-----------------------------------------------------------------------------
\* The initial state: all lines INVALID.
LEMMA InitInv == Init => IInv
  BY ValuesAssumption
  DEF Init, IInv, TypeOK, Exclusion, NoLoneSharer, ValuesAgree, Valid, Invalidated, Line, State

\* A read keeps the inductive invariant: a miss makes supplier and reader
\* sharers of one value, or the reader the only holder.
LEMMA ReadInv == ASSUME IInv, NEW i \in Core, Read(i) PROVE IInv'
<1> USE DEF IInv, TypeOK, State
<1>1. CASE ReadHit(i)
  BY <1>1 DEF ReadHit, Exclusion, NoLoneSharer, ValuesAgree, Valid
<1>2. CASE ReadMissCached(i)
  <2>1. PICK j \in Core :
          /\ Supplier(i, j)
          /\ WriteBackFrom(j)
          /\ cache' = [cache EXCEPT ![j].state = "SHARED", ![i] = Line("SHARED", cache[j].value)]
          /\ read_value' = cache[j].value
    BY <1>2 DEF ReadMissCached
  <2>2. j # i /\ cache[i].state = "INVALID" /\ Valid(j)
    BY <1>2, <2>1 DEF ReadMissCached, Supplier, Valid
  <2>3. TypeOK'
    BY <2>1 DEF Line, WriteBackFrom
  <2>4. /\ cache'[i] = [state |-> "SHARED", value |-> cache[j].value]
        /\ cache'[j] = [state |-> "SHARED", value |-> cache[j].value]
        /\ \A k \in Core \ {i, j} : cache'[k] = cache[k]
    BY <2>1, <2>2 DEF Line
  <2>5. \A k \in Core \ {i, j} : cache[k].state \in {"SHARED", "INVALID"}
    BY <2>2 DEF Exclusion, Valid
  <2>6. Exclusion'
    BY <2>4, <2>5 DEF Exclusion
  <2>7. NoLoneSharer'
    BY <2>2, <2>4 DEF NoLoneSharer
  <2>8. \A k \in Core : Valid(k)' => cache'[k].value = cache[j].value
    BY <2>2, <2>4 DEF ValuesAgree, Valid
  <2> QED
    BY <2>3, <2>6, <2>7, <2>8 DEF ValuesAgree
<1>3. CASE ReadMissMemory(i)
  <2>1. /\ cache'[i] = [state |-> "EXCLUSIVE", value |-> mem_value]
        /\ \A k \in Core \ {i} : cache'[k] = cache[k] /\ cache[k].state = "INVALID"
    BY <1>3 DEF ReadMissMemory, NoSupplier, Valid, Line
  <2>2. TypeOK'
    BY <1>3 DEF ReadMissMemory, Line
  <2> QED
    BY <2>1, <2>2 DEF Exclusion, NoLoneSharer, ValuesAgree, Valid
<1> QED
  BY <1>1, <1>2, <1>3 DEF Read

\* A line that is the only copy satisfies the invariant, whatever its value.
LEMMA OneHolder ==
    ASSUME TypeOK', NEW i \in Core, cache'[i].state \in {"MODIFIED", "EXCLUSIVE"},
           \A k \in Core \ {i} : cache'[k].state = "INVALID"
    PROVE  IInv'
  BY DEF IInv, TypeOK, State, Exclusion, NoLoneSharer, ValuesAgree, Valid

\* A write keeps the inductive invariant: the writer ends as the only holder.
LEMMA WriteInv == ASSUME IInv, NEW i \in Core, NEW v \in Values, Write(i, v) PROVE IInv'
<1> USE DEF IInv, TypeOK, State
<1>1. CASE WriteModified(i, v) \/ WriteExclusive(i, v)
  <2>1. /\ cache'[i].state = cache[i].state
        /\ cache[i].state \in {"MODIFIED", "EXCLUSIVE"}
        /\ \A k \in Core \ {i} : cache'[k] = cache[k]
    BY <1>1 DEF WriteModified, WriteExclusive
  <2>2. TypeOK'
    BY <1>1 DEF WriteModified, WriteExclusive
  <2> QED
    BY <2>1, <2>2, OneHolder DEF Exclusion
<1>2. CASE WriteShared(i, v)
  <2>1. TypeOK'
    BY <1>2, ValuesAssumption DEF WriteShared, OnlyCopy, Line, Invalidated
  <2> QED
    BY <1>2, <2>1, OneHolder DEF WriteShared, OnlyCopy, Line, Invalidated
<1>3. CASE WriteMissCached(i, v)
  <2>1. PICK j \in Core :
          /\ Supplier(i, j)
          /\ WriteBackFrom(j)
          /\ cache' = IF cache[j].state = "SHARED"
                      THEN OnlyCopy(i, v)
                      ELSE [cache EXCEPT ![j] = Invalidated, ![i] = Line("MODIFIED", v)]
    BY <1>3 DEF WriteMissCached
  <2>2. i # j /\ Valid(j)
    BY <2>1 DEF Supplier
  <2>3. TypeOK'
    BY <1>3, <2>1, ValuesAssumption
    DEF WriteMissCached, WriteBackFrom, OnlyCopy, Line, Invalidated
  <2>4. CASE cache[j].state = "SHARED"
    BY <2>1, <2>3, <2>4, OneHolder DEF OnlyCopy, Line, Invalidated
  <2>5. CASE cache[j].state # "SHARED"
    <3>1. cache' = [cache EXCEPT ![j] = Invalidated, ![i] = Line("MODIFIED", v)]
      BY <2>1, <2>5
    <3>2. \A k \in Core \ {i, j} : cache[k].state = "INVALID"
      BY <2>2, <2>5 DEF Exclusion, Valid
    <3>3. cache'[i].state = "MODIFIED" /\ \A k \in Core \ {i} : cache'[k].state = "INVALID"
      BY <2>2, <3>1, <3>2 DEF Line, Invalidated
    <3> QED
      BY <2>3, <3>3, OneHolder
  <2> QED
    BY <2>4, <2>5
<1>4. CASE WriteMissMemory(i, v)
  <2>1. TypeOK'
    BY <1>4 DEF WriteMissMemory, Line
  <2> QED
    BY <1>4, <2>1, OneHolder DEF WriteMissMemory, NoSupplier, Valid, Line
<1> QED
  BY <1>1, <1>2, <1>3, <1>4 DEF Write

\* An eviction keeps the inductive invariant: the last sharer is promoted, and
\* of a single holder nothing is left.
LEMMA EvictInv == ASSUME IInv, NEW i \in Core, Evict(i) PROVE IInv'
<1> USE DEF IInv, TypeOK, State
<1>1. CASE EvictModified(i) \/ EvictExclusive(i)
  <2>1. TypeOK'
    BY <1>1, ValuesAssumption DEF EvictModified, EvictExclusive, Invalidated, Line
  <2>2. \A k \in Core : cache'[k].state = "INVALID"
    BY <1>1 DEF EvictModified, EvictExclusive, Invalidated, Line, Exclusion
  <2> QED
    BY <2>1, <2>2 DEF Exclusion, NoLoneSharer, ValuesAgree, Valid
<1>2. CASE EvictShared(i)
  <2> DEFINE left == {j \in Core \ {i} : cache[j].state = "SHARED"}
  <2>1. cache' = [j \in Core |->
                    IF j = i THEN Invalidated
                    ELSE IF left = {j} THEN Line("EXCLUSIVE", cache[j].value)
                    ELSE cache[j]]
    BY <1>2 DEF EvictShared
  <2>2. \A k \in Core : cache[k].state \in {"SHARED", "INVALID"}
    BY <1>2 DEF EvictShared, Exclusion
  <2>3. TypeOK'
    BY <1>2, <2>1, ValuesAssumption DEF EvictShared, Invalidated, Line
  <2>4. PICK j \in left : TRUE
    BY <1>2 DEF EvictShared, NoLoneSharer
  <2>5. CASE left = {j}
    <3>1. cache'[j].state = "EXCLUSIVE" /\ \A k \in Core \ {j} : cache'[k].state = "INVALID"
      BY <2>1, <2>2, <2>4, <2>5 DEF Invalidated, Line
    <3> QED
      BY <2>3, <2>4, <3>1, OneHolder
  <2>6. CASE left # {j}
    <3>1. PICK l \in left : l # j
      BY <2>4, <2>6
    <3>2. \A k \in Core \ {i} : cache'[k] = cache[k]
      BY <2>1, <2>4, <3>1
    <3>3. cache'[i].state = "INVALID"
      BY <2>1 DEF Invalidated, Line
    <3>4. Exclusion'
      BY <2>2, <3>2, <3>3 DEF Exclusion
    <3>5. NoLoneSharer'
      BY <2>4, <3>1, <3>2, <3>3 DEF NoLoneSharer
    <3>6. ValuesAgree'
      BY <3>2, <3>3 DEF ValuesAgree, Valid
    <3> QED
      BY <2>3, <3>4, <3>5, <3>6
  <2> QED
    BY <2>5, <2>6
<1>3. CASE EvictInvalid(i)
  BY <1>3 DEF EvictInvalid, vars, Exclusion, NoLoneSharer, ValuesAgree, Valid
<1> QED
  BY <1>1, <1>2, <1>3 DEF Evict

\* The inductive invariant holds in every state.
THEOREM Invariance == Spec => []IInv
<1>1. IInv /\ [Next]_vars => IInv'
  <2> SUFFICES ASSUME IInv, [Next]_vars PROVE IInv'
    OBVIOUS
  <2>1. CASE UNCHANGED vars
    BY <2>1 DEF vars, IInv, TypeOK, Exclusion, NoLoneSharer, ValuesAgree, Valid
  <2>2. CASE Next
    BY <2>2, ReadInv, WriteInv, EvictInv DEF Next
  <2> QED
    BY <2>1, <2>2
<1> QED
  BY InitInv, <1>1, PTL DEF Spec

\* Lines and memory hold values and legal states, read_value a value.
THEOREM TypeCorrect == Spec => []TypeOK
  BY Invariance, PTL DEF IInv

\* All valid copies agree, for every number of cores.
THEOREM CopiesAgree == Spec => []ValuesAgree
  BY Invariance, PTL DEF IInv

-----------------------------------------------------------------------------
(* The counts main() tests *)

\* The cores are a finite set of NUM_PROCESSOR elements.
LEMMA CoreCount == IsFiniteSet(Core) /\ Cardinality(Core) = NUM_PROCESSOR
<1>1. 0 \in Int /\ NUM_PROCESSOR - 1 \in Int /\ NUM_PROCESSOR \in Int /\ NUM_PROCESSOR > 0
  BY ProcessorAssumption
<1> QED
  BY <1>1, FS_Interval DEF Core

\* A single holder in state s: one line in s, all others INVALID.
LEMMA OneHolderCounts ==
    ASSUME NEW s \in {"MODIFIED", "EXCLUSIVE"}, NEW c \in Core, cache[c].state = s,
           \A k \in Core \ {c} : cache[k].state = "INVALID"
    PROVE  Count(s) = 1 /\ Count("INVALID") = NUM_PROCESSOR - 1
<1>1. {i \in Core : cache[i].state = s} = {c}
  OBVIOUS
<1>2. {i \in Core : cache[i].state = "INVALID"} = Core \ {c}
  OBVIOUS
<1>3. Cardinality({c}) = 1
  BY FS_Singleton
<1>4. Cardinality(Core \ {c}) = NUM_PROCESSOR - 1
  BY CoreCount, FS_RemoveElement
<1> QED
  BY <1>1, <1>2, <1>3, <1>4 DEF Count

\* Sharers only: at least two of them, all other lines INVALID.
LEMMA SharerCounts ==
    ASSUME NEW a \in Core, NEW b \in Core, a # b,
           cache[a].state = "SHARED", cache[b].state = "SHARED",
           \A k \in Core : cache[k].state \in {"SHARED", "INVALID"}
    PROVE  Count("SHARED") >= 2 /\ Count("INVALID") = NUM_PROCESSOR - Count("SHARED")
<1> DEFINE Sh == {i \in Core : cache[i].state = "SHARED"}
<1>1. IsFiniteSet(Sh) /\ Cardinality(Sh) \in Nat
  BY CoreCount, FS_Subset, FS_CardinalityType
<1>2. Cardinality({a, b}) = 2
  <2>1. IsFiniteSet({a}) /\ Cardinality({a}) = 1
    BY FS_Singleton
  <2>2. Cardinality({a} \cup {b}) = IF b \in {a} THEN Cardinality({a}) ELSE Cardinality({a}) + 1
    BY <2>1, FS_AddElement, Zenon
  <2>3. {a} \cup {b} = {a, b} /\ b \notin {a}
    OBVIOUS
  <2> QED
    BY <2>1, <2>2, <2>3
<1>3. Cardinality(Sh) >= 2
  <2>1. {a, b} \in SUBSET Sh
    OBVIOUS
  <2>2. Cardinality({a, b}) <= Cardinality(Sh)
    BY <1>1, <2>1, FS_Subset
  <2> QED
    BY <1>1, <1>2, <2>2
<1>4. {i \in Core : cache[i].state = "INVALID"} = Core \ Sh
  OBVIOUS
<1>5. Cardinality(Core \ Sh) = NUM_PROCESSOR - Cardinality(Sh)
  <2>1. Core \cap Sh = Sh
    OBVIOUS
  <2> HIDE DEF Sh
  <2>2. Cardinality(Core \ Sh) = Cardinality(Core) - Cardinality(Core \cap Sh)
    BY CoreCount, FS_Difference, Zenon
  <2> QED
    BY <2>1, <2>2, CoreCount
<1> QED
  BY <1>3, <1>4, <1>5 DEF Count

\* The inductive invariant gives the table of check_state.
LEMMA InvGivesCheck == IInv => CheckState
<1> SUFFICES ASSUME IInv PROVE check_state
  BY DEF CheckState
<1>1. CASE \E c \in Core : cache[c].state \in {"MODIFIED", "EXCLUSIVE"}
  <2>1. PICK c \in Core : cache[c].state \in {"MODIFIED", "EXCLUSIVE"}
    BY <1>1
  <2>2. \A k \in Core \ {c} : cache[k].state = "INVALID"
    BY <2>1 DEF IInv, Exclusion
  <2>3. Count(cache[c].state) = 1 /\ Count("INVALID") = NUM_PROCESSOR - 1
    BY <2>1, <2>2, OneHolderCounts
  <2> QED
    BY <2>1, <2>3 DEF check_state
<1>2. CASE \A c \in Core : cache[c].state \in {"SHARED", "INVALID"}
  <2>1. CASE \E c \in Core : cache[c].state = "SHARED"
    <3>1. PICK a \in Core, b \in Core :
            a # b /\ cache[a].state = "SHARED" /\ cache[b].state = "SHARED"
      BY <2>1 DEF IInv, NoLoneSharer
    <3> QED
      BY <1>2, <3>1, SharerCounts DEF check_state
  <2>2. CASE \A c \in Core : cache[c].state = "INVALID"
    <3>1. {c \in Core : cache[c].state = "INVALID"} = Core
      BY <2>2
    <3> QED
      BY <3>1, CoreCount DEF check_state, Count
  <2> QED
    BY <1>2, <2>1, <2>2
<1> QED
  BY <1>1, <1>2 DEF IInv, TypeOK, State

\* main() never finds an illegal combination of states, whatever the number of
\* cores: its exit on a failed check is never taken.
THEOREM CheckNeverFails == Spec => []CheckState
  BY Invariance, InvGivesCheck, PTL

-----------------------------------------------------------------------------
(* What the cores see *)

\* The visible value is the value of every valid copy, and memory's if there is
\* none.
LEMMA VisibleNow ==
    ASSUME IInv
    PROVE  /\ \A i \in Core : Valid(i) => Visible = cache[i].value
           /\ (\A i \in Core : ~Valid(i)) => Visible = mem_value
  BY DEF IInv, ValuesAgree, Visible

\* The same of the next state.
LEMMA VisibleNext ==
    ASSUME IInv'
    PROVE  /\ \A i \in Core : Valid(i)' => Visible' = cache'[i].value
           /\ (\A i \in Core : ~Valid(i)') => Visible' = mem_value'
  BY DEF IInv, ValuesAgree, Visible, Valid

\* A read delivers the visible value and leaves it visible.
LEMMA ReadVisible == ASSUME IInv, NEW i \in Core, Read(i) PROVE Cell!Read
<1> USE DEF Cell!Read, Cell!MayWriteBack, Valid
<1>1. IInv'
  BY ReadInv
<1>2. CASE ReadHit(i)
  <2>1. cache' = cache /\ mem_value' = mem_value /\ read_value' = cache[i].value
    BY <1>2 DEF ReadHit
  <2> QED
    BY <1>1, <1>2, <2>1, VisibleNow, VisibleNext DEF ReadHit
<1>3. CASE ReadMissCached(i)
  <2>1. PICK j \in Core :
          /\ Supplier(i, j)
          /\ WriteBackFrom(j)
          /\ cache' = [cache EXCEPT ![j].state = "SHARED", ![i] = Line("SHARED", cache[j].value)]
          /\ read_value' = cache[j].value
    BY <1>3 DEF ReadMissCached
  <2>2. Visible = cache[j].value
    BY <2>1, VisibleNow DEF Supplier
  <2>3. cache'[i] = [state |-> "SHARED", value |-> cache[j].value]
    BY <2>1 DEF Supplier, Line, IInv, TypeOK
  <2>4. Visible' = cache[j].value
    BY <1>1, <2>3, VisibleNext
  <2>5. mem_value' \in {mem_value, cache[j].value}
    BY <2>1 DEF WriteBackFrom
  <2> QED
    BY <2>1, <2>2, <2>4, <2>5
<1>4. CASE ReadMissMemory(i)
  <2>1. Visible = mem_value
    BY <1>4, VisibleNow DEF ReadMissMemory, NoSupplier
  <2>2. cache'[i] = [state |-> "EXCLUSIVE", value |-> mem_value]
    BY <1>4 DEF ReadMissMemory, Line, IInv, TypeOK
  <2>3. Visible' = mem_value
    BY <1>1, <2>2, VisibleNext
  <2> QED
    BY <1>4, <2>1, <2>3 DEF ReadMissMemory
<1> QED
  BY <1>2, <1>3, <1>4 DEF Read

\* A write makes its value the visible one; if it takes the line from another
\* core, memory receives at most the value that was visible.
LEMMA WriteVisible ==
    ASSUME IInv, NEW i \in Core, NEW v \in Values, Write(i, v) PROVE Cell!Write(v)
<1> USE DEF Cell!Write, Cell!MayWriteBack
<1>1. IInv'
  BY WriteInv
<1>2. cache'[i].value = v /\ cache'[i].state # "INVALID"
  BY DEF Write, WriteModified, WriteExclusive, WriteShared, WriteMissCached,
         WriteMissMemory, OnlyCopy, Supplier, Valid, Line, Invalidated, IInv, TypeOK
<1>3. Visible' = v
  BY <1>1, <1>2, VisibleNext DEF Valid
<1>4. read_value' = read_value
  BY DEF Write, WriteModified, WriteExclusive, WriteShared, WriteMissCached, WriteMissMemory
<1>5. mem_value' \in {mem_value, Visible}
  <2>1. CASE WriteMissCached(i, v)
    <3>1. PICK j \in Core : Supplier(i, j) /\ WriteBackFrom(j)
      BY <2>1 DEF WriteMissCached
    <3>2. Visible = cache[j].value
      BY <3>1, VisibleNow DEF Supplier
    <3> QED
      BY <3>1, <3>2 DEF WriteBackFrom
  <2>2. CASE ~WriteMissCached(i, v)
    BY <2>2 DEF Write, WriteModified, WriteExclusive, WriteShared, WriteMissMemory
  <2> QED
    BY <2>1, <2>2
<1> QED
  BY <1>3, <1>4, <1>5

\* An eviction of an EXCLUSIVE line leaves memory's value visible; every other
\* eviction leaves the visible value visible.
LEMMA EvictVisible ==
    ASSUME IInv, NEW i \in Core, Evict(i)
    PROVE  /\ read_value' = read_value
           /\ \/ Visible' = Visible /\ mem_value' \in {mem_value, Visible}
              \/ EvictExclusive(i) /\ Visible = cache[i].value
                                   /\ Visible' = mem_value /\ mem_value' = mem_value
<1> USE DEF Valid
<1>1. IInv'
  BY EvictInv
<1>2. CASE EvictModified(i) \/ EvictExclusive(i)
  <2>1. Visible = cache[i].value
    BY <1>2, VisibleNow DEF EvictModified, EvictExclusive
  <2>2. \A k \in Core : cache'[k].state = "INVALID"
    BY <1>2 DEF EvictModified, EvictExclusive, Invalidated, Line, IInv, Exclusion, TypeOK
  <2>3. Visible' = mem_value'
    BY <1>1, <2>2, VisibleNext
  <2> QED
    BY <1>2, <2>1, <2>3 DEF EvictModified, EvictExclusive
<1>3. CASE EvictShared(i)
  <2>1. PICK j \in Core \ {i} : cache[j].state = "SHARED"
    BY <1>3 DEF EvictShared, IInv, NoLoneSharer
  <2>2. cache'[j].state # "INVALID" /\ cache'[j].value = cache[j].value
    BY <1>3, <2>1 DEF EvictShared, Line
  <2>3. Visible = cache[j].value /\ Visible' = cache[j].value
    BY <1>1, <2>1, <2>2, VisibleNow, VisibleNext
  <2> QED
    BY <1>3, <2>3 DEF EvictShared
<1>4. CASE EvictInvalid(i)
  BY <1>4 DEF EvictInvalid, vars, Visible
<1> QED
  BY <1>2, <1>3, <1>4 DEF Evict

-----------------------------------------------------------------------------
\* Apart from writes, only the eviction of an EXCLUSIVE line that is not clean
\* changes what the cores see.
THEOREM LossOnlyByExclusiveEviction == Spec => OnlyExclusiveEvictionLoses
<1> DEFINE A == Visible' # Visible =>
                  \/ \E i \in Core, v \in Values : Write(i, v) /\ Visible' = v
                  \/ \E i \in Core : EvictExclusive(i) /\ cache[i].value # mem_value
<1>1. IInv /\ [Next]_vars => [A]_vars
  <2> SUFFICES ASSUME IInv, Next PROVE A
    OBVIOUS
  <2>1. CASE \E i \in Core : Read(i)
    BY <2>1, ReadVisible DEF Cell!Read
  <2>2. CASE \E i \in Core, v \in Values : Write(i, v)
    BY <2>2, WriteVisible DEF Cell!Write
  <2>3. CASE \E i \in Core : Evict(i)
    BY <2>3, EvictVisible
  <2> QED
    BY <2>1, <2>2, <2>3 DEF Next
<1> QED
  BY Invariance, <1>1, PTL DEF Spec, OnlyExclusiveEvictionLoses

\* The cores implement the one-cell memory: every operation is a read, a write,
\* a write-back, a drop or nothing at all of the cell.
THEOREM CoresImplementCell == Spec => ImplementsCell
<1>1. Init => Cell!Init
  <2> SUFFICES ASSUME Init PROVE Cell!Init
    OBVIOUS
  <2>1. \A i \in Core : ~Valid(i)
    BY DEF Init, Valid, Invalidated, Line
  <2> QED
    BY <2>1, InitInv, VisibleNow, ValuesAssumption DEF Init, Cell!Init
<1>2. IInv /\ [Next]_vars => [Cell!Next]_(Cell!cellVars)
  <2> SUFFICES ASSUME IInv, [Next]_vars PROVE Cell!Next \/ UNCHANGED Cell!cellVars
    OBVIOUS
  <2>1. CASE UNCHANGED vars
    BY <2>1 DEF vars, Cell!cellVars, Visible, Valid
  <2>2. CASE \E i \in Core : Read(i)
    BY <2>2, ReadVisible DEF Cell!Next
  <2>3. CASE \E i \in Core, v \in Values : Write(i, v)
    BY <2>3, WriteVisible DEF Cell!Next
  <2>4. CASE \E i \in Core : Evict(i)
    BY <2>4, EvictVisible DEF Cell!Next, Cell!WriteBack, Cell!Drop, Cell!cellVars
  <2> QED
    BY <2>1, <2>2, <2>3, <2>4 DEF Next
<1> QED
  BY Invariance, <1>1, <1>2, PTL DEF Spec, Cell!Spec, ImplementsCell
=============================================================================
