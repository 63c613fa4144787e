----------------------- MODULE SymbolResolutionProofs -----------------------
(***************************************************************************)
(* Proofs about symbol resolution, for source files of any number and      *)
(* length and a map of any length.                                         *)
(***************************************************************************)
EXTENDS SymbolResolution, FiniteSetTheorems, TLAPS

\* The map holds processed symbols only.
EntriesAreSeen == \A k \in DOMAIN smap_table : smap_table[k] \in Seen

\* The inductive invariant.  OneBestCandidate alone is not inductive: it says
\* nothing of what an entry is, and the next symbol could be in the map already.
Resolution == TypeOK /\ EntriesAreSeen /\ OneBestCandidate /\ StrongDefinitionsKept

-----------------------------------------------------------------------------
\* What the priorities are.
LEMMA Priorities ==
    ASSUME NEW s
    PROVE  /\ symbol_priority(s) \in 0 .. 2
           /\ symbol_priority(s) = 2 <=> IsDefined(s)
  BY DEF symbol_priority

\* The map as a function.
LEMMA MapIsFunction ==
    ASSUME TypeOK
    PROVE  /\ Len(smap_table) \in Nat
           /\ DOMAIN smap_table = 1 .. Len(smap_table)
           /\ \A k \in DOMAIN smap_table : smap_table[k] \in DOMAIN symt
           /\ Len(symt) \in Nat
           /\ DOMAIN symt = 1 .. Len(symt)
           /\ \A m \in DOMAIN symt : symt[m] \in Symbol
  BY DEF TypeOK

\* No symbol is in the map yet.
LEMMA InitResolution == Init => Resolution
<1> SUFFICES ASSUME Init PROVE Resolution
  OBVIOUS
<1>1. symt \in Seq(Symbol) /\ Len(symt) \in Nat
  BY SourceAssumption DEF Init
<1>2. smap_table = <<>> /\ next = 1 /\ Len(smap_table) = 0 /\ DOMAIN smap_table = {}
  BY DEF Init, Unresolved
<1>3. TypeOK
  BY <1>1, <1>2 DEF TypeOK, Init, Unresolved, Status
<1>4. Seen = {}
  BY <1>2 DEF Seen
<1> QED
  BY <1>2, <1>3, <1>4 DEF Resolution, EntriesAreSeen, OneBestCandidate, StrongDefinitionsKept

-----------------------------------------------------------------------------
(* What the steps do to the map *)

\* The symbol at hand becomes the last entry.
Extends ==
    /\ Len(smap_table') = Len(smap_table) + 1
    /\ DOMAIN smap_table' = 1 .. Len(smap_table) + 1
    /\ \A k \in DOMAIN smap_table : k \in DOMAIN smap_table' /\ smap_table'[k] = smap_table[k]
    /\ smap_table'[Len(smap_table) + 1] = next

\* A symbol is inserted behind the entries there are.
LEMMA InsertExtends ==
    ASSUME TypeOK, next \in DOMAIN symt, Insert(next)
    PROVE  Extends /\ smap_table' \in Seq(1 .. Len(symt))
<1>1. smap_table \in Seq(1 .. Len(symt)) /\ next \in 1 .. Len(symt)
  BY MapIsFunction DEF TypeOK
<1>2. smap_table' = Append(smap_table, next)
  BY DEF Insert
<1>3. smap_table' \in Seq(1 .. Len(symt)) /\ Len(smap_table') = Len(smap_table) + 1
  BY <1>1, <1>2
<1>4. /\ \A k \in 1 .. Len(smap_table) : smap_table'[k] = smap_table[k]
      /\ smap_table'[Len(smap_table) + 1] = next
  BY <1>1, <1>2
<1> QED
  BY <1>3, <1>4, MapIsFunction DEF Extends

\* The processed symbols after the symbol at hand has been processed.
LEMMA SeenGrows ==
    ASSUME TypeOK, next \in DOMAIN symt, next' = next + 1
    PROVE  /\ Seen' = Seen \cup {next}
           /\ next \notin Seen
           /\ next' \in 1 .. Len(symt) + 1
           /\ Seen \subseteq DOMAIN symt
  BY MapIsFunction DEF TypeOK, Seen

\* An entry that is not global changes nothing for the global symbols.
LEMMA InsertOther ==
    ASSUME Resolution, Processing, ~IsGlobal(next), UNCHANGED symt, next' = next + 1,
           Extends \/ UNCHANGED smap_table
    PROVE  (EntriesAreSeen /\ OneBestCandidate /\ StrongDefinitionsKept)'
<1>1. TypeOK /\ next \in DOMAIN symt
  BY DEF Resolution, Processing
<1>2. Seen' = Seen \cup {next}
  BY <1>1, SeenGrows
<1>3. /\ DOMAIN smap_table \subseteq DOMAIN smap_table'
      /\ \A k \in DOMAIN smap_table : smap_table'[k] = smap_table[k]
      /\ \A k \in DOMAIN smap_table' : k \in DOMAIN smap_table \/ smap_table'[k] = next
  BY <1>1, MapIsFunction DEF Extends
<1>4. ASSUME NEW m
      PROVE  Conflicts(m)' = Conflicts(m)
  BY <1>3 DEF Conflicts, IsGlobal
<1>5. EntriesAreSeen'
  BY <1>2, <1>3 DEF EntriesAreSeen, Resolution
<1>6. OneBestCandidate'
  <2> SUFFICES ASSUME NEW m \in Seen', IsGlobal(m)'
               PROVE  \E k \in DOMAIN smap_table' :
                        /\ Conflicts(m)' = {k}
                        /\ symbol_priority(symt'[smap_table'[k]]) >= symbol_priority(symt'[m])
    BY DEF OneBestCandidate
  <2>1. m \in Seen /\ IsGlobal(m)
    BY <1>2 DEF IsGlobal
  <2>2. PICK k \in DOMAIN smap_table :
            /\ Conflicts(m) = {k}
            /\ symbol_priority(symt[smap_table[k]]) >= symbol_priority(symt[m])
    BY <2>1 DEF Resolution, OneBestCandidate
  <2> QED
    BY <1>3, <1>4, <2>2
<1>7. StrongDefinitionsKept'
  BY <1>2, <1>3 DEF StrongDefinitionsKept, Resolution, IsGlobal
<1> QED
  BY <1>5, <1>6, <1>7

\* A global symbol that is the first of its name becomes its only entry.
LEMMA InsertFirst ==
    ASSUME Resolution, Processing, IsGlobal(next), Conflicts(next) = {},
           UNCHANGED symt, next' = next + 1, Extends
    PROVE  (EntriesAreSeen /\ OneBestCandidate /\ StrongDefinitionsKept)'
<1> DEFINE z == Len(smap_table) + 1
<1>1. TypeOK /\ next \in DOMAIN symt
  BY DEF Resolution, Processing
<1>2. Seen' = Seen \cup {next}
  BY <1>1, SeenGrows
<1>3. /\ z \in DOMAIN smap_table' /\ z \notin DOMAIN smap_table
      /\ DOMAIN smap_table' = DOMAIN smap_table \cup {z}
      /\ smap_table'[z] = next
      /\ \A k \in DOMAIN smap_table : smap_table'[k] = smap_table[k]
  BY <1>1, MapIsFunction DEF Extends
<1> HIDE DEF z
<1>4. EntriesAreSeen'
  BY <1>2, <1>3 DEF EntriesAreSeen, Resolution
<1>5. OneBestCandidate'
  <2> SUFFICES ASSUME NEW m \in Seen', IsGlobal(m)'
               PROVE  \E k \in DOMAIN smap_table' :
                        /\ Conflicts(m)' = {k}
                        /\ symbol_priority(symt'[smap_table'[k]]) >= symbol_priority(symt'[m])
    BY DEF OneBestCandidate
  <2>1. CASE m = next
    <3>1. Conflicts(m)' = {z}
      BY <1>3, <2>1 DEF Conflicts, IsGlobal
    <3> QED
      BY <1>3, <2>1, <3>1, Priorities
  <2>2. CASE m # next
    <3>1. m \in Seen /\ IsGlobal(m)
      BY <1>2, <2>2 DEF IsGlobal
    <3>2. PICK k \in DOMAIN smap_table :
            /\ Conflicts(m) = {k}
            /\ symbol_priority(symt[smap_table[k]]) >= symbol_priority(symt[m])
      BY <3>1 DEF Resolution, OneBestCandidate
    <3>3. symt[next].st_name # symt[m].st_name
      BY <3>2 DEF Conflicts
    <3>4. Conflicts(m)' = {k}
      BY <1>3, <3>2, <3>3 DEF Conflicts, IsGlobal
    <3> QED
      BY <1>3, <3>2, <3>4
  <2> QED
    BY <2>1, <2>2
<1>6. StrongDefinitionsKept'
  BY <1>2, <1>3 DEF StrongDefinitionsKept, Resolution, IsGlobal
<1> QED
  BY <1>4, <1>5, <1>6

\* The symbol at hand takes entry k from candidate c, or is dropped.
Settles(k, c) ==
    /\ k \in Conflicts(next)
    /\ c = smap_table[k]
    /\ ~Redeclares(next, c)
    /\ smap_table' = IF Prefers(next, c) THEN [smap_table EXCEPT ![k] = next] ELSE smap_table

\* A conflict settled changes one entry at most, to a global of the same name.
LEMMA SettleShape ==
    ASSUME TypeOK, next \in DOMAIN symt, NEW k, NEW c, Settles(k, c)
    PROVE  /\ k \in DOMAIN smap_table /\ IsGlobal(c) /\ symt[c].st_name = symt[next].st_name
           /\ smap_table' \in Seq(1 .. Len(symt))
           /\ Len(smap_table') = Len(smap_table)
           /\ DOMAIN smap_table' = DOMAIN smap_table
           /\ \A h \in DOMAIN smap_table : h # k => smap_table'[h] = smap_table[h]
           /\ smap_table'[k] = IF Prefers(next, c) THEN next ELSE c
<1>1. k \in DOMAIN smap_table /\ IsGlobal(c) /\ symt[c].st_name = symt[next].st_name
  BY DEF Settles, Conflicts
<1>2. smap_table \in Seq(1 .. Len(symt)) /\ next \in 1 .. Len(symt) /\ k \in 1 .. Len(smap_table)
  BY <1>1, MapIsFunction DEF TypeOK
<1>3. CASE Prefers(next, c)
  <2>1. smap_table' = [smap_table EXCEPT ![k] = next]
    BY <1>3 DEF Settles
  <2>2. smap_table' \in Seq(1 .. Len(symt)) /\ Len(smap_table') = Len(smap_table)
    BY <1>2, <2>1
  <2> QED
    BY <1>1, <1>2, <1>3, <2>1, <2>2
<1>4. CASE ~Prefers(next, c)
  BY <1>1, <1>2, <1>4 DEF Settles
<1> QED
  BY <1>3, <1>4

\* A conflict leaves one entry of the name, the better of the two.
LEMMA SettleConflict ==
    ASSUME Resolution, Processing, IsGlobal(next), UNCHANGED symt, next' = next + 1,
           NEW k, NEW c, Settles(k, c)
    PROVE  (EntriesAreSeen /\ OneBestCandidate /\ StrongDefinitionsKept)'
<1>1. TypeOK /\ next \in DOMAIN symt
  BY DEF Resolution, Processing
<1>2. Seen' = Seen \cup {next} /\ next \notin Seen
  BY <1>1, SeenGrows
<1>3. /\ k \in DOMAIN smap_table /\ IsGlobal(c) /\ symt[c].st_name = symt[next].st_name
      /\ DOMAIN smap_table' = DOMAIN smap_table
      /\ \A h \in DOMAIN smap_table : h # k => smap_table'[h] = smap_table[h]
      /\ smap_table'[k] = IF Prefers(next, c) THEN next ELSE c
  BY <1>1, SettleShape
<1>4. c = smap_table[k] /\ c \in Seen
  BY <1>3 DEF Settles, Resolution, EntriesAreSeen
<1>5. ASSUME NEW m
      PROVE  Conflicts(m)' = Conflicts(m)
  BY <1>3, <1>4 DEF Conflicts, IsGlobal
<1>6. EntriesAreSeen'
  BY <1>2, <1>3, <1>4 DEF EntriesAreSeen, Resolution
<1> DEFINE kept == smap_table'[k]
<1>7. /\ symbol_priority(symt[kept]) >= symbol_priority(symt[next])
      /\ symbol_priority(symt[kept]) >= symbol_priority(symt[c])
  BY <1>3, Priorities DEF Prefers
<1>8. OneBestCandidate'
  <2> SUFFICES ASSUME NEW m \in Seen', IsGlobal(m)'
               PROVE  \E h \in DOMAIN smap_table' :
                        /\ Conflicts(m)' = {h}
                        /\ symbol_priority(symt'[smap_table'[h]]) >= symbol_priority(symt'[m])
    BY DEF OneBestCandidate
  <2> HIDE DEF kept
  <2>1. PICK g \in DOMAIN smap_table :
            /\ Conflicts(c) = {g}
            /\ symbol_priority(symt[smap_table[g]]) >= symbol_priority(symt[c])
    BY <1>3, <1>4 DEF Resolution, OneBestCandidate
  <2>2. Conflicts(next) = Conflicts(c)
    BY <1>3 DEF Conflicts
  <2>3. g = k
    BY <2>1, <2>2 DEF Settles
  <2>4. CASE m = next
    BY <1>3, <1>5, <1>7, <2>1, <2>2, <2>3, <2>4 DEF kept
  <2>5. CASE m # next
    <3>1. m \in Seen /\ IsGlobal(m)
      BY <1>2, <2>5 DEF IsGlobal
    <3>2. PICK h \in DOMAIN smap_table :
            /\ Conflicts(m) = {h}
            /\ symbol_priority(symt[smap_table[h]]) >= symbol_priority(symt[m])
      BY <3>1 DEF Resolution, OneBestCandidate
    <3>3. CASE h # k
      BY <1>3, <1>5, <3>2, <3>3
    <3>4. CASE h = k
      <4>1. symbol_priority(symt[c]) >= symbol_priority(symt[m])
        BY <1>4, <3>2, <3>4
      <4>2. symbol_priority(symt[kept]) >= symbol_priority(symt[m])
        BY <1>7, <4>1, Priorities
      <4> QED
        BY <1>3, <1>5, <3>2, <3>4, <4>2 DEF kept
    <3> QED
      BY <3>3, <3>4
  <2> QED
    BY <2>4, <2>5
<1>9. StrongDefinitionsKept'
  <2> SUFFICES ASSUME NEW m \in Seen', IsGlobal(m), IsDefined(symt[m])
               PROVE  \E h \in DOMAIN smap_table' : smap_table'[h] = m
    BY DEF StrongDefinitionsKept, IsGlobal
  <2>1. symbol_priority(symt[m]) = 2
    BY Priorities
  <2>2. CASE m = next
    <3>1. symbol_priority(symt[c]) # 2
      BY <2>1, <2>2 DEF Settles, Redeclares
    <3>2. Prefers(next, c)
      BY <2>1, <2>2, <3>1, Priorities DEF Prefers
    <3> QED
      BY <1>3, <2>2, <3>2
  <2>3. CASE m # next
    <3>1. PICK h \in DOMAIN smap_table : smap_table[h] = m
      BY <1>2, <2>3 DEF Resolution, StrongDefinitionsKept
    <3>2. CASE h = k
      <4>1. ~Prefers(next, c)
        BY <1>4, <2>1, <3>1, <3>2, Priorities DEF Prefers
      <4> QED
        BY <1>3, <1>4, <3>1, <3>2, <4>1
    <3>3. CASE h # k
      BY <1>3, <3>1, <3>3
    <3> QED
      BY <3>2, <3>3
  <2> QED
    BY <2>2, <2>3
<1> QED
  BY <1>6, <1>8, <1>9

\* Tidying a symbol keeps its name, its binding and its kind, and makes it no
\* worse; and only a common symbol becomes a definition by it.
LEMMA TidiedSymbol ==
    ASSUME NEW s \in Symbol
    PROVE  /\ Tidied(s) \in Symbol
           /\ Tidied(s).st_name = s.st_name /\ Tidied(s).bind = s.bind
           /\ MayRemain(s) => symbol_priority(Tidied(s)) >= symbol_priority(s)
<1>1. CASE s.st_shndx # "COMMON"
  BY <1>1, Priorities DEF Tidied
<1>2. CASE s.st_shndx = "COMMON"
  <2>1. Tidied(s) = [st_name |-> s.st_name, bind |-> s.bind, type |-> s.type,
                     st_shndx |-> ".bss"]
    BY <1>2 DEF Tidied, Symbol
  <2>2. Tidied(s) \in Symbol
    BY <2>1 DEF Symbol, Section
  <2>3. ~IsDefined(s)
    BY <1>2 DEF IsDefined
  <2>4. IsTentative(s) => IsDefined(Tidied(s))
    BY <2>1 DEF IsTentative, IsDefined
  <2>5. symbol_priority(Tidied(s)) >= symbol_priority(s)
    BY <2>3, <2>4, Priorities DEF symbol_priority
  <2> QED
    BY <2>1, <2>2, <2>5
<1> QED
  BY <1>1, <1>2

\* Tidying an entry changes the section of one symbol.
LEMMA CleanKeeps ==
    ASSUME Resolution, CleanEntry
    PROVE  Resolution'
<1> DEFINE m == smap_table[cleaned + 1]
<1>1. TypeOK /\ cleaned + 1 \in DOMAIN smap_table
  BY MapIsFunction DEF Resolution, CleanEntry, TypeOK
<1>2. m \in DOMAIN symt /\ symt[m] \in Symbol
  BY <1>1, MapIsFunction
<1>3. CASE ~MayRemain(symt[m])
  <2> HIDE DEF m
  <2>1. UNCHANGED <<symt, smap_table, next, cleaned>> /\ status' = "aborted"
    BY <1>3 DEF CleanEntry, m
  <2>2. TypeOK'
    BY <1>1, <2>1 DEF TypeOK, Status
  <2>3. EntriesAreSeen'
    BY <2>1 DEF Resolution, EntriesAreSeen, Seen
  <2>4. OneBestCandidate'
    BY <2>1 DEF Resolution, OneBestCandidate, Seen, Conflicts, IsGlobal
  <2>5. StrongDefinitionsKept'
    BY <2>1 DEF Resolution, StrongDefinitionsKept, Seen, IsGlobal
  <2> QED
    BY <2>2, <2>3, <2>4, <2>5 DEF Resolution
<1>4. CASE MayRemain(symt[m])
  <2> HIDE DEF m
  <2>1. /\ symt' = [symt EXCEPT ![m] = Tidied(symt[m])]
        /\ cleaned' = cleaned + 1
        /\ UNCHANGED <<smap_table, next, status>>
    BY <1>4 DEF CleanEntry, m
  <2>2. /\ symt' \in Seq(Symbol) /\ Len(symt') = Len(symt) /\ DOMAIN symt' = DOMAIN symt
        /\ symt'[m] = Tidied(symt[m])
        /\ \A n \in DOMAIN symt : n # m => symt'[n] = symt[n]
    <3>1. symt \in Seq(Symbol) /\ Tidied(symt[m]) \in Symbol
      BY <1>1, <1>2, TidiedSymbol DEF TypeOK
    <3>2. symt' \in Seq(Symbol) /\ Len(symt') = Len(symt)
      BY <1>2, <2>1, <3>1
    <3> QED
      BY <1>2, <2>1, <3>1, <3>2
  <2>3. TypeOK'
    BY <1>1, <2>1, <2>2, MapIsFunction DEF TypeOK
  <2>4. Seen' = Seen /\ Seen \subseteq DOMAIN symt
    BY <1>1, <2>1, MapIsFunction DEF Seen, TypeOK
  <2>5. \A n \in DOMAIN symt : symt'[n].st_name = symt[n].st_name /\ (IsGlobal(n)' <=> IsGlobal(n))
    BY <1>2, <2>2, TidiedSymbol DEF IsGlobal
  <2>6. \A n \in DOMAIN symt :
            symbol_priority(symt'[n]) >= symbol_priority(symt[n])
    BY <1>2, <1>4, <2>2, TidiedSymbol, Priorities
  <2>7. \A k \in DOMAIN smap_table : smap_table[k] \in DOMAIN symt
    BY <1>1, MapIsFunction
  <2>8. ASSUME NEW n \in DOMAIN symt
        PROVE  Conflicts(n)' = Conflicts(n)
    BY <2>1, <2>5, <2>7 DEF Conflicts
  <2>9. EntriesAreSeen'
    BY <2>1, <2>4 DEF EntriesAreSeen, Resolution
  <2>10. OneBestCandidate'
    <3> SUFFICES ASSUME NEW n \in Seen', IsGlobal(n)'
                 PROVE  \E h \in DOMAIN smap_table' :
                          /\ Conflicts(n)' = {h}
                          /\ symbol_priority(symt'[smap_table'[h]]) >= symbol_priority(symt'[n])
      BY DEF OneBestCandidate
    <3>1. n \in Seen /\ n \in DOMAIN symt /\ IsGlobal(n)
      BY <2>4, <2>5
    <3>2. PICK h \in DOMAIN smap_table :
            /\ Conflicts(n) = {h}
            /\ symbol_priority(symt[smap_table[h]]) >= symbol_priority(symt[n])
      BY <3>1 DEF Resolution, OneBestCandidate
    <3>3. CASE n = m
      <4>1. cleaned + 1 \in Conflicts(n)
        BY <1>1, <3>1, <3>3 DEF Conflicts, m
      <4>2. smap_table[h] = m
        BY <3>2, <4>1 DEF m
      <4> QED
        BY <2>1, <2>8, <3>1, <3>2, <3>3, <4>2, Priorities
    <3>4. CASE n # m
      <4>1. symt'[n] = symt[n]
        BY <2>2, <3>1, <3>4
      <4>2. symbol_priority(symt'[smap_table[h]]) >= symbol_priority(symt[smap_table[h]])
        BY <2>6, <2>7
      <4>3. symbol_priority(symt'[smap_table[h]]) >= symbol_priority(symt[n])
        BY <3>2, <4>2, Priorities
      <4> QED
        BY <2>1, <2>8, <3>1, <3>2, <4>1, <4>3
    <3> QED
      BY <3>3, <3>4
  <2>11. StrongDefinitionsKept'
    <3> SUFFICES ASSUME NEW n \in Seen', IsGlobal(n)', IsDefined(symt'[n])
                 PROVE  \E h \in DOMAIN smap_table' : smap_table'[h] = n
      BY DEF StrongDefinitionsKept
    <3>1. n \in Seen /\ n \in DOMAIN symt /\ IsGlobal(n)
      BY <2>4, <2>5
    <3>2. CASE n = m
      BY <1>1, <2>1, <3>2 DEF m
    <3>3. CASE n # m
      BY <2>1, <2>2, <3>1, <3>3 DEF Resolution, StrongDefinitionsKept
    <3> QED
      BY <3>2, <3>3
  <2> QED
    BY <2>3, <2>9, <2>10, <2>11 DEF Resolution
<1> QED
  BY <1>3, <1>4

-----------------------------------------------------------------------------
\* No step of resolution or clean-up breaks the invariant.
LEMMA NextKeepsResolution == Resolution /\ [Next]_vars => Resolution'
<1> SUFFICES ASSUME Resolution, [Next]_vars PROVE Resolution'
  OBVIOUS
<1> USE DEF Status
<1>0. TypeOK
  BY DEF Resolution
<1>1. ASSUME UNCHANGED <<symt, smap_table, next, cleaned>>, status' \in Status
      PROVE  Resolution'
  BY <1>1 DEF Resolution, TypeOK, EntriesAreSeen, OneBestCandidate, StrongDefinitionsKept,
              Seen, Conflicts, IsGlobal
<1>2. CASE InsertLocal
  <2>1. CASE Insert(next) /\ next' = next + 1 /\ UNCHANGED <<symt, cleaned, status>>
    <3>1. Processing /\ ~IsGlobal(next)
      BY <1>2 DEF InsertLocal, IsGlobal
    <3>2. Extends /\ smap_table' \in Seq(1 .. Len(symt))
      BY <1>0, <2>1, <3>1, InsertExtends DEF Processing
    <3>3. TypeOK'
      BY <1>0, <2>1, <3>1, <3>2, SeenGrows, MapIsFunction DEF TypeOK, Extends, Processing
    <3> QED
      BY <2>1, <3>1, <3>2, <3>3, InsertOther DEF Resolution
  <2>2. CASE UNCHANGED <<symt, smap_table, next, cleaned>> /\ status' = "aborted"
    BY <1>1, <2>2
  <2> QED
    BY <1>2, <2>1, <2>2 DEF InsertLocal
<1>3. CASE InsertGlobal
  <2>1. Processing /\ Insert(next) /\ next' = next + 1 /\ UNCHANGED <<symt, cleaned>>
    BY <1>3 DEF InsertGlobal
  <2>2. status' \in Status
    BY <1>0, <1>3 DEF InsertGlobal, TypeOK
  <2>3. Extends /\ smap_table' \in Seq(1 .. Len(symt))
    BY <1>0, <2>1, InsertExtends DEF Processing
  <2>4. TypeOK'
    BY <1>0, <2>1, <2>2, <2>3, SeenGrows, MapIsFunction DEF TypeOK, Extends, Processing
  <2> QED
    BY <1>3, <2>1, <2>3, <2>4, InsertFirst DEF Resolution, InsertGlobal
<1>4. CASE SkipWeak
  <2>1. Processing /\ ~IsGlobal(next) /\ next' = next + 1 /\ UNCHANGED <<symt, smap_table, cleaned, status>>
    BY <1>4 DEF SkipWeak, IsGlobal
  <2>2. TypeOK'
    BY <1>0, <2>1, SeenGrows DEF TypeOK, Processing
  <2> QED
    BY <2>1, <2>2, InsertOther DEF Resolution
<1>5. CASE Resolve
  <2>1. Processing /\ IsGlobal(next) /\ UNCHANGED <<symt, cleaned>>
    BY <1>5 DEF Resolve
  <2>2. ASSUME NEW k, NEW c, Settles(k, c), next' = next + 1, UNCHANGED status
        PROVE  Resolution'
    <3>1. smap_table' \in Seq(1 .. Len(symt)) /\ Len(smap_table') = Len(smap_table)
      BY <1>0, <2>1, <2>2, SettleShape DEF Processing
    <3>2. TypeOK'
      BY <1>0, <2>1, <2>2, <3>1, SeenGrows DEF TypeOK, Processing
    <3> QED
      BY <2>1, <2>2, <3>2, SettleConflict DEF Resolution
  <2> QED
    BY <1>1, <1>5, <2>1, <2>2 DEF Resolve, Fail, Settles
<1>6. CASE StartCleanup \/ EndCleanup \/ UNCHANGED vars
  BY <1>0, <1>1, <1>6 DEF StartCleanup, EndCleanup, vars, TypeOK
<1>7. CASE CleanEntry
  BY <1>7, CleanKeeps
<1> QED
  BY <1>2, <1>3, <1>4, <1>5, <1>6, <1>7 DEF Next

\* The map has the best candidate of every name, at all times.
THEOREM ResolutionInvariance == Spec => []Resolution
  BY InitResolution, NextKeepsResolution, PTL DEF Spec

\* Every reachable state has the types of the variables; in particular every
\* entry of the map is a symbol of some source file.
THEOREM TypeCorrect == Spec => []TypeOK
<1>1. Resolution => TypeOK
  BY DEF Resolution
<1> QED
  BY <1>1, ResolutionInvariance, PTL

\* The map has one entry for every global name it has seen, the best of its
\* symbols, for any files in any order.
THEOREM BestIsKept == Spec => []OneBestCandidate
<1>1. Resolution => OneBestCandidate
  BY DEF Resolution
<1> QED
  BY <1>1, ResolutionInvariance, PTL

\* No strong definition is dropped for another.
THEOREM NoStrongIsDropped == Spec => []StrongDefinitionsKept
<1>1. Resolution => StrongDefinitionsKept
  BY DEF Resolution
<1> QED
  BY <1>1, ResolutionInvariance, PTL

\* An entry keeps its name and gives way only to a better symbol.
THEOREM EntriesImprove == Spec => EntriesOnlyImprove
<1> DEFINE Improves(k) ==
        /\ k \in DOMAIN smap_table'
        /\ smap_table'[k] # smap_table[k] =>
            /\ symt[smap_table'[k]].st_name = symt[smap_table[k]].st_name
            /\ symbol_priority(symt[smap_table'[k]]) > symbol_priority(symt[smap_table[k]])
<1>1. ASSUME TypeOK, [Next]_vars, NEW k \in DOMAIN smap_table
      PROVE  Improves(k)
  <2> USE <1>1
  <2>1. CASE UNCHANGED smap_table
    BY <2>1
  <2>2. CASE Processing /\ Insert(next)
    BY <2>2, InsertExtends DEF Processing, Extends
  <2>3. ASSUME NEW h, NEW c, Settles(h, c), Processing
        PROVE  Improves(k)
    <3>1. /\ h \in DOMAIN smap_table /\ symt[c].st_name = symt[next].st_name
          /\ DOMAIN smap_table' = DOMAIN smap_table
          /\ \A g \in DOMAIN smap_table : g # h => smap_table'[g] = smap_table[g]
          /\ smap_table'[h] = IF Prefers(next, c) THEN next ELSE c
      BY <2>3, SettleShape DEF Processing
    <3> QED
      BY <2>3, <3>1 DEF Settles, Prefers
  <2> HIDE DEF Improves
  <2> QED
    BY <2>1, <2>2, <2>3 DEF Next, vars, InsertLocal, InsertGlobal, SkipWeak, Resolve, Fail,
                            Settles, StartCleanup, CleanEntry, EndCleanup
<1>2. TypeOK /\ [Next]_vars
        => [\A k \in DOMAIN smap_table :
                /\ k \in DOMAIN smap_table'
                /\ smap_table'[k] # smap_table[k] =>
                    /\ symt[smap_table'[k]].st_name = symt[smap_table[k]].st_name
                    /\ symbol_priority(symt[smap_table'[k]])
                            > symbol_priority(symt[smap_table[k]])]_vars
  BY <1>1
<1> QED
  BY <1>2, TypeCorrect, PTL DEF Spec, EntriesOnlyImprove

-----------------------------------------------------------------------------
(* Why resolution ends *)

Locals(S) == {m \in S : symt[m].bind = "STB_LOCAL"}
Names(S)  == {symt[m].st_name : m \in {m \in S : IsGlobal(m)}}

Placed(s) == s.st_shndx \notin {"SHN_UNDEF", "COMMON"}

\* The map has an entry for each local symbol and each global name so far, ...
EntriesCounted ==
    /\ IsFiniteSet(Locals(Seen)) /\ IsFiniteSet(Names(Seen))
    /\ Len(smap_table) = Needed(Seen)

\* ... of a symbol each, none of them weak.
EntriesDiffer ==
    /\ \A j, k \in DOMAIN smap_table : smap_table[j] = smap_table[k] => j = k
    /\ \A k \in DOMAIN smap_table : symt[smap_table[k]].bind # "STB_WEAK"

\* The clean-up begins when all symbols are seen, and leaves entries neither
\* undefined nor common.
CleanUp ==
    /\ status = "resolving" => cleaned = 0
    /\ status \in {"cleaning", "resolved"} => next = Len(symt) + 1
    /\ status = "resolved" => cleaned = Len(smap_table)
    /\ \A k \in 1 .. cleaned : Placed(symt[smap_table[k]])

\* The inductive invariant: RefusalHasACause says nothing of a resolution that has
\* not failed, and has to be prepared by what is known of one that goes on.
Accounting ==
    Resolution /\ EntriesCounted /\ EntriesDiffer /\ CleanUp /\ RefusalHasACause

\* One more symbol needs an entry if it is local or the first of its name.
LEMMA NeededGrows ==
    ASSUME NEW S, NEW n, n \notin S, IsFiniteSet(Locals(S)), IsFiniteSet(Names(S))
    PROVE  /\ IsFiniteSet(Locals(S \cup {n})) /\ IsFiniteSet(Names(S \cup {n}))
           /\ Needed(S) \in Nat
           /\ symt[n].bind = "STB_LOCAL" => Needed(S \cup {n}) = Needed(S) + 1
           /\ symt[n].bind = "STB_WEAK" => Needed(S \cup {n}) = Needed(S)
           /\ IsGlobal(n) => Needed(S \cup {n}) =
                IF symt[n].st_name \in Names(S) THEN Needed(S) ELSE Needed(S) + 1
<1>1. Locals(S \cup {n}) = IF symt[n].bind = "STB_LOCAL" THEN Locals(S) \cup {n} ELSE Locals(S)
  BY DEF Locals
<1>2. Names(S \cup {n}) = IF IsGlobal(n) THEN Names(S) \cup {symt[n].st_name} ELSE Names(S)
  BY DEF Names
<1>3. n \notin Locals(S)
  BY DEF Locals
<1>4. Cardinality(Locals(S)) \in Nat /\ Cardinality(Names(S)) \in Nat
  BY FS_CardinalityType
<1>5. /\ IsFiniteSet(Locals(S) \cup {n})
      /\ Cardinality(Locals(S) \cup {n}) = Cardinality(Locals(S)) + 1
  BY <1>3, FS_AddElement
<1>6. /\ IsFiniteSet(Names(S) \cup {symt[n].st_name})
      /\ Cardinality(Names(S) \cup {symt[n].st_name}) =
            IF symt[n].st_name \in Names(S) THEN Cardinality(Names(S)) ELSE Cardinality(Names(S)) + 1
  BY FS_AddElement
<1>7. /\ Needed(S) = Cardinality(Locals(S)) + Cardinality(Names(S))
      /\ Needed(S \cup {n}) = Cardinality(Locals(S \cup {n})) + Cardinality(Names(S \cup {n}))
  BY DEF Needed, Locals, Names
<1>8. symt[n].bind = "STB_LOCAL" => ~IsGlobal(n)
  BY DEF IsGlobal
<1>9. symt[n].bind = "STB_WEAK" => ~IsGlobal(n)
  BY DEF IsGlobal
<1>10. IsGlobal(n) => symt[n].bind # "STB_LOCAL"
  BY DEF IsGlobal
<1> QED
  BY <1>1, <1>2, <1>4, <1>5, <1>6, <1>7, <1>8, <1>9, <1>10

\* A name of the map has been seen, and a name that has been seen is in the map.
LEMMA ConflictIsSeenName ==
    ASSUME Resolution, next \in DOMAIN symt
    PROVE  Conflicts(next) # {} <=> symt[next].st_name \in Names(Seen)
<1>1. ASSUME NEW k \in Conflicts(next) PROVE symt[next].st_name \in Names(Seen)
  BY DEF Conflicts, Names, Resolution, EntriesAreSeen
<1>2. ASSUME NEW m \in Seen, IsGlobal(m), symt[m].st_name = symt[next].st_name
      PROVE  Conflicts(next) # {}
  <2>1. Conflicts(m) # {}
    BY <1>2 DEF Resolution, OneBestCandidate
  <2> QED
    BY <1>2, <2>1 DEF Conflicts
<1> QED
  BY <1>1, <1>2 DEF Names

\* No symbol needs an entry yet.
LEMMA InitAccounting == Init => Accounting
<1> SUFFICES ASSUME Init PROVE Accounting
  OBVIOUS
<1>1. Resolution
  BY InitResolution
<1>2. smap_table = <<>> /\ cleaned = 0 /\ status = "resolving" /\ Seen = {}
  BY DEF Init, Unresolved, Seen
<1>3. Locals(Seen) = {} /\ Names(Seen) = {}
  BY <1>2 DEF Locals, Names
<1>4. EntriesCounted
  BY <1>2, <1>3, FS_EmptySet DEF EntriesCounted, Needed, Locals, Names
<1>5. EntriesDiffer /\ CleanUp /\ RefusalHasACause
  BY <1>2 DEF EntriesDiffer, CleanUp, RefusalHasACause
<1> QED
  BY <1>1, <1>4, <1>5 DEF Accounting

\* A symbol is entered, and resolution goes on or runs over the end of the map.
LEMMA InsertAccounts ==
    ASSUME Accounting, Resolution', Processing, Insert(next), next' = next + 1,
           UNCHANGED <<symt, cleaned>>,
           symt[next].bind = "STB_LOCAL" \/ (IsGlobal(next) /\ Conflicts(next) = {}),
           status' = IF Len(smap_table) < MAX_SYMBOL_MAP_LENGTH THEN status ELSE "overrun"
    PROVE  Accounting'
<1>1. TypeOK /\ next \in DOMAIN symt /\ status = "resolving" /\ cleaned = 0
  BY DEF Accounting, Resolution, Processing, CleanUp
<1>2. Extends /\ Seen' = Seen \cup {next} /\ next \notin Seen
  BY <1>1, InsertExtends, SeenGrows
<1>3. Needed(Seen \cup {next}) = Needed(Seen) + 1
  BY <1>1, <1>2, NeededGrows, ConflictIsSeenName DEF Accounting, EntriesCounted
<1>4. /\ Needed(Seen)' = Needed(Seen') /\ Locals(Seen)' = Locals(Seen')
      /\ Names(Seen)' = Names(Seen')
  BY DEF Needed, Locals, Names, IsGlobal
<1>5. EntriesCounted'
  <2>1. IsFiniteSet(Locals(Seen')) /\ IsFiniteSet(Names(Seen'))
    BY <1>2, NeededGrows DEF Accounting, EntriesCounted
  <2>2. Len(smap_table') = Needed(Seen')
    BY <1>2, <1>3 DEF Accounting, EntriesCounted, Extends
  <2> QED
    BY <1>4, <2>1, <2>2 DEF EntriesCounted
<1>6. EntriesDiffer'
  <2>1. /\ \A k \in DOMAIN smap_table : smap_table'[k] = smap_table[k] /\ smap_table[k] # next
        /\ smap_table'[Len(smap_table) + 1] = next
        /\ DOMAIN smap_table' = DOMAIN smap_table \cup {Len(smap_table) + 1}
    BY <1>1, <1>2, MapIsFunction DEF Extends, Accounting, Resolution, EntriesAreSeen
  <2>2. symt[next].bind # "STB_WEAK"
    BY DEF IsGlobal
  <2> QED
    BY <2>1, <2>2 DEF Accounting, EntriesDiffer
<1>7. CleanUp'
  BY <1>1 DEF CleanUp
<1>8. RefusalHasACause'
  <2>1. status' = "overrun" => Needed(Seen)' > MAX_SYMBOL_MAP_LENGTH
    BY <1>1, <1>2, <1>5, MapIsFunction, LengthAssumption DEF EntriesCounted, Extends
  <2> QED
    BY <1>1, <2>1 DEF RefusalHasACause
<1> QED
  BY <1>5, <1>6, <1>7, <1>8 DEF Accounting

\* A weak symbol, and one that meets an entry of its name, need no entry.
LEMMA KeepAccounts ==
    ASSUME Accounting, Resolution', Processing, next' = next + 1,
           UNCHANGED <<symt, cleaned, status>>,
           \/ symt[next].bind = "STB_WEAK" /\ UNCHANGED smap_table
           \/ IsGlobal(next) /\ \E k, c : Settles(k, c)
    PROVE  Accounting'
<1>1. TypeOK /\ next \in DOMAIN symt /\ status = "resolving" /\ cleaned = 0
  BY DEF Accounting, Resolution, Processing, CleanUp
<1>2. Seen' = Seen \cup {next} /\ next \notin Seen
  BY <1>1, SeenGrows
<1>3. Needed(Seen \cup {next}) = Needed(Seen) /\ IsFiniteSet(Locals(Seen')) /\ IsFiniteSet(Names(Seen'))
  <2>1. IsGlobal(next) => symt[next].st_name \in Names(Seen)
    BY <1>1, ConflictIsSeenName DEF Settles, Accounting, IsGlobal
  <2> QED
    BY <1>2, <2>1, NeededGrows DEF Accounting, EntriesCounted
<1>4. /\ Needed(Seen)' = Needed(Seen') /\ Locals(Seen)' = Locals(Seen')
      /\ Names(Seen)' = Names(Seen')
  BY DEF Needed, Locals, Names, IsGlobal
<1>5. /\ Len(smap_table') = Len(smap_table) /\ DOMAIN smap_table' = DOMAIN smap_table
      /\ \E h : \A k \in DOMAIN smap_table :
            /\ k # h => smap_table'[k] = smap_table[k]
            /\ smap_table'[k] \in {next, smap_table[k]}
      /\ symt[next].bind = "STB_WEAK" => UNCHANGED smap_table
  <2>1. CASE UNCHANGED smap_table
    BY <2>1
  <2>2. ASSUME IsGlobal(next), NEW k, NEW c, Settles(k, c)
        PROVE  <1>5!1 /\ \A g \in DOMAIN smap_table :
                    /\ g # k => smap_table'[g] = smap_table[g]
                    /\ smap_table'[g] \in {next, smap_table[g]}
    BY <1>1, <2>2, SettleShape DEF Settles
  <2> QED
    BY <2>1, <2>2 DEF IsGlobal
<1>6. EntriesCounted'
  BY <1>2, <1>3, <1>4, <1>5 DEF Accounting, EntriesCounted
<1>7. EntriesDiffer'
  <2>1. \A k \in DOMAIN smap_table : smap_table[k] # next
    BY <1>2 DEF Accounting, Resolution, EntriesAreSeen
  <2> QED
    BY <1>5, <2>1 DEF Accounting, EntriesDiffer
<1>8. CleanUp' /\ RefusalHasACause'
  BY <1>1 DEF CleanUp, RefusalHasACause
<1> QED
  BY <1>6, <1>7, <1>8 DEF Accounting

\* A failure leaves everything but the status as it was.
LEMMA FailAccounts ==
    ASSUME Accounting, Resolution', status' # "resolving", status' # "cleaning", status' # "resolved",
           UNCHANGED <<symt, smap_table, next, cleaned>>, RefusalHasACause'
    PROVE  Accounting'
<1>1. EntriesCounted' /\ EntriesDiffer'
  BY DEF Accounting, EntriesCounted, EntriesDiffer, Needed, Locals, Names, IsGlobal, Seen
<1>2. CleanUp'
  BY DEF Accounting, CleanUp, Placed
<1> QED
  BY <1>1, <1>2 DEF Accounting

\* Two symbols of a name clash, or one of them is of no known kind.
LEMMA ResolveAccounts ==
    ASSUME Accounting, Resolution', Resolve
    PROVE  Accounting'
<1>1. Processing /\ IsGlobal(next) /\ UNCHANGED <<symt, cleaned>> /\ TypeOK /\ next \in DOMAIN symt
  BY DEF Resolve, Accounting, Resolution, Processing
<1>2. PICK k \in Conflicts(next) :
        LET c == smap_table[k]
        IN  \/ ~HavePriorities(next, c) /\ Fail("undetermined")
            \/ HavePriorities(next, c) /\ Redeclares(next, c) /\ Fail("redeclared")
            \/ /\ HavePriorities(next, c)
               /\ ~Redeclares(next, c)
               /\ smap_table' = IF Prefers(next, c)
                                THEN [smap_table EXCEPT ![k] = next]
                                ELSE smap_table
               /\ next' = next + 1
               /\ UNCHANGED status
  BY DEF Resolve, FirstConflict
<1> DEFINE c == smap_table[k]
<1>3. /\ c \in Seen /\ c \in 1 .. next /\ next \in 1 .. next
      /\ IsGlobal(c) /\ symt[c].st_name = symt[next].st_name
  BY <1>1 DEF Conflicts, Accounting, Resolution, EntriesAreSeen, Seen, TypeOK
<1>4. CASE ~HavePriorities(next, c) /\ Fail("undetermined")
  <2>1. \E m \in 1 .. next : IsGlobal(m) /\ ~HasPriority(symt[m])
    BY <1>1, <1>3, <1>4 DEF HavePriorities
  <2>2. RefusalHasACause'
    BY <1>1, <1>4, <2>1 DEF RefusalHasACause, Fail, IsGlobal
  <2> QED
    BY <1>1, <1>4, <2>2, FailAccounts DEF Fail
<1>5. CASE HavePriorities(next, c) /\ Redeclares(next, c) /\ Fail("redeclared")
  <2>1. SameName(c, next) /\ IsDefined(symt[c]) /\ IsDefined(symt[next])
    BY <1>1, <1>3, <1>5, Priorities DEF SameName, Redeclares
  <2>2. RefusalHasACause'
    BY <1>1, <1>3, <1>5, <2>1 DEF RefusalHasACause, Fail, IsGlobal, SameName, Seen
  <2> QED
    BY <1>1, <1>5, <2>2, FailAccounts DEF Fail
<1>6. CASE Settles(k, c) /\ next' = next + 1 /\ UNCHANGED status
  BY <1>1, <1>6, KeepAccounts
<1> QED
  BY <1>2, <1>4, <1>5, <1>6 DEF Settles

\* An entry that may not remain is of a symbol without a better one.
LEMMA CleanAccounts ==
    ASSUME Accounting, Resolution', CleanEntry
    PROVE  Accounting'
<1> DEFINE m == smap_table[cleaned + 1]
<1>1. /\ TypeOK /\ cleaned + 1 \in DOMAIN smap_table /\ status = "cleaning"
      /\ next = Len(symt) + 1 /\ Seen = DOMAIN symt
  BY MapIsFunction DEF Accounting, Resolution, CleanEntry, TypeOK, CleanUp, Seen
<1>2. m \in DOMAIN symt /\ symt[m] \in Symbol /\ symt[m].bind # "STB_WEAK"
  BY <1>1, MapIsFunction DEF Accounting, EntriesDiffer
<1> HIDE DEF m
<1>3. CASE ~MayRemain(symt[m])
  <2>1. UNCHANGED <<symt, smap_table, next, cleaned>> /\ status' = "aborted"
    BY <1>3 DEF CleanEntry, m
  <2>2. symbol_priority(symt[m]) = 0
    BY <1>3 DEF MayRemain, symbol_priority, IsDefined, IsTentative
  <2>3. ASSUME NEW n \in DOMAIN symt, SameName(m, n)
        PROVE  symbol_priority(symt[n]) = 0
    <3>1. PICK k \in DOMAIN smap_table :
            /\ Conflicts(n) = {k}
            /\ symbol_priority(symt[smap_table[k]]) >= symbol_priority(symt[n])
      BY <1>1, <2>3 DEF Accounting, Resolution, OneBestCandidate, SameName
    <3>2. cleaned + 1 \in Conflicts(n)
      BY <1>1, <2>3 DEF Conflicts, SameName, m
    <3>3. smap_table[k] = m
      BY <3>1, <3>2 DEF m
    <3> QED
      BY <2>2, <3>1, <3>3, Priorities
  <2>4. RefusalHasACause'
    BY <1>2, <1>3, <2>1, <2>3 DEF RefusalHasACause, SameName, IsGlobal
  <2> QED
    BY <2>1, <2>4, FailAccounts
<1>4. CASE MayRemain(symt[m])
  <2>1. /\ symt' = [symt EXCEPT ![m] = Tidied(symt[m])]
        /\ cleaned' = cleaned + 1
        /\ UNCHANGED <<smap_table, next, status>>
    BY <1>4 DEF CleanEntry, m
  <2>2. /\ DOMAIN symt' = DOMAIN symt /\ symt'[m] = Tidied(symt[m])
        /\ \A n \in DOMAIN symt : n # m => symt'[n] = symt[n]
    BY <1>2, <2>1
  <2>3. \A n \in DOMAIN symt : symt'[n].st_name = symt[n].st_name /\ symt'[n].bind = symt[n].bind
    BY <1>2, <2>2, TidiedSymbol
  <2>4. Seen' = Seen
    BY <2>1 DEF Seen
  <2>5. Locals(Seen)' = Locals(Seen) /\ Names(Seen)' = Names(Seen)
    BY <1>1, <2>3, <2>4 DEF Locals, Names, IsGlobal
  <2>6. Needed(Seen)' = Needed(Seen)
    BY <2>5 DEF Needed, Locals, Names
  <2>7. EntriesCounted'
    BY <2>1, <2>5, <2>6 DEF Accounting, EntriesCounted
  <2>8. EntriesDiffer'
    BY <1>1, <2>1, <2>3, MapIsFunction DEF Accounting, EntriesDiffer
  <2>9. CleanUp'
    <3>1. Placed(symt'[m])
      BY <1>2, <1>4, <2>2 DEF Placed, Tidied, MayRemain, Symbol, Section
    <3>2. ASSUME NEW n \in DOMAIN symt, Placed(symt[n]) PROVE Placed(symt'[n])
      BY <2>2, <3>1, <3>2
    <3>3. \A k \in 1 .. cleaned : Placed(symt[smap_table[k]]) /\ smap_table[k] \in DOMAIN symt
      BY <1>1, MapIsFunction DEF Accounting, CleanUp, TypeOK
    <3>4. \A k \in 1 .. cleaned + 1 : k \in 1 .. cleaned \/ k = cleaned + 1
      BY <1>1 DEF TypeOK
    <3>5. \A k \in 1 .. cleaned' : Placed(symt'[smap_table'[k]])
      BY <2>1, <3>1, <3>2, <3>3, <3>4 DEF m
    <3>6. Len(symt') = Len(symt)
      BY <1>1, <1>2, <2>1 DEF TypeOK
    <3> QED
      BY <1>1, <2>1, <3>5, <3>6 DEF CleanUp
  <2>10. RefusalHasACause'
    BY <1>1, <2>1 DEF RefusalHasACause
  <2> QED
    BY <2>7, <2>8, <2>9, <2>10 DEF Accounting
<1> QED
  BY <1>3, <1>4

\* No step loses count of the entries.
LEMMA NextKeepsAccounting == Accounting /\ [Next]_vars => Accounting'
<1> SUFFICES ASSUME Accounting, [Next]_vars PROVE Accounting'
  OBVIOUS
<1>0. Resolution' /\ TypeOK
  BY NextKeepsResolution DEF Accounting, Resolution
<1>1. CASE InsertLocal
  <2>1. Processing /\ symt[next].bind = "STB_LOCAL" /\ UNCHANGED <<symt, cleaned>>
    BY <1>1 DEF InsertLocal
  <2>2. CASE /\ Len(smap_table) < MAX_SYMBOL_MAP_LENGTH
             /\ Insert(next) /\ next' = next + 1 /\ UNCHANGED status
    <3>1. status' = IF Len(smap_table) < MAX_SYMBOL_MAP_LENGTH THEN status ELSE "overrun"
      BY <2>2
    <3>2. Insert(next) /\ next' = next + 1
      BY <2>2
    <3>3. UNCHANGED <<symt, cleaned>> /\ Processing
      BY <2>1
    <3>4. symt[next].bind = "STB_LOCAL" \/ (IsGlobal(next) /\ Conflicts(next) = {})
      BY <2>1
    <3>5. Accounting /\ Resolution'
      BY <1>0
    <3> QED
      BY <3>1, <3>2, <3>3, <3>4, <3>5, InsertAccounts
  <2>3. CASE /\ Len(smap_table) >= MAX_SYMBOL_MAP_LENGTH
             /\ status' = "aborted" /\ UNCHANGED <<smap_table, next>>
    <3>1. 1 .. next = Seen \cup {next} /\ next \notin Seen
      BY <1>0 DEF Seen, TypeOK
    <3>2. Needed(1 .. next) = Len(smap_table) + 1
      BY <2>1, <3>1, NeededGrows DEF Accounting, EntriesCounted
    <3>3. Needed(1 .. next) > MAX_SYMBOL_MAP_LENGTH
      BY <1>0, <2>3, <3>2, MapIsFunction, LengthAssumption
    <3>4. Needed(1 .. next)' = Needed(1 .. next)
      BY <2>1, <2>3 DEF Needed, IsGlobal
    <3>5. RefusalHasACause'
      BY <2>1, <2>3, <3>3, <3>4 DEF RefusalHasACause, Processing
    <3> QED
      BY <1>0, <2>1, <2>3, <3>5, FailAccounts
  <2> QED
    BY <1>1, <2>2, <2>3 DEF InsertLocal
<1>2. CASE InsertGlobal
  BY <1>0, <1>2, InsertAccounts DEF InsertGlobal
<1>3. CASE SkipWeak
  BY <1>0, <1>3, KeepAccounts DEF SkipWeak
<1>4. CASE Resolve
  BY <1>0, <1>4, ResolveAccounts
<1>5. CASE CleanEntry
  BY <1>0, <1>5, CleanAccounts
<1>6. ASSUME UNCHANGED <<symt, smap_table, next, cleaned>>
      PROVE  EntriesCounted' /\ EntriesDiffer'
  BY <1>6 DEF Accounting, EntriesCounted, EntriesDiffer, Needed, Locals, Names, IsGlobal, Seen
<1>7. CASE StartCleanup
  <2>1. /\ UNCHANGED <<symt, smap_table, next, cleaned>> /\ status' = "cleaning"
        /\ status = "resolving" /\ next > Len(symt)
    BY <1>7 DEF StartCleanup
  <2>2. next = Len(symt) + 1
    BY <1>0, <2>1, MapIsFunction DEF TypeOK
  <2> QED
    BY <1>0, <1>6, <2>1, <2>2 DEF Accounting, CleanUp, RefusalHasACause
<1>8. CASE EndCleanup
  <2>1. /\ UNCHANGED <<symt, smap_table, next, cleaned>> /\ status' = "resolved"
        /\ status = "cleaning" /\ cleaned = Len(smap_table)
    BY <1>8 DEF EndCleanup
  <2> QED
    BY <1>0, <1>6, <2>1 DEF Accounting, CleanUp, RefusalHasACause
<1>9. CASE UNCHANGED vars
  <2>1. UNCHANGED <<symt, smap_table, next, cleaned, status>>
    BY <1>9 DEF vars
  <2>2. RefusalHasACause'
    BY <2>1 DEF Accounting, RefusalHasACause, Needed, Seen, IsGlobal, SameName
  <2> QED
    BY <1>0, <1>6, <2>1, <2>2 DEF Accounting, CleanUp
<1> QED
  BY <1>1, <1>2, <1>3, <1>4, <1>5, <1>7, <1>8, <1>9 DEF Next

\* The entries are counted, and every refusal has its cause, at all times.
THEOREM AccountingInvariance == Spec => []Accounting
  BY InitAccounting, NextKeepsAccounting, PTL DEF Spec

\* Resolution fails only for the cause it names, for any files and any length of
\* the map.
THEOREM RefusalIsJustified == Spec => []RefusalHasACause
<1>1. Accounting => RefusalHasACause
  BY DEF Accounting
<1> QED
  BY <1>1, AccountingInvariance, PTL

-----------------------------------------------------------------------------
(* What becomes of symbols that are not entries *)

\* No symbol is lost in resolution: a symbol that is not weak is in the map, or is
\* a global one that has been compared with an entry, both of a known kind.
NoneIsLost ==
    \A m \in Seen : symt[m].bind # "STB_WEAK" =>
        \/ \E k \in DOMAIN smap_table : smap_table[k] = m
        \/ /\ IsGlobal(m) /\ HasPriority(symt[m])
           /\ \A k \in Conflicts(m) : HasPriority(symt[smap_table[k]])

\* No symbol has been seen yet.
LEMMA InitNoneIsLost == Init => NoneIsLost
  BY DEF Init, Unresolved, NoneIsLost, Seen

\* Tidying leaves a symbol of a known kind one.
LEMMA TidiedKind ==
    ASSUME NEW s \in Symbol, HasPriority(s)
    PROVE  HasPriority(Tidied(s))
<1>1. CASE s.st_shndx # "COMMON"
  BY <1>1 DEF Tidied
<1>2. CASE s.st_shndx = "COMMON"
  <2>1. Tidied(s) = [st_name |-> s.st_name, bind |-> s.bind, type |-> s.type,
                     st_shndx |-> ".bss"]
    BY <1>2 DEF Tidied, Symbol
  <2> QED
    BY <1>2, <2>1 DEF HasPriority, IsUndefined, IsTentative, IsDefined
<1> QED
  BY <1>1, <1>2

\* The entries of the map stay, or one of known kind is replaced by a better one.
LEMMA NextLosesNone ==
    ASSUME Accounting, NoneIsLost, [Next]_vars
    PROVE  NoneIsLost'
<1> USE DEF IsGlobal
<1>0. TypeOK
  BY DEF Accounting, Resolution
<1>1. CASE UNCHANGED <<symt, smap_table, next>>
  BY <1>1 DEF NoneIsLost, Seen, Conflicts
<1>2. CASE /\ Processing /\ Insert(next) /\ next' = next + 1 /\ UNCHANGED symt
           /\ IsGlobal(next) => Conflicts(next) = {}
  <2>1. Extends /\ Seen' = Seen \cup {next}
    BY <1>0, <1>2, InsertExtends, SeenGrows DEF Processing
  <2>2. /\ \A k \in DOMAIN smap_table : k \in DOMAIN smap_table' /\ smap_table'[k] = smap_table[k]
        /\ \A k \in DOMAIN smap_table' : k \in DOMAIN smap_table \/ smap_table'[k] = next
        /\ \E k \in DOMAIN smap_table' : smap_table'[k] = next
    BY <1>0, <2>1, MapIsFunction DEF Extends
  <2>3. ASSUME NEW m \in Seen, IsGlobal(m), NEW k \in Conflicts(m)'
        PROVE  k \in Conflicts(m) /\ smap_table'[k] = smap_table[k]
    <3>1. PICK h \in DOMAIN smap_table : Conflicts(m) = {h}
      BY <2>3 DEF Accounting, Resolution, OneBestCandidate
    <3>2. CASE smap_table'[k] = next
      <4>1. IsGlobal(next) /\ symt[next].st_name = symt[m].st_name
        BY <1>2, <2>3, <3>2 DEF Conflicts
      <4>2. h \in Conflicts(next)
        BY <3>1, <4>1 DEF Conflicts
      <4> QED
        BY <1>2, <4>1, <4>2
    <3> QED
      BY <1>2, <2>2, <2>3, <3>2 DEF Conflicts
  <2> QED
    BY <1>2, <2>1, <2>2, <2>3 DEF NoneIsLost
<1>3. CASE SkipWeak
  <2>1. Seen' = Seen \cup {next} /\ symt[next].bind = "STB_WEAK" /\ UNCHANGED <<symt, smap_table>>
    BY <1>0, <1>3, SeenGrows DEF SkipWeak, Processing
  <2>2. \A m : Conflicts(m)' = Conflicts(m)
    BY <2>1 DEF Conflicts
  <2> QED
    BY <2>1, <2>2 DEF NoneIsLost
<1>4. CASE Resolve /\ next' = next + 1
  <2>1. Processing /\ IsGlobal(next) /\ UNCHANGED symt /\ next \in DOMAIN symt
    BY <1>4 DEF Resolve, Processing
  <2>2. next # next'
    BY <1>0, <1>4 DEF TypeOK
  <2>3. PICK k \in Conflicts(next) : HavePriorities(next, smap_table[k]) /\ Settles(k, smap_table[k])
    BY <1>4, <2>2 DEF Resolve, FirstConflict, Fail, Settles
  <2> DEFINE c == smap_table[k]
  <2>4. /\ k \in DOMAIN smap_table /\ IsGlobal(c)
        /\ DOMAIN smap_table' = DOMAIN smap_table
        /\ \A h \in DOMAIN smap_table : h # k => smap_table'[h] = smap_table[h]
    BY <1>0, <2>1, <2>3, SettleShape
  <2>5. HasPriority(symt[next]) /\ HasPriority(symt[c])
    BY <2>3 DEF HavePriorities
  <2>6. Seen' = Seen \cup {next}
    BY <1>0, <1>4, <2>1, SeenGrows
  <2>7. smap_table'[k] \in {next, c}
    BY <1>0, <2>1, <2>3, <2>4, SettleShape DEF Settles
  <2>8. Conflicts(next) = {k}
    <3>1. c \in Seen /\ symt[c].st_name = symt[next].st_name
      BY <2>3, <2>4 DEF Conflicts, Accounting, Resolution, EntriesAreSeen
    <3>2. PICK h \in DOMAIN smap_table : Conflicts(c) = {h}
      BY <2>4, <3>1 DEF Accounting, Resolution, OneBestCandidate
    <3>3. Conflicts(c) = Conflicts(next)
      BY <3>1 DEF Conflicts
    <3> QED
      BY <2>3, <3>2, <3>3
  <2>9. ASSUME NEW m, NEW h \in Conflicts(m)'
        PROVE  h = k \/ (h \in Conflicts(m) /\ smap_table'[h] = smap_table[h])
    BY <2>1, <2>4, <2>9 DEF Conflicts
  <2>10. ASSUME NEW m, NEW h \in Conflicts(m)', h = k \/ HasPriority(symt[smap_table[h]])
         PROVE  HasPriority(symt'[smap_table'[h]])
    <3>1. CASE h = k
      BY <2>1, <2>5, <2>7, <3>1
    <3>2. CASE h # k
      BY <2>1, <2>9, <2>10, <3>2
    <3> QED
      BY <3>1, <3>2
  <2> SUFFICES ASSUME NEW m \in Seen', symt[m].bind # "STB_WEAK"
               PROVE  \/ \E h \in DOMAIN smap_table' : smap_table'[h] = m
                      \/ /\ IsGlobal(m) /\ HasPriority(symt[m])
                         /\ \A h \in Conflicts(m)' : HasPriority(symt'[smap_table'[h]])
    BY <2>1 DEF NoneIsLost
  <2>11. CASE m = next
    BY <2>1, <2>5, <2>8, <2>9, <2>10, <2>11
  <2>12. CASE m = c
    <3>1. Conflicts(c) = {k}
      BY <2>1, <2>3, <2>4, <2>8 DEF Conflicts
    <3> QED
      BY <2>4, <2>5, <2>9, <2>10, <2>12, <3>1
  <2>13. CASE m \in Seen /\ m # c
    <3>1. CASE \E h \in DOMAIN smap_table : smap_table[h] = m
      BY <2>4, <2>13, <3>1
    <3>2. CASE /\ IsGlobal(m) /\ HasPriority(symt[m])
               /\ \A h \in Conflicts(m) : HasPriority(symt[smap_table[h]])
      BY <2>9, <2>10, <3>2
    <3> QED
      BY <2>13, <3>1, <3>2 DEF NoneIsLost
  <2> QED
    BY <2>6, <2>11, <2>12, <2>13
<1>5. CASE CleanEntry
  <2> DEFINE m == smap_table[cleaned + 1]
  <2>1. /\ m \in DOMAIN symt /\ symt[m] \in Symbol
        /\ cleaned + 1 \in DOMAIN smap_table /\ UNCHANGED <<smap_table, next>>
    BY <1>0, <1>5, MapIsFunction DEF CleanEntry, TypeOK
  <2>2. CASE UNCHANGED symt
    BY <1>1, <2>1, <2>2
  <2>3. CASE symt' = [symt EXCEPT ![m] = Tidied(symt[m])]
    <3>1. Seen' = Seen /\ Seen \subseteq DOMAIN symt
      BY <1>0, <2>1, MapIsFunction DEF Seen, TypeOK
    <3>2. symt'[m] = Tidied(symt[m]) /\ \A n \in DOMAIN symt : n = m \/ symt'[n] = symt[n]
      BY <2>1, <2>3
    <3>3. \A n \in DOMAIN symt :
            /\ symt'[n].bind = symt[n].bind /\ symt'[n].st_name = symt[n].st_name
            /\ HasPriority(symt[n]) => HasPriority(symt'[n])
      BY <2>1, <3>2, TidiedSymbol, TidiedKind
    <3>4. \A k \in DOMAIN smap_table : smap_table[k] \in DOMAIN symt
      BY <1>0, MapIsFunction
    <3>5. \A n \in DOMAIN symt : Conflicts(n)' = Conflicts(n)
      BY <2>1, <3>3, <3>4 DEF Conflicts
    <3>6. ASSUME NEW n, NEW k \in Conflicts(n), HasPriority(symt[smap_table[k]])
          PROVE  HasPriority(symt'[smap_table'[k]])
      BY <2>1, <3>3, <3>4, <3>6 DEF Conflicts
    <3> QED
      BY <2>1, <3>1, <3>3, <3>5, <3>6 DEF NoneIsLost
  <2> QED
    BY <1>5, <2>2, <2>3 DEF CleanEntry
<1>6. CASE InsertLocal \/ InsertGlobal
  BY <1>1, <1>2, <1>6 DEF InsertLocal, InsertGlobal
<1>7. CASE Resolve
  <2>1. Fail("undetermined") \/ Fail("redeclared") \/ next' = next + 1
    BY <1>7 DEF Resolve
  <2>2. UNCHANGED symt
    BY <1>7 DEF Resolve
  <2> QED
    BY <1>1, <1>4, <1>7, <2>1, <2>2 DEF Fail
<1> QED
  BY <1>1, <1>3, <1>5, <1>6, <1>7 DEF Next, vars, StartCleanup, EndCleanup

\* After a successful resolution every global name has an entry that is neither
\* undefined nor common, a definition if the name has several symbols.
THEOREM NamesArePlaced == Spec => []ResolvedIsPlaced
<1>1. Accounting /\ NoneIsLost => ResolvedIsPlaced
  <2> SUFFICES ASSUME Accounting, NoneIsLost, status = "resolved", NEW m \in DOMAIN symt, IsGlobal(m)
               PROVE  \E k \in Conflicts(m) :
                        /\ Placed(symt[smap_table[k]])
                        /\ \/ IsDefined(symt[smap_table[k]])
                           \/ \A n \in DOMAIN symt : SameName(m, n) => n = m
    BY DEF ResolvedIsPlaced, Placed
  <2>1. TypeOK /\ next = Len(symt) + 1 /\ cleaned = Len(smap_table)
    BY DEF Accounting, Resolution, CleanUp
  <2>2. Seen = DOMAIN symt
    BY <2>1, MapIsFunction DEF Seen
  <2>3. PICK k \in DOMAIN smap_table : Conflicts(m) = {k}
    BY <2>2 DEF Accounting, Resolution, OneBestCandidate
  <2> DEFINE c == smap_table[k]
  <2>4. Placed(symt[c])
    BY <2>1, <2>3, MapIsFunction DEF Accounting, CleanUp
  <2>5. ASSUME NEW n \in DOMAIN symt, SameName(m, n), n # m
        PROVE  IsDefined(symt[c])
    <3>1. Conflicts(n) = {k}
      BY <2>3, <2>5 DEF Conflicts, SameName
    <3>2. PICK x \in {m, n} : x # c
      BY <2>5
    <3>3. x \in Seen /\ IsGlobal(x) /\ Conflicts(x) = {k}
      BY <2>2, <2>3, <2>5, <3>1, <3>2 DEF SameName
    <3>4. \A h \in DOMAIN smap_table : smap_table[h] # x
      BY <3>2, <3>3 DEF Conflicts
    <3>5. HasPriority(symt[c])
      BY <3>3, <3>4 DEF NoneIsLost, IsGlobal
    <3> QED
      BY <2>4, <3>5 DEF HasPriority, IsUndefined, IsTentative, Placed
  <2> QED
    BY <2>3, <2>4, <2>5
<1>2. Spec => []NoneIsLost
  BY AccountingInvariance, InitNoneIsLost, NextLosesNone, PTL DEF Spec
<1> QED
  BY <1>1, <1>2, AccountingInvariance, PTL
=============================================================================
