-------------------------- MODULE StaticLinkProofs --------------------------
(***************************************************************************)
(* Proofs about the static linker, for source files of any number and      *)
(* length, any relocations, and a map and an output of any length.         *)
(***************************************************************************)
EXTENDS Linker, SymbolResolutionProofs, WellFoundedInduction

-----------------------------------------------------------------------------
(* The inductive invariant *)

\* What InputAssumption says of the input, as long as resolution tidies symbols.
InputsSound ==
    /\ src_sht \in Seq(Seq(SourceHeader))
    /\ place \in [DOMAIN symt -> Place]
    /\ \A m \in DOMAIN symt : place[m].elf \in DOMAIN src_sht
    /\ rel \in Seq(Relocation)
    /\ \A j \in DOMAIN rel : rel[j].sym \in DOMAIN symt
    /\ \A m, n \in DOMAIN symt :
        /\ m # n
        /\ place[m].elf = place[n].elf
        /\ symt[m].st_shndx = symt[n].st_shndx
        /\ symt[m].st_shndx \in {".text", ".data"}
        => \/ place[m].st_value + place[m].st_size <= place[n].st_value
           \/ place[n].st_value + place[n].st_size <= place[m].st_value
    /\ \A i, j \in DOMAIN rel :
        i # j => <<rel[i].elf, rel[i].section, rel[i].r_row>>
                    # <<rel[j].elf, rel[j].section, rel[j].r_row>>

\* Merging begins when resolution has succeeded, and never changes the headers.
Stages ==
    /\ phase = "resolving" =>
        /\ sht = <<>> /\ section = 1 /\ pos = 1 /\ offset = 0
        /\ buffer = <<>> /\ dst_symt = <<>> /\ dst = <<>>
    /\ phase # "resolving" =>
        /\ status = "resolved" /\ sht = Headers
        /\ dst \in [DOMAIN smap_table -> 0 .. Len(dst_symt)]
    /\ phase \in {"resolving", "merging"} => relocated = 0 /\ stray = {}
    /\ Merged => section > Len(sht)

Begun == phase # "resolving" /\ Ordinary

\* How many lines of the output are in front of a section.
Start(s) ==
    IF s = ".text" THEN 0
    ELSE IF s = ".data" THEN Count(".text")
    ELSE Count(".text") + Count(".data")

\* The section at hand, the last one when they are all merged, and those before it
Current == IF section \in DOMAIN sht THEN sht[section].sh_name ELSE ".symtab"
Before(s) == \E h \in DOMAIN sht : h < section /\ sht[h].sh_name = s

SectionOf(k) == symt[smap_table[k]].st_shndx
SizeIn(k)    == place[smap_table[k]].st_size

\* The lines of a set of entries, and the entries of section s before symbol p
LinesOf(S) == {kr \in S \X (0 .. MAX_ELF_FILE_LENGTH) : kr[2] < SizeIn(kr[1])}
EntriesBefore(s, p) == {k \in EntriesIn(s) : smap_table[k] < p}

\* The lines written are the sections before and the entries before in this one.
LinesCounted ==
    Begun =>
        /\ offset = Cardinality(LinesOf(EntriesBefore(Current, pos)))
        /\ Len(buffer) = Start(Current) + offset

\* The entries with an output symbol are those before, and it is theirs alone.
SymbolsCounted ==
    Begun =>
        /\ \A k \in DOMAIN smap_table :
            dst[k] # 0 <=> \/ Before(SectionOf(k))
                           \/ SectionOf(k) = Current /\ smap_table[k] < pos
        /\ Len(dst_symt) = Cardinality({k \in DOMAIN smap_table : dst[k] # 0})

\* The line of the output that row r of entry k is at.
LineOf(k, r) == 1 + Start(SectionOf(k)) + dst_symt[dst[k]].st_value + r

\* The lines of an entry are in its section, and every line is of an entry.
LinesPlaced ==
    Begun =>
        /\ \A k \in DOMAIN smap_table : dst[k] # 0 =>
            /\ dst_symt[dst[k]].src = smap_table[k]
            /\ SectionOf(k) \in {".text", ".data"}
            /\ dst_symt[dst[k]].st_value + SizeIn(k) <= Count(SectionOf(k))
            /\ \A r \in 0 .. SizeIn(k) - 1 :
                /\ LineOf(k, r) \in DOMAIN buffer
                /\ buffer[LineOf(k, r)].sym = smap_table[k]
                /\ buffer[LineOf(k, r)].row = r
                /\ buffer[LineOf(k, r)].line = src_index(smap_table[k], r)
        /\ \A i \in DOMAIN buffer : \E k \in DOMAIN smap_table :
            /\ dst[k] # 0
            /\ buffer[i].sym = smap_table[k]
            /\ buffer[i].row \in 0 .. SizeIn(k) - 1
            /\ i = LineOf(k, buffer[i].row)

Setting == Accounting /\ NoneIsLost /\ InputsSound /\ LinkTypeOK /\ Stages

Layout == LinesCounted /\ SymbolsCounted /\ LinesPlaced

Linking ==
    /\ Setting /\ Layout
    /\ FailureHasACause /\ ReferencesReachTheirSymbol

-----------------------------------------------------------------------------
(* The linker does symbol resolution *)

\* The phases after resolution leave its state alone.
LEMMA LinkStepResolves == [LinkNext]_linkVars => [Next]_vars
<1> SUFFICES ASSUME [LinkNext]_linkVars PROVE [Next]_vars
  OBVIOUS
<1>1. CASE Next
  BY <1>1
<1>2. CASE compute_section_header \/ SkipSymbol \/ MergeSymbol \/ NextSection
  BY <1>2 DEF compute_section_header, SkipSymbol, MergeSymbol, NextSection
<1>3. CASE WriteSymbols \/ Relocate \/ EndLink
  BY <1>3 DEF WriteSymbols, Relocate, EndLink
<1>4. CASE UNCHANGED linkVars
  BY <1>4 DEF linkVars
<1> QED
  BY <1>1, <1>2, <1>3, <1>4 DEF LinkNext

\* Every behaviour of the linker is one of symbol resolution, so that what holds
\* of resolution holds in the linker, and its phases never go back on it.
THEOREM LinkerResolves == LinkSpec => Spec
<1>1. LinkInit => Init
  BY InputAssumption DEF LinkInit, Unlinked, Init
<1> QED
  BY <1>1, LinkStepResolves, PTL DEF LinkSpec, Spec

\* A step of resolution is one before it has ended.
LEMMA NextResolves == Next => status \in {"resolving", "cleaning"}
  BY DEF Next, InsertLocal, InsertGlobal, SkipWeak, Resolve, StartCleanup, CleanEntry, EndCleanup,
         Processing

\* Any other step does not touch the symbols and the map.
LEMMA OtherSteps ==
    ASSUME Stages, phase # "resolving", [LinkNext]_linkVars
    PROVE  UNCHANGED <<vars, placeVars>>
<1>1. CASE Next
  BY <1>1, NextResolves DEF Stages
<1>2. CASE compute_section_header \/ SkipSymbol \/ MergeSymbol \/ NextSection
  BY <1>2 DEF compute_section_header, SkipSymbol, MergeSymbol, NextSection
<1>3. CASE WriteSymbols \/ Relocate \/ EndLink
  BY <1>3 DEF WriteSymbols, Relocate, EndLink
<1>4. CASE UNCHANGED linkVars
  BY <1>4 DEF linkVars
<1> QED
  BY <1>1, <1>2, <1>3, <1>4 DEF LinkNext

-----------------------------------------------------------------------------
(* What resolution leaves *)

\* Resolution changes the section of common symbols only.
LEMMA NextKeepsSymbols ==
    ASSUME TypeOK, [Next]_vars
    PROVE  /\ DOMAIN symt' = DOMAIN symt
           /\ \A m \in DOMAIN symt :
                symt'[m].st_shndx = symt[m].st_shndx \/ symt'[m].st_shndx = ".bss"
<1>1. CASE UNCHANGED symt
  BY <1>1
<1>2. CASE CleanEntry
  <2> DEFINE m == smap_table[cleaned + 1]
  <2>1. m \in DOMAIN symt /\ symt[m] \in Symbol
    BY <1>2, MapIsFunction DEF CleanEntry, TypeOK
  <2>2. CASE symt' = [symt EXCEPT ![m] = Tidied(symt[m])]
    <3>1. DOMAIN symt' = DOMAIN symt /\ \A n \in DOMAIN symt : n = m \/ symt'[n] = symt[n]
      BY <2>2
    <3>2. symt'[m].st_shndx = symt[m].st_shndx \/ symt'[m].st_shndx = ".bss"
      BY <2>1, <2>2 DEF Tidied, Symbol
    <3> QED
      BY <3>1, <3>2
  <2> QED
    BY <1>1, <1>2, <2>2 DEF CleanEntry
<1> QED
  BY <1>1, <1>2 DEF Next, vars, InsertLocal, InsertGlobal, SkipWeak, Resolve, StartCleanup, EndCleanup

\* The assumption about the inputs holds of the one that is linked.
LEMMA InitInputsSound == LinkInit => InputsSound
<1> SUFFICES ASSUME LinkInit PROVE InputsSound
  OBVIOUS
<1>1. PICK in \in LinkInputs :
        symt = in.symt /\ src_sht = in.src_sht /\ place = in.place /\ rel = in.rel
  BY DEF LinkInit
<1> QED
  BY <1>1, InputAssumption DEF InputsSound

\* Only the clean-up changes symbols, and it turns none into code or data that was not.
LEMMA StepKeepsInputs ==
    ASSUME TypeOK, InputsSound, [LinkNext]_linkVars
    PROVE  InputsSound'
<1>1. UNCHANGED <<src_sht, place, rel>>
  BY DEF LinkNext, linkVars, placeVars, compute_section_header, SkipSymbol, MergeSymbol, NextSection,
         WriteSymbols, Relocate, EndLink
<1>2. /\ DOMAIN symt' = DOMAIN symt
      /\ \A m \in DOMAIN symt :
            symt'[m].st_shndx = symt[m].st_shndx \/ symt'[m].st_shndx = ".bss"
  BY LinkStepResolves, NextKeepsSymbols
<1> QED
  BY <1>1, <1>2 DEF InputsSound

-----------------------------------------------------------------------------
(* Lines and headers *)

\* A set of positions that is not empty has a last one.
LEMMA HasLast ==
    ASSUME NEW n \in Nat, NEW T \in SUBSET (1 .. n), T # {}
    PROVE  \E h \in T : \A g \in T : g <= h
<1> DEFINE Less == {ss \in Nat \X Nat : ss[1] < ss[2]}
           D == {n - h : h \in T}
<1>1. IsWellFoundedOn(Less, Nat)
  BY NatLessThanWellFounded DEF OpToRel
<1>2. \A h \in T : h \in Int /\ n - h \in Nat /\ n - h \in D
  OBVIOUS
<1>3. D \subseteq Nat /\ D # {}
  BY <1>2
<1>4. PICK x \in D : \A y \in D : ~ (<<y, x>> \in Less)
  <2> HIDE DEF D, Less
  <2> QED
    BY <1>1, <1>3, WFMin
<1>5. PICK h \in T : x = n - h
  BY <1>4
<1>6. ASSUME NEW g \in T PROVE g <= h
  <2>1. n - g \in D /\ n - g \in Nat /\ x \in Nat /\ g \in Int /\ h \in Int
    BY <1>2, <1>3
  <2>2. ~ (n - g < x)
    BY <1>4, <2>1
  <2> QED
    BY <1>5, <2>1, <2>2
<1> QED
  BY <1>6

\* Where a line is in its source file is a number.
LEMMA SourceIndexIsNumber ==
    ASSUME InputsSound, NEW m \in DOMAIN symt, HasSource(m), NEW t \in Nat
    PROVE  src_index(m, t) \in Nat
<1> DEFINE headers == src_sht[place[m].elf]
           last == CHOOSE h \in SourceHeaders(m) : \A g \in SourceHeaders(m) : g <= h
<1>1. headers \in Seq(SourceHeader) /\ place[m] \in Place
  BY DEF InputsSound
<1>2. SourceHeaders(m) \in SUBSET (1 .. Len(headers)) /\ Len(headers) \in Nat
  BY <1>1 DEF SourceHeaders
<1>3. \E h \in SourceHeaders(m) : \A g \in SourceHeaders(m) : g <= h
  BY <1>2, HasLast DEF HasSource
<1>4. last \in SourceHeaders(m)
  BY <1>3
<1> HIDE DEF last
<1>5. headers[last] \in SourceHeader
  BY <1>1, <1>2, <1>4
<1>6. src_index(m, t) = headers[last].sh_offset + place[m].st_value + t
  BY DEF src_index, last
<1> QED
  BY <1>1, <1>5, <1>6 DEF SourceHeader, Place

\* Every entry of the map has a size and a section.
LEMMA EntriesHaveSizes ==
    ASSUME TypeOK, InputsSound, NEW k \in DOMAIN smap_table
    PROVE  /\ smap_table[k] \in DOMAIN symt /\ smap_table[k] \in Nat
           /\ place[smap_table[k]] \in Place
           /\ SizeIn(k) \in 0 .. MAX_ELF_FILE_LENGTH /\ SizeIn(k) \in Nat
           /\ SectionOf(k) \in Section
<1>1. smap_table[k] \in DOMAIN symt /\ smap_table[k] \in Nat /\ symt[smap_table[k]] \in Symbol
  BY MapIsFunction
<1>2. place[smap_table[k]] \in Place
  BY <1>1 DEF InputsSound
<1> QED
  BY <1>1, <1>2, SizeAssumption DEF Place, SizeIn, SectionOf, Symbol

\* The lines of some entries are finitely many, and more entries have no fewer.
LEMMA LinesAreCounted ==
    ASSUME TypeOK, InputsSound, NEW S \in SUBSET DOMAIN smap_table, NEW R \in SUBSET S
    PROVE  /\ IsFiniteSet(LinesOf(S)) /\ Cardinality(LinesOf(S)) \in Nat
           /\ Cardinality(LinesOf(R)) \in Nat
           /\ Cardinality(LinesOf(R)) <= Cardinality(LinesOf(S))
<1>1. IsFiniteSet(DOMAIN smap_table)
  BY MapIsFunction, FS_Interval
<1>2. IsFiniteSet(S)
  BY <1>1, FS_Subset
<1>3. IsFiniteSet(0 .. MAX_ELF_FILE_LENGTH)
  BY FS_Interval, SizeAssumption
<1>4. IsFiniteSet(S \X (0 .. MAX_ELF_FILE_LENGTH))
  BY <1>2, <1>3, FS_Product
<1>5. LinesOf(S) \in SUBSET (S \X (0 .. MAX_ELF_FILE_LENGTH))
  BY DEF LinesOf
<1>6. IsFiniteSet(LinesOf(S))
  BY <1>4, <1>5, FS_Subset
<1>7. LinesOf(R) \in SUBSET LinesOf(S)
  BY DEF LinesOf
<1> QED
  BY <1>6, <1>7, FS_Subset, FS_CardinalityType

\* An entry more has its lines more.
LEMMA LinesOfOneMore ==
    ASSUME TypeOK, InputsSound, NEW S \in SUBSET DOMAIN smap_table,
           NEW k \in DOMAIN smap_table, k \notin S
    PROVE  Cardinality(LinesOf(S \cup {k})) = Cardinality(LinesOf(S)) + SizeIn(k)
<1> DEFINE n == SizeIn(k)
           rows == 0 .. n - 1
           own == {k} \X rows
<1>1. n \in 0 .. MAX_ELF_FILE_LENGTH
  BY EntriesHaveSizes
<1>2. LinesOf(S \cup {k}) = LinesOf(S) \cup own
  <2>1. ASSUME NEW x \in LinesOf(S \cup {k}) PROVE x \in LinesOf(S) \cup own
    <3>1. /\ x = <<x[1], x[2]>> /\ x[1] \in S \cup {k}
          /\ x[2] \in 0 .. MAX_ELF_FILE_LENGTH /\ x[2] < SizeIn(x[1])
      BY <2>1 DEF LinesOf
    <3>2. CASE x[1] \in S
      BY <3>1, <3>2 DEF LinesOf
    <3>3. CASE x[1] = k
      <4>1. x[2] \in rows
        BY <1>1, <3>1, <3>3, SizeAssumption
      <4> QED
        BY <3>1, <3>3, <4>1
    <3> QED
      BY <3>1, <3>2, <3>3
  <2>2. ASSUME NEW x \in own PROVE x \in LinesOf(S \cup {k})
    <3>1. /\ x = <<k, x[2]>> /\ x[1] = k /\ x[2] \in rows
      OBVIOUS
    <3>2. x[2] \in 0 .. MAX_ELF_FILE_LENGTH /\ x[2] < SizeIn(k)
      BY <1>1, <3>1, SizeAssumption
    <3> QED
      BY <3>1, <3>2 DEF LinesOf
  <2>3. LinesOf(S) \subseteq LinesOf(S \cup {k})
    BY DEF LinesOf
  <2> QED
    BY <2>1, <2>2, <2>3
<1>3. LinesOf(S) \cap own = {}
  BY DEF LinesOf
<1>4. IsFiniteSet(own) /\ Cardinality(own) = n
  <2>1. IsFiniteSet(rows) /\ Cardinality(rows) = n
    <3>1. n \in Nat
      BY EntriesHaveSizes
    <3> HIDE DEF n
    <3>2. IsFiniteSet(0 .. n - 1) /\ Cardinality(0 .. n - 1) = IF 0 > n - 1 THEN 0 ELSE n - 1 - 0 + 1
      BY <3>1, FS_Interval
    <3> QED
      BY <3>1, <3>2
  <2>2. IsFiniteSet({k}) /\ Cardinality({k}) = 1
    BY FS_Singleton
  <2>3. IsFiniteSet(own) /\ Cardinality(own) = 1 * n
    <3> HIDE DEF rows, n
    <3> QED
      BY <2>1, <2>2, FS_Product
  <2> QED
    BY <1>1, <2>3
<1>5. IsFiniteSet(LinesOf(S)) /\ Cardinality(LinesOf(S)) \in Nat
  BY LinesAreCounted
<1> HIDE DEF own, n
<1>6. Cardinality(LinesOf(S) \cup own) = Cardinality(LinesOf(S)) + n - Cardinality(LinesOf(S) \cap own)
  BY <1>4, <1>5, FS_Union
<1>7. Cardinality(LinesOf(S) \cap own) = 0
  BY <1>3, FS_EmptySet
<1>8. Cardinality(LinesOf(S) \cup own) = Cardinality(LinesOf(S)) + n
  BY <1>1, <1>5, <1>6, <1>7 DEF n
<1> QED
  BY <1>2, <1>8 DEF n

\* The lines of a section are a number, and none if it has no entries.
LEMMA Counts ==
    ASSUME TypeOK, InputsSound, NEW s
    PROVE  /\ EntriesIn(s) \subseteq DOMAIN smap_table
           /\ Count(s) = Cardinality(LinesOf(EntriesIn(s)))
           /\ Count(s) \in Nat
           /\ \A k \in EntriesIn(s) : SizeIn(k) <= Count(s)
           /\ EntriesIn(s) = {} => Count(s) = 0
<1>1. EntriesIn(s) \subseteq DOMAIN smap_table
  BY DEF EntriesIn
<1>2. Count(s) = Cardinality(LinesOf(EntriesIn(s)))
  BY DEF Count, LinesOf, SizeIn
<1>3. Count(s) \in Nat
  BY <1>1, <1>2, LinesAreCounted
<1>4. ASSUME NEW k \in EntriesIn(s) PROVE SizeIn(k) <= Count(s)
  <2>1. k \in DOMAIN smap_table /\ {k} \in SUBSET EntriesIn(s)
    BY <1>1
  <2>2. Cardinality(LinesOf({} \cup {k})) = Cardinality(LinesOf({})) + SizeIn(k)
    BY <2>1, LinesOfOneMore
  <2>3. Cardinality(LinesOf({k})) <= Count(s) /\ Cardinality(LinesOf({k})) \in Nat
    BY <1>1, <1>2, <2>1, LinesAreCounted
  <2>4. LinesOf({}) = {}
    BY DEF LinesOf
  <2>5. Cardinality(LinesOf({})) = 0
    BY <2>4, FS_EmptySet
  <2>6. {} \cup {k} = {k}
    OBVIOUS
  <2>7. SizeIn(k) \in Nat
    BY <2>1, EntriesHaveSizes
  <2> HIDE DEF LinesOf
  <2>8. Cardinality(LinesOf({k})) = 0 + SizeIn(k)
    BY <2>2, <2>5, <2>6
  <2> QED
    BY <1>3, <2>3, <2>7, <2>8
<1>5. ASSUME EntriesIn(s) = {} PROVE Count(s) = 0
  <2>1. LinesOf({}) = {}
    BY DEF LinesOf
  <2> QED
    BY <1>2, <1>5, <2>1, FS_EmptySet
<1> QED
  BY <1>1, <1>2, <1>3, <1>4, <1>5

\* The counts change with the map only.
LEMMA SameCounts ==
    ASSUME UNCHANGED <<symt, smap_table, src_sht, place>>
    PROVE  /\ \A s : EntriesIn(s)' = EntriesIn(s) /\ Count(s)' = Count(s)
           /\ \A s : Start(s)' = Start(s)
           /\ Headers' = Headers /\ line_count' = line_count
           /\ \A S : LinesOf(S)' = LinesOf(S)
           /\ \A m : HasSource(m)' = HasSource(m)
           /\ \A m, t : src_index(m, t)' = src_index(m, t)
           /\ Ordinary' = Ordinary
<1>1. ASSUME NEW s PROVE EntriesIn(s)' = EntriesIn(s)
  BY DEF EntriesIn
<1>2. ASSUME NEW s PROVE Count(s)' = Count(s)
  BY <1>1 DEF Count
<1>3. /\ Count(".text")' = Count(".text") /\ Count(".data")' = Count(".data")
      /\ Count(".rodata")' = Count(".rodata")
  BY <1>2
<1>4. ASSUME NEW s PROVE Start(s)' = Start(s)
  BY <1>3 DEF Start
<1>5. sht_count' = sht_count
  BY <1>3 DEF sht_count, Has
<1>6. Headers' = Headers /\ line_count' = line_count
  BY <1>3, <1>5 DEF Headers, HeaderIf, line_count, RodataAddr, DataAddr
<1>7. ASSUME NEW S PROVE LinesOf(S)' = LinesOf(S)
  BY DEF LinesOf, SizeIn
<1>8. ASSUME NEW m PROVE SourceHeaders(m)' = SourceHeaders(m) /\ HasSource(m)' = HasSource(m)
  BY DEF SourceHeaders, HasSource
<1>9. ASSUME NEW m, NEW t PROVE src_index(m, t)' = src_index(m, t)
  <2>1. SourceHeaders(m)' = SourceHeaders(m)
    BY <1>8
  <2> QED
    BY <2>1 DEF src_index
<1>10. Ordinary' = Ordinary
  <2>1. EntriesIn(".text")' = EntriesIn(".text") /\ EntriesIn(".data")' = EntriesIn(".data")
        /\ EntriesIn(".symtab")' = EntriesIn(".symtab")
    BY <1>1
  <2> QED
    BY <1>3, <1>8, <2>1 DEF Ordinary
<1> QED
  BY <1>1, <1>2, <1>4, <1>6, <1>7, <1>8, <1>9, <1>10

Joined(a, b, c, d) == a \o b \o c \o d

\* Sequence x has the elements of a from position n + 1 on.
HasFrom(x, n, a) == \A i \in 1 .. Len(a) : x[n + i] = a[i]

\* Four sequences that follow one another, each where the one before ends.
LEMMA FourInARow ==
    ASSUME NEW S, NEW a \in Seq(S), NEW b \in Seq(S), NEW c \in Seq(S), NEW d \in Seq(S)
    PROVE  /\ Joined(a, b, c, d) \in Seq(S)
           /\ Len(Joined(a, b, c, d)) = Len(a) + Len(b) + Len(c) + Len(d)
           /\ HasFrom(Joined(a, b, c, d), 0, a)
           /\ HasFrom(Joined(a, b, c, d), Len(a), b)
           /\ HasFrom(Joined(a, b, c, d), Len(a) + Len(b), c)
           /\ HasFrom(Joined(a, b, c, d), Len(a) + Len(b) + Len(c), d)
<1>1. ASSUME NEW p \in Seq(S), NEW q \in Seq(S)
      PROVE  /\ p \o q \in Seq(S) /\ Len(p \o q) = Len(p) + Len(q) /\ Len(p) \in Nat
             /\ \A i \in 1 .. Len(p) : (p \o q)[i] = p[i]
             /\ \A i \in 1 .. Len(q) : (p \o q)[Len(p) + i] = q[i]
  OBVIOUS
<1> DEFINE ab == a \o b
           abc == ab \o c
<1>2. /\ ab \in Seq(S) /\ Len(ab) = Len(a) + Len(b) /\ Len(a) \in Nat /\ Len(b) \in Nat
      /\ \A i \in 1 .. Len(a) : ab[i] = a[i]
      /\ \A i \in 1 .. Len(b) : ab[Len(a) + i] = b[i]
  BY <1>1
<1> HIDE DEF ab
<1>3. /\ abc \in Seq(S) /\ Len(abc) = Len(ab) + Len(c) /\ Len(c) \in Nat /\ Len(d) \in Nat
      /\ \A i \in 1 .. Len(ab) : abc[i] = ab[i]
      /\ \A i \in 1 .. Len(c) : abc[Len(ab) + i] = c[i]
  BY <1>1, <1>2
<1> HIDE DEF abc
<1>4. /\ abc \o d \in Seq(S) /\ Len(abc \o d) = Len(abc) + Len(d)
      /\ \A i \in 1 .. Len(abc) : (abc \o d)[i] = abc[i]
      /\ \A i \in 1 .. Len(d) : (abc \o d)[Len(abc) + i] = d[i]
  BY <1>1, <1>3
<1>5. abc \o d \in Seq(S) /\ Len(abc \o d) = Len(a) + Len(b) + Len(c) + Len(d)
  BY <1>2, <1>3, <1>4
<1>6. \A i \in 1 .. Len(a) : (abc \o d)[i] = a[i]
  BY <1>2, <1>3, <1>4
<1>7. \A i \in 1 .. Len(b) : (abc \o d)[Len(a) + i] = b[i]
  BY <1>2, <1>3, <1>4
<1>8. \A i \in 1 .. Len(c) : (abc \o d)[Len(a) + Len(b) + i] = c[i]
  BY <1>2, <1>3, <1>4
<1>9. \A i \in 1 .. Len(d) : (abc \o d)[Len(a) + Len(b) + Len(c) + i] = d[i]
  BY <1>2, <1>3, <1>4
<1> QED
  BY <1>5, <1>6, <1>7, <1>8, <1>9 DEF abc, ab, Joined, HasFrom

\* The headers of the sections that are not empty, and of .symtab.
LEMMA HeadersInOrder ==
    ASSUME TypeOK, InputsSound
    PROVE  LET t == Has(".text")
               r == Has(".rodata")
               d == Has(".data")
               text   == 2 + sht_count
               rodata == text + Count(".text")
               data   == rodata + Count(".rodata")
           IN  /\ Headers \in Seq(Header) /\ Len(Headers) = t + r + d + 1
               /\ t = 1 => Headers[1] = [sh_name |-> ".text", sh_addr |-> 0, sh_offset |-> text,
                                         sh_size |-> Count(".text")]
               /\ d = 1 => Headers[t + r + 1] =
                            [sh_name |-> ".data", sh_addr |-> DataAddr, sh_offset |-> data,
                             sh_size |-> Count(".data")]
               /\ Headers[t + r + d + 1] =
                    [sh_name |-> ".symtab", sh_addr |-> 0, sh_offset |-> data + Count(".data"),
                     sh_size |-> Len(smap_table)]
<1> DEFINE text   == 2 + sht_count
           rodata == text + Count(".text")
           data   == rodata + Count(".rodata")
           H1 == HeaderIf(Count(".text"), ".text", 0, text)
           H2 == HeaderIf(Count(".rodata"), ".data", RodataAddr, rodata)
           H3 == HeaderIf(Count(".data"), ".data", DataAddr, data)
           last == [sh_name |-> ".symtab", sh_addr |-> 0, sh_offset |-> data + Count(".data"),
                    sh_size |-> Len(smap_table)]
<1>1. /\ Count(".text") \in Nat /\ Count(".rodata") \in Nat /\ Count(".data") \in Nat
      /\ Len(smap_table) \in Nat
  BY Counts, MapIsFunction
<1>2. RodataAddr \in Nat /\ DataAddr \in Nat
  BY <1>1, SizeAssumption DEF RodataAddr, DataAddr
<1>3. text \in Nat /\ rodata \in Nat /\ data \in Nat /\ data + Count(".data") \in Nat
  BY <1>1 DEF sht_count, Has
<1>4. Headers = H1 \o H2 \o H3 \o <<last>>
  BY DEF Headers
<1> HIDE DEF text, rodata, data
<1>5. ASSUME NEW s, NEW name \in {".text", ".data"}, NEW addr \in Nat, NEW off \in Nat,
             Count(s) \in Nat
      PROVE  LET H == HeaderIf(Count(s), name, addr, off)
             IN  /\ H \in Seq(Header) /\ Len(H) = Has(s)
                 /\ Has(s) = 1 => H[1] = [sh_name |-> name, sh_addr |-> addr, sh_offset |-> off,
                                          sh_size |-> Count(s)]
  <2> DEFINE n == Count(s)
             header == [sh_name |-> name, sh_addr |-> addr, sh_offset |-> off, sh_size |-> n]
  <2>1. header \in Header
    BY <1>5 DEF Header, Section
  <2>2. HeaderIf(n, name, addr, off) = IF n > 0 THEN <<header>> ELSE <<>>
    BY DEF HeaderIf
  <2>3. Has(s) = IF n > 0 THEN 1 ELSE 0
    BY DEF Has
  <2> HIDE DEF header, n
  <2>4. <<header>> \in Seq(Header) /\ Len(<<header>>) = 1 /\ <<header>>[1] = header
    BY <2>1
  <2>5. HeaderIf(n, name, addr, off) \in Seq(Header) /\ Len(HeaderIf(n, name, addr, off)) = Has(s)
        /\ (Has(s) = 1 => HeaderIf(n, name, addr, off)[1] = header)
    BY <2>2, <2>3, <2>4
  <2> QED
    BY <2>5 DEF header, n
<1>6. /\ H1 \in Seq(Header) /\ Len(H1) = Has(".text")
      /\ Has(".text") = 1 => H1[1] = [sh_name |-> ".text", sh_addr |-> 0, sh_offset |-> text,
                                      sh_size |-> Count(".text")]
  BY <1>1, <1>3, <1>5
<1>7. H2 \in Seq(Header) /\ Len(H2) = Has(".rodata")
  BY <1>1, <1>2, <1>3, <1>5
<1>8. /\ H3 \in Seq(Header) /\ Len(H3) = Has(".data")
      /\ Has(".data") = 1 => H3[1] = [sh_name |-> ".data", sh_addr |-> DataAddr, sh_offset |-> data,
                                      sh_size |-> Count(".data")]
  BY <1>1, <1>2, <1>3, <1>5
<1>9. <<last>> \in Seq(Header) /\ Len(<<last>>) = 1 /\ <<last>>[1] = last
  <2>1. last \in Header
    BY <1>1, <1>3 DEF Header
  <2> HIDE DEF last
  <2> QED
    BY <2>1
<1>10. Has(".text") \in 0 .. 1 /\ Has(".rodata") \in 0 .. 1 /\ Has(".data") \in 0 .. 1
  BY DEF Has
<1> HIDE DEF H1, H2, H3, last
<1>11. /\ Headers \in Seq(Header) /\ Len(Headers) = Len(H1) + Len(H2) + Len(H3) + 1
       /\ \A i \in 1 .. Len(H1) : Headers[i] = H1[i]
       /\ \A i \in 1 .. Len(H3) : Headers[Len(H1) + Len(H2) + i] = H3[i]
       /\ Headers[Len(H1) + Len(H2) + Len(H3) + 1] = last
  <2> DEFINE H4 == <<last>>
  <2>1. H4 \in Seq(Header) /\ Len(H4) = 1 /\ H4[1] = last /\ 1 \in 1 .. Len(H4)
    BY <1>9
  <2> HIDE DEF H4
  <2>2. H1 \in Seq(Header) /\ H2 \in Seq(Header) /\ H3 \in Seq(Header) /\ H4 \in Seq(Header)
    BY <1>6, <1>7, <1>8, <2>1
  <2>3. Headers = Joined(H1, H2, H3, H4)
    BY <1>4 DEF H4, Joined
  <2>4. Headers \in Seq(Header)
    BY <2>2, <2>3, FourInARow
  <2>5. Len(Headers) = Len(H1) + Len(H2) + Len(H3) + Len(H4)
    BY <2>2, <2>3, FourInARow
  <2>6. HasFrom(Headers, 0, H1)
    BY <2>2, <2>3, FourInARow
  <2>7. HasFrom(Headers, Len(H1) + Len(H2), H3)
    BY <2>2, <2>3, FourInARow
  <2>8. HasFrom(Headers, Len(H1) + Len(H2) + Len(H3), H4)
    BY <2>2, <2>3, FourInARow
  <2> QED
    BY <2>1, <2>4, <2>5, <2>6, <2>7, <2>8 DEF HasFrom
<1>12. /\ Has(".text") = 1 => Headers[1] = H1[1]
       /\ Has(".data") = 1 => Headers[Has(".text") + Has(".rodata") + 1] = H3[1]
  BY <1>6, <1>7, <1>8, <1>10, <1>11
<1> QED
  BY <1>6, <1>7, <1>8, <1>11, <1>12 DEF last, text, rodata, data

\* In an ordinary program the sections follow one another, and none is empty.
LEMMA PlainHeaders ==
    ASSUME TypeOK, InputsSound, Ordinary
    PROVE  /\ Len(Headers) = sht_count /\ DOMAIN Headers = 1 .. sht_count /\ sht_count \in 1 .. 3
           /\ \A h \in DOMAIN Headers :
                /\ Headers[h].sh_name \in {".text", ".data", ".symtab"}
                /\ Headers[h].sh_offset = 2 + sht_count + Start(Headers[h].sh_name)
                /\ Headers[h].sh_name # ".symtab" =>
                    Headers[h].sh_size = Count(Headers[h].sh_name) /\ Count(Headers[h].sh_name) > 0
                /\ h + 1 \in DOMAIN Headers =>
                    Start(Headers[h + 1].sh_name)
                        = Start(Headers[h].sh_name) + Count(Headers[h].sh_name)
           /\ \A g, h \in DOMAIN Headers : Headers[g].sh_name = Headers[h].sh_name => g = h
           /\ \A s \in {".text", ".data"} :
                Count(s) > 0 => \E h \in DOMAIN Headers : Headers[h].sh_name = s
           /\ Start(Headers[1].sh_name) = 0
           /\ Headers[sht_count].sh_name = ".symtab"
<1> DEFINE T == Count(".text")
           D == Count(".data")
           off == 2 + sht_count
           text == [sh_name |-> ".text", sh_addr |-> 0, sh_offset |-> off, sh_size |-> T]
           data == [sh_name |-> ".data", sh_addr |-> DataAddr, sh_offset |-> off + T + 0, sh_size |-> D]
           symtab == [sh_name |-> ".symtab", sh_addr |-> 0, sh_offset |-> off + T + 0 + D,
                      sh_size |-> Len(smap_table)]
<1>1. T \in Nat /\ D \in Nat /\ Count(".rodata") = 0
  BY Counts DEF Ordinary
<1>2. /\ Has(".text") = IF T > 0 THEN 1 ELSE 0
      /\ Has(".data") = IF D > 0 THEN 1 ELSE 0
      /\ Has(".rodata") = 0
      /\ sht_count = 1 + Has(".text") + Has(".data")
  BY <1>1 DEF sht_count, Has
<1>3. /\ Headers \in Seq(Header) /\ Len(Headers) = Has(".text") + Has(".rodata") + Has(".data") + 1
      /\ Has(".text") = 1 => Headers[1] = text
      /\ Has(".data") = 1 => Headers[Has(".text") + Has(".rodata") + 1] = data
      /\ Headers[Has(".text") + Has(".rodata") + Has(".data") + 1] = symtab
  BY <1>1, HeadersInOrder
<1>4. /\ Start(".text") = 0 /\ Start(".data") = T /\ Start(".symtab") = T + D
  BY DEF Start
<1>5. DOMAIN Headers = 1 .. Len(Headers)
  BY <1>3
<1> HIDE DEF T, D, off, text, data, symtab
<1>6. CASE T > 0 /\ D > 0
  <2>1. /\ DOMAIN Headers = 1 .. 3 /\ Len(Headers) = 3 /\ sht_count = 3
        /\ Headers[1] = text /\ Headers[2] = data /\ Headers[3] = symtab
    BY <1>2, <1>3, <1>5, <1>6
  <2> QED
    BY <1>1, <1>4, <1>6, <2>1 DEF T, D, off, text, data, symtab
<1>7. CASE T > 0 /\ ~(D > 0)
  <2>1. /\ DOMAIN Headers = 1 .. 2 /\ Len(Headers) = 2 /\ sht_count = 2
        /\ Headers[1] = text /\ Headers[2] = symtab
    BY <1>2, <1>3, <1>5, <1>7
  <2> QED
    BY <1>1, <1>4, <1>7, <2>1 DEF T, D, off, text, data, symtab
<1>8. CASE ~(T > 0) /\ D > 0
  <2>1. /\ DOMAIN Headers = 1 .. 2 /\ Len(Headers) = 2 /\ sht_count = 2
        /\ Headers[1] = data /\ Headers[2] = symtab
    BY <1>2, <1>3, <1>5, <1>8
  <2> QED
    BY <1>1, <1>4, <1>8, <2>1 DEF T, D, off, text, data, symtab
<1>9. CASE ~(T > 0) /\ ~(D > 0)
  <2>1. DOMAIN Headers = 1 .. 1 /\ Len(Headers) = 1 /\ sht_count = 1 /\ Headers[1] = symtab
    BY <1>2, <1>3, <1>5, <1>9
  <2> QED
    BY <1>1, <1>4, <1>9, <2>1 DEF T, D, off, text, data, symtab
<1> QED
  BY <1>6, <1>7, <1>8, <1>9

-----------------------------------------------------------------------------
(* What the steps do to the output *)

Line == [sym : DOMAIN symt, row : Nat, line : Nat, patch : Seq(Int)]

\* What the types say, part by part.
LEMMA SettingTypes ==
    ASSUME Setting
    PROVE  /\ TypeOK /\ InputsSound /\ Accounting /\ Stages
           /\ buffer \in Seq(Line) /\ Len(buffer) \in Nat /\ DOMAIN buffer = 1 .. Len(buffer)
           /\ dst_symt \in Seq([src : DOMAIN symt, st_value : Nat])
           /\ Len(dst_symt) \in Nat /\ DOMAIN dst_symt = 1 .. Len(dst_symt)
           /\ \A d \in DOMAIN dst_symt : dst_symt[d].src \in DOMAIN symt /\ dst_symt[d].st_value \in Nat
           /\ offset \in Nat
           /\ sht \in Seq(Header) /\ Len(sht) \in Nat /\ DOMAIN sht = 1 .. Len(sht)
           /\ section \in 1 .. Len(sht) + 1
           /\ pos \in 1 .. Len(symt) + 1
           /\ relocated \in 0 .. Len(rel)
           /\ stray \subseteq DOMAIN smap_table
           /\ rel \in Seq(Relocation) /\ Len(rel) \in Nat /\ DOMAIN rel = 1 .. Len(rel)
           /\ \A j \in DOMAIN rel : rel[j] \in Relocation
<1>1. TypeOK /\ InputsSound /\ Accounting /\ Stages
  BY DEF Setting, Accounting, Resolution
<1>2. LinkTypeOK
  BY DEF Setting
<1>3. ASSUME NEW S, NEW q \in Seq(S)
      PROVE  Len(q) \in Nat /\ DOMAIN q = 1 .. Len(q) /\ \A i \in DOMAIN q : q[i] \in S
  BY <1>3
<1>4. /\ buffer \in Seq(Line) /\ dst_symt \in Seq([src : DOMAIN symt, st_value : Nat])
      /\ sht \in Seq(Header) /\ rel \in Seq(Relocation)
  BY <1>2 DEF LinkTypeOK, Line
<1>5. \A d \in DOMAIN dst_symt : dst_symt[d].src \in DOMAIN symt /\ dst_symt[d].st_value \in Nat
  <2> DEFINE Output == [src : DOMAIN symt, st_value : Nat]
  <2>1. dst_symt \in Seq(Output)
    BY <1>4
  <2> HIDE DEF Output
  <2>2. \A d \in DOMAIN dst_symt : dst_symt[d] \in Output
    BY <1>3, <2>1
  <2> QED
    BY <2>2 DEF Output
<1>6. /\ offset \in Nat /\ section \in 1 .. Len(sht) + 1
      /\ pos \in 1 .. Len(symt) + 1 /\ relocated \in 0 .. Len(rel)
      /\ stray \subseteq DOMAIN smap_table
  BY <1>2 DEF LinkTypeOK
<1>7. Len(buffer) \in Nat /\ DOMAIN buffer = 1 .. Len(buffer)
  BY <1>3, <1>4
<1>8. Len(dst_symt) \in Nat /\ DOMAIN dst_symt = 1 .. Len(dst_symt)
  BY <1>3, <1>4
<1>9. Len(sht) \in Nat /\ DOMAIN sht = 1 .. Len(sht)
  BY <1>3, <1>4
<1>10. Len(rel) \in Nat /\ DOMAIN rel = 1 .. Len(rel) /\ \A j \in DOMAIN rel : rel[j] \in Relocation
  BY <1>3, <1>4
<1> QED
  BY <1>1, <1>4, <1>5, <1>6, <1>7, <1>8, <1>9, <1>10

\* The symbol at hand is merged as entry k.
Merges(k) ==
    /\ buffer' = buffer \o Copied(pos)
    /\ dst_symt' = Append(dst_symt, [src |-> pos, st_value |-> ValueInSection(pos)])
    /\ dst' = [dst EXCEPT ![k] = Len(dst_symt) + 1]
    /\ offset' = offset + place[pos].st_size
    /\ pos' = pos + 1

\* What merging a symbol writes, and that it stays of its type.
LEMMA MergeShape ==
    ASSUME Setting, Merging, pos <= Len(symt), NEW k \in DOMAIN smap_table, Belongs(k), Merges(k)
    PROVE  /\ buffer' \in Seq(Line) /\ Len(buffer') = Len(buffer) + SizeIn(k)
           /\ \A i \in DOMAIN buffer : i \in DOMAIN buffer' /\ buffer'[i] = buffer[i]
           /\ \A r \in 0 .. SizeIn(k) - 1 :
                /\ Len(buffer) + 1 + r \in DOMAIN buffer'
                /\ buffer'[Len(buffer) + 1 + r] =
                    [sym |-> pos, row |-> r, line |-> src_index(pos, r), patch |-> Unpatched]
           /\ \A i \in DOMAIN buffer' :
                i \in DOMAIN buffer \/ \E r \in 0 .. SizeIn(k) - 1 : i = Len(buffer) + 1 + r
           /\ dst_symt' \in Seq([src : DOMAIN symt, st_value : Nat])
           /\ Len(dst_symt') = Len(dst_symt) + 1
           /\ \A d \in 1 .. Len(dst_symt) : dst_symt'[d] = dst_symt[d]
           /\ dst_symt'[Len(dst_symt) + 1] = [src |-> pos, st_value |-> offset]
           /\ dst' \in [DOMAIN smap_table -> 0 .. Len(dst_symt) + 1]
           /\ dst'[k] = Len(dst_symt) + 1
           /\ \A h \in DOMAIN smap_table : h # k => dst'[h] = dst[h]
           /\ offset' = offset + SizeIn(k) /\ pos \in DOMAIN symt
<1>1. /\ buffer \in Seq(Line) /\ dst_symt \in Seq([src : DOMAIN symt, st_value : Nat])
      /\ offset \in Nat /\ TypeOK /\ InputsSound
      /\ dst \in [DOMAIN smap_table -> 0 .. Len(dst_symt)]
      /\ Len(dst_symt) \in Nat /\ Len(buffer) \in Nat /\ DOMAIN buffer = 1 .. Len(buffer)
  BY SettingTypes DEF Merging, Setting, Stages
<1>2. smap_table[k] = pos /\ pos \in DOMAIN symt /\ SizeIn(k) = place[pos].st_size /\ SizeIn(k) \in Nat
  BY <1>1, EntriesHaveSizes DEF Belongs, SizeIn
<1> DEFINE n == SizeIn(k)
           new == Copied(pos)
           LineFor(r) == [sym |-> pos, row |-> r, line |-> src_index(pos, r), patch |-> Unpatched]
<1>3. /\ new \in Seq(Line) /\ Len(new) = n
      /\ \A t \in 1 .. n : new[t] = LineFor(t - 1)
  <2>1. \A t \in 1 .. n : LineFor(t - 1) \in Line
    <3> SUFFICES ASSUME NEW t \in 1 .. n PROVE LineFor(t - 1) \in Line
      OBVIOUS
    <3>1. t - 1 \in Nat /\ HasSource(pos)
      BY <1>2 DEF Belongs
    <3>2. src_index(pos, t - 1) \in Nat
      BY <1>1, <1>2, <3>1, SourceIndexIsNumber
    <3> QED
      BY <1>2, <3>1, <3>2 DEF Line, Unpatched
  <2>2. new = [t \in 1 .. n |-> LineFor(t - 1)]
    BY <1>2 DEF Copied
  <2> HIDE DEF n, new, LineFor
  <2> QED
    BY <1>2, <2>1, <2>2 DEF n
<1> HIDE DEF n, new, LineFor
<1>4. /\ buffer' \in Seq(Line) /\ Len(buffer') = Len(buffer) + n
      /\ DOMAIN buffer' = 1 .. Len(buffer) + n
      /\ \A i \in 1 .. Len(buffer) : buffer'[i] = buffer[i]
      /\ \A t \in 1 .. n : buffer'[Len(buffer) + t] = new[t]
  <2>1. buffer' = buffer \o new
    BY DEF Merges, new
  <2>2. n \in Nat /\ buffer \in Seq(Line) /\ new \in Seq(Line) /\ Len(new) = n
    BY <1>1, <1>2, <1>3 DEF n
  <2> QED
    BY <2>1, <2>2
<1>5. \A r \in 0 .. n - 1 :
        /\ Len(buffer) + 1 + r \in DOMAIN buffer'
        /\ buffer'[Len(buffer) + 1 + r] = LineFor(r)
  <2> SUFFICES ASSUME NEW r \in 0 .. n - 1
               PROVE  /\ Len(buffer) + 1 + r \in DOMAIN buffer'
                      /\ buffer'[Len(buffer) + 1 + r] = LineFor(r)
    OBVIOUS
  <2>1. r + 1 \in 1 .. n /\ (r + 1) - 1 = r /\ Len(buffer) + (r + 1) = Len(buffer) + 1 + r
    BY <1>1, <1>2 DEF n
  <2>2. buffer'[Len(buffer) + (r + 1)] = LineFor((r + 1) - 1)
    BY <1>3, <1>4, <2>1
  <2> QED
    BY <1>1, <1>2, <1>4, <2>1, <2>2 DEF n
<1>6. \A i \in DOMAIN buffer' :
        i \in DOMAIN buffer \/ \E r \in 0 .. n - 1 : i = Len(buffer) + 1 + r
  <2> SUFFICES ASSUME NEW i \in DOMAIN buffer', i \notin DOMAIN buffer
               PROVE  \E r \in 0 .. n - 1 : i = Len(buffer) + 1 + r
    OBVIOUS
  <2>1. i - Len(buffer) - 1 \in 0 .. n - 1 /\ i = Len(buffer) + 1 + (i - Len(buffer) - 1)
    BY <1>1, <1>2, <1>4 DEF n
  <2> QED
    BY <2>1
<1>7. \A i \in DOMAIN buffer : i \in DOMAIN buffer' /\ buffer'[i] = buffer[i]
  BY <1>1, <1>2, <1>4 DEF n
<1>8. /\ dst_symt' \in Seq([src : DOMAIN symt, st_value : Nat])
      /\ Len(dst_symt') = Len(dst_symt) + 1
      /\ \A d \in 1 .. Len(dst_symt) : dst_symt'[d] = dst_symt[d]
      /\ dst_symt'[Len(dst_symt) + 1] = [src |-> pos, st_value |-> offset]
  <2> DEFINE d == [src |-> pos, st_value |-> offset]
  <2>1. d \in [src : DOMAIN symt, st_value : Nat] /\ dst_symt' = Append(dst_symt, d)
    BY <1>1, <1>2 DEF Merges, ValueInSection
  <2> HIDE DEF d
  <2>2. /\ dst_symt' \in Seq([src : DOMAIN symt, st_value : Nat])
        /\ Len(dst_symt') = Len(dst_symt) + 1
        /\ \A i \in 1 .. Len(dst_symt) : dst_symt'[i] = dst_symt[i]
        /\ dst_symt'[Len(dst_symt) + 1] = d
    BY <1>1, <2>1
  <2> QED
    BY <2>2 DEF d
<1>9. /\ dst' \in [DOMAIN smap_table -> 0 .. Len(dst_symt) + 1]
      /\ dst'[k] = Len(dst_symt) + 1
      /\ \A h \in DOMAIN smap_table : h # k => dst'[h] = dst[h]
  BY <1>1 DEF Merges
<1>10. offset' = offset + n
  BY <1>2 DEF Merges, n
<1> QED
  BY <1>2, <1>4, <1>5, <1>6, <1>7, <1>8, <1>9, <1>10 DEF n, LineFor

\* What relocation writes into a line stays of its type.
LEMMA PatchShape ==
    ASSUME Setting, NEW r, NEW row, NEW d, Patch(r, row, d), Relocated(r, row, d) \in Int
    PROVE  LET x == (SectionOffset(r) + row) - 1 - Len(sht)
           IN  /\ buffer' \in Seq(Line) /\ Len(buffer') = Len(buffer) /\ DOMAIN buffer' = DOMAIN buffer
               /\ \A i \in DOMAIN buffer :
                    /\ buffer'[i].sym = buffer[i].sym /\ buffer'[i].row = buffer[i].row
                    /\ buffer'[i].line = buffer[i].line
                    /\ i # x => buffer'[i] = buffer[i]
                    /\ i = x => buffer'[i].patch = <<Relocated(r, row, d)>>
<1> DEFINE x == (SectionOffset(r) + row) - 1 - Len(sht)
           v == <<Relocated(r, row, d)>>
<1>1. buffer \in Seq(Line) /\ DOMAIN buffer = 1 .. Len(buffer) /\ Len(buffer) \in Nat
  BY SettingTypes
<1>2. buffer' = IF x \in DOMAIN buffer THEN [buffer EXCEPT ![x].patch = v] ELSE buffer
  BY Zenon DEF Patch
<1>3. v \in Seq(Int)
  BY DEF v
<1> HIDE DEF x, v
<1>4. /\ DOMAIN buffer' = DOMAIN buffer
      /\ \A i \in DOMAIN buffer :
            buffer'[i] = IF i = x THEN [buffer[i] EXCEPT !.patch = v] ELSE buffer[i]
  BY <1>2
<1>5. ASSUME NEW i \in DOMAIN buffer
      PROVE  /\ buffer'[i] \in Line /\ buffer'[i].sym = buffer[i].sym /\ buffer'[i].row = buffer[i].row
             /\ buffer'[i].line = buffer[i].line
             /\ i = x => buffer'[i].patch = v
  <2>1. buffer[i] \in Line
    BY <1>1
  <2> QED
    BY <1>3, <1>4, <2>1 DEF Line
<1>6. buffer' = [i \in 1 .. Len(buffer) |-> buffer'[i]]
  <2>1. CASE x \in DOMAIN buffer
    BY <1>1, <1>2, <2>1
  <2>2. CASE x \notin DOMAIN buffer
    BY <1>1, <1>2, <2>2
  <2> QED
    BY <2>1, <2>2
<1>7. buffer' \in Seq(Line) /\ Len(buffer') = Len(buffer)
  BY <1>1, <1>4, <1>5, <1>6
<1> QED
  BY <1>4, <1>5, <1>7 DEF x, v

\* The output symbol of an entry is one that was written.
LEMMA OutputSymbols ==
    ASSUME Setting, phase # "resolving", NEW u \in DOMAIN smap_table, dst[u] # 0
    PROVE  /\ dst[u] \in DOMAIN dst_symt
           /\ dst_symt[dst[u]].src \in DOMAIN symt /\ dst_symt[dst[u]].st_value \in Nat
  BY SettingTypes DEF Setting, Stages

\* Addresses are numbers.
LEMMA AddressIsNumber ==
    ASSUME Setting, phase # "resolving", NEW u \in DOMAIN smap_table, dst[u] # 0
    PROVE  get_symbol_runtime_address(dst_symt[dst[u]]) \in Int
<1>1. dst_symt[dst[u]].st_value \in Nat
  BY OutputSymbols
<1>2. ASSUME NEW name PROVE SizeOf(name) \in Nat
  <2>1. CASE \E h \in DOMAIN sht : sht[h].sh_name = name
    <3> DEFINE h == CHOOSE h \in DOMAIN sht : sht[h].sh_name = name
    <3>1. h \in DOMAIN sht
      BY <2>1
    <3>2. sht[h] \in Header
      BY <3>1, SettingTypes
    <3> QED
      BY <2>1, <3>2 DEF SizeOf, Header
  <2>2. CASE ~\E h \in DOMAIN sht : sht[h].sh_name = name
    BY <2>2 DEF SizeOf
  <2> QED
    BY <2>1, <2>2
<1>3. rodata_base \in Nat /\ data_base \in Nat
  BY <1>2, SizeAssumption DEF rodata_base, data_base
<1> DEFINE v == dst_symt[dst[u]].st_value
<1>4. v \in Nat
  BY <1>1
<1>5. INST_SIZE * v \in Int /\ rodata_base + (BASE + data_base) * v \in Int
      /\ data_base + DATA_SIZE * v \in Int /\ -1 - BASE \in Int
  <2> HIDE DEF v
  <2> QED
    BY <1>3, <1>4, SizeAssumption
<1> QED
  BY <1>5 DEF get_symbol_runtime_address

\* What relocation writes is a number.
LEMMA TargetIsNumber ==
    ASSUME Setting, phase # "resolving", NEW u \in DOMAIN smap_table, dst[u] # 0,
           NEW r, NEW row \in Int
    PROVE  Relocated(r, row, dst_symt[dst[u]]) \in Int
<1>1. (row + 1) * INST_SIZE \in Int
  BY SizeAssumption
<1> QED
  BY <1>1, AddressIsNumber DEF Relocated

\* The linker begins with the types, the accounts and the stages right.
LEMMA InitSetting == LinkInit => Setting
<1> SUFFICES ASSUME LinkInit PROVE Setting
  OBVIOUS
<1>1. Init
  BY InputAssumption DEF LinkInit, Unlinked, Init
<1>2. Accounting /\ NoneIsLost /\ InputsSound
  BY <1>1, InitAccounting, InitNoneIsLost, InitInputsSound
<1>3. TypeOK
  BY <1>2 DEF Accounting, Resolution
<1>4. /\ phase = "resolving" /\ sht = <<>> /\ section = 1 /\ pos = 1 /\ offset = 0
      /\ buffer = <<>> /\ dst_symt = <<>> /\ dst = <<>> /\ relocated = 0 /\ stray = {}
  BY DEF LinkInit, Unlinked
<1>5. Stages
  BY <1>4 DEF Stages, Merged
<1>6. LinkTypeOK
  BY <1>2, <1>3, <1>4, MapIsFunction DEF LinkTypeOK, Phase, InputsSound
<1> QED
  BY <1>2, <1>5, <1>6 DEF Setting

\* A relocation leaves the output as it is, patches it, or ends the linking.
LEMMA RelocateShape ==
    ASSUME Setting, Relocate
    PROVE  /\ phase = "relocating" /\ relocated' = relocated + 1 /\ relocated < Len(rel)
           /\ UNCHANGED <<vars, placeVars, sht, section, pos, offset, dst_symt, dst>>
           /\ phase' \in {"relocating", "aborted", "undefined"}
           /\ buffer' \in Seq(Line) /\ Len(buffer') = Len(buffer) /\ DOMAIN buffer' = DOMAIN buffer
           /\ \A i \in DOMAIN buffer :
                /\ buffer'[i].sym = buffer[i].sym /\ buffer'[i].row = buffer[i].row
                /\ buffer'[i].line = buffer[i].line
           /\ stray' \subseteq DOMAIN smap_table
<1>1. /\ phase = "relocating" /\ relocated' = relocated + 1 /\ relocated < Len(rel)
      /\ UNCHANGED <<vars, placeVars, sht, section, pos, offset, dst_symt, dst>>
  BY DEF Relocate, Relocating
<1> DEFINE r == rel[relocated + 1]
<1>2. r \in Relocation
  <2>1. relocated + 1 \in DOMAIN rel
    BY <1>1, SettingTypes
  <2> QED
    BY <2>1, SettingTypes
<1> HIDE DEF r
<1>3. CASE UNCHANGED <<buffer, stray>> /\ phase' \in {"relocating", "aborted", "undefined"}
  BY <1>1, <1>3, SettingTypes
<1>4. ASSUME NEW m \in DOMAIN symt, NEW k \in DOMAIN smap_table, NEW u \in DOMAIN smap_table,
             ~MeetsUnset(r, k), Referenced(r, u),
             Patch(r, r.r_row - place[m].st_value + dst_symt[dst[k]].st_value, dst_symt[dst[u]])
      PROVE  /\ buffer' \in Seq(Line) /\ Len(buffer') = Len(buffer) /\ DOMAIN buffer' = DOMAIN buffer
             /\ \A i \in DOMAIN buffer :
                  /\ buffer'[i].sym = buffer[i].sym /\ buffer'[i].row = buffer[i].row
                  /\ buffer'[i].line = buffer[i].line
             /\ stray' \subseteq DOMAIN smap_table
             /\ phase' \in {"relocating", "undefined"}
  <2>1. dst[k] # 0 /\ dst[u] # 0
    BY <1>4 DEF MeetsUnset, Referenced, Named
  <2>2. dst_symt[dst[k]].st_value \in Nat
    BY <1>1, <2>1, OutputSymbols
  <2>3. place[m].st_value \in Nat /\ r.r_row \in Nat
    BY <1>2, SettingTypes DEF InputsSound, Place, Relocation
  <2> DEFINE row == r.r_row - place[m].st_value + dst_symt[dst[k]].st_value
  <2>4. row \in Int
    BY <2>2, <2>3
  <2> HIDE DEF row
  <2>5. Relocated(r, row, dst_symt[dst[u]]) \in Int
    BY <1>1, <2>1, <2>4, TargetIsNumber
  <2>6. Patch(r, row, dst_symt[dst[u]])
    BY <1>4 DEF row
  <2>7. stray' \subseteq DOMAIN smap_table /\ phase' \in {"relocating", "undefined"}
    BY <1>1, <2>6, SettingTypes DEF Patch
  <2> QED
    BY <2>5, <2>6, <2>7, PatchShape
<1>5. PassOver(r) \/ NotInMap(r) \/ FollowUnset(r) \/ Apply(r)
  BY DEF Relocate, r
<1>6. CASE PassOver(r) \/ NotInMap(r) \/ FollowUnset(r)
  BY <1>1, <1>3, <1>6 DEF PassOver, NotInMap, FollowUnset
<1>7. CASE Apply(r)
  <2>1. CASE UNCHANGED <<buffer, stray>> /\ phase' = "aborted"
    BY <1>3, <2>1
  <2>2. PICK m \in DOMAIN symt, k \in DOMAIN smap_table, u \in DOMAIN smap_table :
            /\ ~MeetsUnset(r, k) /\ Referenced(r, u)
            /\ \/ Patch(r, r.r_row - place[m].st_value + dst_symt[dst[k]].st_value, dst_symt[dst[u]])
               \/ UNCHANGED <<buffer, stray>> /\ phase' = "aborted"
    BY <1>7 DEF Apply
  <2>3. CASE Patch(r, r.r_row - place[m].st_value + dst_symt[dst[k]].st_value, dst_symt[dst[u]])
    BY <1>1, <1>4, <2>2, <2>3
  <2> QED
    BY <2>1, <2>2, <2>3
<1> QED
  BY <1>5, <1>6, <1>7

\* No step breaks the types, the accounts or the stages.
LEMMA StepKeepsSetting ==
    ASSUME Setting, [LinkNext]_linkVars
    PROVE  Setting'
<1>1. [Next]_vars
  BY LinkStepResolves
<1>2. Accounting' /\ NoneIsLost' /\ InputsSound' /\ TypeOK'
  BY <1>1, NextKeepsAccounting, NextLosesNone, StepKeepsInputs, SettingTypes
     DEF Setting, Accounting, Resolution
<1> SUFFICES LinkTypeOK' /\ Stages'
  BY <1>2 DEF Setting
<1>3. /\ src_sht' \in Seq(Seq(SourceHeader))
      /\ place' \in [DOMAIN symt' -> Place] /\ rel' \in Seq(Relocation)
  BY <1>2 DEF InputsSound
<1>4. CASE phase = "resolving" /\ UNCHANGED <<placeVars, phase, sht, mergeVars, relocated, stray>>
  <2>1. /\ phase' = "resolving" /\ sht' = <<>> /\ section' = 1 /\ pos' = 1 /\ offset' = 0
        /\ buffer' = <<>> /\ dst_symt' = <<>> /\ dst' = <<>> /\ relocated' = 0 /\ stray' = {}
        /\ rel' = rel
    BY <1>4 DEF Setting, Stages, mergeVars, placeVars
  <2>2. Stages'
    BY <2>1 DEF Stages, Merged
  <2>3. Len(symt') \in Nat /\ Len(rel') \in Nat
    BY <1>2, <2>1, SettingTypes DEF TypeOK
  <2>4. LinkTypeOK'
    BY <1>2, <1>3, <2>1, <2>3 DEF LinkTypeOK, Phase
  <2> QED
    BY <2>2, <2>4
<1>5. CASE compute_section_header
  <2>1. /\ UNCHANGED <<vars, placeVars, section, pos, offset, buffer, dst_symt, relocated, stray>>
        /\ phase = "resolving" /\ status = "resolved" /\ sht' = Headers
        /\ dst' = [k \in DOMAIN smap_table |-> 0] /\ phase' = "merging"
    BY <1>5 DEF compute_section_header
  <2>2. /\ UNCHANGED <<symt, smap_table, src_sht, place, rel, status>>
        /\ section' = 1 /\ buffer' = <<>> /\ dst_symt' = <<>> /\ relocated' = 0 /\ pos' = 1
        /\ offset' = 0 /\ stray' = {}
    BY <2>1 DEF vars, placeVars, Setting, Stages
  <2>3. Headers \in Seq(Header) /\ Headers' = Headers /\ Len(Headers) \in Nat
    BY <2>2, SettingTypes, HeadersInOrder, SameCounts
  <2>4. dst' \in [DOMAIN smap_table -> 0 .. Len(dst_symt')]
    BY <2>1, <2>2
  <2>5. Stages'
    BY <2>1, <2>2, <2>3, <2>4 DEF Stages, Merged
  <2>6. Len(symt') \in Nat /\ Len(rel') \in Nat
    BY <2>2, SettingTypes, MapIsFunction
  <2>7. LinkTypeOK'
    BY <1>2, <1>3, <2>1, <2>2, <2>3, <2>4, <2>6 DEF LinkTypeOK, Phase
  <2> QED
    BY <2>5, <2>7
<1> DEFINE Out == [src : DOMAIN symt, st_value : Nat]
<1>6. ASSUME phase # "resolving", UNCHANGED <<vars, placeVars, sht>>,
             phase' \in Phase \ {"resolving"},
             section' \in 1 .. Len(sht) + 1, pos' \in 1 .. Len(symt) + 1, offset' \in Nat,
             buffer' \in Seq(Line), dst_symt' \in Seq(Out),
             dst' \in [DOMAIN smap_table -> 0 .. Len(dst_symt')],
             relocated' \in 0 .. Len(rel), stray' \subseteq DOMAIN smap_table,
             phase' = "merging" => relocated' = 0 /\ stray' = {},
             Merged' => section' > Len(sht)
      PROVE  LinkTypeOK' /\ Stages'
  <2>1. UNCHANGED <<symt, smap_table, src_sht, place, rel, status, sht>>
    BY <1>6 DEF vars, placeVars
  <2>2. Headers' = Headers /\ sht' = Headers /\ status' = "resolved"
    BY <1>6, <2>1, SameCounts DEF Setting, Stages
  <2>3. Stages'
    BY <1>6, <2>1, <2>2 DEF Stages
  <2>4. LinkTypeOK'
    BY <1>2, <1>3, <1>6, <2>1, SettingTypes DEF LinkTypeOK, Line
  <2> QED
    BY <2>3, <2>4
<1> HIDE DEF Out
<1>7. ASSUME phase # "resolving"
      PROVE  /\ phase \in Phase \ {"resolving"}
             /\ section \in 1 .. Len(sht) + 1 /\ pos \in 1 .. Len(symt) + 1 /\ offset \in Nat
             /\ buffer \in Seq(Line) /\ dst_symt \in Seq(Out)
             /\ dst \in [DOMAIN smap_table -> 0 .. Len(dst_symt)]
             /\ relocated \in 0 .. Len(rel) /\ stray \subseteq DOMAIN smap_table
             /\ (phase = "merging" => relocated = 0 /\ stray = {})
             /\ (Merged => section > Len(sht))
  BY <1>7, SettingTypes DEF Setting, Stages, LinkTypeOK, Out
<1>8. CASE SkipSymbol
  BY <1>6, <1>7, <1>8, SettingTypes, MapIsFunction DEF SkipSymbol, Merging, Merged
<1>9. CASE MergeSymbol
  <2>1. /\ Merging /\ pos <= Len(symt) /\ UNCHANGED <<vars, placeVars, sht, section, relocated, stray>>
        /\ phase = "merging" /\ phase # "resolving"
    BY <1>9 DEF MergeSymbol, Merging
  <2>2. CASE UNCHANGED <<buffer, dst_symt, dst, offset, pos>> /\ phase' = "aborted"
    BY <1>6, <1>7, <2>1, <2>2 DEF Phase, Merged
  <2>3. ASSUME NEW k \in DOMAIN smap_table, Belongs(k), Merges(k), UNCHANGED phase
        PROVE  LinkTypeOK' /\ Stages'
    <3>1. /\ buffer' \in Seq(Line) /\ dst_symt' \in Seq(Out) /\ Len(dst_symt') = Len(dst_symt) + 1
          /\ dst' \in [DOMAIN smap_table -> 0 .. Len(dst_symt) + 1]
          /\ offset' = offset + SizeIn(k)
      BY <2>1, <2>3, MergeShape DEF Out
    <3>2. offset' \in Nat
      BY <3>1, SettingTypes, EntriesHaveSizes
    <3>3. pos' \in 1 .. Len(symt) + 1
      BY <2>1, <2>3, SettingTypes, MapIsFunction DEF Merges
    <3> QED
      BY <1>6, <1>7, <2>1, <2>3, <3>1, <3>2, <3>3 DEF Merged
  <2> QED
    BY <1>9, <2>2, <2>3 DEF MergeSymbol, Merges
<1>10. CASE NextSection
  <2>1. section + 1 \in 1 .. Len(sht) + 1 /\ 1 \in 1 .. Len(symt) + 1
    BY <1>10, SettingTypes, MapIsFunction DEF NextSection, Merging
  <2> QED
    BY <1>6, <1>7, <1>10, <2>1 DEF NextSection, Merging, Merged
<1>11. CASE WriteSymbols
  BY <1>6, <1>7, <1>11 DEF WriteSymbols, mergeVars, Phase, Merged
<1>12. CASE Relocate
  <2>1. relocated + 1 \in 0 .. Len(rel)
    BY <1>12, RelocateShape, SettingTypes
  <2> QED
    BY <1>6, <1>7, <1>12, <2>1, RelocateShape DEF Phase, Merged
<1>13. CASE EndLink
  BY <1>6, <1>7, <1>13 DEF EndLink, mergeVars, Phase, Merged
<1>14. CASE UNCHANGED linkVars
  <2>1. UNCHANGED <<vars, placeVars, phase, sht, mergeVars, relocated, stray>>
    BY <1>14 DEF linkVars
  <2> QED
    BY <1>4, <1>6, <1>7, <2>1 DEF mergeVars, Merged
<1>15. CASE Next /\ UNCHANGED <<placeVars, phase, sht, mergeVars, relocated, stray>>
  BY <1>4, <1>15, NextResolves DEF Setting, Stages
<1> QED
  BY <1>5, <1>8, <1>9, <1>10, <1>11, <1>12, <1>13, <1>14, <1>15 DEF LinkNext

-----------------------------------------------------------------------------
(* The layout of the output *)

\* What is known of the section at hand and of the headers.
LEMMA AtHand ==
    ASSUME Setting, Begun
    PROVE  /\ Len(sht) = sht_count /\ DOMAIN sht = 1 .. Len(sht) /\ Len(sht) \in 1 .. 3
           /\ \A h \in DOMAIN sht :
                /\ sht[h].sh_name \in {".text", ".data", ".symtab"}
                /\ sht[h].sh_offset = 2 + Len(sht) + Start(sht[h].sh_name)
                /\ sht[h].sh_name # ".symtab" =>
                    sht[h].sh_size = Count(sht[h].sh_name) /\ Count(sht[h].sh_name) > 0
                /\ h + 1 \in DOMAIN sht =>
                    Start(sht[h + 1].sh_name) = Start(sht[h].sh_name) + Count(sht[h].sh_name)
           /\ \A g, h \in DOMAIN sht : sht[g].sh_name = sht[h].sh_name => g = h
           /\ \A s \in {".text", ".data"} :
                Count(s) > 0 => \E h \in DOMAIN sht : sht[h].sh_name = s
           /\ Start(sht[1].sh_name) = 0 /\ sht[Len(sht)].sh_name = ".symtab"
           /\ Current \in {".text", ".data", ".symtab"} /\ EntriesIn(".symtab") = {}
           /\ section >= Len(sht) => Current = ".symtab"
           /\ section <= Len(sht) => section \in DOMAIN sht /\ Current = sht[section].sh_name
           /\ Start(Current) \in Nat /\ Count(Current) \in Nat
           /\ Start(Current) + Count(Current) <= Count(".text") + Count(".data")
<1>1. TypeOK /\ InputsSound /\ sht = Headers /\ Ordinary
  BY SettingTypes DEF Begun, Setting, Stages
<1>2. section \in 1 .. Len(sht) + 1
  BY SettingTypes
<1>3. /\ Count(".text") \in Nat /\ Count(".data") \in Nat /\ Count(".symtab") = 0
      /\ EntriesIn(".symtab") = {}
  BY <1>1, Counts DEF Ordinary
<1>4. DOMAIN sht = 1 .. Len(sht) /\ Len(sht) = sht_count /\ Len(sht) \in 1 .. 3
  BY <1>1, PlainHeaders
<1>5. /\ section > Len(sht) => Current = ".symtab"
      /\ section <= Len(sht) => section \in DOMAIN sht /\ Current = sht[section].sh_name
      /\ section = Len(sht) => Current = ".symtab"
  BY <1>1, <1>2, <1>4, PlainHeaders DEF Current
<1>6. \A h \in DOMAIN sht : sht[h].sh_name \in {".text", ".data", ".symtab"}
  BY <1>1, PlainHeaders
<1>7. Current \in {".text", ".data", ".symtab"}
  BY <1>2, <1>4, <1>5, <1>6
<1>8. /\ Start(Current) \in Nat /\ Count(Current) \in Nat
      /\ Start(Current) + Count(Current) <= Count(".text") + Count(".data")
  BY <1>3, <1>7 DEF Start
<1>9. section >= Len(sht) => Current = ".symtab"
  BY <1>2, <1>4, <1>5
<1> HIDE DEF Current
<1> QED
  BY <1>1, <1>3, <1>4, <1>5, <1>7, <1>8, <1>9, PlainHeaders

\* The entries of the section at hand before a symbol, and that symbol
LEMMA EntriesBeforeGrow ==
    ASSUME Setting, Begun, pos <= Len(symt)
    PROVE  /\ EntriesBefore(Current, pos) \subseteq EntriesIn(Current)
           /\ EntriesIn(Current) \subseteq DOMAIN smap_table
           /\ \A k \in DOMAIN smap_table : SectionOf(k) = Current /\ smap_table[k] = pos =>
                /\ EntriesBefore(Current, pos + 1) = EntriesBefore(Current, pos) \cup {k}
                /\ k \in EntriesIn(Current) /\ k \notin EntriesBefore(Current, pos)
           /\ (\A k \in DOMAIN smap_table : ~(SectionOf(k) = Current /\ smap_table[k] = pos)) =>
                EntriesBefore(Current, pos + 1) = EntriesBefore(Current, pos)
<1>1. /\ \A k \in DOMAIN smap_table : smap_table[k] \in Nat
      /\ pos \in Nat
      /\ \A j, k \in DOMAIN smap_table : smap_table[j] = smap_table[k] => j = k
  BY SettingTypes, EntriesHaveSizes, MapIsFunction DEF Accounting, EntriesDiffer
<1> QED
  BY <1>1 DEF EntriesBefore, EntriesIn, SectionOf

\* When merging begins nothing is laid out and nothing is missing.
LEMMA BeginLayout ==
    ASSUME Setting, Setting', compute_section_header
    PROVE  Layout'
<1>1. /\ UNCHANGED <<vars, placeVars, section, pos, offset, buffer, dst_symt, relocated, stray>>
      /\ phase = "resolving" /\ sht' = Headers
      /\ dst' = [k \in DOMAIN smap_table |-> 0] /\ phase' = "merging"
  BY DEF compute_section_header
<1>2. /\ UNCHANGED <<symt, smap_table, src_sht, place, rel, status>>
      /\ section' = 1 /\ buffer' = <<>> /\ dst_symt' = <<>> /\ pos' = 1 /\ offset' = 0
  BY <1>1 DEF vars, placeVars, Setting, Stages
<1>3. \A k \in DOMAIN smap_table' : smap_table'[k] \in Nat /\ ~(smap_table'[k] < 1) /\ dst'[k] = 0
  BY <1>1, <1>2, SettingTypes, MapIsFunction
<1> SUFFICES ASSUME Begun' PROVE Layout'
  BY DEF Layout, LinesCounted, SymbolsCounted, LinesPlaced
<1>4. Start(Current)' = 0
  <2>1. (Start(sht[1].sh_name) = 0 /\ Len(sht) \in 1 .. 3
          /\ (section <= Len(sht) => Current = sht[section].sh_name))'
    BY AtHand, PTL
  <2>2. Current' = sht'[1].sh_name
    BY <1>2, <2>1
  <2> QED
    BY <2>1, <2>2 DEF Start
<1>5. EntriesBefore(Current, pos)' = {}
  BY <1>2, <1>3 DEF EntriesBefore, EntriesIn
<1>6. LinesOf(EntriesBefore(Current, pos))' = {}
  BY <1>5 DEF LinesOf
<1>7. LinesCounted'
  BY <1>2, <1>4, <1>6, FS_EmptySet DEF LinesCounted
<1>8. SymbolsCounted'
  <2>1. \A s : ~Before(s)'
    BY <1>1, <1>2, HeadersInOrder, SettingTypes DEF Before
  <2>2. {k \in DOMAIN smap_table' : dst'[k] # 0} = {}
    BY <1>3
  <2> QED
    BY <1>2, <1>3, <2>1, <2>2, FS_EmptySet DEF SymbolsCounted
<1>9. LinesPlaced'
  BY <1>2, <1>3 DEF LinesPlaced
<1> QED
  BY <1>7, <1>8, <1>9 DEF Layout

\* What other steps leave as it was.
LEMMA SameMap ==
    ASSUME UNCHANGED <<vars, placeVars>>
    PROVE  /\ UNCHANGED <<symt, smap_table, src_sht, place, rel, status>>
           /\ Ordinary' = Ordinary
           /\ \A m : HasSource(m)' = HasSource(m)
           /\ \A m, t : src_index(m, t)' = src_index(m, t)
           /\ \A s : EntriesIn(s)' = EntriesIn(s) /\ Count(s)' = Count(s) /\ Start(s)' = Start(s)
           /\ \A S : LinesOf(S)' = LinesOf(S)
           /\ \A k : SectionOf(k)' = SectionOf(k) /\ SizeIn(k)' = SizeIn(k)
           /\ line_count' = line_count
<1>1. UNCHANGED <<symt, smap_table, src_sht, place, rel, status>>
  BY DEF vars, placeVars
<1> QED
  BY <1>1, SameCounts DEF SectionOf, SizeIn

\* A step that moves over a symbol that is not in the section at hand
LEMMA SkipKeepsLayout ==
    ASSUME Setting, Layout, SkipSymbol
    PROVE  Layout'
<1>1. /\ UNCHANGED <<vars, placeVars, phase, sht, section, offset, buffer, dst_symt, dst, relocated, stray>>
      /\ Merging /\ pos <= Len(symt) /\ pos' = pos + 1
      /\ \A k \in DOMAIN smap_table : ~Belongs(k)
  BY DEF SkipSymbol
<1>2. UNCHANGED <<symt, smap_table, src_sht, place>> /\ Current' = Current /\ \A s : Before(s)' <=> Before(s)
  BY <1>1 DEF vars, placeVars, Current, Before
<1> SUFFICES ASSUME Begun PROVE Layout'
  BY <1>1, SameMap DEF Begun, Layout, LinesCounted, SymbolsCounted, LinesPlaced
<1>3. Current = sht[section].sh_name
  BY <1>1, AtHand DEF Merging
<1>4. \A k \in DOMAIN smap_table : ~(SectionOf(k) = Current /\ smap_table[k] = pos)
  <2> SUFFICES ASSUME NEW k \in DOMAIN smap_table, SectionOf(k) = Current, smap_table[k] = pos
               PROVE  FALSE
    OBVIOUS
  <2>1. k \in EntriesIn(".text") \cup EntriesIn(".data")
    BY AtHand DEF EntriesIn, SectionOf
  <2>2. HasSource(pos)
    BY <2>1 DEF Begun, Ordinary
  <2> QED
    BY <1>1, <1>3, <2>2 DEF Belongs, SectionOf
<1>5. EntriesBefore(Current, pos + 1) = EntriesBefore(Current, pos)
  BY <1>1, <1>4, EntriesBeforeGrow
<1>6. EntriesBefore(Current, pos)' = EntriesBefore(Current, pos)
  BY <1>1, <1>2, <1>5 DEF EntriesBefore, EntriesIn
<1>7. LinesCounted'
  <2>1. LinesOf(EntriesBefore(Current, pos))' = LinesOf(EntriesBefore(Current, pos))
    BY <1>2, <1>6 DEF LinesOf, SizeIn
  <2>2. Start(Current)' = Start(Current)
    BY <1>1, <1>2, SameMap
  <2> QED
    BY <1>1, <2>1, <2>2 DEF Layout, LinesCounted
<1>8. SymbolsCounted'
  <2>1. \A k \in DOMAIN smap_table : SectionOf(k) = Current => (smap_table[k] < pos + 1 <=> smap_table[k] < pos)
    BY <1>1, <1>4, SettingTypes, EntriesHaveSizes, MapIsFunction
  <2>2. \A k : SectionOf(k)' = SectionOf(k)
    BY <1>2 DEF SectionOf
  <2> QED
    BY <1>1, <1>2, <2>1, <2>2 DEF Layout, SymbolsCounted
<1>9. LinesPlaced'
  BY <1>1, <1>2, SameMap DEF Layout, LinesPlaced, LineOf
<1> QED
  BY <1>7, <1>8, <1>9 DEF Layout

\* The entry at hand has no output symbol yet, and its lines have room in the
\* section.
LEMMA RoomForEntry ==
    ASSUME Setting, Layout, Begun, Merging, pos <= Len(symt), NEW k \in DOMAIN smap_table, Belongs(k)
    PROVE  LET S == EntriesBefore(Current, pos)
           IN  /\ smap_table[k] = pos /\ SectionOf(k) = Current /\ SizeIn(k) \in Nat
               /\ EntriesBefore(Current, pos + 1) = S \cup {k}
               /\ Cardinality(LinesOf(S \cup {k})) = offset + SizeIn(k)
               /\ offset + SizeIn(k) <= Count(Current) /\ offset \in Nat
               /\ dst[k] = 0 /\ ~Before(Current)
<1> DEFINE S == EntriesBefore(Current, pos)
           n == SizeIn(k)
<1>1. smap_table[k] = pos /\ SectionOf(k) = Current
  BY AtHand DEF Belongs, Merging, SectionOf
<1>2. /\ EntriesBefore(Current, pos + 1) = S \cup {k}
      /\ k \in EntriesIn(Current) /\ k \notin S
      /\ S \subseteq EntriesIn(Current) /\ EntriesIn(Current) \subseteq DOMAIN smap_table
  BY <1>1, EntriesBeforeGrow
<1>3. offset = Cardinality(LinesOf(S)) /\ offset \in Nat
  BY SettingTypes DEF Layout, LinesCounted
<1>4. /\ Cardinality(LinesOf(S \cup {k})) = offset + n
      /\ Cardinality(LinesOf(S \cup {k})) <= Count(Current) /\ n \in Nat
  <2>1. S \cup {k} \in SUBSET EntriesIn(Current) /\ S \in SUBSET DOMAIN smap_table
    BY <1>2
  <2> HIDE DEF S
  <2>2. TypeOK /\ InputsSound /\ n \in Nat
    BY SettingTypes, EntriesHaveSizes
  <2>3. Cardinality(LinesOf(S \cup {k})) = Cardinality(LinesOf(S)) + n
    BY <1>2, <2>1, <2>2, LinesOfOneMore
  <2>4. Count(Current) = Cardinality(LinesOf(EntriesIn(Current)))
    BY <2>2, Counts
  <2>5. Cardinality(LinesOf(S \cup {k})) <= Cardinality(LinesOf(EntriesIn(Current)))
    BY <1>2, <2>1, <2>2, LinesAreCounted
  <2> QED
    BY <1>3, <2>2, <2>3, <2>4, <2>5
<1>5. ~Before(Current)
  BY AtHand DEF Before, Merging
<1>6. dst[k] = 0
  BY <1>1, <1>5, SettingTypes DEF Layout, SymbolsCounted
<1> HIDE DEF S
<1>7. offset + n <= Count(Current)
  BY <1>4
<1> QED
  BY <1>1, <1>2, <1>3, <1>4, <1>5, <1>6, <1>7 DEF S

\* The symbol at hand is merged behind the lines so far.
LEMMA MergeKeepsLayout ==
    ASSUME Setting, Layout, Merging, pos <= Len(symt), NEW k \in DOMAIN smap_table,
           Belongs(k), Merges(k),
           UNCHANGED <<vars, placeVars, sht, section, phase>>
    PROVE  Layout'
<1>1. UNCHANGED <<symt, smap_table, src_sht, place>> /\ Current' = Current /\ \A s : Before(s)' <=> Before(s)
  BY DEF vars, placeVars, Current, Before
<1> SUFFICES ASSUME Begun PROVE Layout'
  BY SameMap DEF Begun, Layout, LinesCounted, SymbolsCounted, LinesPlaced
<1> DEFINE S == EntriesBefore(Current, pos)
           n == SizeIn(k)
           LineFor(r) == [sym |-> pos, row |-> r, line |-> src_index(pos, r), patch |-> Unpatched]
<1>2. smap_table[k] = pos /\ SectionOf(k) = Current /\ pos' = pos + 1
  BY RoomForEntry DEF Merges
<1>3. EntriesBefore(Current, pos + 1) = S \cup {k}
  BY RoomForEntry
<1>4. /\ Cardinality(LinesOf(S \cup {k})) = offset + n
      /\ offset + n <= Count(Current) /\ n \in Nat
  BY RoomForEntry
<1>5. Len(buffer) = Start(Current) + offset
  BY DEF Layout, LinesCounted
<1> HIDE DEF S
<1>6. /\ Len(buffer') = Len(buffer) + n /\ offset' = offset + n
      /\ \A i \in DOMAIN buffer : i \in DOMAIN buffer' /\ buffer'[i] = buffer[i]
      /\ \A r \in 0 .. n - 1 :
            /\ Len(buffer) + 1 + r \in DOMAIN buffer'
            /\ buffer'[Len(buffer) + 1 + r] = LineFor(r)
      /\ \A i \in DOMAIN buffer' :
            i \in DOMAIN buffer \/ \E r \in 0 .. n - 1 : i = Len(buffer) + 1 + r
      /\ Len(dst_symt') = Len(dst_symt) + 1
      /\ \A d \in 1 .. Len(dst_symt) : dst_symt'[d] = dst_symt[d]
      /\ dst_symt'[Len(dst_symt) + 1] = [src |-> pos, st_value |-> offset]
      /\ dst'[k] = Len(dst_symt) + 1
      /\ \A h \in DOMAIN smap_table : h # k => dst'[h] = dst[h]
  BY MergeShape
<1>7. /\ offset \in Nat /\ Len(dst_symt) \in Nat /\ Start(Current) \in Nat
      /\ dst \in [DOMAIN smap_table -> 0 .. Len(dst_symt)]
  BY SettingTypes, AtHand DEF Setting, Stages, Begun
<1>8. dst[k] = 0 /\ ~Before(Current)
  BY RoomForEntry
<1>9. LinesCounted'
  <2>1. EntriesBefore(Current, pos)' = S \cup {k}
    BY <1>1, <1>2, <1>3 DEF EntriesBefore, EntriesIn
  <2>2. LinesOf(EntriesBefore(Current, pos))' = LinesOf(S \cup {k})
    BY <1>1, <2>1 DEF LinesOf, SizeIn
  <2>3. Start(Current)' = Start(Current)
    BY <1>1, SameMap
  <2> QED
    BY <1>4, <1>5, <1>6, <1>7, <2>2, <2>3 DEF LinesCounted
<1>10. SymbolsCounted'
  <2> DEFINE have == {h \in DOMAIN smap_table : dst[h] # 0}
  <2>1. {h \in DOMAIN smap_table' : dst'[h] # 0} = have \cup {k} /\ k \notin have
    BY <1>1, <1>6, <1>7, <1>8
  <2>2. IsFiniteSet(have)
    <3>1. IsFiniteSet(DOMAIN smap_table)
      BY SettingTypes, MapIsFunction, FS_Interval
    <3> QED
      BY <3>1, FS_Subset
  <2>3. Len(dst_symt) = Cardinality(have)
    BY DEF Layout, SymbolsCounted
  <2> HIDE DEF have
  <2>4. Cardinality(have \cup {k}) = Len(dst_symt')
    BY <1>6, <2>1, <2>2, <2>3, FS_AddElement
  <2>5. ASSUME NEW h \in DOMAIN smap_table
        PROVE  dst'[h] # 0 <=> \/ Before(SectionOf(h))
                               \/ SectionOf(h) = Current /\ smap_table[h] < pos + 1
    <3>1. dst[h] # 0 <=> \/ Before(SectionOf(h))
                         \/ SectionOf(h) = Current /\ smap_table[h] < pos
      BY DEF Layout, SymbolsCounted
    <3>2. smap_table[h] \in Nat /\ pos \in Nat /\ (smap_table[h] = pos => h = k)
      BY <1>2, SettingTypes, EntriesHaveSizes, MapIsFunction DEF Accounting, EntriesDiffer
    <3>3. CASE h = k
      BY <1>2, <1>6, <1>7, <3>2, <3>3
    <3>4. CASE h # k
      <4>1. smap_table[h] < pos + 1 <=> smap_table[h] < pos
        BY <3>2, <3>4
      <4> QED
        BY <1>6, <3>1, <3>4, <4>1
    <3> QED
      BY <3>3, <3>4
  <2>6. \A h : SectionOf(h)' = SectionOf(h)
    BY <1>1 DEF SectionOf
  <2> QED
    BY <1>1, <1>2, <2>1, <2>4, <2>5, <2>6 DEF SymbolsCounted
<1>11. LinesPlaced'
  <2>1. \A s : Start(s)' = Start(s) /\ Count(s)' = Count(s)
    BY SameMap
  <2>2. /\ \A h : SectionOf(h)' = SectionOf(h) /\ SizeIn(h)' = SizeIn(h)
        /\ \A m, t : src_index(m, t)' = src_index(m, t)
    BY <1>1, SameMap DEF SectionOf, SizeIn
  <2> DEFINE NewLine(h, r) == 1 + Start(SectionOf(h)) + dst_symt'[dst'[h]].st_value + r
  <2>3. ASSUME NEW h \in DOMAIN smap_table, h # k, dst[h] # 0
        PROVE  /\ dst'[h] = dst[h] /\ dst_symt'[dst'[h]] = dst_symt[dst[h]]
               /\ \A r : NewLine(h, r) = LineOf(h, r)
    <3>1. dst'[h] = dst[h] /\ dst_symt'[dst'[h]] = dst_symt[dst[h]]
      BY <1>6, <1>7, <2>3
    <3> QED
      BY <3>1 DEF LineOf
  <2>4. \A r \in 0 .. n - 1 : NewLine(k, r) = Len(buffer) + 1 + r
    <3>1. dst_symt'[dst'[k]].st_value = offset
      BY <1>6
    <3>2. \A r : NewLine(k, r) = 1 + Start(Current) + offset + r
      BY <1>2, <3>1
    <3> QED
      BY <1>4, <1>5, <1>7, <3>2
  <2>5. SectionOf(k) \in {".text", ".data"}
    <3>1. k \in EntriesIn(Current)
      BY <1>2 DEF EntriesIn, SectionOf
    <3> QED
      BY <1>2, <3>1, AtHand
  <2> HIDE DEF NewLine
  <2>6. ASSUME NEW h \in DOMAIN smap_table, dst'[h] # 0
        PROVE  /\ dst_symt'[dst'[h]].src = smap_table[h]
               /\ SectionOf(h) \in {".text", ".data"}
               /\ dst_symt'[dst'[h]].st_value + SizeIn(h) <= Count(SectionOf(h))
               /\ \A r \in 0 .. SizeIn(h) - 1 :
                    /\ NewLine(h, r) \in DOMAIN buffer'
                    /\ buffer'[NewLine(h, r)].sym = smap_table[h]
                    /\ buffer'[NewLine(h, r)].row = r
                    /\ buffer'[NewLine(h, r)].line = src_index(smap_table[h], r)
    <3>1. CASE h = k
      <4>1. \A r \in 0 .. SizeIn(h) - 1 :
                /\ NewLine(h, r) \in DOMAIN buffer'
                /\ buffer'[NewLine(h, r)].sym = smap_table[h]
                /\ buffer'[NewLine(h, r)].row = r
                /\ buffer'[NewLine(h, r)].line = src_index(smap_table[h], r)
        <5> SUFFICES ASSUME NEW r \in 0 .. n - 1
                     PROVE  /\ NewLine(k, r) \in DOMAIN buffer'
                            /\ buffer'[NewLine(k, r)].sym = pos
                            /\ buffer'[NewLine(k, r)].row = r
                            /\ buffer'[NewLine(k, r)].line = src_index(pos, r)
          BY <1>2, <3>1
        <5>1. NewLine(k, r) = Len(buffer) + 1 + r
          BY <2>4
        <5>2. /\ Len(buffer) + 1 + r \in DOMAIN buffer'
              /\ buffer'[Len(buffer) + 1 + r] = LineFor(r)
          BY <1>6
        <5> QED
          BY <5>1, <5>2
      <4>2. dst_symt'[dst'[k]].src = pos /\ dst_symt'[dst'[k]].st_value = offset
        BY <1>6
      <4> QED
        BY <1>2, <1>4, <1>5, <2>5, <3>1, <4>1, <4>2
    <3>2. CASE h # k
      <4>1. dst[h] # 0
        BY <1>6, <2>6, <3>2
      <4>2. /\ dst_symt[dst[h]].src = smap_table[h]
            /\ SectionOf(h) \in {".text", ".data"}
            /\ dst_symt[dst[h]].st_value + SizeIn(h) <= Count(SectionOf(h))
            /\ \A r \in 0 .. SizeIn(h) - 1 :
                /\ LineOf(h, r) \in DOMAIN buffer
                /\ buffer[LineOf(h, r)].sym = smap_table[h]
                /\ buffer[LineOf(h, r)].row = r
                /\ buffer[LineOf(h, r)].line = src_index(smap_table[h], r)
        BY <4>1 DEF Layout, LinesPlaced
      <4> QED
        BY <1>6, <2>3, <3>2, <4>1, <4>2
    <3> QED
      BY <3>1, <3>2
  <2>7. ASSUME NEW i \in DOMAIN buffer'
        PROVE  \E h \in DOMAIN smap_table :
                /\ dst'[h] # 0
                /\ buffer'[i].sym = smap_table[h]
                /\ buffer'[i].row \in 0 .. SizeIn(h) - 1
                /\ i = NewLine(h, buffer'[i].row)
    <3>1. CASE i \in DOMAIN buffer
      <4>1. PICK h \in DOMAIN smap_table :
                /\ dst[h] # 0
                /\ buffer[i].sym = smap_table[h]
                /\ buffer[i].row \in 0 .. SizeIn(h) - 1
                /\ i = LineOf(h, buffer[i].row)
        BY <3>1 DEF Layout, LinesPlaced
      <4>2. h # k
        BY <1>8, <4>1
      <4> QED
        BY <1>6, <2>3, <3>1, <4>1, <4>2
    <3>2. CASE i \notin DOMAIN buffer
      <4>1. PICK r \in 0 .. n - 1 : i = Len(buffer) + 1 + r
        BY <1>6, <3>2
      <4>2. buffer'[i] = LineFor(r)
        BY <1>6, <4>1
      <4>3. dst'[k] # 0
        BY <1>6, <1>7
      <4> QED
        BY <1>2, <2>4, <4>1, <4>2, <4>3
    <3> QED
      BY <3>1, <3>2
  <2> QED
    BY <1>1, <2>1, <2>2, <2>6, <2>7 DEF LinesPlaced, LineOf, NewLine
<1> QED
  BY <1>9, <1>10, <1>11 DEF Layout

\* The next section begins where the one at hand ends.
LEMMA NextSectionKeepsLayout ==
    ASSUME Setting, Setting', Layout, NextSection
    PROVE  Layout'
<1>1. /\ UNCHANGED <<vars, placeVars, phase, sht, buffer, dst_symt, dst, relocated, stray>>
      /\ Merging /\ pos > Len(symt) /\ section' = section + 1 /\ pos' = 1 /\ offset' = 0
  BY DEF NextSection
<1>2. UNCHANGED <<symt, smap_table, src_sht, place>>
  BY <1>1 DEF vars, placeVars
<1> SUFFICES ASSUME Begun PROVE Layout'
  BY <1>1, SameMap DEF Begun, Layout, LinesCounted, SymbolsCounted, LinesPlaced
<1>3. /\ section \in DOMAIN sht /\ Current = sht[section].sh_name
      /\ DOMAIN sht = 1 .. Len(sht) /\ Len(sht) \in 1 .. 3
      /\ Start(Current) \in Nat /\ Count(Current) \in Nat
  BY <1>1, AtHand DEF Merging
<1>4. Start(Current') = Start(Current) + Count(Current)
  <2>1. CASE section + 1 \in DOMAIN sht
    <3>1. Current' = sht[section + 1].sh_name
      BY <1>1, <2>1 DEF Current
    <3> QED
      BY <1>3, <2>1, <3>1, AtHand
  <2>2. CASE section + 1 \notin DOMAIN sht
    <3>1. Current' = ".symtab" /\ section = Len(sht)
      BY <1>1, <1>3, <2>2 DEF Current
    <3>2. Current = ".symtab"
      BY <1>3, <3>1, AtHand
    <3>3. Count(".symtab") = 0
      BY SettingTypes, AtHand, Counts
    <3> QED
      BY <1>3, <3>1, <3>2, <3>3 DEF Start
  <2> QED
    BY <2>1, <2>2
<1>5. \A s : Before(s)' <=> Before(s) \/ s = Current
  BY <1>1, <1>3 DEF Before
<1>6. \A k \in DOMAIN smap_table :
        smap_table[k] < pos /\ ~(smap_table[k] < 1) /\ (SectionOf(k))' = SectionOf(k)
  <2>1. \A k \in DOMAIN smap_table : smap_table[k] \in 1 .. Len(symt)
    BY SettingTypes, MapIsFunction
  <2>2. Len(symt) \in Nat /\ pos \in 1 .. Len(symt) + 1
    BY SettingTypes, MapIsFunction
  <2> QED
    BY <1>1, <1>2, <2>1, <2>2 DEF SectionOf
<1>7. offset = Count(Current) /\ Len(buffer) = Start(Current) + offset
  <2>1. EntriesBefore(Current, pos) = EntriesIn(Current)
    BY <1>6 DEF EntriesBefore, EntriesIn
  <2>2. Count(Current) = Cardinality(LinesOf(EntriesIn(Current)))
    BY SettingTypes, Counts
  <2> QED
    BY <2>1, <2>2 DEF Layout, LinesCounted
<1>8. LinesCounted'
  <2>1. EntriesBefore(Current, pos)' = {}
    BY <1>1, <1>2, <1>6 DEF EntriesBefore, EntriesIn
  <2>2. LinesOf(EntriesBefore(Current, pos))' = {}
    BY <2>1 DEF LinesOf
  <2>3. Start(Current)' = Start(Current')
    BY <1>1, SameMap
  <2> QED
    <3>1. Len(buffer') = Start(Current)' + offset'
      BY <1>1, <1>3, <1>4, <1>7, <2>3
    <3>2. offset' = Cardinality(LinesOf(EntriesBefore(Current, pos)))'
      BY <1>1, <2>2, FS_EmptySet
    <3> QED
      BY <3>1, <3>2 DEF LinesCounted
<1>9. SymbolsCounted'
  BY <1>1, <1>2, <1>5, <1>6 DEF Layout, SymbolsCounted
<1>10. LinesPlaced'
  BY <1>1, <1>2, SameMap DEF Layout, LinesPlaced, LineOf
<1> QED
  BY <1>8, <1>9, <1>10 DEF Layout

\* Relocation and the changes of phase leave the layout as it is.
LEMMA OthersKeepLayout ==
    ASSUME Setting, Layout, phase # "resolving",
           UNCHANGED <<vars, placeVars, sht, section, pos, offset, dst_symt, dst>>,
           Len(buffer') = Len(buffer), DOMAIN buffer' = DOMAIN buffer,
           \A i \in DOMAIN buffer :
                /\ buffer'[i].sym = buffer[i].sym /\ buffer'[i].row = buffer[i].row
                /\ buffer'[i].line = buffer[i].line
    PROVE  Layout'
<1>1. /\ UNCHANGED <<symt, smap_table, src_sht, place>> /\ Current' = Current /\ \A s : Before(s)' <=> Before(s)
  BY DEF vars, placeVars, Current, Before
<1> SUFFICES ASSUME Begun PROVE Layout'
  BY SameMap DEF Begun, Layout, LinesCounted, SymbolsCounted, LinesPlaced
<1>2. \A h : SectionOf(h)' = SectionOf(h) /\ SizeIn(h)' = SizeIn(h)
  BY <1>1 DEF SectionOf, SizeIn
<1>3. \A h, r : LineOf(h, r)' = LineOf(h, r)
  BY <1>2, SameMap DEF LineOf
<1>4. LinesCounted'
  <2>1. EntriesBefore(Current, pos)' = EntriesBefore(Current, pos)
    BY <1>1 DEF EntriesBefore, EntriesIn
  <2>2. LinesOf(EntriesBefore(Current, pos))' = LinesOf(EntriesBefore(Current, pos))
    BY <1>1, <2>1 DEF LinesOf, SizeIn
  <2>3. Start(Current)' = Start(Current)
    BY <1>1, SameMap
  <2> QED
    BY <2>2, <2>3 DEF Layout, LinesCounted
<1>5. SymbolsCounted'
  BY <1>1, <1>2 DEF Layout, SymbolsCounted
<1>6. LinesPlaced'
  <2>1. \A h : Count(SectionOf(h))' = Count(SectionOf(h))
    BY <1>2, SameMap
  <2>2. \A h \in DOMAIN smap_table : dst[h] # 0 =>
            \A r \in 0 .. SizeIn(h) - 1 :
                /\ LineOf(h, r) \in DOMAIN buffer'
                /\ buffer'[LineOf(h, r)].sym = smap_table[h]
                /\ buffer'[LineOf(h, r)].row = r
                /\ buffer'[LineOf(h, r)].line = src_index(smap_table[h], r)
    BY DEF Layout, LinesPlaced
  <2>3. \A i \in DOMAIN buffer' : \E h \in DOMAIN smap_table :
            /\ dst[h] # 0
            /\ buffer'[i].sym = smap_table[h]
            /\ buffer'[i].row \in 0 .. SizeIn(h) - 1
            /\ i = LineOf(h, buffer'[i].row)
    BY DEF Layout, LinesPlaced
  <2>4. \A h \in DOMAIN smap_table : dst[h] # 0 =>
            /\ dst_symt[dst[h]].src = smap_table[h]
            /\ SectionOf(h) \in {".text", ".data"}
            /\ dst_symt[dst[h]].st_value + SizeIn(h) <= Count(SectionOf(h))
    BY DEF Layout, LinesPlaced
  <2> QED
    BY <1>1, <1>2, <2>1, <2>2, <2>3, <2>4, SameMap DEF LinesPlaced, LineOf
<1> QED
  BY <1>4, <1>5, <1>6 DEF Layout

\* No step puts a line where its section and its symbol do not say.
LEMMA StepKeepsLayout ==
    ASSUME Setting, Setting', Layout, [LinkNext]_linkVars
    PROVE  Layout'
<1>1. CASE phase' = "resolving"
  BY <1>1 DEF Layout, LinesCounted, SymbolsCounted, LinesPlaced, Begun
<1>2. CASE compute_section_header
  BY <1>2, BeginLayout
<1>3. CASE SkipSymbol
  BY <1>3, SkipKeepsLayout
<1>4. CASE MergeSymbol
  <2>1. /\ Merging /\ pos <= Len(symt) /\ UNCHANGED <<vars, placeVars, sht, section, relocated, stray>>
        /\ phase # "resolving"
    BY <1>4 DEF MergeSymbol, Merging
  <2>2. CASE UNCHANGED <<buffer, dst_symt, dst, offset, pos>>
    BY <2>1, <2>2, OthersKeepLayout
  <2>3. ASSUME NEW k \in DOMAIN smap_table, Belongs(k), Merges(k), UNCHANGED phase
        PROVE  Layout'
    BY <2>1, <2>3, MergeKeepsLayout
  <2> QED
    BY <1>4, <2>2, <2>3 DEF MergeSymbol, Merges
<1>5. CASE NextSection
  BY <1>5, NextSectionKeepsLayout
<1>6. CASE WriteSymbols \/ EndLink
  BY <1>6, OthersKeepLayout DEF WriteSymbols, EndLink, mergeVars
<1>7. CASE Relocate
  BY <1>7, RelocateShape, OthersKeepLayout
<1>8. CASE UNCHANGED linkVars /\ phase # "resolving"
  BY <1>8, OthersKeepLayout DEF linkVars, mergeVars
<1>9. CASE Next /\ UNCHANGED <<placeVars, phase, sht, mergeVars, relocated, stray>>
  BY <1>1, <1>9, NextResolves DEF Setting, Stages
<1>10. CASE UNCHANGED linkVars
  BY <1>1, <1>8, <1>10 DEF linkVars
<1> QED
  BY <1>2, <1>3, <1>4, <1>5, <1>6, <1>7, <1>9, <1>10 DEF LinkNext

-----------------------------------------------------------------------------
(* What the merged output promises *)

\* The header of an entry that has been merged, and the first line of the entry.
LEMMA FirstLines ==
    ASSUME Setting, Layout, Begun, NEW k \in DOMAIN smap_table, dst[k] # 0
    PROVE  /\ FirstLine(k) = LineOf(k, 0)
           /\ \E h \in DOMAIN sht : sht[h].sh_name = SectionOf(k)
           /\ dst_symt[dst[k]].st_value \in Nat /\ Start(SectionOf(k)) \in Nat
           /\ \A h \in DOMAIN sht : sht[h].sh_name = SectionOf(k) =>
                sht[h].sh_offset = 2 + Len(sht) + Start(SectionOf(k))
<1> DEFINE s == SectionOf(k)
<1>1. s \in {".text", ".data"} /\ Count(s) \in Nat
  BY SettingTypes, Counts DEF Layout, LinesPlaced
<1>2. dst_symt[dst[k]].st_value \in Nat /\ Start(s) \in Nat
  BY <1>1, OutputSymbols, SettingTypes, Counts DEF Begun, Start
<1>3. \E h \in DOMAIN sht : sht[h].sh_name = s
  <2>1. CASE Before(s)
    BY <2>1 DEF Before
  <2>2. CASE s = Current
    <3>1. section <= Len(sht)
      BY <1>1, <2>2, AtHand, SettingTypes
    <3> QED
      BY <2>2, <3>1, AtHand
  <2> QED
    BY <2>1, <2>2 DEF Layout, SymbolsCounted
<1> DEFINE h == CHOOSE h \in DOMAIN sht : sht[h].sh_name = s
<1>4. h \in DOMAIN sht /\ sht[h].sh_name = s
  BY <1>3
<1>5. FirstLine(k) = sht[h].sh_offset - 1 - Len(sht) + dst_symt[dst[k]].st_value
  BY DEF FirstLine, SectionOf
<1> HIDE DEF h
<1>6. sht[h].sh_offset = 2 + Len(sht) + Start(s) /\ Len(sht) \in Nat
  BY <1>4, AtHand
<1>7. FirstLine(k) = LineOf(k, 0)
  BY <1>2, <1>5, <1>6 DEF LineOf
<1> QED
  BY <1>2, <1>3, <1>7, AtHand

\* After merging every entry of a section with lines has been merged.
LEMMA AllAreMerged ==
    ASSUME Setting, Layout, Begun, section > Len(sht), NEW k \in DOMAIN smap_table,
           SectionOf(k) \in {".text", ".data"}, Count(SectionOf(k)) > 0
    PROVE  dst[k] # 0
<1>1. PICK h \in DOMAIN sht : sht[h].sh_name = SectionOf(k)
  BY AtHand
<1>2. h < section
  BY AtHand, SettingTypes
<1> QED
  BY <1>1, <1>2 DEF Before, Layout, SymbolsCounted

\* A layout that is right to the last section puts every symbol in its place.
LEMMA OutputInPlace ==
    ASSUME Setting, Layout
    PROVE  MergedInPlace
<1> SUFFICES ASSUME Merged, Ordinary,
                    NEW k \in EntriesIn(".text") \cup EntriesIn(".data"), Count(SectionOf(k)) > 0
             PROVE  /\ dst[k] # 0
                    /\ dst_symt[dst[k]].src = smap_table[k]
                    /\ \A t \in 0 .. SizeIn(k) - 1 :
                        /\ FirstLine(k) + t \in DOMAIN buffer
                        /\ buffer[FirstLine(k) + t].sym = smap_table[k]
                        /\ buffer[FirstLine(k) + t].row = t
                        /\ buffer[FirstLine(k) + t].line = src_index(smap_table[k], t)
  BY DEF MergedInPlace, SectionOf, SizeIn
<1>1. Begun /\ section > Len(sht)
  BY DEF Begun, Merged, Setting, Stages
<1>2. k \in DOMAIN smap_table /\ SectionOf(k) \in {".text", ".data"}
  BY DEF EntriesIn, SectionOf
<1>3. dst[k] # 0
  BY <1>1, <1>2, AllAreMerged
<1>4. \A t \in 0 .. SizeIn(k) - 1 : FirstLine(k) + t = LineOf(k, t)
  BY <1>1, <1>2, <1>3, FirstLines DEF LineOf
<1> QED
  BY <1>1, <1>2, <1>3, <1>4 DEF Layout, LinesPlaced

-----------------------------------------------------------------------------
(* Addresses, and the line that a relocation patches *)

\* In an ordinary program the bases of the sections are those of the picture.
LEMMA SizesOfSections ==
    ASSUME Setting, Begun
    PROVE  /\ SizeOf(".text") = Count(".text") /\ Count(".text") \in Nat
           /\ data_base = Count(".text") * INST_SIZE
<1> DEFINE T == Count(".text")
<1>1. T \in Nat
  BY SettingTypes, Counts
<1>2. SizeOf(".text") = T
  <2>1. CASE \E h \in DOMAIN sht : sht[h].sh_name = ".text"
    <3> DEFINE h == CHOOSE h \in DOMAIN sht : sht[h].sh_name = ".text"
    <3>1. h \in DOMAIN sht /\ sht[h].sh_name = ".text"
      BY <2>1
    <3>2. SizeOf(".text") = sht[h].sh_size
      BY <2>1 DEF SizeOf
    <3> QED
      BY <3>1, <3>2, AtHand
  <2>2. CASE ~\E h \in DOMAIN sht : sht[h].sh_name = ".text"
    <3>1. ~(T > 0)
      BY <2>2, AtHand
    <3> QED
      BY <1>1, <2>2, <3>1 DEF SizeOf
  <2> QED
    BY <2>1, <2>2
<1>3. SizeOf(".rodata") = 0
  BY AtHand DEF SizeOf
<1> HIDE DEF T
<1>4. data_base = T * INST_SIZE + 0 * DATA_SIZE
  BY <1>2, <1>3 DEF data_base, rodata_base
<1>5. T * INST_SIZE \in Nat /\ 0 * DATA_SIZE = 0
  BY <1>1, SizeAssumption
<1> QED
  BY <1>1, <1>2, <1>4, <1>5 DEF T

\* A symbol's run-time address is that of its first line.
LEMMA TargetAddress ==
    ASSUME Setting, Layout, Begun, NEW u \in DOMAIN smap_table, dst[u] # 0
    PROVE  get_symbol_runtime_address(dst_symt[dst[u]]) = AddressOf(FirstLine(u))
<1> DEFINE T == Count(".text")
           v == dst_symt[dst[u]].st_value
           s == SectionOf(u)
<1>1. /\ dst_symt[dst[u]].src = smap_table[u] /\ s \in {".text", ".data"}
      /\ v + SizeIn(u) <= Count(s)
  BY DEF Layout, LinesPlaced
<1>2. SizeIn(u) \in Nat /\ v \in Nat /\ T \in Nat
  BY SettingTypes, EntriesHaveSizes, OutputSymbols, Counts DEF Begun
<1>3. FirstLine(u) = 1 + Start(s) + v
  <2>1. FirstLine(u) = 1 + Start(s) + v + 0 /\ Start(s) \in Nat
    BY FirstLines DEF LineOf
  <2> HIDE DEF v, s
  <2> QED
    BY <1>2, <2>1
<1>4. get_symbol_runtime_address(dst_symt[dst[u]])
        = IF s = ".text" THEN INST_SIZE * v ELSE T * INST_SIZE + DATA_SIZE * v
  BY <1>1, SizesOfSections DEF get_symbol_runtime_address, SectionOf
<1>5. AddressOf(FirstLine(u))
        = IF FirstLine(u) <= T THEN (FirstLine(u) - 1) * INST_SIZE
          ELSE T * INST_SIZE + (FirstLine(u) - 1 - T) * DATA_SIZE
  BY SizesOfSections DEF AddressOf
<1>6. CASE s = ".text"
  <2>1. FirstLine(u) = 1 + v /\ v + SizeIn(u) <= T
    BY <1>1, <1>2, <1>3, <1>6 DEF Start
  <2> HIDE DEF T, v
  <2>2. CASE FirstLine(u) <= T
    <3>1. FirstLine(u) - 1 = v
      BY <1>2, <2>1
    <3>2. AddressOf(FirstLine(u)) = v * INST_SIZE
      BY <1>5, <2>2, <3>1
    <3> QED
      BY <1>2, <1>4, <1>6, <3>2, SizeAssumption
  <2>3. CASE ~(FirstLine(u) <= T)
    <3>1. v = T /\ FirstLine(u) - 1 - T = 0
      BY <1>2, <2>1, <2>3
    <3>2. AddressOf(FirstLine(u)) = v * INST_SIZE + 0 * DATA_SIZE
      BY <1>5, <2>3, <3>1
    <3> QED
      BY <1>2, <1>4, <1>6, <3>2, SizeAssumption
  <2> QED
    BY <2>2, <2>3
<1>7. CASE s = ".data"
  <2>1. FirstLine(u) = 1 + T + v
    BY <1>3, <1>7 DEF Start
  <2> HIDE DEF T, v
  <2>2. ~(FirstLine(u) <= T) /\ FirstLine(u) - 1 - T = v
    BY <1>2, <2>1
  <2>3. AddressOf(FirstLine(u)) = T * INST_SIZE + v * DATA_SIZE
    BY <1>5, <2>2
  <2>4. v * DATA_SIZE = DATA_SIZE * v
    BY <1>2, SizeAssumption
  <2> QED
    BY <1>4, <1>7, <2>3, <2>4
<1> QED
  BY <1>1, <1>6, <1>7

\* The line that a relocation in entry k patches, if the entry has lines
LEMMA PatchedLine ==
    ASSUME Setting, Layout, Begun, NEW r \in Relocation, NEW k \in DOMAIN smap_table,
           dst[k] # 0, SizeIn(k) > 0, Referencing(r, smap_table[k])
    PROVE  LET own == r.r_row - place[smap_table[k]].st_value
               row == own + dst_symt[dst[k]].st_value
               x   == (SectionOffset(r) + row) - 1 - Len(sht)
           IN  /\ own \in 0 .. SizeIn(k) - 1 /\ row \in Nat
               /\ x = LineOf(k, own) /\ x \in DOMAIN buffer /\ SectionOffset(r) \in Nat
               /\ r.section = ".text" => AddressOf(x) = row * INST_SIZE
<1> DEFINE v   == dst_symt[dst[k]].st_value
           p   == place[smap_table[k]].st_value
           own == r.r_row - p
           row == own + v
           x   == (SectionOffset(r) + row) - 1 - Len(sht)
           s   == SectionOf(k)
<1>1. p \in Nat /\ SizeIn(k) \in Nat /\ v \in Nat /\ r.r_row \in Nat
  BY SettingTypes, EntriesHaveSizes, OutputSymbols DEF Begun, Place, Relocation
<1>2. r.section = s /\ r.r_row \in p .. p + SizeIn(k) - 1
  <2>1. /\ r.section = s /\ p <= r.r_row
        /\ r.r_row <= p + SizeIn(k) - 1 \/ p + SizeIn(k) = 0
    BY DEF Referencing, SectionOf, SizeIn
  <2> HIDE DEF p, s
  <2> QED
    BY <1>1, <2>1
<1>3. own \in 0 .. SizeIn(k) - 1 /\ row \in Nat
  <2> HIDE DEF p, v
  <2> QED
    BY <1>1, <1>2
<1>4. SectionOffset(r) = 2 + Len(sht) + Start(s)
  <2> DEFINE Last(h) == /\ sht[h].sh_name = r.section
                        /\ \A g \in DOMAIN sht : sht[g].sh_name = r.section => g <= h
  <2>1. PICK g \in DOMAIN sht : sht[g].sh_name = s
    BY FirstLines
  <2>2. Last(g)
    BY <1>2, <2>1, AtHand
  <2> DEFINE h == CHOOSE h \in DOMAIN sht : Last(h)
  <2>3. h \in DOMAIN sht /\ Last(h)
    BY <2>1, <2>2
  <2>4. SectionOffset(r) = sht[h].sh_offset
    BY DEF SectionOffset
  <2> QED
    BY <1>2, <2>3, <2>4, FirstLines
<1>5. Start(s) \in Nat /\ Len(sht) \in Nat
  BY FirstLines, SettingTypes
<1>6. x = 1 + Start(s) + v + own
  <2> HIDE DEF v, own, s
  <2>1. own \in Nat /\ v \in Nat
    BY <1>1, <1>3 DEF own
  <2> QED
    BY <1>4, <1>5, <2>1
<1>7. x = LineOf(k, own) /\ x \in DOMAIN buffer
  BY <1>3, <1>6 DEF LineOf, Layout, LinesPlaced
<1>8. ASSUME r.section = ".text" PROVE AddressOf(x) = row * INST_SIZE
  <2>1. Start(s) = 0 /\ v + SizeIn(k) <= Count(".text")
    BY <1>2, <1>8 DEF Start, Layout, LinesPlaced
  <2>2. SizeOf(".text") = Count(".text") /\ Count(".text") \in Nat
    BY SizesOfSections
  <2>3. x - 1 = row /\ x <= Count(".text")
    <3> DEFINE T == Count(".text")
    <3>1. x = 1 + 0 + v + own /\ row = own + v /\ v + SizeIn(k) <= T /\ T \in Nat
      BY <1>6, <2>1, <2>2
    <3> HIDE DEF x, v, own, row, T
    <3>2. own \in 0 .. SizeIn(k) - 1 /\ v \in Nat /\ SizeIn(k) \in Nat
      BY <1>1, <1>3 DEF own, v
    <3>3. x - 1 = row /\ x <= T
      BY <3>1, <3>2
    <3> QED
      BY <3>3 DEF T
  <2> QED
    BY <2>2, <2>3 DEF AddressOf
<1> QED
  BY <1>3, <1>4, <1>5, <1>7, <1>8

-----------------------------------------------------------------------------
(* Why linking fails *)

Failed == phase \in {"aborted", "exited", "undefined"}

\* The causes that FailureHasACause names
Cause ==
    \/ \E k \in DOMAIN smap_table :
        \/ symt[smap_table[k]].st_shndx \notin {".text", ".data"}
        \/ place[smap_table[k]].st_size = 0
        \/ ~HasSource(smap_table[k])
        \/ src_index(smap_table[k], place[smap_table[k]].st_size - 1) >= MAX_ELF_FILE_LENGTH
    \/ line_count > MAX_ELF_FILE_LENGTH
    \/ \E j \in DOMAIN rel, m \in DOMAIN symt :
        Referencing(rel[j], m) /\ symt[m].bind = "STB_WEAK"
    \/ \E j \in DOMAIN rel : IsRelative(rel[j]) /\ rel[j].section = ".data"

\* FailureHasACause in two parts, of which the second never changes.
LEMMA CauseIsCause == FailureHasACause <=> (Failed => Cause)
  BY DEF FailureHasACause, Failed, Cause

\* A cause is a fact about the input, and stays.
LEMMA CauseStays ==
    ASSUME UNCHANGED <<vars, placeVars>>
    PROVE  Cause' <=> Cause
<1>1. UNCHANGED <<symt, smap_table, src_sht, place, rel>>
  BY DEF vars, placeVars
<1>2. \A r, m : Referencing(r, m)' <=> Referencing(r, m)
  BY <1>1 DEF Referencing
<1> QED
  BY <1>1, <1>2, SameMap DEF Cause, IsRelative

\* Without a cause every entry has lines in a section that is merged, and in its file.
LEMMA NoCause ==
    ASSUME Setting, phase # "resolving", ~Cause
    PROVE  /\ Begun /\ Ordinary
           /\ \A k \in DOMAIN smap_table :
                /\ SectionOf(k) \in {".text", ".data"} /\ Count(SectionOf(k)) > 0
                /\ HasSource(smap_table[k]) /\ SizeIn(k) > 0
                /\ ~(src_index(smap_table[k], SizeIn(k) - 1) >= MAX_ELF_FILE_LENGTH)
           /\ line_count = 2 + Len(sht) + Count(".text") + Count(".data") + Len(smap_table)
           /\ line_count <= MAX_ELF_FILE_LENGTH
           /\ Len(smap_table) \in Nat /\ Len(sht) \in Nat
<1>1. TypeOK /\ InputsSound
  BY SettingTypes
<1>2. /\ Count(".rodata") \in Nat /\ Count(".text") \in Nat /\ Count(".data") \in Nat
      /\ Len(smap_table) \in Nat
  BY <1>1, Counts, MapIsFunction
<1>3. Count(".rodata") = 0 /\ Ordinary /\ Begun
  <2>1. EntriesIn(".rodata") = {} /\ EntriesIn(".symtab") = {}
    BY DEF Cause, EntriesIn
  <2>2. Count(".rodata") = 0
    BY <1>1, <2>1, Counts
  <2>3. \A k \in EntriesIn(".text") \cup EntriesIn(".data") : HasSource(smap_table[k])
    BY DEF Cause, EntriesIn
  <2> QED
    BY <2>1, <2>2, <2>3 DEF Ordinary, Begun
<1>4. ASSUME NEW k \in DOMAIN smap_table
      PROVE  /\ SectionOf(k) \in {".text", ".data"} /\ Count(SectionOf(k)) > 0
             /\ HasSource(smap_table[k]) /\ SizeIn(k) > 0
             /\ ~(src_index(smap_table[k], SizeIn(k) - 1) >= MAX_ELF_FILE_LENGTH)
  <2>1. k \in EntriesIn(SectionOf(k))
    BY DEF EntriesIn, SectionOf
  <2>2. SizeIn(k) \in Nat /\ SizeIn(k) # 0
    BY <1>1, EntriesHaveSizes DEF Cause, SizeIn
  <2>3. Count(SectionOf(k)) > 0
    <3>1. SizeIn(k) <= Count(SectionOf(k)) /\ Count(SectionOf(k)) \in Nat
      BY <1>1, <2>1, Counts
    <3> QED
      BY <2>2, <3>1
  <2>4. /\ SectionOf(k) \in {".text", ".data"} /\ HasSource(smap_table[k])
        /\ ~(src_index(smap_table[k], SizeIn(k) - 1) >= MAX_ELF_FILE_LENGTH)
    BY DEF Cause, SectionOf, SizeIn
  <2> QED
    BY <2>2, <2>3, <2>4
<1>5. Len(sht) = sht_count /\ Len(sht) \in Nat
  BY <1>3, AtHand
<1>6. line_count = 2 + Len(sht) + Count(".text") + Count(".data") + Len(smap_table)
  BY <1>2, <1>3, <1>5 DEF line_count
<1>7. line_count <= MAX_ELF_FILE_LENGTH
  BY <1>2, <1>5, <1>6, SizeAssumption DEF Cause
<1> QED
  BY <1>2, <1>3, <1>4, <1>5, <1>6, <1>7

\* A symbol in .text or .data that is not weak is in the map.
LEMMA StrongIsInMap ==
    ASSUME Setting, phase # "resolving", NEW m \in DOMAIN symt,
           symt[m].st_shndx \in {".text", ".data"}, symt[m].bind # "STB_WEAK"
    PROVE  \E k \in DOMAIN smap_table : smap_table[k] = m
<1>1. Seen = DOMAIN symt
  BY SettingTypes, MapIsFunction DEF Setting, Stages, Accounting, CleanUp, Seen
<1>2. CASE IsGlobal(m) /\ HasPriority(symt[m])
  <2>1. IsDefined(symt[m])
    BY <1>2 DEF HasPriority, IsUndefined, IsTentative
  <2> QED
    BY <1>1, <1>2, <2>1 DEF Setting, Accounting, Resolution, StrongDefinitionsKept
<1> QED
  BY <1>1, <1>2 DEF Setting, NoneIsLost

\* The map is a finite set of entries, as many as its length.
LEMMA EntriesNumber ==
    ASSUME TypeOK
    PROVE  IsFiniteSet(DOMAIN smap_table) /\ Cardinality(DOMAIN smap_table) = Len(smap_table)
<1> DEFINE n == Len(smap_table)
<1>1. n \in Nat /\ DOMAIN smap_table = 1 .. n
  BY MapIsFunction
<1> HIDE DEF n
<1>2. IsFiniteSet(1 .. n) /\ Cardinality(1 .. n) = IF 1 > n THEN 0 ELSE n - 1 + 1
  BY <1>1, FS_Interval
<1>3. Cardinality(1 .. n) = n
  BY <1>1, <1>2
<1> QED
  BY <1>1, <1>2, <1>3 DEF n

\* Only what is named as a cause keeps the lines of a symbol from being copied.
LEMMA MergeHasRoom ==
    ASSUME Setting, Layout, Merging, pos <= Len(symt), NEW k \in DOMAIN smap_table,
           Belongs(k), ~Fits(pos)
    PROVE  Cause
<1> SUFFICES ASSUME ~Cause PROVE FALSE
  OBVIOUS
<1>1. phase # "resolving"
  BY DEF Merging
<1>2. /\ Begun /\ line_count = 2 + Len(sht) + Count(".text") + Count(".data") + Len(smap_table)
      /\ line_count <= MAX_ELF_FILE_LENGTH /\ Len(smap_table) \in Nat /\ Len(sht) \in Nat
  BY <1>1, NoCause
<1>3. /\ smap_table[k] = pos /\ SizeIn(k) \in Nat /\ offset \in Nat
      /\ offset + SizeIn(k) <= Count(Current) /\ dst[k] = 0
  BY <1>2, RoomForEntry
<1>4. line_written + SizeIn(k) <= MAX_ELF_FILE_LENGTH
  <2>1. Len(buffer) = Start(Current) + offset
    BY <1>2 DEF Layout, LinesCounted
  <2>2. /\ Start(Current) \in Nat /\ Count(Current) \in Nat
        /\ Start(Current) + Count(Current) <= Count(".text") + Count(".data")
    BY <1>2, AtHand
  <2>3. Count(".text") \in Nat /\ Count(".data") \in Nat
    BY SettingTypes, Counts
  <2>4. Len(buffer) + SizeIn(k) <= Count(".text") + Count(".data")
    BY <1>3, <2>1, <2>2, <2>3
  <2>5. line_written = 2 + Len(sht) + Len(buffer) /\ Len(buffer) \in Nat
    BY SettingTypes DEF line_written
  <2> HIDE DEF line_written
  <2>6. line_written + SizeIn(k) <= line_count
    BY <1>2, <1>3, <2>3, <2>4, <2>5
  <2> QED
    BY <1>2, <1>3, <2>3, <2>5, <2>6, SizeAssumption
<1>5. src_index(pos, SizeIn(k) - 1) < MAX_ELF_FILE_LENGTH /\ SizeIn(k) > 0
  <2>1. /\ HasSource(pos) /\ SizeIn(k) > 0
        /\ ~(src_index(pos, SizeIn(k) - 1) >= MAX_ELF_FILE_LENGTH)
    BY <1>1, <1>3, NoCause
  <2>2. SizeIn(k) - 1 \in Nat /\ pos \in DOMAIN symt
    BY <1>3, <2>1, SettingTypes, EntriesHaveSizes
  <2> DEFINE n == SizeIn(k) - 1
  <2>3. n \in Nat
    BY <2>2
  <2> HIDE DEF n
  <2>4. src_index(pos, n) \in Nat
    BY <2>1, <2>2, <2>3, SettingTypes, SourceIndexIsNumber
  <2> QED
    BY <2>1, <2>4, SizeAssumption DEF n
<1>6. Len(dst_symt) < Len(smap_table)
  <2> DEFINE have == {h \in DOMAIN smap_table : dst[h] # 0}
  <2>1. IsFiniteSet(DOMAIN smap_table) /\ Cardinality(DOMAIN smap_table) = Len(smap_table)
    BY SettingTypes, EntriesNumber
  <2>2. have \in SUBSET DOMAIN smap_table /\ have # DOMAIN smap_table
    BY <1>3
  <2>3. Len(dst_symt) = Cardinality(have)
    BY <1>2 DEF Layout, SymbolsCounted
  <2> HIDE DEF have
  <2>4. /\ Cardinality(have) <= Cardinality(DOMAIN smap_table)
        /\ Cardinality(have) # Cardinality(DOMAIN smap_table)
    BY <2>1, <2>2, FS_Subset
  <2>5. Len(dst_symt) \in Nat
    BY SettingTypes
  <2> QED
    BY <1>2, <2>1, <2>3, <2>4, <2>5
<1> QED
  BY <1>3, <1>4, <1>6, <1>5 DEF Fits, SizeIn

\* After merging all lines of code and data have been written.
LEMMA AllLinesWritten ==
    ASSUME Setting, Layout, Begun, section > Len(sht)
    PROVE  /\ Len(buffer) = Count(".text") + Count(".data")
           /\ Count(".text") \in Nat /\ Count(".data") \in Nat
<1>1. Current = ".symtab" /\ EntriesIn(".symtab") = {}
  BY AtHand, SettingTypes
<1>2. Start(Current) = Count(".text") + Count(".data")
  BY <1>1 DEF Start
<1>3. LinesOf(EntriesBefore(Current, pos)) = {}
  BY <1>1 DEF EntriesBefore, LinesOf
<1>4. offset = 0
  BY <1>3, FS_EmptySet DEF Layout, LinesCounted
<1>5. Len(buffer) = Count(".text") + Count(".data") + 0
  BY <1>2, <1>4 DEF Layout, LinesCounted
<1>6. Count(".text") \in Nat /\ Count(".data") \in Nat
  BY SettingTypes, Counts
<1> QED
  BY <1>5, <1>6

\* Only what is named as a cause fails after the last section.
LEMMA SymbolsAreWritten ==
    ASSUME Setting, Layout, WriteSymbols, Failed'
    PROVE  Cause
<1> SUFFICES ASSUME ~Cause PROVE FALSE
  OBVIOUS
<1>1. /\ phase = "merging" /\ phase # "resolving" /\ section > Len(sht)
      /\ \/ Len(dst_symt) < Len(smap_table)
         \/ phase' = IF line_written + Len(smap_table) > MAX_ELF_FILE_LENGTH THEN "undefined"
                     ELSE IF line_written + Len(smap_table) = line_count THEN "relocating"
                     ELSE "aborted"
  BY DEF WriteSymbols
<1>2. /\ Begun /\ line_count = 2 + Len(sht) + Count(".text") + Count(".data") + Len(smap_table)
      /\ line_count <= MAX_ELF_FILE_LENGTH /\ Len(smap_table) \in Nat /\ Len(sht) \in Nat
  BY <1>1, NoCause
<1>3. ~(Len(dst_symt) < Len(smap_table))
  <2>1. {h \in DOMAIN smap_table : dst[h] # 0} = DOMAIN smap_table
    BY <1>1, <1>2, NoCause, AllAreMerged
  <2>2. Len(dst_symt) = Cardinality(DOMAIN smap_table)
    BY <1>2, <2>1 DEF Layout, SymbolsCounted
  <2>3. Cardinality(DOMAIN smap_table) = Len(smap_table)
    BY SettingTypes, EntriesNumber
  <2> QED
    BY <1>2, <2>2, <2>3
<1>4. line_written + Len(smap_table) = line_count
  <2>6. Len(buffer) = Count(".text") + Count(".data")
    BY <1>1, <1>2, AllLinesWritten
  <2>7. Count(".text") \in Nat /\ Count(".data") \in Nat
    BY SettingTypes, Counts
  <2>8. line_written = 2 + Len(sht) + Len(buffer)
    BY DEF line_written
  <2> HIDE DEF line_written, line_count
  <2>9. line_written = 2 + Len(sht) + (Count(".text") + Count(".data"))
    BY <2>6, <2>7, <2>8
  <2> QED
    BY <1>2, <2>7, <2>9
<1> QED
  BY <1>1, <1>2, <1>3, <1>4, SizeAssumption DEF Failed

\* Only what is named as a cause fails in a relocation.
LEMMA RelocationFails ==
    ASSUME Setting, Layout, Relocate, Failed'
    PROVE  Cause
<1> SUFFICES ASSUME ~Cause PROVE FALSE
  OBVIOUS
<1> DEFINE r == rel[relocated + 1]
<1>1. /\ phase = "relocating" /\ phase # "resolving" /\ phase' # phase
      /\ relocated + 1 \in DOMAIN rel /\ r \in Relocation
      /\ NotInMap(r) \/ FollowUnset(r) \/ Apply(r)
  <2>1. phase = "relocating" /\ relocated + 1 \in DOMAIN rel
    BY SettingTypes DEF Relocate, Relocating
  <2> QED
    BY <2>1, SettingTypes DEF Relocate, Relocating, Failed, PassOver
<1>2. Begun /\ section > Len(sht)
  BY <1>1, NoCause DEF Setting, Stages, Merged
<1>3. \A k \in DOMAIN smap_table : dst[k] # 0
  BY <1>1, <1>2, NoCause, AllAreMerged
<1>4. /\ line_count = 2 + Len(sht) + Count(".text") + Count(".data") + Len(smap_table)
      /\ line_count <= MAX_ELF_FILE_LENGTH /\ Len(smap_table) \in Nat /\ Len(sht) \in Nat
  BY <1>1, NoCause
<1> HIDE DEF r
<1>5. CASE NotInMap(r)
  <2>1. PICK m \in DOMAIN symt : Referencing(r, m) /\ \A k \in DOMAIN smap_table : smap_table[k] # m
    BY <1>5 DEF NotInMap, ScanReaches
  <2>2. symt[m].bind # "STB_WEAK"
    BY <1>1, <2>1 DEF Cause, r
  <2>3. symt[m].st_shndx \in {".text", ".data"}
    BY <1>1, <2>1 DEF Referencing, Relocation
  <2> QED
    BY <1>1, <2>1, <2>2, <2>3, StrongIsInMap
<1>6. CASE FollowUnset(r)
  BY <1>3, <1>6 DEF FollowUnset, MeetsUnset
<1>7. CASE Apply(r)
  <2>1. PICK m \in DOMAIN symt, k \in DOMAIN smap_table, u \in DOMAIN smap_table :
            /\ Referencing(r, m) /\ smap_table[k] = m
            /\ \/ Patch(r, r.r_row - place[m].st_value + dst_symt[dst[k]].st_value, dst_symt[dst[u]])
               \/ IsRelative(r) /\ r.section # ".text"
    BY <1>7 DEF Apply, ScanReaches
  <2>2. CASE IsRelative(r) /\ r.section # ".text"
    <3>1. r.section = ".data"
      BY <1>1, <2>2 DEF Relocation
    <3> QED
      BY <1>1, <2>2, <3>1 DEF Cause, r
  <2>3. CASE Patch(r, r.r_row - place[m].st_value + dst_symt[dst[k]].st_value, dst_symt[dst[u]])
    <3> DEFINE row  == r.r_row - place[smap_table[k]].st_value + dst_symt[dst[k]].st_value
               line == SectionOffset(r) + row
               x    == line - 1 - Len(sht)
    <3>1. SizeIn(k) > 0 /\ dst[k] # 0
      BY <1>1, <1>3, NoCause
    <3>2. x \in DOMAIN buffer
      BY <1>1, <1>2, <2>1, <3>1, PatchedLine
    <3>3. Len(buffer) = Count(".text") + Count(".data") /\ Count(".text") \in Nat /\ Count(".data") \in Nat
      BY <1>2, AllLinesWritten
    <3>4. phase' = IF line < MAX_ELF_FILE_LENGTH THEN phase ELSE "undefined"
      BY <2>1, <2>3 DEF Patch
    <3>5. SectionOffset(r) \in Nat /\ row \in Nat
      BY <1>1, <1>2, <2>1, <3>1, PatchedLine
    <3>6. x \in 1 .. Len(buffer)
      BY <3>2, SettingTypes
    <3> HIDE DEF row
    <3>7. line \in Nat
      BY <3>5
    <3> HIDE DEF line
    <3>8. line < line_count
      <4> HIDE DEF line_count
      <4> QED
        BY <1>4, <3>3, <3>6, <3>7
    <3> QED
      BY <1>1, <1>4, <3>3, <3>4, <3>7, <3>8, SizeAssumption
  <2> QED
    BY <2>1, <2>2, <2>3
<1> QED
  BY <1>1, <1>5, <1>6, <1>7

\* No step fails without a cause.
LEMMA StepKeepsCause ==
    ASSUME Setting, Layout, FailureHasACause, [LinkNext]_linkVars
    PROVE  FailureHasACause'
<1>1. (FailureHasACause <=> (Failed => Cause))'
  BY CauseIsCause, PTL
<1> SUFFICES ASSUME Failed' PROVE Cause'
  BY <1>1
<1>2. phase # "resolving"
  BY DEF LinkNext, linkVars, compute_section_header, SkipSymbol, MergeSymbol, NextSection,
         WriteSymbols, Relocate, EndLink, Failed, Merging, Relocating
<1>3. Cause' <=> Cause
  BY <1>2, OtherSteps, CauseStays DEF Setting
<1>4. CASE Failed
  BY <1>3, <1>4, CauseIsCause
<1>5. CASE MergeSymbol /\ ~Failed
  BY <1>3, <1>5, MergeHasRoom DEF MergeSymbol, Failed
<1>6. CASE WriteSymbols
  BY <1>3, <1>6, SymbolsAreWritten
<1>7. CASE Relocate
  BY <1>3, <1>7, RelocationFails
<1>8. CASE compute_section_header \/ SkipSymbol \/ NextSection \/ EndLink
  BY <1>4, <1>8 DEF compute_section_header, SkipSymbol, NextSection, EndLink, Failed
<1>9. CASE UNCHANGED phase
  BY <1>4, <1>9 DEF Failed
<1> QED
  BY <1>4, <1>5, <1>6, <1>7, <1>8, <1>9 DEF LinkNext, linkVars

-----------------------------------------------------------------------------
(* Where references lead *)

\* A line that a relocation is for is in a symbol that the relocation is in.
LEMMA LineIsReferencing ==
    ASSUME Setting, Layout, Begun, NEW j \in DOMAIN rel, NEW i \in DOMAIN buffer, IsFor(j, i)
    PROVE  \E k \in DOMAIN smap_table :
            /\ dst[k] # 0
            /\ Referencing(rel[j], smap_table[k])
            /\ i = LineOf(k, rel[j].r_row - place[smap_table[k]].st_value)
<1>1. PICK k \in DOMAIN smap_table :
            /\ dst[k] # 0
            /\ buffer[i].sym = smap_table[k]
            /\ buffer[i].row \in 0 .. SizeIn(k) - 1
            /\ i = LineOf(k, buffer[i].row)
  BY DEF Layout, LinesPlaced
<1> DEFINE p == place[smap_table[k]].st_value
<1>2. p \in Nat /\ SizeIn(k) \in Nat /\ smap_table[k] \in DOMAIN symt
  BY SettingTypes, EntriesHaveSizes DEF Place
<1>3. p + buffer[i].row = rel[j].r_row
  BY <1>1 DEF IsFor
<1> HIDE DEF p
<1>4. rel[j].r_row \in p .. p + SizeIn(k) - 1 /\ buffer[i].row = rel[j].r_row - p
  BY <1>1, <1>2, <1>3
<1>5. Referencing(rel[j], smap_table[k])
  BY <1>1, <1>2, <1>4 DEF IsFor, Referencing, p, SizeIn
<1> QED
  BY <1>1, <1>4, <1>5 DEF p

\* A relocation is in one symbol that has lines.
LEMMA OneReferencing ==
    ASSUME Setting, NEW j \in DOMAIN rel, NEW m, NEW n,
           Referencing(rel[j], m), Referencing(rel[j], n),
           place[m].st_size > 0, place[n].st_size > 0
    PROVE  m = n
<1>1. /\ m \in DOMAIN symt /\ n \in DOMAIN symt
      /\ place[m].elf = place[n].elf /\ symt[m].st_shndx = symt[n].st_shndx
      /\ symt[m].st_shndx \in {".text", ".data"}
  BY SettingTypes DEF Referencing, Relocation
<1>2. /\ place[m].st_value \in Nat /\ place[m].st_size \in Nat
      /\ place[n].st_value \in Nat /\ place[n].st_size \in Nat
  <2>1. place[m] \in Place /\ place[n] \in Place
    BY <1>1, SettingTypes DEF InputsSound
  <2> QED
    BY <2>1, SizeAssumption DEF Place
<1>3. /\ rel[j].r_row \in place[m].st_value .. place[m].st_value + place[m].st_size - 1
      /\ rel[j].r_row \in place[n].st_value .. place[n].st_value + place[n].st_size - 1
  <2> DEFINE p == place[m].st_value
             q == place[n].st_value
             k == place[m].st_size
             l == place[n].st_size
             row == rel[j].r_row
  <2>1. row \in Nat
    BY SettingTypes DEF Relocation
  <2>2. /\ p <= row /\ (row <= p + k - 1 \/ p + k = 0)
        /\ q <= row /\ (row <= q + l - 1 \/ q + l = 0)
    BY DEF Referencing
  <2>3. p \in Nat /\ k \in Nat /\ q \in Nat /\ l \in Nat /\ k > 0 /\ l > 0
    BY <1>2
  <2> HIDE DEF p, q, k, l, row
  <2>4. row \in p .. p + k - 1 /\ row \in q .. q + l - 1
    BY <2>1, <2>2, <2>3
  <2> QED
    BY <2>4 DEF p, q, k, l, row
<1>4. ~(place[m].st_value + place[m].st_size <= place[n].st_value)
  BY <1>2, <1>3
<1>5. ~(place[n].st_value + place[n].st_size <= place[m].st_value)
  BY <1>2, <1>3
<1> QED
  BY <1>1, <1>4, <1>5, SettingTypes DEF InputsSound

\* What relocation of rel[j] owes line i when it refers to entry k
Owed(j, i, k) ==
    LET target == AddressOf(FirstLine(k))
    IN  IF IsRelative(rel[j]) THEN target - AddressOf(i) - INST_SIZE ELSE target

\* No relocation is in an empty symbol.
NoneIsDrawn ==
    \A j \in DOMAIN rel, m \in DOMAIN symt : Referencing(rel[j], m) => place[m].st_size > 0

Reached(j, i) ==
    IsFor(j, i) /\ IsGlobal(rel[j].sym) =>
        \A k \in Conflicts(rel[j].sym) : buffer[i].patch = <<Owed(j, i, k)>>

\* The property by relocation and line.
LEMMA AllAreReached ==
    ReferencesReachTheirSymbol <=>
        (Merged /\ Ordinary /\ NoneIsDrawn =>
            \A j \in 1 .. relocated, i \in DOMAIN buffer : Reached(j, i))
  BY DEF ReferencesReachTheirSymbol, NoneIsDrawn, Reached, Owed

\* What relocation does not change.
LEMMA SameTargets ==
    ASSUME UNCHANGED <<vars, placeVars, sht, dst_symt, dst>>
    PROVE  /\ UNCHANGED <<symt, smap_table, place, rel>>
           /\ \A k : FirstLine(k)' = FirstLine(k)
           /\ \A i : AddressOf(i)' = AddressOf(i)
           /\ \A m : Conflicts(m)' = Conflicts(m) /\ (IsGlobal(m)' <=> IsGlobal(m))
           /\ \A j, i, k : Owed(j, i, k)' = Owed(j, i, k)
<1>1. UNCHANGED <<symt, smap_table, place, rel, sht, dst_symt, dst>>
  BY DEF vars, placeVars
<1>2. \A k : FirstLine(k)' = FirstLine(k)
  BY <1>1 DEF FirstLine
<1>3. \A i : AddressOf(i)' = AddressOf(i)
  BY <1>1 DEF AddressOf, SizeOf
<1>4. \A m : Conflicts(m)' = Conflicts(m) /\ (IsGlobal(m)' <=> IsGlobal(m))
  BY <1>1 DEF Conflicts, IsGlobal
<1>5. \A j, i, k : Owed(j, i, k)' = Owed(j, i, k)
  BY <1>1, <1>2, <1>3 DEF Owed, IsRelative
<1> QED
  BY <1>1, <1>2, <1>3, <1>4, <1>5

\* A relocation that is processed without failing reaches its line, if there is one,
\* and only this line.
LEMMA RelocateReaches ==
    ASSUME Setting, Layout, Relocate, phase' = phase, Begun, NoneIsDrawn,
           NEW i \in DOMAIN buffer, IsFor(relocated + 1, i), IsGlobal(rel[relocated + 1].sym),
           NEW c \in Conflicts(rel[relocated + 1].sym)
    PROVE  buffer'[i].patch = <<Owed(relocated + 1, i, c)>>
<1> DEFINE J == relocated + 1
           r == rel[J]
<1>1. /\ J \in DOMAIN rel /\ r \in Relocation /\ r.sym \in DOMAIN symt
      /\ phase # "resolving" /\ phase' # "aborted" /\ phase' # "undefined"
  BY RelocateShape, SettingTypes DEF InputsSound
<1>2. PICK k \in DOMAIN smap_table :
            /\ dst[k] # 0
            /\ Referencing(r, smap_table[k])
            /\ i = LineOf(k, r.r_row - place[smap_table[k]].st_value)
  BY <1>1, LineIsReferencing
<1>3. PassOver(r) \/ Apply(r)
  BY <1>1 DEF Relocate, NotInMap, FollowUnset
<1> HIDE DEF J, r
<1>4. /\ c \in DOMAIN smap_table /\ IsGlobal(smap_table[c])
      /\ symt[smap_table[c]].st_name = symt[r.sym].st_name
  BY DEF Conflicts, r, J
<1>5. \A u \in DOMAIN smap_table : dst[u] # 0 => dst_symt[dst[u]].src = smap_table[u]
  BY DEF Layout, LinesPlaced
<1>6. ~PassOver(r)
  <2> SUFFICES ASSUME PassOver(r) PROVE FALSE
    OBVIOUS
  <2>1. PICK h \in DOMAIN smap_table :
            ~MeetsUnset(r, h) /\ \A u \in DOMAIN smap_table : ~Named(r, u)
    BY <1>1, <1>2 DEF PassOver, InVain, Referencing
  <2>2. ~Named(r, c) /\ \A g \in 1 .. c : ~Named(r, g)
    <3>1. DOMAIN smap_table = 1 .. Len(smap_table) /\ Len(smap_table) \in Nat
      BY SettingTypes, MapIsFunction
    <3>2. \A g \in 1 .. c : g \in DOMAIN smap_table
      BY <1>4, <3>1
    <3> QED
      BY <1>4, <2>1, <3>2
  <2>3. dst[c] # 0
    BY <1>4, <2>1, <2>2 DEF MeetsUnset
  <2> QED
    BY <1>4, <1>5, <2>2, <2>3 DEF Named
<1>7. PICK m \in DOMAIN symt, g \in DOMAIN smap_table, u \in DOMAIN smap_table :
        /\ Referencing(r, m) /\ smap_table[g] = m
        /\ ~MeetsUnset(r, g)
        /\ Referenced(r, u)
        /\ IsRelative(r) => r.section = ".text"
        /\ Patch(r, r.r_row - place[m].st_value + dst_symt[dst[g]].st_value, dst_symt[dst[u]])
  BY <1>1, <1>3, <1>6 DEF Apply, ScanReaches
<1>8. g = k
  <2>1. smap_table[k] \in DOMAIN symt
    BY SettingTypes, EntriesHaveSizes
  <2>2. place[m].st_size > 0 /\ place[smap_table[k]].st_size > 0
    BY <1>1, <1>2, <1>7, <2>1 DEF NoneIsDrawn, r, J
  <2>3. m = smap_table[k]
    BY <1>1, <1>2, <1>7, <2>2, OneReferencing DEF r
  <2> QED
    BY <1>7, <2>3 DEF Setting, Accounting, EntriesDiffer
<1>9. u = c /\ dst[u] # 0
  <2>1. dst[u] # 0 /\ u \in Conflicts(r.sym)
    BY <1>5, <1>7 DEF Referenced, Named, Conflicts
  <2>2. Seen = DOMAIN symt
    BY <1>1, SettingTypes, MapIsFunction DEF Setting, Stages, Accounting, CleanUp, Seen
  <2>3. \E h \in DOMAIN smap_table : Conflicts(r.sym) = {h}
    BY <1>1, <1>4, <2>2, SettingTypes DEF Accounting, Resolution, OneBestCandidate, r, J
  <2> QED
    BY <2>1, <2>3 DEF r, J
<1> DEFINE own == r.r_row - place[smap_table[k]].st_value
           row == own + dst_symt[dst[k]].st_value
           x   == (SectionOffset(r) + row) - 1 - Len(sht)
<1>10. /\ row \in Nat /\ x = LineOf(k, own)
       /\ r.section = ".text" => AddressOf(x) = row * INST_SIZE
  <2>1. SizeIn(k) > 0
    BY <1>1, <1>2, SettingTypes, EntriesHaveSizes DEF NoneIsDrawn, SizeIn, r, J
  <2> QED
    BY <1>1, <1>2, <2>1, PatchedLine
<1>11. x = i
  BY <1>2, <1>10
<1>12. Patch(r, row, dst_symt[dst[u]])
  BY <1>7, <1>8
<1> HIDE DEF own, row
<1>13. Relocated(r, row, dst_symt[dst[u]]) \in Int
  <2>1. row \in Int
    BY <1>10
  <2> QED
    BY <1>1, <1>9, <2>1, TargetIsNumber
<1>14. buffer'[i].patch = <<Relocated(r, row, dst_symt[dst[u]])>>
  BY <1>11, <1>12, <1>13, PatchShape
<1>15. Relocated(r, row, dst_symt[dst[u]]) = Owed(J, i, c)
  <2> DEFINE target == AddressOf(FirstLine(c))
  <2>1. get_symbol_runtime_address(dst_symt[dst[u]]) = target
    BY <1>9, TargetAddress
  <2>2. CASE IsRelative(r)
    <3>1. AddressOf(i) = row * INST_SIZE
      BY <1>7, <1>10, <1>11, <2>2
    <3>2. target \in Int
      BY <1>1, <1>9, <2>1, AddressIsNumber
    <3>3. Relocated(r, row, dst_symt[dst[u]]) = target - (row + 1) * INST_SIZE
      BY <2>1, <2>2 DEF Relocated
    <3>4. Owed(J, i, c) = target - row * INST_SIZE - INST_SIZE
      BY <2>2, <3>1 DEF Owed, r
    <3> HIDE DEF target
    <3>5. (row + 1) * INST_SIZE = row * INST_SIZE + INST_SIZE /\ row * INST_SIZE \in Nat
      BY <1>10, SizeAssumption
    <3> QED
      BY <3>2, <3>3, <3>4, <3>5, SizeAssumption
  <2>3. CASE ~IsRelative(r)
    <3>1. Owed(J, i, c) = target
      BY <2>3 DEF Owed, r
    <3>2. target \in Int
      BY <1>1, <1>9, <2>1, AddressIsNumber
    <3>3. Relocated(r, row, dst_symt[dst[u]]) = target - 0
      BY <2>1, <2>3 DEF Relocated
    <3> HIDE DEF target
    <3> QED
      BY <3>1, <3>2, <3>3
  <2> QED
    BY <2>2, <2>3
<1> QED
  BY <1>14, <1>15 DEF J

\* A relocation does not touch the lines of another.
LEMMA RelocateSpares ==
    ASSUME Setting, Layout, Relocate, phase' = phase, Begun, NoneIsDrawn,
           NEW i \in DOMAIN buffer, ~IsFor(relocated + 1, i)
    PROVE  buffer'[i] = buffer[i]
<1> DEFINE J == relocated + 1
           r == rel[J]
<1>1. /\ J \in DOMAIN rel /\ r \in Relocation
      /\ phase # "resolving" /\ phase' # "aborted" /\ phase' # "undefined"
  BY RelocateShape, SettingTypes
<1>2. PassOver(r) \/ Apply(r)
  BY <1>1 DEF Relocate, NotInMap, FollowUnset
<1>3. CASE PassOver(r)
  BY <1>3 DEF PassOver
<1>4. CASE Apply(r)
  <2> HIDE DEF J, r
  <2>1. PICK m \in DOMAIN symt, k \in DOMAIN smap_table, u \in DOMAIN smap_table :
            /\ Referencing(r, m) /\ smap_table[k] = m
            /\ ~MeetsUnset(r, k)
            /\ Referenced(r, u)
            /\ Patch(r, r.r_row - place[m].st_value + dst_symt[dst[k]].st_value, dst_symt[dst[u]])
    BY <1>1, <1>4 DEF Apply, ScanReaches
  <2>2. dst[k] # 0 /\ dst[u] # 0 /\ SizeIn(k) > 0
    BY <1>1, <2>1 DEF MeetsUnset, Referenced, Named, NoneIsDrawn, SizeIn, r
  <2> DEFINE own == r.r_row - place[smap_table[k]].st_value
             row == own + dst_symt[dst[k]].st_value
             x   == (SectionOffset(r) + row) - 1 - Len(sht)
  <2>3. own \in 0 .. SizeIn(k) - 1 /\ row \in Nat /\ x = LineOf(k, own) /\ x \in DOMAIN buffer
    BY <1>1, <2>1, <2>2, PatchedLine
  <2>4. IsFor(J, x)
    <3>1. buffer[x].sym = smap_table[k] /\ buffer[x].row = own
      BY <2>2, <2>3 DEF Layout, LinesPlaced
    <3>2. place[smap_table[k]].elf = r.elf /\ symt[smap_table[k]].st_shndx = r.section
      BY <2>1 DEF Referencing
    <3>3. place[smap_table[k]].st_value + own = r.r_row
      <4> DEFINE p == place[smap_table[k]].st_value
      <4>1. p \in Nat /\ r.r_row \in Nat /\ own = r.r_row - p
        BY <1>1, SettingTypes, EntriesHaveSizes DEF Place, Relocation
      <4> HIDE DEF p, own
      <4> QED
        BY <4>1 DEF p
    <3> HIDE DEF own, row, x
    <3> QED
      BY <3>1, <3>2, <3>3 DEF IsFor, r
  <2>5. Patch(r, row, dst_symt[dst[u]])
    BY <2>1
  <2> HIDE DEF own, row
  <2>6. Relocated(r, row, dst_symt[dst[u]]) \in Int
    <3>1. row \in Int
      BY <2>3
    <3> QED
      BY <1>1, <2>2, <3>1, TargetIsNumber
  <2>7. i # x
    BY <2>4 DEF J
  <2> QED
    BY <2>5, <2>6, <2>7, PatchShape
<1> QED
  BY <1>2, <1>3, <1>4

\* A relocation that is done stays done.
LEMMA RelocateKeepsReached ==
    ASSUME Setting, Layout, ReferencesReachTheirSymbol, Relocate
    PROVE  ReferencesReachTheirSymbol'
<1>1. (ReferencesReachTheirSymbol <=>
        (Merged /\ Ordinary /\ NoneIsDrawn =>
            \A j \in 1 .. relocated, i \in DOMAIN buffer : Reached(j, i)))'
  BY AllAreReached, PTL
<1>2. /\ phase = "relocating" /\ relocated' = relocated + 1 /\ relocated < Len(rel)
      /\ UNCHANGED <<vars, placeVars, sht, section, pos, offset, dst_symt, dst>>
      /\ phase' \in {"relocating", "aborted", "undefined"} /\ DOMAIN buffer' = DOMAIN buffer
      /\ \A i \in DOMAIN buffer :
            buffer'[i].sym = buffer[i].sym /\ buffer'[i].row = buffer[i].row
  BY RelocateShape
<1>3. relocated \in Nat /\ \A j \in 1 .. relocated' : j \in 1 .. relocated \/ j = relocated + 1
  BY <1>2, SettingTypes
<1> SUFFICES ASSUME Merged', Ordinary', NoneIsDrawn', NEW j \in 1 .. relocated', NEW i \in DOMAIN buffer',
                    IsFor(j, i)', IsGlobal(rel[j].sym)', NEW c \in Conflicts(rel[j].sym)'
             PROVE  buffer'[i].patch = <<Owed(j, i, c)'>>
  BY <1>1 DEF Reached
<1>4. phase' = phase /\ Ordinary /\ Begun /\ Merged
  BY <1>2, SameMap DEF Merged, Begun
<1>5. /\ UNCHANGED <<place, rel, symt>> /\ i \in DOMAIN buffer
      /\ Owed(j, i, c)' = Owed(j, i, c)
      /\ c \in Conflicts(rel[j].sym) /\ IsGlobal(rel[j].sym)
  BY <1>2, SameTargets DEF Conflicts, IsGlobal
<1>6. IsFor(j, i) /\ NoneIsDrawn
  BY <1>2, <1>5 DEF IsFor, NoneIsDrawn, Referencing
<1>7. CASE j = relocated + 1
  BY <1>4, <1>5, <1>6, <1>7, RelocateReaches
<1>8. CASE j \in 1 .. relocated
  <2>1. buffer[i].patch = <<Owed(j, i, c)>>
    BY <1>4, <1>5, <1>6, <1>8, AllAreReached DEF Reached, Begun
  <2>2. ~IsFor(relocated + 1, i)
    <3>1. j # relocated + 1 /\ j \in DOMAIN rel /\ relocated + 1 \in DOMAIN rel
      BY <1>2, <1>3, <1>8, SettingTypes
    <3>2. <<rel[j].elf, rel[j].section, rel[j].r_row>>
            # <<rel[relocated + 1].elf, rel[relocated + 1].section, rel[relocated + 1].r_row>>
      BY <3>1, SettingTypes DEF InputsSound
    <3> QED
      BY <1>6, <3>2 DEF IsFor
  <2> QED
    BY <1>4, <1>5, <1>6, <2>1, <2>2, RelocateSpares
<1> QED
  BY <1>3, <1>7, <1>8

\* No step loses a patch, and every relocation writes its own.
LEMMA StepKeepsReached ==
    ASSUME Setting, Layout, ReferencesReachTheirSymbol, [LinkNext]_linkVars
    PROVE  ReferencesReachTheirSymbol'
<1>1. (ReferencesReachTheirSymbol <=>
        (Merged /\ Ordinary /\ NoneIsDrawn =>
            \A j \in 1 .. relocated, i \in DOMAIN buffer : Reached(j, i)))'
  BY AllAreReached, PTL
<1>2. CASE ~Merged'
  BY <1>1, <1>2
<1>3. CASE Relocate
  BY <1>3, RelocateKeepsReached
<1>4. CASE WriteSymbols
  <2>1. relocated' = 0
    BY <1>4 DEF WriteSymbols, Setting, Stages
  <2> QED
    BY <1>1, <2>1
<1>5. CASE Merged /\ UNCHANGED <<vars, placeVars, sht, mergeVars, relocated>>
  <2>1. UNCHANGED <<vars, placeVars, sht, buffer, dst_symt, dst, relocated>>
    BY <1>5 DEF mergeVars
  <2>2. UNCHANGED <<place, rel, symt>> /\ \A j, i, k : Owed(j, i, k)' = Owed(j, i, k)
    BY <2>1, SameTargets
  <2>3. \A j, i : Reached(j, i)' <=> Reached(j, i)
    <3>1. \A j, i : IsFor(j, i)' <=> IsFor(j, i)
      BY <2>1, <2>2 DEF IsFor
    <3>2. \A m : Conflicts(m)' = Conflicts(m) /\ (IsGlobal(m)' <=> IsGlobal(m))
      BY <2>1, SameTargets
    <3>3. \A j : Conflicts(rel[j].sym)' = Conflicts(rel[j].sym)
                 /\ (IsGlobal(rel[j].sym)' <=> IsGlobal(rel[j].sym))
      BY <2>1, <2>2 DEF Conflicts, IsGlobal, vars
    <3> QED
      BY <2>1, <2>2, <3>1, <3>3 DEF Reached
  <2>4. (Ordinary' <=> Ordinary) /\ (NoneIsDrawn' <=> NoneIsDrawn)
    BY <2>1, <2>2, SameMap DEF NoneIsDrawn, Referencing
  <2> QED
    BY <1>1, <1>5, <2>1, <2>3, <2>4, AllAreReached
<1>6. CASE Merged'
  <2>1. CASE EndLink \/ UNCHANGED linkVars
    BY <1>5, <1>6, <2>1 DEF EndLink, linkVars, Merged
  <2>2. CASE Next /\ UNCHANGED <<placeVars, phase, sht, mergeVars, relocated, stray>>
    BY <1>6, <2>2, NextResolves DEF Merged, Setting, Stages
  <2>3. CASE compute_section_header \/ SkipSymbol \/ MergeSymbol \/ NextSection
    BY <1>6, <2>3 DEF Merged, compute_section_header, SkipSymbol, MergeSymbol, NextSection, Merging
  <2> QED
    BY <1>3, <1>4, <2>1, <2>2, <2>3 DEF LinkNext
<1> QED
  BY <1>2, <1>6

-----------------------------------------------------------------------------
(* The theorems *)

\* The linker begins with its invariant.
LEMMA InitLinking == LinkInit => Linking
<1> SUFFICES ASSUME LinkInit PROVE Linking
  OBVIOUS
<1>1. phase = "resolving"
  BY DEF LinkInit, Unlinked
<1>2. Layout
  BY <1>1 DEF Layout, LinesCounted, SymbolsCounted, LinesPlaced, Begun
<1>3. FailureHasACause /\ ReferencesReachTheirSymbol
  BY <1>1 DEF FailureHasACause, ReferencesReachTheirSymbol, Merged
<1> QED
  BY <1>2, <1>3, InitSetting DEF Linking

\* Every step of it keeps the invariant.
LEMMA StepKeepsLinking == Linking /\ [LinkNext]_linkVars => Linking'
<1> SUFFICES ASSUME Linking, [LinkNext]_linkVars PROVE Linking'
  OBVIOUS
<1>1. Setting'
  BY StepKeepsSetting DEF Linking
<1>2. Layout'
  BY <1>1, StepKeepsLayout DEF Linking
<1>3. FailureHasACause'
  BY StepKeepsCause DEF Linking
<1>4. ReferencesReachTheirSymbol'
  BY StepKeepsReached DEF Linking
<1> QED
  BY <1>1, <1>2, <1>3, <1>4 DEF Linking

\* The invariant of the linker, from the first symbol to the last relocation.
THEOREM LinkingInvariance == LinkSpec => []Linking
<1> QED
  BY InitLinking, StepKeepsLinking, PTL DEF LinkSpec

\* The headers, lines, symbols and positions that link_elf works with stay what
\* their types say.
THEOREM LinkTypeCorrect == LinkSpec => []LinkTypeOK
<1>1. Linking => LinkTypeOK
  BY DEF Linking, Setting
<1> QED
  BY <1>1, LinkingInvariance, PTL

\* merge_section: whatever files are linked, in whatever order, every symbol of
\* code or data is found in the output where its header and its entry say.
THEOREM OutputIsInPlace == LinkSpec => []MergedInPlace
<1>1. Linking => MergedInPlace
  BY OutputInPlace DEF Linking
<1> QED
  BY <1>1, LinkingInvariance, PTL

\* relocation_processing: every reference to a global name in code or data is
\* given the address of the one definition that symbol resolution kept, or the
\* distance to it.
THEOREM ReferencesAreRight == LinkSpec => []ReferencesReachTheirSymbol
<1>1. Linking => ReferencesReachTheirSymbol
  BY DEF Linking
<1> QED
  BY <1>1, LinkingInvariance, PTL

\* link_elf: after resolution no assertion fails and no unset pointer is read,
\* except for one of the causes listed.
THEOREM FailuresAreJustified == LinkSpec => []FailureHasACause
<1>1. Linking => FailureHasACause
  BY DEF Linking
<1> QED
  BY <1>1, LinkingInvariance, PTL

-----------------------------------------------------------------------------
(* The program *)

\* The files that are linked make an input that the linker may be given, as files
\* from a compiler do (ObjectsAreRead).
SoundInput ==
    reading = "read" /\ phase = "resolving" /\ smap_table = <<>> =>
        \E in \in LinkInputs :
            symt = in.symt /\ src_sht = in.src_sht /\ place = in.place /\ rel = in.rel

\* Nothing is linked before all files are read, and from then on the linker's own
\* invariant holds.
Running ==
    /\ reading # "read" => Unlinked
    /\ reading = "read" => Linking

\* The last file is read when nothing is linked, and its reading ends in an input of the linker.
LEMMA StepKeepsRunning ==
    ASSUME Running, [LinkerNext]_programVars, SoundInput', (LinkInit => Linking)'
    PROVE  Running'
<1>1. CASE ParseFile
  <2>1. reading = "reading" /\ Unlinked
    BY <1>1 DEF ParseFile, Running
  <2>2. UNCHANGED <<smap_table, next, cleaned, status, phase, sht, mergeVars, relocated, stray>>
    BY <1>1 DEF ParseFile
  <2>3. Unlinked'
    BY <2>1, <2>2 DEF Unlinked, Unresolved, mergeVars
  <2>4. ASSUME reading' = "read" PROVE Linking'
    <3>1. (phase = "resolving" /\ smap_table = <<>>)'
      BY <2>3 DEF Unlinked, Unresolved
    <3>2. LinkInit'
      BY <2>3, <2>4, <3>1 DEF SoundInput, LinkInit
    <3> QED
      BY <3>2
  <2> QED
    BY <2>3, <2>4 DEF Running
<1>2. CASE FollowColumns
  <2>1. Unlinked /\ UNCHANGED linkVars /\ reading' = "undefined"
    BY <1>2 DEF FollowColumns, Running
  <2>2. Unlinked'
    BY <2>1 DEF Unlinked, Unresolved, linkVars, mergeVars, vars
  <2> QED
    BY <2>1, <2>2 DEF Running
<1>3. CASE reading = "read" /\ LinkNext /\ UNCHANGED <<readVars, output>>
  BY <1>3, StepKeepsLinking DEF Running, readVars
<1>4. CASE UNCHANGED <<linkVars, readVars>>
  <2>1. reading' = reading
    BY <1>4 DEF readVars
  <2>2. Unlinked => Unlinked'
    BY <1>4 DEF Unlinked, Unresolved, linkVars, mergeVars, vars
  <2>3. Linking => Linking'
    BY <1>4, StepKeepsLinking
  <2> QED
    BY <2>1, <2>2, <2>3 DEF Running
<1>5. write_eof => UNCHANGED <<linkVars, readVars>>
  BY DEF write_eof
<1>6. UNCHANGED programVars => UNCHANGED <<linkVars, readVars>>
  BY DEF programVars
<1> QED
  BY <1>1, <1>2, <1>3, <1>4, <1>5, <1>6 DEF LinkerNext

\* test_elf.c: a program that reads sound files keeps every promise of link_elf: as
\* soon as they are read the linker starts on them, and reading and writing do not
\* come between.
THEOREM ProgramLinks ==
    LinkerSpec /\ []SoundInput
        => [](MergedInPlace /\ ReferencesReachTheirSymbol /\ FailureHasACause)
<1>1. LinkerInit => Running
  BY DEF LinkerInit, Running
<1>2. Running /\ [LinkerNext]_programVars /\ SoundInput' /\ (LinkInit => Linking)' => Running'
  BY StepKeepsRunning
<1>3. Running => MergedInPlace /\ ReferencesReachTheirSymbol /\ FailureHasACause
  <2>1. Linking => MergedInPlace /\ ReferencesReachTheirSymbol /\ FailureHasACause
    BY OutputInPlace DEF Linking
  <2>2. phase = "resolving" => MergedInPlace /\ ReferencesReachTheirSymbol /\ FailureHasACause
    BY DEF MergedInPlace, ReferencesReachTheirSymbol, FailureHasACause, Merged
  <2> QED
    BY <2>1, <2>2 DEF Running, Unlinked
<1>4. LinkInit => Linking
  BY InitLinking
<1> QED
  BY <1>1, <1>2, <1>3, <1>4, PTL DEF LinkerSpec

-----------------------------------------------------------------------------
(* The text of an output, line by line *)

\* What is so at 0, and at n + 1 if it is so at n, is so of every number.
LEMMA LineInduction ==
    ASSUME NEW N \in Nat, NEW S, 0 \in S, \A n \in 0 .. N - 1 : n \in S => n + 1 \in S
    PROVE  \A n \in 0 .. N : n \in S
<1> SUFFICES ASSUME NEW n \in 0 .. N, n \notin S PROVE FALSE
  OBVIOUS
<1> DEFINE T == {k \in Nat : k <= N /\ k \notin S}
<1>1. n \in T
  OBVIOUS
<1>2. PICK k \in T : \A j \in T : ~ (<<j, k>> \in OpToRel(<, Nat))
  <2>1. T \subseteq Nat /\ T # {}
    BY <1>1
  <2> HIDE DEF T
  <2> QED
    BY <2>1, WFMin, NatLessThanWellFounded
<1>3. k # 0
  OBVIOUS
<1>4. k - 1 \in 0 .. N - 1 /\ (k - 1) + 1 = k
  BY <1>3
<1>5. k - 1 \notin S
  BY <1>4
<1>6. k - 1 \in T /\ k - 1 < k
  BY <1>4, <1>5
<1>7. <<k - 1, k>> \in OpToRel(<, Nat)
  BY <1>4, <1>6 DEF OpToRel
<1> QED
  BY <1>2, <1>6, <1>7

\* g has, line by line, what the buffer has after each line of a file.
Fills(g, file, N) ==
    /\ g[0] = <<>>
    /\ \A l \in 1 .. N : g[l] = IF Skipped(file[l]) THEN g[l - 1] ELSE Append(g[l - 1], Cut(file[l]))

\* What fills it line by line ends as the buffer.
LEMMA BufferIs ==
    ASSUME NEW file, NEW N \in Nat, Len(file) = N, NEW g, Fills(g, file, N)
    PROVE  Buffer(file) = g[N]
<1> DEFINE After(f) == [l \in 0 .. N |-> IF l = 0 THEN <<>>
                                        ELSE IF Skipped(file[l]) THEN f[l - 1]
                                        ELSE Append(f[l - 1], Cut(file[l]))]
           h == [l \in 0 .. N |-> g[l]]
           after == CHOOSE f : f = After(f)
<1>1. h = After(h)
  <2>1. ASSUME NEW l \in 0 .. N
        PROVE  h[l] = IF l = 0 THEN <<>> ELSE IF Skipped(file[l]) THEN h[l - 1] ELSE Append(h[l - 1], Cut(file[l]))
    <3>1. CASE l = 0
      BY <3>1 DEF Fills
    <3>2. CASE l # 0
      <4>1. l \in 1 .. N /\ l - 1 \in 0 .. N
        BY <3>2
      <4>2. h[l] = g[l] /\ h[l - 1] = g[l - 1]
        BY <4>1
      <4> HIDE DEF h
      <4> QED
        BY <3>2, <4>1, <4>2 DEF Fills
    <3> QED
      BY <3>1, <3>2
  <2> QED
    BY <2>1, Zenon
<1> HIDE DEF h
<1>2. after = After(after)
  BY <1>1, Zenon
<1>3. Buffer(file) = after[N]
  BY Zenon DEF Buffer
<1> DEFINE T == {l \in Nat : after[l] = g[l]}
<1> HIDE DEF after
<1>4. ASSUME NEW l \in 0 .. N
      PROVE  after[l] = IF l = 0 THEN <<>>
                        ELSE IF Skipped(file[l]) THEN after[l - 1] ELSE Append(after[l - 1], Cut(file[l]))
  BY <1>2, Zenon
<1>5. 0 \in T
  <2>1. after[0] = <<>>
    BY <1>4
  <2> QED
    BY <2>1 DEF Fills
<1>6. ASSUME NEW n \in 0 .. N - 1, n \in T PROVE n + 1 \in T
  <2>1. n + 1 \in 0 .. N /\ n + 1 \in 1 .. N /\ n + 1 # 0 /\ (n + 1) - 1 = n
    OBVIOUS
  <2>2. after[n] = g[n]
    BY <1>6
  <2>3. after[n + 1] = IF Skipped(file[n + 1]) THEN after[n] ELSE Append(after[n], Cut(file[n + 1]))
    BY <1>4, <2>1
  <2>4. g[n + 1] = IF Skipped(file[n + 1]) THEN g[n] ELSE Append(g[n], Cut(file[n + 1]))
    BY <2>1 DEF Fills
  <2> QED
    BY <2>1, <2>2, <2>3, <2>4
<1> HIDE DEF T
<1>7. N \in T
  BY <1>5, <1>6, LineInduction
<1> QED
  BY <1>3, <1>7 DEF T

\* Lines that all count, without comments
Plainly(line) == ~Skipped(line) /\ Cut(line) = line

\* A file of such lines is taken into the buffer as it is.
LEMMA AllLinesCount ==
    ASSUME NEW S, NEW file \in Seq(S), \A l \in 1 .. Len(file) : Plainly(file[l])
    PROVE  Buffer(file) = file
<1> DEFINE N == Len(file)
           g == [l \in 0 .. N |-> SubSeq(file, 1, l)]
<1>1. N \in Nat
  OBVIOUS
<1>2. g[0] = <<>>
  OBVIOUS
<1>3. ASSUME NEW l \in 1 .. N PROVE g[l] = Append(g[l - 1], file[l])
  <2>1. g[l] = SubSeq(file, 1, l) /\ g[l - 1] = SubSeq(file, 1, l - 1)
    OBVIOUS
  <2>2. SubSeq(file, 1, l) = Append(SubSeq(file, 1, l - 1), file[l])
    OBVIOUS
  <2> QED
    BY <2>1, <2>2
<1>4. g[N] = file
  <2>1. g[N] = SubSeq(file, 1, N)
    OBVIOUS
  <2>2. SubSeq(file, 1, N) = file
    OBVIOUS
  <2> QED
    BY <2>1, <2>2
<1> HIDE DEF g
<1>5. Fills(g, file, N)
  BY <1>2, <1>3 DEF Fills, Plainly
<1> QED
  BY <1>1, <1>4, <1>5, BufferIs

\* A file with one line that does not count: what its buffer begins with, and its length.
LEMMA OneLineSkipped ==
    ASSUME NEW S, NEW file \in Seq(S), NEW z \in 2 .. Len(file), Skipped(file[z]),
           \A l \in 1 .. Len(file) : l # z => Plainly(file[l])
    PROVE  Len(Buffer(file)) = Len(file) - 1 /\ Buffer(file)[1] = file[1]
<1> DEFINE N == Len(file)
           g == [l \in 0 .. N |-> IF l < z THEN SubSeq(file, 1, l)
                                  ELSE SubSeq(file, 1, z - 1) \o SubSeq(file, z + 1, l)]
<1>1. N \in Nat /\ z \in Nat /\ z >= 2 /\ z <= N
  OBVIOUS
<1>2. g[0] = <<>>
  BY <1>1
<1>3. ASSUME NEW l \in 1 .. N, l # z PROVE g[l] = Append(g[l - 1], file[l])
  <2>1. CASE l < z
    <3>1. g[l] = SubSeq(file, 1, l) /\ g[l - 1] = SubSeq(file, 1, l - 1)
      BY <2>1, <1>1
    <3>2. SubSeq(file, 1, l) = Append(SubSeq(file, 1, l - 1), file[l])
      OBVIOUS
    <3> QED
      BY <3>1, <3>2
  <2>2. CASE l > z
    <3> DEFINE a == SubSeq(file, 1, z - 1)
               b == SubSeq(file, z + 1, l - 1)
    <3>0. l \in 0 .. N /\ l - 1 \in 0 .. N /\ ~(l < z) /\ ~(l - 1 < z)
      BY <2>2, <1>1
    <3>1. g[l] = a \o SubSeq(file, z + 1, l) /\ g[l - 1] = a \o b
      BY <3>0, Zenon
    <3>2. SubSeq(file, z + 1, l) = Append(b, file[l])
      BY <2>2, <1>1
    <3>3. a \in Seq(S) /\ b \in Seq(S) /\ file[l] \in S
      BY <2>2, <1>1
    <3> HIDE DEF a, b, g
    <3>4. a \o Append(b, file[l]) = Append(a \o b, file[l])
      BY <3>3
    <3> QED
      BY <3>1, <3>2, <3>4
  <2> HIDE DEF g
  <2>3. l < z \/ l > z
    BY <1>1, <1>3
  <2> QED
    BY <2>1, <2>2, <2>3
<1>4. g[z] = g[z - 1]
  <2>1. g[z] = SubSeq(file, 1, z - 1) \o SubSeq(file, z + 1, z) /\ g[z - 1] = SubSeq(file, 1, z - 1)
    BY <1>1
  <2>2. SubSeq(file, z + 1, z) = <<>> /\ SubSeq(file, 1, z - 1) \in Seq(S)
    BY <1>1
  <2> HIDE DEF g
  <2>3. \A a \in Seq(S) : a \o <<>> = a
    OBVIOUS
  <2> QED
    BY <2>1, <2>2, <2>3
<1>5. Len(g[N]) = N - 1 /\ g[N][1] = file[1]
  <2> DEFINE a == SubSeq(file, 1, z - 1)
             b == SubSeq(file, z + 1, N)
  <2>1. g[N] = a \o b
    BY <1>1
  <2>2. a \in Seq(S) /\ b \in Seq(S) /\ Len(a) = z - 1 /\ Len(b) = N - z /\ a[1] = file[1]
    BY <1>1
  <2> HIDE DEF a, b, g
  <2>3. Len(a \o b) = Len(a) + Len(b) /\ (Len(a) >= 1 => (a \o b)[1] = a[1])
    BY <2>2
  <2> QED
    BY <1>1, <2>1, <2>2, <2>3
<1> HIDE DEF g
<1>6. Fills(g, file, N)
  BY <1>1, <1>2, <1>3, <1>4 DEF Fills, Plainly
<1> QED
  BY <1>1, <1>5, <1>6, BufferIs

\* A line that neither begins with a blank nor has a comment counts as it is.
LEMMA PlainLine ==
    ASSUME NEW S, NEW line \in Seq(S), Len(line) > 0, line[1] # Blank,
           \A c \in 1 .. Len(line) : line[c] # Note
    PROVE  Plainly(line)
<1>1. line # <<>> /\ Len(line) \in Nat /\ 1 \in 1 .. Len(line)
  OBVIOUS
<1>2. ~Skipped(line)
  BY <1>1 DEF Skipped
<1> DEFINE Here(n) == /\ \A c \in 1 .. n : line[c] # Note
                      /\ n < Len(line) => line[n + 1] = Note
           n == CHOOSE n \in 0 .. Len(line) : Here(n)
<1>3. Here(Len(line)) /\ Len(line) \in 0 .. Len(line)
  BY <1>1
<1>4. n \in 0 .. Len(line) /\ Here(n)
  BY <1>3, Zenon
<1>5. Cut(line) = SubSeq(line, 1, n)
  BY Zenon DEF Cut
<1> HIDE DEF n
<1>6. n = Len(line)
  BY <1>1, <1>4
<1>7. SubSeq(line, 1, Len(line)) = line
  OBVIOUS
<1> QED
  BY <1>2, <1>5, <1>6, <1>7 DEF Plainly

\* A row of the table of sections, and one of the table of symbols, that can be read
HeaderRow(row) ==
    /\ Len(row) = 4
    /\ row[2].value # NotANumber /\ row[3].value # NotANumber /\ row[4].value # NotANumber

SymbolRow(row) ==
    /\ Len(row) = 6 /\ row[2].word \in Bind /\ row[3].word \in Type
    /\ row[5].value # NotANumber /\ row[6].value # NotANumber

\* Lines b are an object file with headers n, of .symtab last, and s symbols
\* behind line off.
IsObject(b, n, off, s) ==
    /\ Len(b) <= MAX_ELF_FILE_LENGTH
    /\ NumberIn(b[1]) = Len(b) /\ NumberIn(b[2]) = n
    /\ 2 + n <= Len(b) /\ off + s <= Len(b)
    /\ \A h \in 1 .. n : HeaderRow(b[2 + h])
    /\ \A h \in 1 .. n - 1 : b[2 + h][1].word \in {".text", ".data"}
    /\ b[2 + n][1].word = ".symtab" /\ b[2 + n][3].value = off /\ b[2 + n][4].value = s
    /\ \A i \in 1 .. s : SymbolRow(b[off + i])

\* Text b is read, and its symbols are those of s lines behind line off.
ReadAs(b, off, s) ==
    /\ parse_elf(b).outcome = "read"
    /\ parse_elf(b).symt = [i \in 1 .. s |-> SymbolIn(b[off + i])]

\* So is a text of such lines that all count.
LEMMA ObjectIsRead ==
    ASSUME NEW b, Buffer(b) = b, DOMAIN b = 1 .. Len(b), Len(b) \in Nat,
           NEW n \in Nat \ {0}, NEW off \in Nat, NEW s \in Nat, IsObject(b, n, off, s)
    PROVE  ReadAs(b, off, s)
<1> DEFINE headers == SectionHeaders(b)
<1>1. read_elf(b) = "read"
  <2>1. b # <<>> /\ Len(b) # NotANumber /\ ~(Len(b) > MAX_ELF_FILE_LENGTH)
    BY SizeAssumption DEF IsObject, NotANumber
  <2> QED
    BY <2>1 DEF read_elf, IsObject
<1>2. /\ NumberIn(b[2]) = n /\ DOMAIN headers = 1 .. n
      /\ \A h \in 1 .. n : headers[h] = [sh_name |-> b[2 + h][1].word, sh_offset |-> b[2 + h][3].value,
                                         sh_size |-> b[2 + h][4].value]
  BY DEF SectionHeaders, IsObject
<1>3. HeadersRead(b) = "read"
  <2>1. ~(Len(b) < 2) /\ n # NotANumber
    BY DEF IsObject, NotANumber
  <2>2. ASSUME NEW h \in 1 .. n PROVE parse_sh(b, 2 + h) = "read"
    <3>1. HeaderRow(b[2 + h]) /\ 2 + h \in 1 .. Len(b)
      BY DEF IsObject
    <3> QED
      BY <3>1 DEF HeaderRow, parse_sh, Row, AreNumbers
  <2>3. First([h \in 1 .. n |-> parse_sh(b, 2 + h)]) = "read"
    BY <2>2 DEF First
  <2> QED
    BY <1>2, <2>1, <2>3 DEF HeadersRead
<1>4. /\ headers[n].sh_name = ".symtab" /\ headers[n].sh_offset = off /\ headers[n].sh_size = s
      /\ \A h \in 1 .. n : h # n => headers[h].sh_name \in {".text", ".data"}
  BY <1>2 DEF IsObject
<1> HIDE DEF headers
<1>5. RowsOf(headers, ".symtab") = [i \in 1 .. s |-> off + i]
  <2> DEFINE named == {h \in DOMAIN headers : headers[h].sh_name = ".symtab"}
             h == CHOOSE h \in named : \A g \in named : g <= h
  <2>1. named = {n}
    BY <1>2, <1>4
  <2>2. h = n
    BY <2>1
  <2>3. RowsOf(headers, ".symtab") = IF named = {} THEN <<>>
                                     ELSE [i \in 1 .. headers[h].sh_size |-> headers[h].sh_offset + i]
    BY Zenon DEF RowsOf
  <2> HIDE DEF named, h
  <2> QED
    BY <1>4, <2>1, <2>2, <2>3
<1>6. ASSUME NEW name \in {".rel.text", ".rel.data"} PROVE RowsOf(headers, name) = <<>>
  <2>1. {h \in DOMAIN headers : headers[h].sh_name = name} = {}
    BY <1>2, <1>4
  <2> QED
    BY <2>1, Zenon DEF RowsOf
<1> DEFINE rows == RowsOf(headers, ".symtab")
<1>7. First([i \in DOMAIN rows |-> parse_symtab(b, rows[i])]) = "read"
  <2>1. ASSUME NEW i \in 1 .. s PROVE parse_symtab(b, off + i) = "read"
    <3>1. SymbolRow(b[off + i])
      BY DEF IsObject
    <3>2. off + s <= Len(b)
      BY DEF IsObject
    <3>3. off + i \in 1 .. Len(b)
      BY <3>2
    <3> QED
      BY <3>1, <3>3 DEF SymbolRow, parse_symtab, Row, AreNumbers
  <2>2. \A i \in DOMAIN rows : parse_symtab(b, rows[i]) = "read"
    BY <1>5, <2>1
  <2> HIDE DEF rows
  <2> QED
    BY <2>2 DEF First
<1>8. ASSUME NEW symbols PROVE Relocations(b, <<>>, symbols) = "read"
  BY DEF Relocations, First
<1>9. Tables(b, headers) = "read"
  <2>1. ~ \A h \in DOMAIN headers : headers[h].sh_name # ".symtab"
    BY <1>2, <1>4
  <2>2. First(<<"read", "read", "read">>) = "read"
    BY DEF First
  <2>3. Relocations(b, RowsOf(headers, ".rel.text"), rows) = "read"
    BY <1>6, <1>8
  <2>4. Relocations(b, RowsOf(headers, ".rel.data"), rows) = "read"
    BY <1>6, <1>8
  <2>5. Tables(b, headers) =
            First(<<First([i \in DOMAIN rows |-> parse_symtab(b, rows[i])]),
                    Relocations(b, RowsOf(headers, ".rel.text"), rows),
                    Relocations(b, RowsOf(headers, ".rel.data"), rows)>>)
    BY <2>1, Zenon DEF Tables
  <2> QED
    BY <1>7, <2>2, <2>3, <2>4, <2>5, Zenon
<1>10. Outcome(b) = "read"
  BY <1>1, <1>3, <1>9, Zenon DEF Outcome, headers
<1>11. /\ parse_elf(b).outcome = "read"
       /\ parse_elf(b).symt = [i \in DOMAIN rows |-> SymbolIn(b[rows[i]])]
  BY <1>10 DEF parse_elf, headers
<1>12. [i \in DOMAIN rows |-> SymbolIn(b[rows[i]])] = [i \in 1 .. s |-> SymbolIn(b[off + i])]
  <2>1. DOMAIN rows = 1 .. s /\ \A i \in 1 .. s : rows[i] = off + i
    BY <1>5
  <2> HIDE DEF rows
  <2> QED
    BY <2>1
<1> QED
  BY <1>11, <1>12, Zenon DEF ReadAs

\* A file that counts more lines than it has is refused.
LEMMA WrongLength ==
    ASSUME NEW file, NEW N \in Nat, N <= MAX_ELF_FILE_LENGTH, Len(Buffer(file)) = N - 1, N > 1,
           NumberIn(Buffer(file)[1]) = N
    PROVE  parse_elf(file).outcome # "read"
<1>1. read_elf(Buffer(file)) # "read"
  BY DEF read_elf
<1>2. Outcome(Buffer(file)) # "read"
  BY <1>1 DEF Outcome
<1> QED
  BY <1>2 DEF parse_elf

\* Numbers 1 .. n that are all different are all of them.
LEMMA AllNumbersTaken ==
    ASSUME NEW n \in Nat, NEW f \in [1 .. n -> 1 .. n], \A j, k \in 1 .. n : f[j] = f[k] => j = k
    PROVE  \A i \in 1 .. n : \E k \in 1 .. n : f[k] = i
<1>1. IsFiniteSet(1 .. n)
  BY FS_Interval
<1>2. f \in Injection(1 .. n, 1 .. n)
  BY DEF Injection, IsInjective
<1>3. f \in Surjection(1 .. n, 1 .. n)
  BY <1>1, <1>2, FS_Injection
<1> QED
  BY <1>3 DEF Surjection

-----------------------------------------------------------------------------
\* Merging has placed all entries, and there is room for all lines.
Complete ==
    /\ Setting /\ Layout /\ Merged /\ AllWritten
    /\ line_count <= MAX_ELF_FILE_LENGTH
    /\ stray = {}

\* If all entries have become symbols of the output the program is an ordinary one.
LEMMA EntriesArePlaced ==
    ASSUME Setting, phase # "resolving", AllWritten
    PROVE  /\ Begun
           /\ \A k \in DOMAIN smap_table :
                /\ SectionOf(k) \in {".text", ".data"} /\ Count(SectionOf(k)) > 0
                /\ SizeIn(k) > 0
<1>1. TypeOK /\ InputsSound
  BY SettingTypes
<1>2. EntriesIn(".rodata") = {} /\ EntriesIn(".symtab") = {}
  BY DEF AllWritten, EntriesIn
<1>3. \A k \in EntriesIn(".text") \cup EntriesIn(".data") : HasSource(smap_table[k])
  BY DEF AllWritten, EntriesIn
<1>4. Count(".rodata") = 0
  BY <1>1, <1>2, Counts
<1>5. ASSUME NEW k \in DOMAIN smap_table
      PROVE  /\ SectionOf(k) \in {".text", ".data"} /\ Count(SectionOf(k)) > 0
             /\ SizeIn(k) > 0
  <2>1. k \in EntriesIn(SectionOf(k))
    BY DEF EntriesIn, SectionOf
  <2>2. SizeIn(k) \in Nat /\ SizeIn(k) > 0
    BY <1>1, EntriesHaveSizes DEF AllWritten, SizeIn
  <2>3. SizeIn(k) <= Count(SectionOf(k)) /\ Count(SectionOf(k)) \in Nat
    BY <1>1, <2>1, Counts
  <2>4. SectionOf(k) \in {".text", ".data"}
    BY DEF AllWritten, SectionOf
  <2> QED
    BY <2>2, <2>3, <2>4
<1> QED
  BY <1>2, <1>3, <1>4, <1>5 DEF Begun, Ordinary

\* The lines of the sections are all written when the last section is merged.
LEMMA BufferIsFull ==
    ASSUME Setting, Layout, Begun, section > Len(sht)
    PROVE  /\ Len(buffer) = Count(".text") + Count(".data")
           /\ line_count = 2 + Len(sht) + Len(buffer) + Len(smap_table)
<1>1. Len(buffer) = Count(".text") + Count(".data")
  BY AllLinesWritten
<1>2. Count(".text") \in Nat /\ Count(".data") \in Nat /\ Count(".rodata") = 0
  BY SettingTypes, Counts DEF Begun, Ordinary
<1>3. Len(sht) = sht_count /\ Len(sht) \in 1 .. 3
  BY AtHand
<1>4. Len(smap_table) \in Nat
  BY SettingTypes, MapIsFunction
<1> QED
  BY <1>1, <1>2, <1>3, <1>4 DEF line_count

\* What there is when everything is merged.
LEMMA CompleteIs ==
    ASSUME Complete
    PROVE  /\ Begun /\ section > Len(sht) /\ phase # "resolving"
           /\ Len(sht) \in 1 .. 3 /\ DOMAIN sht = 1 .. Len(sht)
           /\ Len(buffer) \in Nat /\ DOMAIN buffer = 1 .. Len(buffer)
           /\ Len(smap_table) \in Nat /\ DOMAIN smap_table = 1 .. Len(smap_table)
           /\ Len(dst_symt) = Len(smap_table) /\ DOMAIN dst_symt = 1 .. Len(smap_table)
           /\ line_count = 2 + Len(sht) + Len(buffer) + Len(smap_table)
           /\ \A k \in DOMAIN smap_table :
                dst[k] \in DOMAIN dst_symt /\ dst_symt[dst[k]].src = smap_table[k]
           /\ \A i \in DOMAIN dst_symt : \E k \in DOMAIN smap_table : dst[k] = i
<1>1. Setting /\ Layout /\ Merged /\ AllWritten
  BY DEF Complete
<1>2. phase # "resolving" /\ section > Len(sht)
  BY <1>1 DEF Merged, Setting, Stages
<1>3. Begun /\ \A k \in DOMAIN smap_table :
        SectionOf(k) \in {".text", ".data"} /\ Count(SectionOf(k)) > 0
  BY <1>1, <1>2, EntriesArePlaced
<1>4. \A k \in DOMAIN smap_table : dst[k] # 0
  BY <1>1, <1>2, <1>3, AllAreMerged
<1>5. /\ Len(smap_table) \in Nat /\ DOMAIN smap_table = 1 .. Len(smap_table)
      /\ \A j, k \in DOMAIN smap_table : smap_table[j] = smap_table[k] => j = k
  BY <1>1, SettingTypes, MapIsFunction DEF Accounting, EntriesDiffer
<1>6. Len(dst_symt) = Len(smap_table)
  <2>1. {h \in DOMAIN smap_table : dst[h] # 0} = DOMAIN smap_table
    BY <1>4
  <2>2. Len(dst_symt) = Cardinality(DOMAIN smap_table)
    BY <1>1, <1>3, <2>1 DEF Layout, SymbolsCounted
  <2>3. Cardinality(DOMAIN smap_table) = Len(smap_table)
    BY <1>1, SettingTypes, EntriesNumber
  <2> QED
    BY <2>2, <2>3
<1>7. DOMAIN dst_symt = 1 .. Len(smap_table)
  BY <1>1, <1>6, SettingTypes
<1>8. \A k \in DOMAIN smap_table : dst[k] \in DOMAIN dst_symt /\ dst_symt[dst[k]].src = smap_table[k]
  BY <1>1, <1>2, <1>3, <1>4, OutputSymbols DEF Layout, LinesPlaced
<1>9. \A i \in DOMAIN dst_symt : \E k \in DOMAIN smap_table : dst[k] = i
  <2> DEFINE s == Len(smap_table)
  <2>1. DOMAIN dst = 1 .. s /\ dst = [k \in DOMAIN dst |-> dst[k]]
    BY <1>1, <1>2, <1>5 DEF Setting, Stages
  <2>2. dst \in [1 .. s -> 1 .. s]
    BY <1>5, <1>7, <1>8, <2>1
  <2>3. \A j, k \in 1 .. s : dst[j] = dst[k] => j = k
    BY <1>5, <1>8
  <2>4. s \in Nat
    BY <1>5
  <2> HIDE DEF s
  <2>5. \A i \in 1 .. s : \E k \in 1 .. s : dst[k] = i
    BY <2>2, <2>3, <2>4, AllNumbersTaken
  <2> QED
    BY <1>5, <1>7, <2>5 DEF s
<1>10. /\ Len(sht) \in 1 .. 3 /\ DOMAIN sht = 1 .. Len(sht)
       /\ Len(buffer) \in Nat /\ DOMAIN buffer = 1 .. Len(buffer)
  BY <1>1, <1>3, AtHand, SettingTypes
<1>11. line_count = 2 + Len(sht) + Len(buffer) + Len(smap_table)
  BY <1>1, <1>2, <1>3, BufferIsFull
<1> QED
  BY <1>2, <1>3, <1>5, <1>6, <1>7, <1>8, <1>9, <1>10, <1>11

\* A function on 1 .. n is a list of n elements.
IsList(f, n) == f = [i \in 1 .. n |-> f[i]]

\* A list of n elements of S is a sequence of them.
LEMMA ListIs ==
    ASSUME NEW n \in Nat, NEW f, IsList(f, n), NEW S, \A i \in 1 .. n : f[i] \in S
    PROVE  f \in Seq(S) /\ Len(f) = n /\ DOMAIN f = 1 .. n
<1>1. f \in [1 .. n -> S]
  BY Zenon DEF IsList
<1> QED
  BY <1>1

\* Text x has lists of k, l, m and n lines one after the other.
InARow(x, k, a, l, b, m, c, n, d) ==
    /\ IsList(x, k + l + m + n) /\ Len(x) = k + l + m + n
    /\ \A i \in 1 .. k : x[i] = a[i]
    /\ \A i \in 1 .. l : x[k + i] = b[i]
    /\ \A i \in 1 .. m : x[k + l + i] = c[i]
    /\ \A i \in 1 .. n : x[k + l + m + i] = d[i]

\* Four lists joined have the lines of each where it belongs.
LEMMA ListsInARow ==
    ASSUME NEW k \in Nat, NEW l \in Nat, NEW m \in Nat, NEW n \in Nat,
           NEW a, IsList(a, k), NEW b, IsList(b, l), NEW c, IsList(c, m), NEW d, IsList(d, n)
    PROVE  InARow(Joined(a, b, c, d), k, a, l, b, m, c, n, d)
<1> DEFINE S == {a[i] : i \in 1 .. k} \cup {b[i] : i \in 1 .. l}
                    \cup {c[i] : i \in 1 .. m} \cup {d[i] : i \in 1 .. n}
           all == Joined(a, b, c, d)
<1>1. /\ \A i \in 1 .. k : a[i] \in S
      /\ \A i \in 1 .. l : b[i] \in S
      /\ \A i \in 1 .. m : c[i] \in S
      /\ \A i \in 1 .. n : d[i] \in S
  OBVIOUS
<1> HIDE DEF S
<1>2. a \in Seq(S) /\ Len(a) = k
  BY <1>1, ListIs
<1>3. b \in Seq(S) /\ Len(b) = l
  BY <1>1, ListIs
<1>4. c \in Seq(S) /\ Len(c) = m
  BY <1>1, ListIs
<1>5. d \in Seq(S) /\ Len(d) = n
  BY <1>1, ListIs
<1>6. all \in Seq(S)
  BY <1>2, <1>3, <1>4, <1>5, FourInARow
<1>7. Len(all) = Len(a) + Len(b) + Len(c) + Len(d)
  <2>1. a \in Seq(S) /\ b \in Seq(S) /\ c \in Seq(S) /\ d \in Seq(S)
    BY <1>2, <1>3, <1>4, <1>5
  <2> QED
    BY <2>1, FourInARow
<1>8. HasFrom(all, 0, a)
  BY <1>2, <1>3, <1>4, <1>5, FourInARow
<1>9. HasFrom(all, Len(a), b)
  BY <1>2, <1>3, <1>4, <1>5, FourInARow
<1>10. HasFrom(all, Len(a) + Len(b), c)
  BY <1>2, <1>3, <1>4, <1>5, FourInARow
<1>11. HasFrom(all, Len(a) + Len(b) + Len(c), d)
  BY <1>2, <1>3, <1>4, <1>5, FourInARow
<1> HIDE DEF all
<1>12. IsList(all, Len(all))
  BY <1>6 DEF IsList
<1>13. IsList(all, k + l + m + n) /\ Len(all) = k + l + m + n
  BY <1>2, <1>3, <1>4, <1>5, <1>7, <1>12
<1>14. \A i \in 1 .. k : all[i] = a[i]
  BY <1>2, <1>8 DEF HasFrom
<1>15. \A i \in 1 .. l : all[k + i] = b[i]
  BY <1>2, <1>3, <1>9 DEF HasFrom
<1>16. \A i \in 1 .. m : all[k + l + i] = c[i]
  BY <1>2, <1>3, <1>4, <1>10 DEF HasFrom
<1>17. \A i \in 1 .. n : all[k + l + m + i] = d[i]
  BY <1>2, <1>3, <1>4, <1>5, <1>11 DEF HasFrom
<1> QED
  BY <1>13, <1>14, <1>15, <1>16, <1>17 DEF all, InARow

-----------------------------------------------------------------------------
(* The text of the output *)

HeadLines    == <<<<Number(line_count)>>, <<Number(Len(sht))>>>>
HeaderLines  == [h \in DOMAIN sht |-> HeaderLine(sht[h])]
SourceLines  == [i \in DOMAIN buffer |-> SourceLine(buffer[i])]
SymbolLines  == [i \in DOMAIN smap_table |->
                    IF i \in DOMAIN dst_symt \ stray THEN SymbolLine(dst_symt[i]) ELSE Arbitrary]
OutputText   == Joined(HeadLines, HeaderLines, SourceLines, SymbolLines)

\* Where the symbols of the output are.
SymbolsFrom == 2 + Len(sht) + Len(buffer)

\* A text has the lines of the output, each where it belongs.
HasLines(t) ==
    /\ t[1] = <<Number(line_count)>> /\ t[2] = <<Number(Len(sht))>>
    /\ \A h \in 1 .. Len(sht) : t[2 + h] = HeaderLine(sht[h])
    /\ \A i \in 1 .. Len(buffer) : t[2 + Len(sht) + i] = SourceLine(buffer[i])
    /\ \A i \in 1 .. Len(smap_table) : t[SymbolsFrom + i] = SymbolLine(dst_symt[i])

\* The text that write_eof writes has line_count lines, each where the counts put it.
LEMMA OutputHasLines ==
    ASSUME Complete
    PROVE  IsList(OutputText, line_count) /\ Len(OutputText) = line_count /\ HasLines(OutputText)
<1> DEFINE n == Len(sht)
           b == Len(buffer)
           s == Len(smap_table)
<1>1. /\ n \in Nat /\ b \in Nat /\ s \in Nat
      /\ DOMAIN sht = 1 .. n /\ DOMAIN buffer = 1 .. b /\ DOMAIN smap_table = 1 .. s
      /\ DOMAIN dst_symt = 1 .. s /\ line_count = 2 + n + b + s
  BY CompleteIs
<1>2. IsList(HeadLines, 2)
  <2> DEFINE x == <<Number(line_count)>>
             y == <<Number(Len(sht))>>
  <2> HIDE DEF x, y
  <2>1. IsList(<<x, y>>, 2)
    BY DEF IsList
  <2> QED
    BY <2>1 DEF x, y, HeadLines
<1>3. IsList(HeaderLines, n)
  BY <1>1, Zenon DEF IsList, HeaderLines
<1>4. IsList(SourceLines, b)
  BY <1>1, Zenon DEF IsList, SourceLines
<1>5. IsList(SymbolLines, s)
  BY <1>1, Zenon DEF IsList, SymbolLines
<1>6. /\ \A h \in 1 .. n : HeaderLines[h] = HeaderLine(sht[h])
      /\ \A i \in 1 .. b : SourceLines[i] = SourceLine(buffer[i])
      /\ \A i \in 1 .. s : SymbolLines[i] = SymbolLine(dst_symt[i])
      /\ HeadLines[1] = <<Number(line_count)>> /\ HeadLines[2] = <<Number(n)>>
  BY <1>1 DEF HeaderLines, SourceLines, SymbolLines, HeadLines, Complete
<1> HIDE DEF n, b, s
<1>7. 2 \in Nat
  OBVIOUS
<1>8. InARow(OutputText, 2, HeadLines, n, HeaderLines, b, SourceLines, s, SymbolLines)
  BY <1>1, <1>2, <1>3, <1>4, <1>5, <1>7, ListsInARow DEF OutputText
<1> HIDE DEF OutputText
<1>9. OutputText[1] = HeadLines[1] /\ OutputText[2] = HeadLines[2]
  BY <1>8 DEF InARow
<1>10. /\ \A h \in 1 .. n : OutputText[2 + h] = HeaderLines[h]
       /\ \A i \in 1 .. b : OutputText[2 + n + i] = SourceLines[i]
       /\ \A i \in 1 .. s : OutputText[2 + n + b + i] = SymbolLines[i]
  BY <1>8, Zenon DEF InARow
<1>11. HasLines(OutputText)
  <2>1. OutputText[1] = <<Number(line_count)>> /\ OutputText[2] = <<Number(n)>>
    BY <1>6, <1>9, Zenon
  <2>2. \A h \in 1 .. n : OutputText[2 + h] = HeaderLine(sht[h])
    BY <1>6, <1>10, Zenon
  <2>3. \A i \in 1 .. b : OutputText[2 + n + i] = SourceLine(buffer[i])
    BY <1>6, <1>10, Zenon
  <2>4. \A i \in 1 .. s : OutputText[2 + n + b + i] = SymbolLine(dst_symt[i])
    BY <1>6, <1>10, Zenon
  <2> QED
    BY <2>1, <2>2, <2>3, <2>4, Zenon DEF HasLines, SymbolsFrom, n, b, s
<1> QED
  BY <1>1, <1>8, <1>11, Zenon DEF InARow

-----------------------------------------------------------------------------
(* Lines that the parser takes as they are *)

\* A column that is neither a comment nor a blank
Ink(c) == c # Note /\ c # Blank

\* Words and numbers of different texts are different columns.
LEMMA WordsDiffer ==
    ASSUME NEW v, NEW w, v # w
    PROVE  Word(v) # Word(w) /\ Word(v).word = v /\ Word(w).word = w
<1>1. Word(v).word = v /\ Word(w).word = w
  BY DEF Word
<1> QED
  BY <1>1, Zenon

\* A word that is neither the comment's nor the blank's is ink, and so is a number.
LEMMA InkIs ==
    /\ \A w : w # "//" /\ w # " " => Ink(Word(w))
    /\ \A n : Ink(Number(n)) /\ Number(n) # Word("STT_GLOBAL")
<1>1. ASSUME NEW w, w # "//", w # " " PROVE Ink(Word(w))
  <2>1. Word(w) # Note
    BY <1>1, WordsDiffer, Zenon DEF Note
  <2>2. Word(w) # Blank
    BY <1>1, WordsDiffer, Zenon DEF Blank
  <2> QED
    BY <2>1, <2>2, Zenon DEF Ink
<1>2. ASSUME NEW n, NEW w, w # "number" PROVE Number(n) # Word(w)
  <2>1. Number(n).word = "number" /\ Word(w).word = w
    BY DEF Number, Word
  <2> QED
    BY <1>2, <2>1, Zenon
<1>3. ASSUME NEW n PROVE Ink(Number(n)) /\ Number(n) # Word("STT_GLOBAL")
  <2>1. Number(n) # Word("//")
    BY <1>2, Zenon
  <2>2. Number(n) # Word(" ")
    BY <1>2, Zenon
  <2>3. Number(n) # Word("STT_GLOBAL")
    BY <1>2, Zenon
  <2> QED
    BY <2>1, <2>2, <2>3, Zenon DEF Ink, Note, Blank
<1> QED
  BY <1>1, <1>3, Zenon

\* A line of k such columns
Inked(line, k) == IsList(line, k) /\ \A c \in 1 .. k : Ink(line[c])

\* A line of such columns is neither blank nor a comment: the parser keeps it whole.
LEMMA InkedIsPlain ==
    ASSUME NEW k \in Nat \ {0}, NEW line, Inked(line, k)
    PROVE  Plainly(line) /\ line # <<>> /\ Len(line) = k
<1> DEFINE S == {line[c] : c \in 1 .. k}
<1>1. \A c \in 1 .. k : line[c] \in S
  OBVIOUS
<1> HIDE DEF S
<1>2. line \in Seq(S) /\ Len(line) = k
  BY <1>1, ListIs DEF Inked
<1>3. line[1] # Blank /\ \A c \in 1 .. Len(line) : line[c] # Note
  BY <1>2 DEF Inked, Ink
<1>4. Len(line) > 0
  BY <1>2
<1>5. Plainly(line)
  BY <1>2, <1>3, <1>4, PlainLine
<1>6. line # <<>>
  BY <1>2
<1> QED
  BY <1>2, <1>5, <1>6

\* The line with STB_GLOBAL for STT_GLOBAL
Bound(line) ==
    [c \in DOMAIN line |-> IF c = 2 /\ line[c] = Word("STT_GLOBAL") THEN Word("STB_GLOBAL") ELSE line[c]]

\* Binding changes the second column of a line and no other.
LEMMA BoundIs ==
    ASSUME NEW k \in Nat \ {0}, NEW line, Inked(line, k)
    PROVE  /\ Inked(Bound(line), k)
           /\ \A c \in 1 .. k : c # 2 => Bound(line)[c] = line[c]
           /\ k >= 2 => Bound(line)[2] = IF line[2] = Word("STT_GLOBAL") THEN Word("STB_GLOBAL") ELSE line[2]
<1>1. DOMAIN line = 1 .. k
  BY Zenon DEF Inked, IsList
<1>2. Ink(Word("STB_GLOBAL"))
  BY InkIs, Zenon
<1>3. ASSUME NEW c \in 1 .. k
      PROVE  Bound(line)[c] = IF c = 2 /\ line[c] = Word("STT_GLOBAL") THEN Word("STB_GLOBAL") ELSE line[c]
  BY <1>1 DEF Bound
<1>4. IsList(Bound(line), k)
  <2>1. DOMAIN Bound(line) = 1 .. k
    BY <1>1 DEF Bound
  <2>2. Bound(line) = [c \in DOMAIN Bound(line) |-> Bound(line)[c]]
    BY DEF Bound
  <2> QED
    BY <2>1, <2>2, Zenon DEF IsList
<1>5. \A c \in 1 .. k : Ink(Bound(line)[c])
  BY <1>2, <1>3, Zenon DEF Inked
<1> QED
  BY <1>3, <1>4, <1>5 DEF Inked

\* One, three, four and six columns of ink
LEMMA InkedLines ==
    ASSUME NEW a, NEW b, NEW c, NEW d, NEW e, NEW f,
           Ink(a), Ink(b), Ink(c), Ink(d), Ink(e), Ink(f)
    PROVE  /\ Inked(<<a>>, 1) /\ Inked(<<a, b, c>>, 3) /\ Inked(<<a, b, c, d>>, 4)
           /\ Inked(<<a, b, c, d, e, f>>, 6)
<1>1. IsList(<<a>>, 1) /\ IsList(<<a, b, c>>, 3) /\ IsList(<<a, b, c, d>>, 4)
      /\ IsList(<<a, b, c, d, e, f>>, 6)
  BY DEF IsList
<1> QED
  BY <1>1 DEF Inked

\* The lines of the output but the empty one.
LEMMA LinesAreInked ==
    /\ \A n : Inked(<<Number(n)>>, 1)
    /\ \A l : Inked(SourceLine(l), 3)
    /\ \A sh : sh.sh_name \in {".text", ".data"} => Inked(HeaderLine(sh), 4)
<1>1. ASSUME NEW l PROVE Inked(SourceLine(l), 3)
  BY InkIs, InkedLines, Zenon DEF SourceLine
<1>2. ASSUME NEW sh, sh.sh_name \in {".text", ".data"} PROVE Inked(HeaderLine(sh), 4)
  <2>1. sh.sh_name # ".symtab" /\ sh.sh_name # "//" /\ sh.sh_name # " "
    BY <1>2, Zenon
  <2>2. Ink(Word(sh.sh_name))
    BY <2>1, InkIs, Zenon
  <2>3. HeaderLine(sh) = <<Word(sh.sh_name), Number(BASE + sh.sh_addr), Number(sh.sh_offset), Number(sh.sh_size)>>
    BY <2>1, Zenon DEF HeaderLine
  <2> QED
    BY <2>2, <2>3, InkIs, InkedLines, Zenon
<1>3. ASSUME NEW n PROVE Inked(<<Number(n)>>, 1)
  BY InkIs, InkedLines, Zenon
<1> QED
  BY <1>1, <1>2, <1>3, Zenon

\* The symbol table's lines, with the words that the parser looks for once repaired
LEMMA SymbolLinesAreInked ==
    ASSUME NEW d, symt[d.src] \in Symbol, symt[d.src].st_shndx \in {".text", ".data"}
    PROVE  /\ Inked(SymbolLine(d), 6)
           /\ LET row == Bound(SymbolLine(d))
              IN  /\ Inked(row, 6)
                  /\ row[1].word = symt[d.src].st_name
                  /\ row[2].word = symt[d.src].bind
                  /\ row[3].word = symt[d.src].type
                  /\ row[4].word = symt[d.src].st_shndx
                  /\ row[5].value = d.st_value
                  /\ row[6].value = place[d.src].st_size
<1> DEFINE line == SymbolLine(d)
           row == Bound(line)
           stb == get_stb_string(symt[d.src].bind)
<1>1. /\ symt[d.src].st_name \in Name /\ symt[d.src].bind \in Bind
      /\ symt[d.src].type \in Type
  BY DEF Symbol
<1>2. \A w \in Name : w # "//" /\ w # " "
  BY NamesAssumption, Zenon
<1>3. stb \in {"STB_LOCAL", "STT_GLOBAL", "STB_WEAK"}
  BY <1>1 DEF get_stb_string, Bind
<1>4. /\ Ink(Word(symt[d.src].st_name)) /\ Ink(Word(stb)) /\ Ink(Word(symt[d.src].type))
      /\ Ink(Word(symt[d.src].st_shndx))
  <2>1. stb # "//" /\ stb # " "
    BY <1>3, Zenon
  <2>2. symt[d.src].type # "//" /\ symt[d.src].type # " "
    BY <1>1, Zenon DEF Type
  <2>3. symt[d.src].st_shndx # "//" /\ symt[d.src].st_shndx # " "
    BY Zenon
  <2> QED
    BY <1>1, <1>2, <2>1, <2>2, <2>3, InkIs, Zenon
<1>5. line = <<Word(symt[d.src].st_name), Word(stb), Word(symt[d.src].type), Word(symt[d.src].st_shndx),
               Number(d.st_value), Number(place[d.src].st_size)>>
  BY Zenon DEF SymbolLine
<1>6. Inked(line, 6)
  BY <1>4, <1>5, InkIs, InkedLines, Zenon
<1>7. /\ line[1] = Word(symt[d.src].st_name) /\ line[2] = Word(stb) /\ line[3] = Word(symt[d.src].type)
      /\ line[4] = Word(symt[d.src].st_shndx) /\ line[5] = Number(d.st_value)
      /\ line[6] = Number(place[d.src].st_size)
  BY <1>5
<1> HIDE DEF line, stb
<1>8. /\ Inked(row, 6) /\ row[1] = line[1] /\ row[3] = line[3] /\ row[4] = line[4]
      /\ row[5] = line[5] /\ row[6] = line[6]
      /\ row[2] = IF line[2] = Word("STT_GLOBAL") THEN Word("STB_GLOBAL") ELSE line[2]
  <2>1. 6 \in Nat \ {0} /\ 6 >= 2
    OBVIOUS
  <2> HIDE DEF row
  <2>2. Inked(row, 6) /\ \A c \in 1 .. 6 : c # 2 => row[c] = line[c]
    BY <1>6, <2>1, BoundIs DEF row
  <2>3. row[2] = IF line[2] = Word("STT_GLOBAL") THEN Word("STB_GLOBAL") ELSE line[2]
    BY <1>6, <2>1, BoundIs DEF row
  <2> QED
    BY <2>2, <2>3
<1> HIDE DEF row
<1>9. row[2].word = symt[d.src].bind
  <2>1. CASE symt[d.src].bind = "STB_GLOBAL"
    <3>1. stb = "STT_GLOBAL"
      BY <2>1 DEF stb, get_stb_string
    <3>2. row[2] = Word("STB_GLOBAL")
      BY <1>7, <1>8, <3>1, Zenon
    <3> QED
      BY <2>1, <3>2 DEF Word
  <2>2. CASE symt[d.src].bind # "STB_GLOBAL"
    <3>1. stb = symt[d.src].bind /\ stb # "STT_GLOBAL"
      BY <1>1, <2>2 DEF stb, get_stb_string, Bind
    <3>2. Word(stb) # Word("STT_GLOBAL")
      BY <3>1, WordsDiffer, Zenon
    <3>3. row[2] = Word(stb)
      BY <1>7, <1>8, <3>2, Zenon
    <3> QED
      BY <3>1, <3>3 DEF Word
  <2> QED
    BY <2>1, <2>2
<1>10. /\ row[1].word = symt[d.src].st_name /\ row[3].word = symt[d.src].type
       /\ row[4].word = symt[d.src].st_shndx
       /\ row[5].value = d.st_value /\ row[6].value = place[d.src].st_size
  BY <1>7, <1>8 DEF Word, Number
<1> QED
  BY <1>6, <1>8, <1>9, <1>10, Zenon DEF row, line

-----------------------------------------------------------------------------
(* The output, read again *)

\* The header of .symtab as it should have been printed
SymtabLine ==
    <<Word(".symtab"), Number(0), Number(sht[Len(sht)].sh_offset), Number(sht[Len(sht)].sh_size)>>

\* Repairing a text works line by line: the empty line becomes the header of .symtab.
LEMMA RepairedIs ==
    ASSUME NEW N \in Nat, NEW file, IsList(file, N)
    PROVE  /\ IsList(Repaired(file), N)
           /\ \A l \in 1 .. N :
                Repaired(file)[l] = IF file[l] = <<>> THEN SymtabLine ELSE Bound(file[l])
<1>1. DOMAIN file = 1 .. N
  BY Zenon DEF IsList
<1>2. Repaired(file) = [l \in DOMAIN file |-> IF file[l] = <<>> THEN SymtabLine ELSE Bound(file[l])]
  BY Zenon DEF Repaired, SymtabLine, Bound
<1>3. Repaired(file) = [l \in 1 .. N |-> IF file[l] = <<>> THEN SymtabLine ELSE Bound(file[l])]
  BY <1>1, <1>2, Zenon
<1>4. \A l \in 1 .. N : Repaired(file)[l] = IF file[l] = <<>> THEN SymtabLine ELSE Bound(file[l])
  BY <1>3, Zenon
<1>5. Repaired(file) = [l \in 1 .. N |-> Repaired(file)[l]]
  BY <1>3, Zenon
<1> QED
  BY <1>4, <1>5, Zenon DEF IsList

\* The headers of a complete output
LEMMA LastHeader ==
    ASSUME Complete
    PROVE  /\ \A h \in 1 .. Len(sht) :
                /\ sht[h].sh_name = ".symtab" <=> h = Len(sht)
                /\ h # Len(sht) => sht[h].sh_name \in {".text", ".data"}
                /\ sht[h].sh_addr \in Nat /\ sht[h].sh_offset \in Nat /\ sht[h].sh_size \in Nat
           /\ sht[Len(sht)].sh_offset = SymbolsFrom
           /\ sht[Len(sht)].sh_size = Len(smap_table)
<1>1. Setting /\ Layout /\ Begun /\ section > Len(sht) /\ sht = Headers
  BY CompleteIs DEF Complete, Setting, Stages
<1>2. /\ Len(sht) \in 1 .. 3 /\ DOMAIN sht = 1 .. Len(sht)
      /\ \A h \in DOMAIN sht : sht[h].sh_name \in {".text", ".data", ".symtab"}
      /\ \A g, h \in DOMAIN sht : sht[g].sh_name = sht[h].sh_name => g = h
      /\ sht[Len(sht)].sh_name = ".symtab"
      /\ \A h \in DOMAIN sht : sht[h].sh_offset = 2 + Len(sht) + Start(sht[h].sh_name)
  BY <1>1, AtHand
<1>3. Len(sht) \in DOMAIN sht
  BY <1>2
<1>4. sht[Len(sht)].sh_offset = SymbolsFrom
  <2>1. Start(".symtab") = Len(buffer)
    BY <1>1, BufferIsFull DEF Start
  <2> QED
    BY <1>2, <1>3, <2>1 DEF SymbolsFrom
<1>5. sht[Len(sht)].sh_size = Len(smap_table)
  <2> DEFINE last == Has(".text") + Has(".rodata") + Has(".data") + 1
  <2>1. TypeOK /\ InputsSound
    BY <1>1, SettingTypes
  <2>2. Len(Headers) = last
    BY <2>1, HeadersInOrder
  <2>3. Headers[last].sh_size = Len(smap_table)
    BY <2>1, HeadersInOrder
  <2> HIDE DEF last
  <2> QED
    BY <1>1, <2>2, <2>3
<1>6. ASSUME NEW h \in 1 .. Len(sht)
      PROVE  sht[h].sh_addr \in Nat /\ sht[h].sh_offset \in Nat /\ sht[h].sh_size \in Nat
  <2>1. sht[h] \in Header
    BY <1>1, SettingTypes
  <2> QED
    BY <2>1 DEF Header
<1>7. \A h \in 1 .. Len(sht) : sht[h].sh_name = ".symtab" <=> h = Len(sht)
  BY <1>2, <1>3
<1>8. \A h \in 1 .. Len(sht) : h # Len(sht) => sht[h].sh_name \in {".text", ".data"}
  BY <1>2, <1>7
<1> QED
  BY <1>4, <1>5, <1>6, <1>7, <1>8

\* Where a line of the output is
LEMMA LineIs ==
    ASSUME NEW n \in Nat, NEW b \in Nat, NEW s \in Nat, NEW l \in 1 .. 2 + n + b + s
    PROVE  \/ l = 1 \/ l = 2
           \/ \E h \in 1 .. n : l = 2 + h
           \/ \E i \in 1 .. b : l = 2 + n + i
           \/ \E i \in 1 .. s : l = 2 + n + b + i
<1>1. CASE l \in 3 .. 2 + n
  <2>1. l - 2 \in 1 .. n /\ l = 2 + (l - 2)
    BY <1>1
  <2> QED
    BY <2>1
<1>2. CASE l \in 2 + n + 1 .. 2 + n + b
  <2>1. l - (2 + n) \in 1 .. b /\ l = 2 + n + (l - (2 + n))
    BY <1>2
  <2> QED
    BY <2>1
<1>3. CASE l \in 2 + n + b + 1 .. 2 + n + b + s
  <2>1. l - (2 + n + b) \in 1 .. s /\ l = 2 + n + b + (l - (2 + n + b))
    BY <1>3
  <2> QED
    BY <2>1
<1>4. l = 1 \/ l = 2 \/ l \in 3 .. 2 + n \/ l \in 2 + n + 1 .. 2 + n + b
      \/ l \in 2 + n + b + 1 .. 2 + n + b + s
  OBVIOUS
<1> QED
  BY <1>1, <1>2, <1>3, <1>4

\* The line that compute_section_header leaves empty is the only one that does not count.
LEMMA OneLineIsEmpty ==
    ASSUME Complete, NEW t, HasLines(t)
    PROVE  /\ t[2 + Len(sht)] = <<>>
           /\ \A l \in 1 .. line_count : l # 2 + Len(sht) =>
                \E k \in Nat \ {0} : Inked(t[l], k) /\ Inked(Bound(t[l]), k)
<1> DEFINE n == Len(sht)
           b == Len(buffer)
           s == Len(smap_table)
           Good(line) == \E k \in Nat \ {0} : Inked(line, k) /\ Inked(Bound(line), k)
<1>1. /\ n \in 1 .. 3 /\ b \in Nat /\ s \in Nat /\ line_count = 2 + n + b + s
      /\ DOMAIN dst_symt = 1 .. s
  BY CompleteIs
<1>2. ASSUME NEW line, NEW k \in Nat \ {0}, Inked(line, k) PROVE Good(line)
  BY <1>2, BoundIs
<1>3. Good(t[1]) /\ Good(t[2])
  <2>1. t[1] = <<Number(line_count)>> /\ t[2] = <<Number(Len(sht))>> /\ 1 \in Nat \ {0}
    BY DEF HasLines
  <2> HIDE DEF Good
  <2> QED
    BY <1>2, <2>1, LinesAreInked, Zenon
<1>4. t[2 + n] = <<>>
  <2>1. n \in 1 .. n /\ sht[n].sh_name = ".symtab"
    BY <1>1, LastHeader
  <2> QED
    BY <2>1 DEF HasLines, HeaderLine
<1>5. ASSUME NEW h \in 1 .. n, h # n PROVE Good(t[2 + h])
  <2>1. sht[h].sh_name \in {".text", ".data"} /\ t[2 + h] = HeaderLine(sht[h])
    BY <1>5, LastHeader DEF HasLines
  <2>2. Inked(t[2 + h], 4) /\ 4 \in Nat \ {0}
    BY <2>1, LinesAreInked
  <2> HIDE DEF Good
  <2> QED
    BY <1>2, <2>2, Zenon
<1>6. ASSUME NEW i \in 1 .. b PROVE Good(t[2 + n + i])
  <2>1. t[2 + n + i] = SourceLine(buffer[i])
    BY DEF HasLines
  <2>2. Inked(t[2 + n + i], 3) /\ 3 \in Nat \ {0}
    BY <2>1, LinesAreInked
  <2> HIDE DEF Good
  <2> QED
    BY <1>2, <2>2, Zenon
<1>7. ASSUME NEW i \in 1 .. s PROVE Good(t[2 + n + b + i])
  <2>1. t[2 + n + b + i] = SymbolLine(dst_symt[i])
    BY DEF HasLines, SymbolsFrom
  <2>2. symt[dst_symt[i].src] \in Symbol /\ symt[dst_symt[i].src].st_shndx \in {".text", ".data"}
    <3>1. PICK k \in DOMAIN smap_table : dst[k] = i
      BY <1>1, CompleteIs
    <3>2. dst_symt[i].src = smap_table[k]
      BY <3>1, CompleteIs
    <3>3. TypeOK /\ AllWritten
      BY SettingTypes DEF Complete
    <3> QED
      BY <3>2, <3>3, MapIsFunction DEF AllWritten
  <2>3. Inked(t[2 + n + b + i], 6) /\ 6 \in Nat \ {0}
    BY <2>1, <2>2, SymbolLinesAreInked
  <2> HIDE DEF Good
  <2> QED
    BY <1>2, <2>3, Zenon
<1>8. ASSUME NEW l \in 1 .. line_count, l # 2 + n PROVE Good(t[l])
  <2>1. l \in 1 .. 2 + n + b + s /\ n \in Nat /\ b \in Nat /\ s \in Nat
    BY <1>1
  <2> HIDE DEF n, b, s, Good
  <2>2. \/ l = 1 \/ l = 2
        \/ \E h \in 1 .. n : l = 2 + h
        \/ \E i \in 1 .. b : l = 2 + n + i
        \/ \E i \in 1 .. s : l = 2 + n + b + i
    BY <2>1, LineIs
  <2> QED
    BY <1>3, <1>5, <1>6, <1>7, <1>8, <2>2, Zenon
<1> QED
  BY <1>4, <1>8, Zenon

\* The lines of the repaired output, as the parser looks at them
LEMMA RepairedLines ==
    ASSUME Complete, NEW t, IsList(t, line_count), HasLines(t), NEW r, r = Repaired(t)
    PROVE  /\ IsList(r, line_count)
           /\ \A l \in 1 .. line_count : \E k \in Nat \ {0} : Inked(r[l], k)
           /\ r[1] = Bound(<<Number(line_count)>>) /\ r[2] = Bound(<<Number(Len(sht))>>)
           /\ \A h \in 1 .. Len(sht) : h # Len(sht) => r[2 + h] = Bound(HeaderLine(sht[h]))
           /\ r[2 + Len(sht)] = SymtabLine
           /\ \A i \in 1 .. Len(smap_table) : r[SymbolsFrom + i] = Bound(SymbolLine(dst_symt[i]))
<1> DEFINE n == Len(sht)
           b == Len(buffer)
           s == Len(smap_table)
<1>1. n \in 1 .. 3 /\ b \in Nat /\ s \in Nat /\ line_count = 2 + n + b + s
  BY CompleteIs
<1>2. line_count \in Nat
  BY <1>1
<1>3. /\ IsList(r, line_count)
      /\ \A l \in 1 .. line_count : r[l] = IF t[l] = <<>> THEN SymtabLine ELSE Bound(t[l])
  BY <1>2, RepairedIs, Zenon
<1>4. /\ t[2 + n] = <<>>
      /\ \A l \in 1 .. line_count : l # 2 + n =>
            \E k \in Nat \ {0} : Inked(t[l], k) /\ Inked(Bound(t[l]), k)
  BY OneLineIsEmpty, Zenon
<1>5. \A l \in 1 .. line_count : l # 2 + n => t[l] # <<>>
  BY <1>4, InkedIsPlain
<1>6. 2 + n \in 1 .. line_count /\ r[2 + n] = SymtabLine
  BY <1>1, <1>3, <1>4
<1>7. \A l \in 1 .. line_count : l # 2 + n => r[l] = Bound(t[l])
  BY <1>3, <1>5, Zenon
<1>8. Inked(SymtabLine, 4)
  <2>1. Ink(Word(".symtab"))
    BY InkIs, Zenon
  <2> QED
    BY <2>1, InkIs, InkedLines, Zenon DEF SymtabLine
<1>9. \A l \in 1 .. line_count : \E k \in Nat \ {0} : Inked(r[l], k)
  <2>1. 4 \in Nat \ {0}
    OBVIOUS
  <2> QED
    BY <1>4, <1>6, <1>7, <1>8, <2>1, Zenon
<1>10. r[1] = Bound(<<Number(line_count)>>) /\ r[2] = Bound(<<Number(n)>>)
  <2>1. 1 \in 1 .. line_count /\ 2 \in 1 .. line_count /\ 1 # 2 + n /\ 2 # 2 + n
    <3> HIDE DEF n, b, s
    <3> QED
      BY <1>1
  <2> QED
    BY <1>7, <2>1, Zenon DEF HasLines
<1>11. ASSUME NEW h \in 1 .. n, h # n PROVE r[2 + h] = Bound(HeaderLine(sht[h]))
  <2>1. 2 + h \in 1 .. line_count /\ 2 + h # 2 + n
    BY <1>1, <1>11
  <2> QED
    BY <1>7, <2>1, Zenon DEF HasLines
<1>12. ASSUME NEW i \in 1 .. s PROVE r[SymbolsFrom + i] = Bound(SymbolLine(dst_symt[i]))
  <2>1. SymbolsFrom + i \in 1 .. line_count /\ SymbolsFrom + i # 2 + n
    BY <1>1 DEF SymbolsFrom
  <2> QED
    BY <1>7, <2>1, Zenon DEF HasLines
<1> QED
  BY <1>3, <1>6, <1>9, <1>10, <1>11, <1>12, Zenon

\* All of them count.
LEMMA RepairedCounts ==
    ASSUME Complete, NEW t, IsList(t, line_count), HasLines(t), NEW r, r = Repaired(t)
    PROVE  Buffer(r) = r /\ DOMAIN r = 1 .. Len(r) /\ Len(r) = line_count
<1> DEFINE S == {r[l] : l \in 1 .. line_count}
<1>1. line_count \in Nat
  BY CompleteIs
<1>2. IsList(r, line_count) /\ \A l \in 1 .. line_count : r[l] \in S
  BY RepairedLines
<1> HIDE DEF S
<1>3. r \in Seq(S) /\ Len(r) = line_count /\ DOMAIN r = 1 .. line_count
  BY <1>1, <1>2, ListIs
<1>4. \A l \in 1 .. line_count : Plainly(r[l])
  BY RepairedLines, InkedIsPlain
<1>5. Buffer(r) = r
  BY <1>3, <1>4, AllLinesCount
<1> QED
  BY <1>3, <1>5

\* The repaired output is an object file.
LEMMA RepairedIsObject ==
    ASSUME Complete, NEW t, IsList(t, line_count), HasLines(t), NEW r, r = Repaired(t)
    PROVE  IsObject(r, Len(sht), SymbolsFrom, Len(smap_table))
<1> DEFINE n == Len(sht)
           s == Len(smap_table)
<1>1. /\ n \in 1 .. 3 /\ Len(buffer) \in Nat /\ s \in Nat
      /\ line_count = 2 + n + Len(buffer) + s /\ DOMAIN dst_symt = 1 .. s
  BY CompleteIs
<1>2. Len(r) = line_count /\ Len(r) <= MAX_ELF_FILE_LENGTH
  BY RepairedCounts DEF Complete
<1>3. ASSUME NEW m, NEW row, row = Bound(<<Number(m)>>) PROVE NumberIn(row) = m
  <2>1. Inked(<<Number(m)>>, 1) /\ 1 \in Nat \ {0}
    BY LinesAreInked
  <2>2. Inked(row, 1) /\ row[1] = <<Number(m)>>[1]
    BY <1>3, <2>1, BoundIs
  <2>3. Len(row) = 1
    BY <2>1, <2>2, InkedIsPlain
  <2> QED
    BY <2>2, <2>3 DEF NumberIn, Number
<1>4. NumberIn(r[1]) = Len(r) /\ NumberIn(r[2]) = n
  BY <1>2, <1>3, RepairedLines
<1>5. 2 + n <= Len(r) /\ SymbolsFrom + s <= Len(r)
  BY <1>1, <1>2 DEF SymbolsFrom
<1>6. ASSUME NEW h \in 1 .. n, h # n
      PROVE  HeaderRow(r[2 + h]) /\ r[2 + h][1].word \in {".text", ".data"}
  <2> DEFINE line == HeaderLine(sht[h])
             row == r[2 + h]
  <2>1. /\ sht[h].sh_name \in {".text", ".data"} /\ row = Bound(line)
        /\ sht[h].sh_addr \in Nat /\ sht[h].sh_offset \in Nat /\ sht[h].sh_size \in Nat
    BY <1>6, LastHeader, RepairedLines
  <2>2. line = <<Word(sht[h].sh_name), Number(BASE + sht[h].sh_addr), Number(sht[h].sh_offset),
                 Number(sht[h].sh_size)>>
    BY <2>1 DEF HeaderLine
  <2>3. Inked(line, 4) /\ 4 \in Nat \ {0}
    BY <2>1, LinesAreInked
  <2>4. /\ line[1] = Word(sht[h].sh_name) /\ line[2] = Number(BASE + sht[h].sh_addr)
        /\ line[3] = Number(sht[h].sh_offset) /\ line[4] = Number(sht[h].sh_size)
    BY <2>2
  <2>5. line[2] # Word("STT_GLOBAL")
    BY <2>4, InkIs, Zenon
  <2> HIDE DEF line, row
  <2>6. Inked(row, 4) /\ \A c \in 1 .. 4 : c # 2 => row[c] = line[c]
    BY <2>1, <2>3, BoundIs
  <2>7. row[2] = line[2]
    BY <2>1, <2>3, <2>5, BoundIs
  <2>8. Len(row) = 4
    BY <2>3, <2>6, InkedIsPlain
  <2>9. /\ row[1] = Word(sht[h].sh_name) /\ row[2] = Number(BASE + sht[h].sh_addr)
        /\ row[3] = Number(sht[h].sh_offset) /\ row[4] = Number(sht[h].sh_size)
    BY <2>4, <2>6, <2>7
  <2>10. HeaderRow(row) /\ row[1].word = sht[h].sh_name
    BY <2>1, <2>8, <2>9, SizeAssumption DEF HeaderRow, Word, Number, NotANumber
  <2> QED
    BY <2>1, <2>10 DEF row
<1>7. /\ HeaderRow(r[2 + n]) /\ r[2 + n][1].word = ".symtab"
      /\ r[2 + n][3].value = SymbolsFrom /\ r[2 + n][4].value = s
  <2>1. r[2 + n] = <<Word(".symtab"), Number(0), Number(SymbolsFrom), Number(s)>>
    BY LastHeader, RepairedLines DEF SymtabLine
  <2>2. SymbolsFrom \in Nat
    BY <1>1 DEF SymbolsFrom
  <2> QED
    BY <1>1, <2>1, <2>2 DEF HeaderRow, Word, Number, NotANumber
<1>8. ASSUME NEW i \in 1 .. s PROVE SymbolRow(r[SymbolsFrom + i])
  <2> DEFINE d == dst_symt[i]
             row == r[SymbolsFrom + i]
  <2>1. /\ symt[d.src] \in Symbol /\ symt[d.src].st_shndx \in {".text", ".data"}
        /\ d.st_value \in Nat /\ place[d.src].st_size \in Nat
    <3>1. PICK k \in DOMAIN smap_table : dst[k] = i
      BY <1>1, CompleteIs
    <3>2. d.src = smap_table[k] /\ TypeOK /\ InputsSound /\ AllWritten
      BY <3>1, CompleteIs, SettingTypes DEF Complete
    <3>3. /\ symt[d.src] \in Symbol /\ place[d.src] \in Place
          /\ symt[d.src].st_shndx \in {".text", ".data"}
      BY <3>2, EntriesHaveSizes, MapIsFunction DEF AllWritten
    <3>4. d.st_value \in Nat
      BY <1>1, SettingTypes DEF Complete
    <3> QED
      BY <3>3, <3>4, SizeAssumption DEF Place
  <2>2. row = Bound(SymbolLine(d))
    BY RepairedLines
  <2> HIDE DEF d, row
  <2>3. /\ Inked(row, 6) /\ row[2].word = symt[d.src].bind /\ row[3].word = symt[d.src].type
        /\ row[5].value = d.st_value /\ row[6].value = place[d.src].st_size
    BY <2>1, <2>2, SymbolLinesAreInked, Zenon
  <2>4. Len(row) = 6
    <3>1. 6 \in Nat \ {0}
      OBVIOUS
    <3> QED
      BY <2>3, <3>1, InkedIsPlain
  <2>5. symt[d.src].bind \in Bind /\ symt[d.src].type \in Type
    BY <2>1 DEF Symbol
  <2>6. SymbolRow(row)
    BY <2>1, <2>3, <2>4, <2>5 DEF SymbolRow, NotANumber
  <2> QED
    BY <2>6 DEF row
<1>9. \A h \in 1 .. n : HeaderRow(r[2 + h])
  BY <1>1, <1>6, <1>7
<1>10. \A h \in 1 .. n - 1 : r[2 + h][1].word \in {".text", ".data"}
  BY <1>1, <1>6
<1> HIDE DEF n, s
<1> QED
  BY <1>2, <1>4, <1>5, <1>7, <1>8, <1>9, <1>10, Zenon DEF IsObject, n, s

\* The output as it is has one line fewer than it says.
LEMMA OutputIsRefused ==
    ASSUME Complete, NEW t, IsList(t, line_count), HasLines(t)
    PROVE  parse_elf(t).outcome # "read"
<1> DEFINE S == {t[l] : l \in 1 .. line_count}
           z == 2 + Len(sht)
<1>1. /\ Len(sht) \in 1 .. 3 /\ Len(buffer) \in Nat /\ Len(smap_table) \in Nat
      /\ line_count = 2 + Len(sht) + Len(buffer) + Len(smap_table)
  BY CompleteIs
<1>2. line_count \in Nat /\ z \in 2 .. line_count /\ line_count > 1
  BY <1>1
<1>3. t \in Seq(S) /\ Len(t) = line_count
  <2>1. \A l \in 1 .. line_count : t[l] \in S
    OBVIOUS
  <2> HIDE DEF S
  <2> QED
    BY <1>2, <2>1, ListIs
<1>4. t[z] = <<>> /\ \A l \in 1 .. line_count : l # z => \E k \in Nat \ {0} : Inked(t[l], k)
  BY OneLineIsEmpty
<1>5. Skipped(t[z]) /\ \A l \in 1 .. line_count : l # z => Plainly(t[l])
  BY <1>4, InkedIsPlain DEF Skipped
<1> HIDE DEF S, z
<1>6. Len(Buffer(t)) = line_count - 1 /\ Buffer(t)[1] = t[1]
  BY <1>2, <1>3, <1>5, OneLineSkipped
<1>7. NumberIn(Buffer(t)[1]) = line_count
  <2>1. t[1] = <<Number(line_count)>>
    BY DEF HasLines
  <2> QED
    BY <1>6, <2>1 DEF NumberIn, Number
<1>8. line_count <= MAX_ELF_FILE_LENGTH
  BY DEF Complete
<1> QED
  BY <1>2, <1>6, <1>7, <1>8, WrongLength

\* A complete output is refused as it is, and repaired it is read as what was linked.
LEMMA OutputIsRead ==
    ASSUME Complete, NEW t, IsList(t, line_count), HasLines(t)
    PROVE  LET again == parse_elf(Repaired(t))
           IN  /\ parse_elf(t).outcome # "read"
               /\ again.outcome = "read"
               /\ Len(again.symt) = Len(smap_table)
               /\ {again.symt[i] : i \in DOMAIN again.symt} = {Kept(k) : k \in DOMAIN smap_table}
<1> DEFINE again == parse_elf(Repaired(t))
           r == Repaired(t)
           s == Len(smap_table)
<1>1. /\ Len(sht) \in 1 .. 3 /\ Len(buffer) \in Nat /\ s \in Nat
      /\ DOMAIN smap_table = 1 .. s /\ DOMAIN dst_symt = 1 .. s
      /\ line_count = 2 + Len(sht) + Len(buffer) + s
  BY CompleteIs
<1>2. again.outcome = "read" /\ again.symt = [i \in 1 .. s |-> SymbolIn(r[SymbolsFrom + i])]
  <2>1. Len(sht) \in Nat \ {0} /\ SymbolsFrom \in Nat /\ line_count \in Nat
    <3> HIDE DEF again, r, s
    <3>1. Len(sht) \in Nat \ {0}
      BY <1>1
    <3>2. SymbolsFrom \in Nat
      BY <1>1 DEF SymbolsFrom
    <3>3. line_count \in Nat
      BY <1>1
    <3> QED
      BY <3>1, <3>2, <3>3
  <2>2. Buffer(r) = r /\ DOMAIN r = 1 .. Len(r) /\ Len(r) = line_count
    BY RepairedCounts
  <2>3. IsObject(r, Len(sht), SymbolsFrom, s)
    BY RepairedIsObject
  <2>4. Len(r) \in Nat
    BY <2>1, <2>2
  <2>5. DOMAIN r = 1 .. Len(r)
    BY <2>2
  <2>6. Buffer(r) = r
    BY <2>2
  <2>7. ReadAs(r, SymbolsFrom, s)
    <3> DEFINE n == Len(sht)
    <3>1. s \in Nat
      BY <1>1
    <3>2. n \in Nat \ {0} /\ SymbolsFrom \in Nat /\ IsObject(r, n, SymbolsFrom, s)
      BY <2>1, <2>3
    <3> HIDE DEF r, s, n, again
    <3> QED
      BY <2>4, <2>5, <2>6, <3>1, <3>2, ObjectIsRead, Zenon
  <2> HIDE DEF r, s
  <2> QED
    BY <2>7, Zenon DEF r, again, ReadAs
<1>3. ASSUME NEW k \in DOMAIN smap_table PROVE SymbolIn(r[SymbolsFrom + dst[k]]) = Kept(k)
  <2> DEFINE d == dst_symt[dst[k]]
             row == r[SymbolsFrom + dst[k]]
             m == smap_table[k]
  <2>1. dst[k] \in 1 .. s /\ d.src = m
    BY <1>1, <1>3, CompleteIs
  <2>2. symt[m] \in Symbol /\ symt[m].st_shndx \in {".text", ".data"}
    <3>1. TypeOK /\ AllWritten
      BY SettingTypes DEF Complete
    <3> QED
      BY <1>3, <3>1, MapIsFunction DEF AllWritten
  <2>3. row = Bound(SymbolLine(d))
    BY <2>1, RepairedLines
  <2> HIDE DEF row, d
  <2>4. symt[d.src] \in Symbol /\ symt[d.src].st_shndx \in {".text", ".data"}
    BY <2>1, <2>2
  <2>5. /\ row[1].word = symt[d.src].st_name /\ row[2].word = symt[d.src].bind
        /\ row[3].word = symt[d.src].type /\ row[4].word = symt[d.src].st_shndx
        /\ row[5].value = d.st_value /\ row[6].value = place[d.src].st_size
    BY <2>3, <2>4, SymbolLinesAreInked, Zenon
  <2> HIDE DEF m
  <2>6. /\ row[1].word = symt[m].st_name /\ row[2].word = symt[m].bind
        /\ row[3].word = symt[m].type /\ row[4].word = symt[m].st_shndx
        /\ row[5].value = d.st_value /\ row[6].value = place[m].st_size
    BY <2>1, <2>5, Zenon
  <2> QED
    BY <2>6, Zenon DEF SymbolIn, Kept, row, d, m
<1>4. parse_elf(t).outcome # "read"
  BY OutputIsRefused
<1> HIDE DEF again, r, s
<1>5. DOMAIN again.symt = 1 .. s /\ \A i \in 1 .. s : again.symt[i] = SymbolIn(r[SymbolsFrom + i])
  BY <1>2, Zenon
<1>6. Len(again.symt) = s
  <2> DEFINE S == {again.symt[i] : i \in 1 .. s}
  <2>1. IsList(again.symt, s) /\ \A i \in 1 .. s : again.symt[i] \in S
    BY <1>2, Zenon DEF IsList
  <2> HIDE DEF S
  <2> QED
    BY <1>1, <2>1, ListIs
<1>7. {again.symt[i] : i \in DOMAIN again.symt} = {Kept(k) : k \in DOMAIN smap_table}
  <2>1. ASSUME NEW i \in 1 .. s PROVE \E k \in DOMAIN smap_table : again.symt[i] = Kept(k)
    <3>1. PICK k \in DOMAIN smap_table : dst[k] = i
      BY <1>1, CompleteIs
    <3> QED
      BY <1>3, <1>5, <3>1, Zenon
  <2>2. ASSUME NEW k \in DOMAIN smap_table PROVE \E i \in 1 .. s : again.symt[i] = Kept(k)
    <3>1. dst[k] \in 1 .. s
      BY <1>1, CompleteIs
    <3> QED
      BY <1>3, <1>5, <3>1, Zenon
  <2> QED
    BY <1>5, <2>1, <2>2, Zenon
<1> QED
  BY <1>2, <1>4, <1>6, <1>7, Zenon DEF again, s

-----------------------------------------------------------------------------
(* Writing *)

\* What is merged fits, relocation stays within it if every entry has lines, and what
\* is written is what is linked.
Writing ==
    /\ Merged => line_count <= MAX_ELF_FILE_LENGTH
    /\ AllWritten => stray = {}
    /\ output # <<>> => phase = "linked" /\ output = OutputText

\* The output depends on what linking has left.
LEMMA SameText ==
    ASSUME UNCHANGED linkVars
    PROVE  /\ line_count' = line_count /\ OutputText' = OutputText
           /\ (Merged' <=> Merged) /\ (AllWritten' <=> AllWritten) /\ UNCHANGED <<phase, stray>>
<1>1. UNCHANGED <<symt, smap_table, src_sht, place, sht, buffer, dst_symt, phase, stray>>
  BY DEF linkVars, vars, placeVars, mergeVars
<1>2. line_count' = line_count
  BY <1>1, SameCounts
<1>3. HeadLines' = HeadLines
  BY <1>1, <1>2 DEF HeadLines
<1>4. HeaderLines' = HeaderLines /\ SourceLines' = SourceLines /\ SymbolLines' = SymbolLines
  BY <1>1 DEF HeaderLines, SourceLines, SourceLine, SymbolLines, SymbolLine
<1>5. AllWritten' <=> AllWritten
  BY <1>1 DEF AllWritten, HasSource, SourceHeaders
<1> QED
  BY <1>1, <1>2, <1>3, <1>4, <1>5 DEF OutputText, Merged

\* If every entry has lines, a relocation is in the lines merged.
LEMMA NoneIsStray ==
    ASSUME Setting, Layout, Relocate, AllWritten, stray = {}
    PROVE  stray' = {}
<1> DEFINE r == rel[relocated + 1]
<1>1. /\ phase = "relocating" /\ phase # "resolving" /\ section > Len(sht)
      /\ relocated + 1 \in DOMAIN rel /\ r \in Relocation
  <2>1. phase = "relocating" /\ relocated + 1 \in DOMAIN rel
    BY SettingTypes DEF Relocate, Relocating
  <2> QED
    BY <2>1, SettingTypes DEF Setting, Stages, Merged
<1>2. /\ Begun
      /\ \A k \in DOMAIN smap_table :
            SectionOf(k) \in {".text", ".data"} /\ Count(SectionOf(k)) > 0 /\ SizeIn(k) > 0
  BY <1>1, EntriesArePlaced
<1>3. \A k \in DOMAIN smap_table : dst[k] # 0
  BY <1>1, <1>2, AllAreMerged
<1>4. PassOver(r) \/ NotInMap(r) \/ FollowUnset(r) \/ Apply(r)
  BY DEF Relocate
<1> HIDE DEF r
<1>5. CASE Apply(r) /\ stray' # stray
  <2>1. PICK m \in DOMAIN symt, k \in DOMAIN smap_table, u \in DOMAIN smap_table :
            /\ Referencing(r, m) /\ smap_table[k] = m
            /\ Patch(r, r.r_row - place[m].st_value + dst_symt[dst[k]].st_value, dst_symt[dst[u]])
    BY <1>5 DEF Apply, ScanReaches
  <2> DEFINE row == r.r_row - place[smap_table[k]].st_value + dst_symt[dst[k]].st_value
             x   == (SectionOffset(r) + row) - 1 - Len(sht)
  <2>2. x \in DOMAIN buffer
    BY <1>1, <1>2, <1>3, <2>1, PatchedLine
  <2>3. stray' = stray \cup {h \in DOMAIN smap_table : Len(buffer) + h = x}
    BY <2>1 DEF Patch
  <2> HIDE DEF x
  <2>4. x \in 1 .. Len(buffer) /\ Len(buffer) \in Nat
    BY <2>2, SettingTypes
  <2>5. \A h \in DOMAIN smap_table : h \in Nat /\ h > 0
    BY SettingTypes, MapIsFunction
  <2> QED
    BY <2>3, <2>4, <2>5
<1> QED
  BY <1>4, <1>5 DEF PassOver, NotInMap, FollowUnset

\* A step of the linker: after it is done there is none, and what it merges fits.
LEMMA LinkKeepsWriting ==
    ASSUME Setting, Setting', Layout, LinkNext, Writing, UNCHANGED output
    PROVE  Writing'
<1>1. CASE phase = "linked"
  <2>1. status = "resolved"
    BY <1>1 DEF Setting, Stages
  <2>2. ~Next
    BY <2>1, NextResolves
  <2> QED
    BY <1>1, <2>2 DEF LinkNext, compute_section_header, SkipSymbol, MergeSymbol, NextSection, Merging,
                      WriteSymbols, Relocate, Relocating, EndLink
<1>2. CASE phase # "linked"
  <2>1. output' = <<>>
    BY <1>2 DEF Writing
  <2>2. ASSUME Merged' PROVE line_count' <= MAX_ELF_FILE_LENGTH
    <3>1. CASE Merged
      <4>1. UNCHANGED <<vars, placeVars>>
        <5>1. phase = "relocating"
          BY <1>2, <3>1 DEF Merged
        <5>2. ~Next
          BY <5>1, NextResolves DEF Setting, Stages
        <5> QED
          BY <5>1, <5>2 DEF LinkNext, compute_section_header, SkipSymbol, MergeSymbol, NextSection,
                            Merging, WriteSymbols, Relocate, EndLink
      <4> QED
        BY <3>1, <4>1, SameMap DEF Writing
    <3>2. CASE ~Merged
      <4>1. WriteSymbols
        BY <2>2, <3>2 DEF Merged, LinkNext, compute_section_header, SkipSymbol, MergeSymbol, NextSection,
                          Relocate, Relocating, EndLink
      <4>2. /\ line_written + Len(smap_table) = line_count
            /\ ~(line_written + Len(smap_table) > MAX_ELF_FILE_LENGTH)
        BY <2>2, <4>1 DEF WriteSymbols, Merged
      <4>3. line_written + Len(smap_table) \in Nat
        BY SettingTypes, MapIsFunction DEF line_written
      <4>4. line_count' = line_count
        BY <4>1, SameMap DEF WriteSymbols
      <4> QED
        BY <4>2, <4>3, <4>4, SizeAssumption
    <3> QED
      BY <3>1, <3>2
  <2>3. ASSUME AllWritten' PROVE stray' = {}
    <3>1. CASE Relocate
      <4>1. AllWritten
        BY <2>3, <3>1, SameMap DEF AllWritten, Relocate
      <4> QED
        BY <3>1, <4>1, NoneIsStray DEF Writing
    <3>2. CASE Merged /\ ~Relocate
      <4>1. phase = "relocating" /\ ~Next
        BY <1>2, <3>2, NextResolves DEF Merged, Setting, Stages
      <4>2. EndLink
        BY <3>2, <4>1 DEF LinkNext, compute_section_header, SkipSymbol, MergeSymbol, NextSection,
                          Merging, WriteSymbols
      <4>3. AllWritten /\ stray' = stray
        BY <2>3, <4>2, SameMap DEF AllWritten, EndLink
      <4> QED
        BY <4>3 DEF Writing
    <3>3. CASE ~Merged /\ ~Relocate
      <4>1. stray' = stray
        BY <3>3 DEF LinkNext, compute_section_header, SkipSymbol, MergeSymbol, NextSection, WriteSymbols, EndLink
      <4>2. CASE phase \in {"resolving", "merging"}
        BY <4>1, <4>2 DEF Setting, Stages
      <4>3. CASE phase \notin {"resolving", "merging"}
        <5>1. phase \in {"aborted", "exited", "undefined"} /\ ~Next
          BY <3>3, <4>3, SettingTypes, NextResolves DEF Merged, Phase, Setting, Stages, LinkTypeOK
        <5> QED
          BY <5>1 DEF LinkNext, compute_section_header, SkipSymbol, MergeSymbol, NextSection, Merging,
                      WriteSymbols, Relocate, Relocating, EndLink
      <4> QED
        BY <4>2, <4>3
    <3> QED
      BY <3>1, <3>2, <3>3
  <2> QED
    BY <2>1, <2>2, <2>3 DEF Writing
<1> QED
  BY <1>1, <1>2

\* Every step of the program keeps it.
LEMMA StepKeepsWriting ==
    ASSUME Running, Running', Writing, [LinkerNext]_programVars
    PROVE  Writing'
<1>1. ASSUME reading # "read", UNCHANGED <<phase, output, stray>> PROVE Writing'
  BY <1>1 DEF Writing, Running, Unlinked, Merged
<1>2. CASE ParseFile
  BY <1>1, <1>2 DEF ParseFile
<1>3. CASE FollowColumns
  BY <1>1, <1>3 DEF FollowColumns, linkVars
<1>4. CASE reading = "read" /\ LinkNext /\ UNCHANGED <<readVars, output>>
  <2>1. Setting /\ Layout /\ Setting'
    BY <1>4 DEF Running, Linking, readVars
  <2> QED
    BY <1>4, <2>1, LinkKeepsWriting
<1>5. CASE write_eof
  <2>1. output' = OutputText /\ phase = "linked" /\ UNCHANGED linkVars
    BY <1>5, Zenon DEF write_eof, OutputText, Joined, HeadLines, HeaderLines, SourceLines, SymbolLines
  <2> QED
    BY <2>1, SameText DEF Writing
<1>6. CASE UNCHANGED programVars
  BY <1>6, SameText DEF Writing, programVars
<1> QED
  BY <1>2, <1>3, <1>4, <1>5, <1>6 DEF LinkerNext

\* What is so of a complete output is so of every output whose entries are all written.
LEMMA WritingReadsBack ==
    ASSUME Running, Writing
    PROVE  OutputReadsBack
<1> SUFFICES ASSUME output # <<>>, AllWritten
             PROVE  LET again == parse_elf(Repaired(output))
                    IN  /\ parse_elf(output).outcome # "read"
                        /\ again.outcome = "read"
                        /\ Len(again.symt) = Len(smap_table)
                        /\ {again.symt[i] : i \in DOMAIN again.symt} = {Kept(k) : k \in DOMAIN smap_table}
  BY Zenon DEF OutputReadsBack
<1>1. phase = "linked" /\ output = OutputText
  BY DEF Writing
<1>2. reading = "read"
  BY <1>1 DEF Running, Unlinked
<1>3. Complete
  BY <1>1, <1>2 DEF Complete, Running, Linking, Writing, Merged
<1>4. IsList(output, line_count) /\ HasLines(output)
  BY <1>1, <1>3, OutputHasLines
<1> QED
  BY <1>3, <1>4, OutputIsRead

\* The linker's output is an object file but for two slips: the parser refuses what
\* write_eof writes, and with both put right it finds the symbols that resolution has
\* kept, each where merging has put it, for any files that hold a sound input.
THEOREM OutputIsObject == LinkerSpec /\ []SoundInput => []OutputReadsBack
<1>1. LinkerInit => Running /\ Writing
  BY DEF LinkerInit, Running, Writing, Unlinked, Merged
<1>2. Running /\ [LinkerNext]_programVars /\ SoundInput' /\ (LinkInit => Linking)' => Running'
  BY StepKeepsRunning
<1>3. Running /\ Running' /\ Writing /\ [LinkerNext]_programVars => Writing'
  BY StepKeepsWriting
<1>4. Running /\ Writing => OutputReadsBack
  BY WritingReadsBack
<1>5. LinkInit => Linking
  BY InitLinking
<1> QED
  BY <1>1, <1>2, <1>3, <1>4, <1>5, PTL DEF LinkerSpec
=============================================================================
