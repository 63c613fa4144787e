----------------------------- MODULE StaticLink -----------------------------
(***************************************************************************)
(* The static linker after symbol resolution: the translation of           *)
(* compute_section_header, merge_section and relocation_processing of      *)
(* src/linker/staticlink.c, as phases that follow module SymbolResolution. *)
(*                                                                         *)
(* A line of the output is the index of the line of its source file that   *)
(* was copied to it, with the symbol and the row in it that it was copied  *)
(* for, and what relocation has written into it.  The head of the output   *)
(* and its symbol table are counted, not stored.  Addresses count from     *)
(* BASE.  The numbers in source files are small: all that the code puts    *)
(* into an int fits it.                                                    *)
(***************************************************************************)
EXTENDS SymbolResolution, Integers

CONSTANTS
    BASE,                   \* the address of the first instruction; 0x00400000
    LinkInputs,             \* the sets of source files the linker may be given
    MAX_ELF_FILE_LENGTH,    \* lines of the output buffer; 64
    MAX_INSTRUCTION_CHAR,   \* bytes of an instruction in memory; 64
    INST_SIZE,              \* sizeof(inst_t); 88
    DATA_SIZE               \* sizeof(uint64_t); 8

RelocationType == {"R_X86_64_32", "R_X86_64_PC32", "R_X86_64_PLT32"}

\* A section header of a source file
SourceHeader == [sh_name : STRING, sh_offset : Nat]

\* Where a symbol is: its file, its first line in its section, its lines.
Place == [elf : Nat, st_value : Nat, st_size : 0 .. MAX_ELF_FILE_LENGTH]

\* An entry of .rel.text or .rel.data of file elf; sym is a position in symt.
Relocation ==
    [elf : Nat, section : {".text", ".data"}, r_row : Nat, type : RelocationType, sym : Nat]

ASSUME SizeAssumption ==
    /\ BASE \in Nat
    /\ MAX_ELF_FILE_LENGTH \in Nat
    /\ MAX_INSTRUCTION_CHAR \in Nat
    /\ INST_SIZE \in Nat
    /\ DATA_SIZE \in Nat

\* Symbols of one section of a file do not overlap, and an instruction or a word
\* has at most one relocation, as in the files of files/exe.
ASSUME InputAssumption ==
    /\ {in.symt : in \in LinkInputs} \subseteq SourceSymbols
    /\ \A in \in LinkInputs :
        /\ in.src_sht \in Seq(Seq(SourceHeader))
        /\ in.place \in [DOMAIN in.symt -> Place]
        /\ \A m \in DOMAIN in.symt : in.place[m].elf \in DOMAIN in.src_sht
        /\ in.rel \in Seq(Relocation)
        /\ \A j \in DOMAIN in.rel : in.rel[j].sym \in DOMAIN in.symt
        /\ \A m, n \in DOMAIN in.symt :
            /\ m # n
            /\ in.place[m].elf = in.place[n].elf
            /\ in.symt[m].st_shndx = in.symt[n].st_shndx
            /\ in.symt[m].st_shndx \in {".text", ".data", ".rodata"}
            => \/ in.place[m].st_value + in.place[m].st_size <= in.place[n].st_value
               \/ in.place[n].st_value + in.place[n].st_size <= in.place[m].st_value
        /\ \A i, j \in DOMAIN in.rel :
            i # j => <<in.rel[i].elf, in.rel[i].section, in.rel[i].r_row>>
                        # <<in.rel[j].elf, in.rel[j].section, in.rel[j].r_row>>

VARIABLES
    src_sht,    \* the section headers of each source file
    place,      \* where each source symbol is
    rel,        \* the relocations of all files
    phase,      \* what link_elf is doing, or how it ended
    sht,        \* the section headers of the output
    section,    \* the header whose section is being merged
    pos,        \* the source symbol to merge next
    offset,     \* lines merged into the section
    buffer,     \* the lines of the output behind its section headers
    dst_symt,   \* the symbols of the output
    dst,        \* smap_table[].dst: the output symbol of each entry, 0 before it is set
    relocated,  \* how many relocations have been processed
    stray       \* the lines of the symbol table that relocation has written over

placeVars == <<src_sht, place, rel>>
mergeVars == <<section, pos, offset, buffer, dst_symt, dst>>
linkVars  == <<vars, placeVars, phase, sht, mergeVars, relocated, stray>>

\* "aborted" is a failed assertion, "exited" the exit for an illegal binding or
\* type, "undefined" a read of an unset pointer or a write behind the buffer.
Phase == {"resolving", "merging", "relocating", "linked", "aborted", "exited", "undefined"}

\* A line that no relocation has written to.
Unpatched == <<>>

\* A section header of the output
Header == [sh_name : Section \cup {".symtab"}, sh_addr : Nat, sh_offset : Nat, sh_size : Nat]

LinkTypeOK ==
    /\ TypeOK
    /\ src_sht \in Seq(Seq(SourceHeader))
    /\ place \in [DOMAIN symt -> Place]
    /\ rel \in Seq(Relocation)
    /\ phase \in Phase
    /\ sht \in Seq(Header)
    /\ section \in 1 .. Len(sht) + 1
    /\ pos \in 1 .. Len(symt) + 1
    /\ offset \in Nat
    /\ buffer \in Seq([sym : DOMAIN symt, row : Nat, line : Nat, patch : Seq(Int)])
    /\ dst_symt \in Seq([src : DOMAIN symt, st_value : Nat])
    /\ dst \in [DOMAIN smap_table -> 0 .. Len(dst_symt)] \cup {<<>>}
    /\ relocated \in 0 .. Len(rel)
    /\ stray \subseteq DOMAIN smap_table

\* link_elf has cleared the output and has not begun.
Unlinked ==
    /\ Unresolved
    /\ phase = "resolving"
    /\ sht = <<>>
    /\ section = 1
    /\ pos = 1
    /\ offset = 0
    /\ buffer = <<>>
    /\ dst_symt = <<>>
    /\ dst = <<>>
    /\ relocated = 0
    /\ stray = {}

LinkInit ==
    /\ \E in \in LinkInputs :
        symt = in.symt /\ src_sht = in.src_sht /\ place = in.place /\ rel = in.rel
    /\ Unlinked

-----------------------------------------------------------------------------
(* compute_section_header *)

EntriesIn(s) == {k \in DOMAIN smap_table : symt[smap_table[k]].st_shndx = s}

\* The lines that the entries of the map have in section s.
Count(s) ==
    Cardinality({kr \in EntriesIn(s) \X (0 .. MAX_ELF_FILE_LENGTH) :
                    kr[2] < place[smap_table[kr[1]]].st_size})

Has(s) == IF Count(s) > 0 THEN 1 ELSE 0
WithoutSymtab == Has(".text") + Has(".rodata") + Has(".data")
sht_count == 1 + Has(".text") + Has(".rodata") + Has(".data")

line_count ==
    2 + sht_count + Count(".text") + Count(".rodata") + Count(".data") + Len(smap_table)

HeaderIf(n, name, addr, off) ==
    IF n > 0 THEN <<[sh_name |-> name, sh_addr |-> addr, sh_offset |-> off, sh_size |-> n]>>
             ELSE <<>>

RodataAddr == Count(".text") * MAX_INSTRUCTION_CHAR
DataAddr   == RodataAddr + Count(".rodata") * DATA_SIZE

\* The header of .rodata is given the name ".data".
Headers ==
    LET text   == 2 + sht_count
        rodata == text + Count(".text")
        data   == rodata + Count(".rodata")
        symtab == data + Count(".data")
    IN  HeaderIf(Count(".text"), ".text", 0, text)
            \o HeaderIf(Count(".rodata"), ".data", RodataAddr, rodata)
            \o HeaderIf(Count(".data"), ".data", DataAddr, data)
            \o <<[sh_name |-> ".symtab", sh_addr |-> 0,
                  sh_offset |-> symtab, sh_size |-> Len(smap_table)]>>

compute_section_header ==
    /\ phase = "resolving"
    /\ status = "resolved"
    /\ sht' = Headers
    /\ dst' = [k \in DOMAIN smap_table |-> 0]
    /\ phase' = "merging"
    /\ UNCHANGED <<vars, placeVars, section, pos, offset, buffer, dst_symt, relocated, stray>>

-----------------------------------------------------------------------------
(* merge_section *)

line_written == 2 + Len(sht) + Len(buffer)

\* The headers that the file of symbol m has for the section of m
SourceHeaders(m) ==
    LET headers == src_sht[place[m].elf]
    IN  {h \in DOMAIN headers : headers[h].sh_name = symt[m].st_shndx}

HasSource(m) == SourceHeaders(m) # {}

\* The line of its file that row t of symbol m is, by the last of these headers
src_index(m, t) ==
    LET last == CHOOSE h \in SourceHeaders(m) : \A g \in SourceHeaders(m) : g <= h
    IN  src_sht[place[m].elf][last].sh_offset + place[m].st_value + t

\* The symbol at hand is in the section at hand, which its file has a header for,
\* and is entry k of the map.
Belongs(k) ==
    /\ smap_table[k] = pos
    /\ symt[pos].st_shndx = sht[section].sh_name
    /\ HasSource(pos)

Merging == phase = "merging" /\ section <= Len(sht)

SkipSymbol ==
    /\ Merging
    /\ pos <= Len(symt)
    /\ \A k \in DOMAIN smap_table : ~Belongs(k)
    /\ pos' = pos + 1
    /\ UNCHANGED <<vars, placeVars, phase, sht, section, offset, buffer, dst_symt, dst, relocated, stray>>

\* Each line of the symbol is in its file's buffer, and has room in the output's.
Fits(m) ==
    /\ place[m].st_size > 0 =>
        /\ line_written + place[m].st_size <= MAX_ELF_FILE_LENGTH
        /\ src_index(m, place[m].st_size - 1) < MAX_ELF_FILE_LENGTH
    /\ Len(dst_symt) < Len(smap_table)

Copied(m) ==
    [t \in 1 .. place[m].st_size |->
        [sym |-> m, row |-> t - 1, line |-> src_index(m, t - 1), patch |-> Unpatched]]

ValueInSection(m) == offset

MergeSymbol ==
    /\ Merging
    /\ pos <= Len(symt)
    /\ \E k \in DOMAIN smap_table :
        /\ Belongs(k)
        /\ \/ /\ Fits(pos)
              /\ buffer' = buffer \o Copied(pos)
              /\ dst_symt' = Append(dst_symt, [src |-> pos, st_value |-> ValueInSection(pos)])
              /\ dst' = [dst EXCEPT ![k] = Len(dst_symt) + 1]
              /\ offset' = offset + place[pos].st_size
              /\ pos' = pos + 1
              /\ UNCHANGED phase
           \/ /\ ~Fits(pos)
              /\ phase' = "aborted"
              /\ UNCHANGED <<buffer, dst_symt, dst, offset, pos>>
    /\ UNCHANGED <<vars, placeVars, sht, section, relocated, stray>>

NextSectionKeepsOffset ==
    /\ Merging
    /\ pos > Len(symt)
    /\ section' = section + 1
    /\ pos' = 1
    /\ UNCHANGED <<vars, placeVars, phase, sht, offset, buffer, dst_symt, dst, relocated, stray>>
NextSection ==
    /\ Merging
    /\ pos > Len(symt)
    /\ section' = section + 1
    /\ pos' = 1
    /\ offset' = 0
    /\ UNCHANGED <<vars, placeVars, phase, sht, buffer, dst_symt, dst, relocated, stray>>

\* The symbol table is written.  Entries that no symbol was merged into hold what
\* malloc returned, which may be no binding or type.
WriteSymbols ==
    /\ phase = "merging"
    /\ section > Len(sht)
    /\ \/ Len(dst_symt) < Len(smap_table) /\ phase' = "exited"
       \/ phase' = IF line_written + Len(smap_table) > MAX_ELF_FILE_LENGTH THEN "undefined"
                   ELSE IF line_written + Len(smap_table) = line_count THEN "relocating"
                   ELSE "aborted"
    /\ UNCHANGED <<vars, placeVars, sht, mergeVars, relocated, stray>>

-----------------------------------------------------------------------------
(* get_symbol_runtime_address *)

SizeOf(name) ==
    IF \E h \in DOMAIN sht : sht[h].sh_name = name
    THEN sht[CHOOSE h \in DOMAIN sht : sht[h].sh_name = name].sh_size
    ELSE 0

rodata_base == SizeOf(".text") * INST_SIZE
data_base   == rodata_base + SizeOf(".rodata") * DATA_SIZE

get_symbol_runtime_address(d) ==
    CASE symt[d.src].st_shndx = ".text"   -> INST_SIZE * d.st_value
      [] symt[d.src].st_shndx = ".rodata" -> rodata_base + (BASE + data_base) * d.st_value
      [] symt[d.src].st_shndx = ".data"   -> data_base + DATA_SIZE * d.st_value
      [] OTHER                            -> -1 - BASE

-----------------------------------------------------------------------------
(* relocation_processing *)

Relocating == phase = "relocating" /\ relocated < Len(rel)

\* A symbol whose lines the relocation is in.  The last line of an empty symbol at 0
\* is -1, which compared with an unsigned row is beyond every row.
Referencing(r, m) ==
    /\ m \in DOMAIN symt
    /\ place[m].elf = r.elf
    /\ symt[m].st_shndx = r.section
    /\ place[m].st_value <= r.r_row
    /\ \/ r.r_row <= place[m].st_value + place[m].st_size - 1
       \/ place[m].st_value + place[m].st_size = 0

\* Entry u of the map is what the relocation refers to.
NamedEvenLocal(r, u) ==
    /\ dst[u] # 0
    /\ symt[dst_symt[dst[u]].src].st_name = symt[r.sym].st_name
Named(r, u) ==
    /\ dst[u] # 0
    /\ symt[dst_symt[dst[u]].src].st_name = symt[r.sym].st_name
    /\ IsGlobal(dst_symt[dst[u]].src)

Referenced(r, u) ==
    /\ u \in DOMAIN smap_table
    /\ Named(r, u)
    /\ \A h \in 1 .. u - 1 : ~Named(r, h)

\* The search, or the use of the referencing entry k, meets an unset pointer.
MeetsUnset(r, k) ==
    \/ dst[k] = 0
    \/ \E h \in DOMAIN smap_table : dst[h] = 0 /\ \A g \in 1 .. h : ~Named(r, g)

\* The last header of the relocation's section.
SectionOffset(r) ==
    sht[CHOOSE h \in DOMAIN sht :
            /\ sht[h].sh_name = r.section
            /\ \A g \in DOMAIN sht : sht[g].sh_name = r.section => g <= h].sh_offset

IsRelative(r) == r.type \in {"R_X86_64_PC32", "R_X86_64_PLT32"}

\* R_X86_64_32_handler, R_X86_64_PC32_handler
Relocated(r, row, d) ==
    get_symbol_runtime_address(d) - (IF IsRelative(r) THEN (row + 1) * INST_SIZE ELSE 0)

\* Row row of the section is line SectionOffset(r) + row of the output, wherever that
\* is: in the lines merged, in the symbol table, behind it, or behind the buffer.
Patch(r, row, d) ==
    LET line == SectionOffset(r) + row
        i    == line - 1 - Len(sht)
    IN  /\ buffer' = IF i \in DOMAIN buffer
                     THEN [buffer EXCEPT ![i].patch = <<Relocated(r, row, d)>>]
                     ELSE buffer
        /\ stray' = stray \cup {k \in DOMAIN smap_table : Len(buffer) + k = i}
        /\ phase' = IF line < MAX_ELF_FILE_LENGTH THEN phase ELSE "undefined"

\* Symbol g is entry k, and the search for what the relocation refers to is in vain.
InVain(r, g) ==
    \E k \in DOMAIN smap_table :
        /\ smap_table[k] = g
        /\ ~MeetsUnset(r, k)
        /\ \A u \in DOMAIN smap_table : ~Named(r, u)

\* The scan for the symbol that the relocation is in comes to m.
ScanReaches(r, m) ==
    /\ Referencing(r, m)
    /\ \A g \in 1 .. m - 1 : Referencing(r, g) => InVain(r, g)

\* A relocation outside of all symbols, and one that refers to a name that no
\* global entry has, is passed over.
PassOver(r) ==
    /\ \A m \in DOMAIN symt : Referencing(r, m) => InVain(r, m)
    /\ UNCHANGED <<phase, buffer, stray>>

NotInMap(r) ==
    /\ \E m \in DOMAIN symt :
        /\ ScanReaches(r, m)
        /\ \A k \in DOMAIN smap_table : smap_table[k] # m
    /\ phase' = "aborted"
    /\ UNCHANGED <<buffer, stray>>

FollowUnset(r) ==
    /\ \E m \in DOMAIN symt, k \in DOMAIN smap_table :
        ScanReaches(r, m) /\ smap_table[k] = m /\ MeetsUnset(r, k)
    /\ phase' = "undefined"
    /\ UNCHANGED <<buffer, stray>>

Apply(r) ==
    \E m \in DOMAIN symt, k \in DOMAIN smap_table, u \in DOMAIN smap_table :
        /\ ScanReaches(r, m) /\ smap_table[k] = m
        /\ ~MeetsUnset(r, k)
        /\ Referenced(r, u)
        /\ \/ /\ IsRelative(r) => r.section = ".text"
              /\ Patch(r, r.r_row - place[m].st_value + dst_symt[dst[k]].st_value,
                       dst_symt[dst[u]])
           \/ /\ IsRelative(r) /\ r.section # ".text"
              /\ phase' = "aborted"
              /\ UNCHANGED <<buffer, stray>>

Relocate ==
    /\ Relocating
    /\ LET r == rel[relocated + 1]
       IN  PassOver(r) \/ NotInMap(r) \/ FollowUnset(r) \/ Apply(r)
    /\ relocated' = relocated + 1
    /\ UNCHANGED <<vars, placeVars, sht, section, pos, offset, dst_symt, dst>>

EndLink ==
    /\ phase = "relocating"
    /\ relocated = Len(rel)
    /\ phase' = "linked"
    /\ UNCHANGED <<vars, placeVars, sht, mergeVars, relocated, stray>>

LinkNext ==
    \/ Next /\ UNCHANGED <<placeVars, phase, sht, mergeVars, relocated, stray>>
    \/ compute_section_header
    \/ SkipSymbol
    \/ MergeSymbol
    \/ NextSection
    \/ WriteSymbols
    \/ Relocate
    \/ EndLink

LinkSpec == LinkInit /\ [][LinkNext]_linkVars

-----------------------------------------------------------------------------
(* Properties *)

Merged == phase \in {"relocating", "linked"}

\* The place of entry k's first line in the part of the output behind the headers,
\* by its header and its symbol table entry.
FirstLine(k) ==
    LET name == symt[smap_table[k]].st_shndx
        h    == CHOOSE h \in DOMAIN sht : sht[h].sh_name = name
    IN  sht[h].sh_offset - 1 - Len(sht) + dst_symt[dst[k]].st_value

\* Nothing is in .rodata, whose header has the name of .data, nor in the table of
\* symbols, and every file has headers for its code and its data.
Ordinary ==
    /\ Count(".rodata") = 0
    /\ EntriesIn(".symtab") = {}
    /\ \A k \in EntriesIn(".text") \cup EntriesIn(".data") : HasSource(smap_table[k])

\* In an ordinary program every entry of the map that is code or data is found in the
\* output, complete, in order and unmixed, where its section header and its symbol
\* table entry say: line by line what its file has at the place that the file's header
\* and symbol table say.  (A section of symbols without lines has no header.)
MergedInPlace ==
    Merged /\ Ordinary =>
        \A k \in EntriesIn(".text") \cup EntriesIn(".data") :
            Count(symt[smap_table[k]].st_shndx) > 0 =>
            /\ dst[k] # 0
            /\ dst_symt[dst[k]].src = smap_table[k]
            /\ \A t \in 0 .. place[smap_table[k]].st_size - 1 :
                /\ FirstLine(k) + t \in DOMAIN buffer
                /\ buffer[FirstLine(k) + t].sym = smap_table[k]
                /\ buffer[FirstLine(k) + t].row = t
                /\ buffer[FirstLine(k) + t].line = src_index(smap_table[k], t)

\* Where the line at position i is when the output is laid out as the picture at
\* lines 765 to 772 shows, without .rodata.
AddressOf(i) ==
    LET text == SizeOf(".text")
    IN  IF i <= text THEN (i - 1) * INST_SIZE
        ELSE text * INST_SIZE + (i - 1 - text) * DATA_SIZE

\* The relocation at position j of rel is for the line at position i.
IsFor(j, i) ==
    LET m == buffer[i].sym
    IN  /\ place[m].elf = rel[j].elf
        /\ symt[m].st_shndx = rel[j].section
        /\ place[m].st_value + buffer[i].row = rel[j].r_row

\* In an ordinary program, if no empty symbol draws relocations to it, every line that
\* refers to a global name of code or data has been given the distance, or the address,
\* of the one entry that resolution kept for this name: the offsets, sizes and rows of
\* all files agree in the end.
ReferencesReachTheirSymbol ==
    /\ Merged /\ Ordinary
    /\ \A j \in DOMAIN rel, m \in DOMAIN symt : Referencing(rel[j], m) => place[m].st_size > 0
    =>
        \A j \in 1 .. relocated, i \in DOMAIN buffer :
            IsFor(j, i) /\ IsGlobal(rel[j].sym) =>
                \A k \in Conflicts(rel[j].sym) :
                    LET target == AddressOf(FirstLine(k))
                    IN  buffer[i].patch =
                            <<IF IsRelative(rel[j]) THEN target - AddressOf(i) - INST_SIZE
                              ELSE target>>

\* The linker fails after resolution for few reasons: an entry that is neither code nor
\* data, or has no lines, or whose file has no header for its section or one that says
\* its lines are behind the end of the file's buffer; an output that is too long; a
\* relocation in a weak symbol, and a relative one in .data.  Everything else it links.
FailureHasACause ==
    phase \in {"aborted", "exited", "undefined"} =>
        \/ \E k \in DOMAIN smap_table :
            \/ symt[smap_table[k]].st_shndx \notin {".text", ".data"}
            \/ place[smap_table[k]].st_size = 0
            \/ ~HasSource(smap_table[k])
            \/ src_index(smap_table[k], place[smap_table[k]].st_size - 1) >= MAX_ELF_FILE_LENGTH
        \/ line_count > MAX_ELF_FILE_LENGTH
        \/ \E j \in DOMAIN rel, m \in DOMAIN symt :
            Referencing(rel[j], m) /\ symt[m].bind = "STB_WEAK"
        \/ \E j \in DOMAIN rel : IsRelative(rel[j]) /\ rel[j].section = ".data"

\* The field sh_addr is the run-time address of a section (linker.h, line 12), and
\* without .rodata it is the address that relocation uses for the section's symbols.
SectionAddressesAgree ==
    phase = "linked" /\ Count(".rodata") = 0 =>
        \A h \in DOMAIN sht : sht[h].sh_name = ".data" => sht[h].sh_addr = data_base
=============================================================================
