------------------------------ MODULE MCLinker ------------------------------
(* The inputs of MCStaticLink as the text of object files, those of sum.c with *)
(* comments and blank lines everywhere, and some second files damaged.         *)
EXTENDS Linker, MCStaticLink
LOCAL INSTANCE SequencesExt

\* The rows of section name of a file with symbols f and relocation r
RowsIn(f, r, name) ==
    CASE name = ".symtab" ->
            [n \in DOMAIN f |-> <<Word(f[n].st_name), Word(f[n].bind), Word(f[n].type), Word(f[n].st_shndx),
                                  Number(Layout(f, 1)[n].st_value), Number(f[n].st_size)>>]
      [] name \in {".rel.text", ".rel.data"} ->
            IF r # NoRelocation /\ name = ".rel" \o r.section
            THEN <<<<Number(r.r_row), Number(7), Word(r.type), Number(r.n - 1), Number(4)>>>>
            ELSE <<>>
      [] OTHER -> [n \in 1 .. Lines(f, name) |-> <<Word("line")>>]

\* The lines of the file
TextOf(f, r) ==
    LET headers == HeadersOf(f, r)
        rows    == [i \in DOMAIN headers |-> RowsIn(f, r, headers[i].sh_name)]
        heads   == [i \in DOMAIN headers |->
                       <<Word(headers[i].sh_name), Number(0), Number(headers[i].sh_offset),
                         Number(Len(rows[i]))>>]
        body    == heads \o FlattenSeq(rows)
    IN  <<<<Number(2 + Len(body))>>, <<Number(Len(headers))>>>> \o body

Commented(text) ==
    FlattenSeq([l \in DOMAIN text |-> <<<<Note>>, <<>>, Append(text[l], Note)>>])

\* One slip in the text of a file: in line l, of the header or row called name
LineOf(text, name) == CHOOSE l \in DOMAIN text : text[l][1] = Word(name)
SymtabHeader(text) == LineOf(text, ".symtab")
SymtabLine(text) == text[SymtabHeader(text)][3].value + 1

Damaged(text, damage) ==
    CASE damage = "none"     -> text
      [] damage = "long"     -> text \o [n \in 1 .. MAX_ELF_FILE_LENGTH |-> <<Word("line")>>]
      [] damage = "empty"    -> <<>>
      [] damage = "unnumbered" -> Tail(text)
      [] damage = "indented" -> [text EXCEPT ![Len(text)] = <<Blank>> \o @]
      [] damage = "count"    -> [text EXCEPT ![2] = <<Word("many")>>]
      [] damage = "offset"   -> [text EXCEPT ![SymtabHeader(text)][3] = Word("0x6 ")]
      [] damage = "nameless" -> [text EXCEPT ![SymtabHeader(text)][1] = Word(".strtab")]
      [] damage = "short"    -> [text EXCEPT ![SymtabHeader(text)][4].value = @ - 1]
      [] damage = "beyond"   -> [text EXCEPT ![SymtabHeader(text)][3].value = Len(text)]
      [] damage = "renamed"  -> [text EXCEPT ![LineOf(text, ".text")][1] = Word(".code")]
      [] damage = "displaced" -> [text EXCEPT ![LineOf(text, ".text")][3].value = MAX_ELF_FILE_LENGTH]
      [] damage = "columns"  -> [text EXCEPT ![SymtabLine(text)] = Tail(@)]
      [] damage = "binding"  -> [text EXCEPT ![SymtabLine(text)][2] = Word("STT_GLOBAL")]
      [] damage = "relocation" -> [text EXCEPT ![Len(text)][3] = Word("R_X86_64_64")]
      [] damage = "symbol"   -> [text EXCEPT ![Len(text)][4].value = 3]

Damages == {"long", "empty", "unnumbered", "indented", "count", "offset", "nameless", "short",
            "beyond", "renamed", "displaced", "columns", "binding", "relocation", "symbol"}

\* The undamaged objects, <<symbols, relocation, damage>>, and their texts, evaluated once
Compiled ==
    {<<f, r, "none">> : f \in MainFiles \cup SumFiles, r \in RelocationChoices}
SoundObjects == {o \in Compiled : Possible(o[1], o[2])}
Texts == [o \in SoundObjects |-> TextOf(o[1], o[2])]

\* Objects of three symbols that end in a relocation, damaged
DamagedObjects ==
    {<<o[1], o[2], damage>> :
        o \in {o \in SoundObjects : Len(o[1]) = 3 /\ o[2] # NoRelocation /\ o[2].r_row = 0},
        damage \in Damages}

\* Every first object, every second one that makes a program with it; and for the
\* first object without a relocation, every damaged one too.
ObjectsAfter(opened) ==
    IF opened = <<>> THEN SoundObjects
    ELSE {o \in SoundObjects \cup (IF opened[1][2] = NoRelocation THEN DamagedObjects ELSE {}) :
            <<opened[1][1], o[1]>> \in Programs}

DamageOf(o) == o[3]
TextIn(o) ==
    IF DamageOf(o) # "none" THEN Commented(Damaged(Texts[<<o[1], o[2], "none">>], DamageOf(o)))
    ELSE IF o[1] \in MainFiles THEN Texts[o]
    ELSE Commented(Texts[o])
MeantBy(opened) == InputOf(<<opened[1][1], opened[2][1]>>, opened[1][2], opened[2][2])
=============================================================================
