--------------------------- MODULE MCStaticLink ---------------------------
(* Two files of up to three symbols each, laid out as a compiler does, that   *)
(* resolution accepts (what it rejects is the subject of MCSymbolResolution), *)
(* and up to two relocations.                                                 *)
EXTENDS StaticLink, FiniteSetsExt

Symbolic(name, bind, type, shndx, lines) ==
    [st_name |-> name, bind |-> bind, type |-> type, st_shndx |-> shndx, st_size |-> lines]

\* Declarations of names in a source file
Extern(name)     == Symbolic(name, "STB_GLOBAL", "STT_NOTYPE", "SHN_UNDEF", 0)
Common(name)     == Symbolic(name, "STB_GLOBAL", "STT_OBJECT", "COMMON", 1)
Data(name, n)    == Symbolic(name, "STB_GLOBAL", "STT_OBJECT", ".data", n)
ReadOnly(name)   == Symbolic(name, "STB_GLOBAL", "STT_OBJECT", ".rodata", 1)
Func(name, n)    == Symbolic(name, "STB_GLOBAL", "STT_FUNC", ".text", n)
Static(name)     == Symbolic(name, "STB_LOCAL", "STT_OBJECT", ".data", 1)
StaticFunc(name) == Symbolic(name, "STB_LOCAL", "STT_FUNC", ".text", 1)
WeakFunc(name)   == Symbolic(name, "STB_WEAK", "STT_FUNC", ".text", 1)
Startup(name)    == Symbolic(name, "STB_GLOBAL", "STT_FUNC", ".text.startup", 1)

\* main.c uses sum and bias; sum.c has them, or some of them.
MainFiles ==
    {<<Func("main", 2), Extern("sum")>>,
     <<Static("bias"), Func("main", 1), Extern("sum")>>,
     <<Common("bias"), Extern("sum"), Func("main", 2)>>,
     <<Data("bias", 2), Func("main", 2), Extern("sum")>>,
     <<Extern("bias"), StaticFunc("sum"), Func("main", 2)>>,
     <<WeakFunc("sum"), Extern("bias"), Func("main", 1)>>,
     <<Data("bias", 0), Func("main", 2), Extern("sum")>>}
SumFiles ==
    {<<Func("sum", 2), Extern("bias")>>,
     <<Data("bias", 1), Func("sum", 1)>>,
     <<Static("main"), Data("bias", 1), Func("sum", 2)>>,
     <<ReadOnly("bias"), Func("sum", 1)>>,
     <<ReadOnly("bias"), Static("main"), Func("sum", 1)>>,
     <<Common("bias"), Static("main"), Func("sum", 1)>>,
     <<Func("sum", 1), Data("bias", 1), Data("sum_bias", 2)>>,
     <<Func("sum", 1), Func("bias", 0), Func("sum_bias", 1)>>,
     <<Startup("bias"), Func("sum", 1)>>}

\* Every name that is global anywhere is defined once, or common.
Accepted(files) ==
    LET global == {s \in UNION {{f[n] : n \in DOMAIN f} : f \in files} : s.bind = "STB_GLOBAL"}
        strong == {s \in global : s.st_shndx \notin {"SHN_UNDEF", "COMMON"}}
    IN  /\ \A s \in global : \E d \in global : d.st_name = s.st_name /\ d.st_shndx # "SHN_UNDEF"
        /\ \A s, d \in strong : s.st_name = d.st_name => s = d

Programs ==
    {<<f, g>> \in (MainFiles \X SumFiles) \cup (SumFiles \X MainFiles) : Accepted({f, g})}

SymbolsOf(f) ==
    [n \in DOMAIN f |-> [st_name |-> f[n].st_name, bind |-> f[n].bind,
                         type |-> f[n].type, st_shndx |-> f[n].st_shndx]]

\* The symbols of a file, one behind the other in their sections, the empty ones at 0
Layout(f, e) ==
    [n \in DOMAIN f |->
        [elf      |-> e,
         st_value |-> IF f[n].st_size = 0 THEN 0
                      ELSE MapThenSumSet(LAMBDA m : f[m].st_size,
                                         {m \in 1 .. n - 1 : f[m].st_shndx = f[n].st_shndx}),
         st_size  |-> f[n].st_size]]

\* No relocation, or one in row r_row of a section of a file, that refers to symbol n of
\* it; row 9 is in no symbol that has lines.
NoRelocation == [n |-> 0]
RelocationChoices ==
    {NoRelocation, [n |-> 1, section |-> ".text", r_row |-> 9, type |-> "R_X86_64_32"]} \cup
    [n : 1 .. 3, section : {".text", ".data"}, r_row : 0 .. 1, type : {"R_X86_64_32", "R_X86_64_PC32"}]

Possible(f, r) ==
    r # NoRelocation => r.n \in DOMAIN f /\ \E m \in DOMAIN f : f[m].st_shndx = r.section

\* The sections of a file with symbols f and relocation r, in the order of their lines,
\* and their headers
Lines(f, name) ==
    MapThenSumSet(LAMBDA n : f[n].st_size, {n \in DOMAIN f : f[n].st_shndx = name})

Rows(f, r, name) ==
    CASE name = ".symtab" -> Len(f)
      [] name \in {".rel.text", ".rel.data"} ->
            IF r # NoRelocation /\ name = ".rel" \o r.section THEN 1 ELSE 0
      [] OTHER -> Lines(f, name)

Present(f, r) ==
    SelectSeq(<<".text", ".text.startup", ".rodata", ".data", ".symtab", ".rel.text", ".rel.data">>,
              LAMBDA name : Rows(f, r, name) > 0)

HeadersOf(f, r) ==
    LET present == Present(f, r)
    IN  [i \in DOMAIN present |->
            [sh_name   |-> present[i],
             sh_offset |-> 2 + Len(present)
                             + MapThenSumSet(LAMBDA j : Rows(f, r, present[j]), 1 .. i - 1)]]

\* before symbols of other files come in symt.
RelocationsOf(e, before, r) ==
    IF r = NoRelocation THEN <<>>
    ELSE <<[elf |-> e, section |-> r.section, r_row |-> r.r_row, type |-> r.type, sym |-> before + r.n]>>

InputOf(p, r, s) ==
    [symt    |-> SymbolsOf(p[1]) \o SymbolsOf(p[2]),
     src_sht |-> <<HeadersOf(p[1], r), HeadersOf(p[2], s)>>,
     place   |-> Layout(p[1], 1) \o Layout(p[2], 2),
     rel     |-> RelocationsOf(1, 0, r) \o RelocationsOf(2, Len(p[1]), s)]

\* At most one relocation in each file
Inputs ==
    {InputOf(c[1], c[2], c[3]) :
        c \in {d \in Programs \X RelocationChoices \X RelocationChoices :
                 Possible(d[1][1], d[2]) /\ Possible(d[1][2], d[3])}}

SymbolTables == {SymbolsOf(p[1]) \o SymbolsOf(p[2]) : p \in Programs}
=============================================================================
