------------------------------- MODULE Linker -------------------------------
(***************************************************************************)
(* The linker as a program: src/mains/test_elf.c parses the object files   *)
(* one after the other, links what it read, and writes the output, itself  *)
(* an object file.                                                         *)
(***************************************************************************)
EXTENDS StaticLink
INSTANCE ParseELF

CONSTANTS
    NUM_FILES,      \* how many object files there are; 2
    Objects(_),     \* the object files that may follow those already read
    Text(_),        \* the text of an object file
    Meant(_),       \* what a sequence of object files was made from
    Damage(_)       \* what happened to an object file since, or "none"

ASSUME FilesAssumption == NUM_FILES \in Nat \ {0}

\* A name is a column of a line: no comment, and no blank.
ASSUME NamesAssumption == {"//", " "} \cap Name = {}

VARIABLES
    files,      \* the object files that have been opened
    reading,    \* how the parsing goes
    output      \* the file that is written

readVars == <<files, reading>>
programVars == <<linkVars, readVars, output>>

LinkerTypeOK ==
    /\ Len(files) \in 0 .. NUM_FILES
    /\ reading = "reading" => Len(files) < NUM_FILES
    /\ reading \in {"reading", "read", "aborted", "exited", "undefined"}
    /\ reading # "read" => phase = "resolving" /\ smap_table = <<>>

LinkerInit ==
    /\ files = <<>>
    /\ reading = "reading"
    /\ output = <<>>
    /\ symt = <<>> /\ src_sht = <<>> /\ place = <<>> /\ rel = <<>>
    /\ Unlinked

-----------------------------------------------------------------------------
(* parse_elf, on the next file *)

AsSymbol(e) == [st_name |-> e.st_name, bind |-> e.bind, type |-> e.type, st_shndx |-> e.st_shndx]

\* Column sym counts from 0 in its own file.
AsRelocation(r) ==
    [elf |-> Len(files) + 1, section |-> r.section, r_row |-> r.r_row, type |-> r.type,
     sym |-> Len(symt) + r.sym + 1]

AsHeader(sh) == [sh_name |-> sh.sh_name, sh_offset |-> sh.sh_offset]

AsPlace(e) == [elf |-> Len(files) + 1, st_value |-> e.st_value, st_size |-> e.st_size]

\* A file that is not parsed ends the program.
ParseFile ==
    /\ reading = "reading"
    /\ \E f \in Objects(files) :
        LET elf == parse_elf(Text(f))
        IN  /\ files' = Append(files, f)
            /\ \/ /\ elf.outcome = "read"
                  /\ symt' = symt \o [i \in DOMAIN elf.symt |-> AsSymbol(elf.symt[i])]
                  /\ src_sht' = Append(src_sht, [h \in DOMAIN elf.sht |-> AsHeader(elf.sht[h])])
                  /\ place' = place \o [i \in DOMAIN elf.symt |-> AsPlace(elf.symt[i])]
                  /\ rel' = rel \o [i \in DOMAIN elf.rel |-> AsRelocation(elf.rel[i])]
                  /\ reading' = IF Len(files) + 1 = NUM_FILES THEN "read" ELSE reading
               \/ /\ elf.outcome # "read"
                  /\ reading' = elf.outcome
                  /\ UNCHANGED <<symt, placeVars>>
    /\ UNCHANGED <<smap_table, next, cleaned, status, phase, sht, mergeVars, relocated, stray, output>>

\* The columns are read from an array that is no more.
FollowColumns ==
    /\ reading = "reading"
    /\ \E f \in Objects(files) : ReadsColumns(Text(f)) /\ files' = Append(files, f)
    /\ reading' = "undefined"
    /\ UNCHANGED <<linkVars, output>>

-----------------------------------------------------------------------------
(* The text of the output, and write_eof *)

\* sprintf in compute_section_header.  The line of .symtab stays empty.
HeaderLine(sh) ==
    IF sh.sh_name = ".symtab" THEN <<>>
    ELSE <<Word(sh.sh_name), Number(BASE + sh.sh_addr), Number(sh.sh_offset), Number(sh.sh_size)>>

get_stb_string(bind) == IF bind = "STB_GLOBAL" THEN "STT_GLOBAL" ELSE bind

\* sprintf at the end of merge_section
SymbolLineSizeFirst(d) ==
    <<Word(symt[d.src].st_name), Word(get_stb_string(symt[d.src].bind)), Word(symt[d.src].type),
      Word(symt[d.src].st_shndx), Number(place[d.src].st_size), Number(d.st_value)>>
SymbolLine(d) ==
    <<Word(symt[d.src].st_name), Word(get_stb_string(symt[d.src].bind)), Word(symt[d.src].type),
      Word(symt[d.src].st_shndx), Number(d.st_value), Number(place[d.src].st_size)>>

\* An instruction or a datum is not looked into: it is a line of a source file.
SourceLine(l) == <<Word("line"), Number(place[l.sym].elf), Number(l.line)>>

\* The line of an entry that no symbol was merged into, if it has become a line, and
\* one that relocation has written over
Arbitrary == <<Word("arbitrary")>>

write_eof ==
    /\ phase = "linked"
    /\ output = <<>>
    /\ output' = <<<<Number(line_count)>>, <<Number(Len(sht))>>>>
                    \o [h \in DOMAIN sht |-> HeaderLine(sht[h])]
                    \o [i \in DOMAIN buffer |-> SourceLine(buffer[i])]
                    \o [i \in DOMAIN smap_table |->
                           IF i \in DOMAIN dst_symt \ stray THEN SymbolLine(dst_symt[i]) ELSE Arbitrary]
    /\ UNCHANGED <<linkVars, readVars>>

LinkerNext ==
    \/ ParseFile
    \/ FollowColumns
    \/ reading = "read" /\ LinkNext /\ UNCHANGED <<readVars, output>>
    \/ write_eof

LinkerSpec == LinkerInit /\ [][LinkerNext]_programVars

-----------------------------------------------------------------------------
(* Properties *)

Sound == \A e \in DOMAIN files : Damage(files[e]) = "none"

\* Object files with blank lines and comments wherever files/exe has them are read
\* as the tables they were made from, those of a later file behind those of an
\* earlier one, and none is refused; a damaged file is, unless its header of
\* .symtab gives fewer symbols than there are, or its header of .text has a name or a
\* place that it should not have.
ObjectsAreRead ==
    /\ reading = "read" /\ smap_table = <<>> /\ Sound =>
        /\ symt = Meant(files).symt
        /\ src_sht = Meant(files).src_sht
        /\ place = Meant(files).place
        /\ rel = Meant(files).rel
    /\ reading \in {"aborted", "exited"} => ~Sound
    /\ reading = "read" => \A e \in DOMAIN files : Damage(files[e]) \in {"none", "short", "renamed", "displaced"}

\* The output with the header of .symtab where compute_section_header leaves an
\* empty line, and with STB_GLOBAL where get_stb_string has STT_GLOBAL
Repaired(file) ==
    LET symtab == sht[Len(sht)]
        header == <<Word(".symtab"), Number(0), Number(symtab.sh_offset), Number(symtab.sh_size)>>
        Binding(line) ==
            [c \in DOMAIN line |-> IF c = 2 /\ line[c] = Word("STT_GLOBAL") THEN Word("STB_GLOBAL") ELSE line[c]]
    IN  [l \in DOMAIN file |-> IF file[l] = <<>> THEN header ELSE Binding(file[l])]

Kept(k) ==
    [st_name  |-> symt[smap_table[k]].st_name,
     bind     |-> symt[smap_table[k]].bind,
     type     |-> symt[smap_table[k]].type,
     st_shndx |-> symt[smap_table[k]].st_shndx,
     st_value |-> dst_symt[dst[k]].st_value,
     st_size  |-> place[smap_table[k]].st_size]

\* Every entry has become a symbol of the output.
AllWritten ==
    \A k \in DOMAIN smap_table :
        /\ symt[smap_table[k]].st_shndx \in {".text", ".data"}
        /\ place[smap_table[k]].st_size > 0
        /\ HasSource(smap_table[k])

\* The output is an object file but for two slips.  As it is, the program's own
\* parser refuses it; with them put right, it is read back as the symbols that
\* resolution kept, each where merging put it.
OutputReadsBack ==
    output # <<>> /\ AllWritten =>
        LET again == parse_elf(Repaired(output))
        IN  /\ parse_elf(output).outcome # "read"
            /\ again.outcome = "read"
            /\ Len(again.symt) = Len(smap_table)
            /\ {again.symt[i] : i \in DOMAIN again.symt} = {Kept(k) : k \in DOMAIN smap_table}
=============================================================================
