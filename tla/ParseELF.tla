------------------------------ MODULE ParseELF ------------------------------
(***************************************************************************)
(* The parser of object files: parse_elf and what it calls, of             *)
(* src/linker/parseELF.c.                                                  *)
(*                                                                         *)
(* A file is a sequence of lines, and a line the sequence of its columns,  *)
(* of the blank it may begin with and of the comment it may end in.  Lines *)
(* are numbered from 0 in the code and from 1 here.                        *)
(***************************************************************************)
EXTENDS Integers, Sequences

CONSTANTS
    Bind,                   \* the names of bindings, of types of symbols
    Type,
    RelocationType,         \* and of types of relocations
    MAX_ELF_FILE_LENGTH     \* lines that count; 64

NotANumber == -1

\* A column is a text and the number that string2uint reads from it, if it does not exit.
Word(w)   == [word |-> w, value |-> NotANumber]
Number(n) == [word |-> "number", value |-> n]

Note  == Word("//")
Blank == Word(" ")

-----------------------------------------------------------------------------
(* read_elf *)

\* Empty lines, comments and lines that begin with a blank do not count.
Skipped(line) == line = <<>> \/ line[1] \in {Blank, Note}

\* A line up to its comment
Cut(line) ==
    LET n == CHOOSE n \in 0 .. Len(line) :
                /\ \A c \in 1 .. n : line[c] # Note
                /\ n < Len(line) => line[n + 1] = Note
    IN  SubSeq(line, 1, n)

Buffer(file) ==
    LET after[l \in 0 .. Len(file)] ==
            IF l = 0 THEN <<>>
            ELSE IF Skipped(file[l]) THEN after[l - 1]
            ELSE Append(after[l - 1], Cut(file[l]))
    IN  after[Len(file)]

\* The number that a whole line is
NumberIn(line) == IF Len(line) = 1 THEN line[1].value ELSE NotANumber

\* "undefined" is a read of memory that nobody wrote to.
read_elf(b) ==
    IF Len(b) > MAX_ELF_FILE_LENGTH THEN "exited"
    ELSE IF b = <<>> THEN "undefined"
    ELSE IF NumberIn(b[1]) = NotANumber THEN "exited"
    ELSE IF NumberIn(b[1]) # Len(b) THEN "aborted"
    ELSE "read"

-----------------------------------------------------------------------------
(* One row of a table *)

\* Row i has width columns, and they are legal.
Row(b, i, width, legal) ==
    IF i \notin DOMAIN b THEN "undefined"
    ELSE IF Len(b[i]) # width THEN "aborted"
    ELSE IF legal THEN "read"
    ELSE "exited"

AreNumbers(row, cols) == \A c \in cols : row[c].value # NotANumber

parse_sh(b, i) == Row(b, i, 4, AreNumbers(b[i], 2 .. 4))

parse_symtab(b, i) ==
    Row(b, i, 6, b[i][2].word \in Bind /\ b[i][3].word \in Type /\ AreNumbers(b[i], 5 .. 6))

parse_relocation(b, i) ==
    Row(b, i, 5, b[i][3].word \in RelocationType /\ AreNumbers(b[i], {1, 2, 4, 5}))

\* What the rows end in: the first that is not read, if any
First(outcomes) ==
    IF \A n \in DOMAIN outcomes : outcomes[n] = "read" THEN "read"
    ELSE outcomes[CHOOSE n \in DOMAIN outcomes :
                    outcomes[n] # "read" /\ \A m \in 1 .. n - 1 : outcomes[m] = "read"]

-----------------------------------------------------------------------------
(* parse_elf *)

SectionHeaders(b) ==
    [h \in 1 .. NumberIn(b[2]) |->
        [sh_name |-> b[2 + h][1].word, sh_offset |-> b[2 + h][3].value, sh_size |-> b[2 + h][4].value]]

\* The rows of section name: the last header of this name says which.
RowsOf(sht, name) ==
    LET named == {h \in DOMAIN sht : sht[h].sh_name = name}
        h == CHOOSE h \in named : \A g \in named : g <= h
    IN  IF named = {} THEN <<>> ELSE [i \in 1 .. sht[h].sh_size |-> sht[h].sh_offset + i]

\* The symbol that a relocation names is in the table.
HasOneMore(symbols, sym) == sym <= Len(symbols)
HasSymbol(symbols, sym) == sym < Len(symbols)

Relocations(b, rows, symbols) ==
    First([i \in DOMAIN rows |->
              IF parse_relocation(b, rows[i]) # "read" THEN parse_relocation(b, rows[i])
              ELSE IF HasSymbol(symbols, b[rows[i]][4].value) THEN "read" ELSE "aborted"])

\* How the tables of a buffer that read_elf has accepted are read
Tables(b, sht) ==
    LET symbols == RowsOf(sht, ".symtab")
    IN  IF \A h \in DOMAIN sht : sht[h].sh_name # ".symtab" THEN "aborted"
        ELSE First(<<First([i \in DOMAIN symbols |-> parse_symtab(b, symbols[i])]),
                     Relocations(b, RowsOf(sht, ".rel.text"), symbols),
                     Relocations(b, RowsOf(sht, ".rel.data"), symbols)>>)

HeadersRead(b) ==
    IF Len(b) < 2 THEN "undefined"
    ELSE IF NumberIn(b[2]) = NotANumber THEN "exited"
    ELSE First([h \in 1 .. NumberIn(b[2]) |-> parse_sh(b, 2 + h)])

Outcome(b) ==
    IF read_elf(b) # "read" THEN read_elf(b)
    ELSE IF HeadersRead(b) # "read" THEN HeadersRead(b)
    ELSE Tables(b, SectionHeaders(b))

SymbolIn(row) ==
    [st_name |-> row[1].word, bind |-> row[2].word, type |-> row[3].word,
     st_shndx |-> row[4].word, st_value |-> row[5].value, st_size |-> row[6].value]

RelocationIn(row, name) ==
    [section |-> name, r_row |-> row[1].value, type |-> row[3].word, sym |-> row[4].value]

\* How parse_elf ends, and the tables it leaves if it returns
parse_elf(file) ==
    LET b    == Buffer(file)
        sht  == SectionHeaders(b)
        Rels(of, name) == [i \in DOMAIN RowsOf(sht, of) |-> RelocationIn(b[RowsOf(sht, of)[i]], name)]
    IN  IF Outcome(b) # "read" THEN [outcome |-> Outcome(b), sht |-> <<>>, symt |-> <<>>, rel |-> <<>>]
        ELSE [outcome |-> "read",
              sht     |-> sht,
              symt    |-> [i \in DOMAIN RowsOf(sht, ".symtab") |-> SymbolIn(b[RowsOf(sht, ".symtab")[i]])],
              rel     |-> Rels(".rel.text", ".text") \o Rels(".rel.data", ".data")]

\* A row of some table is read, from the array of columns that parse_table_entry
\* leaves on its own stack.
ReadsColumns(file) == read_elf(Buffer(file)) = "read" /\ Len(Buffer(file)) > 2
=============================================================================
