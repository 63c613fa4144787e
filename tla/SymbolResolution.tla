-------------------------- MODULE SymbolResolution --------------------------
(***************************************************************************)
(* Symbol resolution of the static linker: the translation of              *)
(* symbol_processing, symbol_priority and simple_resolution of             *)
(* src/linker/staticlink.c.  The symbols of all source files are taken one *)
(* by one, in file order, into the symbol map; of the global symbols of    *)
(* one name the map keeps the one with the highest priority.               *)
(*                                                                         *)
(* symt is the symbol tables of the files one after the other (nothing     *)
(* here asks where a file ends), and an entry of the map is the position   *)
(* of its symbol, which stands for the pointers elf and src of smap_t.     *)
(* dst, st_value and st_size belong to the later phases of the linker.     *)
(***************************************************************************)
EXTENDS Naturals, Sequences, FiniteSets

CONSTANTS
    Name,                   \* symbol names
    OtherSection,           \* whatever else a file may name as a symbol's section
    SourceSymbols,          \* the symbol tables the linker may be given
    MAX_SYMBOL_MAP_LENGTH   \* the length of the array smap_table; 64

Bind    == {"STB_LOCAL", "STB_GLOBAL", "STB_WEAK"}
Type    == {"STT_NOTYPE", "STT_OBJECT", "STT_FUNC"}
Section == {"SHN_UNDEF", "COMMON", ".text", ".data", ".rodata", ".bss"} \cup OtherSection
Symbol  == [st_name : Name, bind : Bind, type : Type, st_shndx : Section]

ASSUME SourceAssumption == SourceSymbols \subseteq Seq(Symbol)
ASSUME LengthAssumption == MAX_SYMBOL_MAP_LENGTH \in Nat

VARIABLES
    symt,       \* the source symbols
    smap_table, \* the map
    next,       \* the symbol to process next
    cleaned,    \* how many entries of the map the clean-up has been through
    status      \* what symbol_processing is doing, or how it ended

vars == <<symt, smap_table, next, cleaned, status>>

\* "redeclared" and "undetermined" are the exits of simple_resolution and
\* symbol_priority, "aborted" is a failed assertion, and "overrun" the undefined
\* behaviour of a write behind the end of smap_table.
Status == {"resolving", "cleaning", "resolved",
           "redeclared", "undetermined", "aborted", "overrun"}

TypeOK ==
    /\ symt \in Seq(Symbol)
    /\ smap_table \in Seq(1 .. Len(symt))
    /\ next \in 1 .. Len(symt) + 1
    /\ cleaned \in 0 .. Len(smap_table)
    /\ status \in Status

\* The map is empty and no symbol has been processed.
Unresolved ==
    /\ smap_table = <<>>
    /\ next = 1
    /\ cleaned = 0
    /\ status = "resolving"

Init == symt \in SourceSymbols /\ Unresolved

-----------------------------------------------------------------------------
(* symbol_priority *)

IsUndefined(s) == s.st_shndx = "SHN_UNDEF" /\ s.type = "STT_NOTYPE"
IsTentative(s) == s.st_shndx = "COMMON" /\ s.type = "STT_OBJECT"
IsDefined(s) ==
    \/ s.st_shndx = ".text" /\ s.type = "STT_FUNC"
    \/ s.st_shndx \in {".data", ".rodata", ".bss"} /\ s.type = "STT_OBJECT"

\* Of any other symbol the linker exits.
HasPriority(s) == IsUndefined(s) \/ IsTentative(s) \/ IsDefined(s)

symbol_priority(s) == IF IsDefined(s) THEN 2 ELSE IF IsTentative(s) THEN 1 ELSE 0

-----------------------------------------------------------------------------
(* symbol_processing: one symbol *)

IsGlobal(m) == symt[m].bind = "STB_GLOBAL"

\* The entries that the global symbol m is in conflict with.  The scan stops at
\* the first, and there is never a second (OneBestCandidate).
Conflicts(m) ==
    {k \in DOMAIN smap_table :
        IsGlobal(smap_table[k]) /\ symt[smap_table[k]].st_name = symt[m].st_name}

FirstConflict(m, k) == k \in Conflicts(m) /\ \A h \in Conflicts(m) : k <= h

Processing == status = "resolving" /\ next \in DOMAIN symt

Insert(m) == smap_table' = Append(smap_table, m)

InsertLocal ==
    /\ Processing
    /\ symt[next].bind = "STB_LOCAL"
    /\ \/ /\ Len(smap_table) < MAX_SYMBOL_MAP_LENGTH
          /\ Insert(next)
          /\ next' = next + 1
          /\ UNCHANGED status
       \/ /\ Len(smap_table) >= MAX_SYMBOL_MAP_LENGTH
          /\ status' = "aborted"
          /\ UNCHANGED <<smap_table, next>>
    /\ UNCHANGED <<symt, cleaned>>

\* The assertion lets a full map pass, and the entry behind its end is written.
InsertGlobal ==
    /\ Processing
    /\ IsGlobal(next)
    /\ Conflicts(next) = {}
    /\ Insert(next)
    /\ next' = next + 1
    /\ status' = IF Len(smap_table) < MAX_SYMBOL_MAP_LENGTH THEN status ELSE "overrun"
    /\ UNCHANGED <<symt, cleaned>>

\* Neither local nor global: not entered at all.
SkipWeak ==
    /\ Processing
    /\ symt[next].bind = "STB_WEAK"
    /\ next' = next + 1
    /\ UNCHANGED <<symt, smap_table, cleaned, status>>

-----------------------------------------------------------------------------
(* simple_resolution *)

RedeclareNever(m, c) == FALSE
RedeclareTentative(m, c) ==
    symbol_priority(symt[m]) > 0 /\ symbol_priority(symt[c]) > 0
Redeclares(m, c) == symbol_priority(symt[m]) = 2 /\ symbol_priority(symt[c]) = 2

PreferLower(m, c)  == symbol_priority(symt[m]) < symbol_priority(symt[c])
PreferNewer(m, c)  == symbol_priority(symt[m]) >= symbol_priority(symt[c])
Prefers(m, c)      == symbol_priority(symt[m]) > symbol_priority(symt[c])

HavePriorities(m, c) == HasPriority(symt[m]) /\ HasPriority(symt[c])

Fail(reason) ==
    /\ status' = reason
    /\ UNCHANGED <<smap_table, next>>

\* The symbol takes the place of the candidate, or is dropped.
Resolve ==
    /\ Processing
    /\ IsGlobal(next)
    /\ \E k \in Conflicts(next) :
        /\ FirstConflict(next, k)
        /\ LET c == smap_table[k]
           IN  \/ ~HavePriorities(next, c) /\ Fail("undetermined")
               \/ HavePriorities(next, c) /\ Redeclares(next, c) /\ Fail("redeclared")
               \/ /\ HavePriorities(next, c)
                  /\ ~Redeclares(next, c)
                  /\ smap_table' = IF Prefers(next, c)
                                   THEN [smap_table EXCEPT ![k] = next]
                                   ELSE smap_table
                  /\ next' = next + 1
                  /\ UNCHANGED status
    /\ UNCHANGED <<symt, cleaned>>

-----------------------------------------------------------------------------
(* symbol_processing: the clean-up *)

StartCleanup ==
    /\ status = "resolving"
    /\ next > Len(symt)
    /\ status' = "cleaning"
    /\ UNCHANGED <<symt, smap_table, next, cleaned>>

MayRemain(s) == s.st_shndx # "SHN_UNDEF" /\ s.type # "STT_NOTYPE"

\* What is still common goes to .bss.
TidiedNameCut(s) == IF s.st_shndx = "COMMON" THEN [s EXCEPT !.st_shndx = ".bs"] ELSE s
TidiedNever(s) == s
Tidied(s) == IF s.st_shndx = "COMMON" THEN [s EXCEPT !.st_shndx = ".bss"] ELSE s

CleanEntry ==
    /\ status = "cleaning"
    /\ cleaned < Len(smap_table)
    /\ LET m == smap_table[cleaned + 1]
       IN  \/ /\ MayRemain(symt[m])
              /\ symt' = [symt EXCEPT ![m] = Tidied(@)]
              /\ cleaned' = cleaned + 1
              /\ UNCHANGED status
           \/ /\ ~MayRemain(symt[m])
              /\ status' = "aborted"
              /\ UNCHANGED <<symt, cleaned>>
    /\ UNCHANGED <<smap_table, next>>

EndCleanup ==
    /\ status = "cleaning"
    /\ cleaned = Len(smap_table)
    /\ status' = "resolved"
    /\ UNCHANGED <<symt, smap_table, next, cleaned>>

Next ==
    \/ InsertLocal
    \/ InsertGlobal
    \/ SkipWeak
    \/ Resolve
    \/ StartCleanup
    \/ CleanEntry
    \/ EndCleanup

Spec == Init /\ [][Next]_vars

-----------------------------------------------------------------------------
(* Properties *)

Seen == 1 .. next - 1

\* For every global symbol that has been processed the map has exactly one entry
\* of its name, and that entry has at least its priority: whatever the order of
\* the files, the best symbol is kept and none is kept twice.
OneBestCandidate ==
    \A m \in Seen : IsGlobal(m) =>
        \E k \in DOMAIN smap_table :
            /\ Conflicts(m) = {k}
            /\ symbol_priority(symt[smap_table[k]]) >= symbol_priority(symt[m])

\* No strong definition is ever dropped for another: each one that has been
\* processed is the entry of its name (rule 1 of simple_resolution).
StrongDefinitionsKept ==
    \A m \in Seen : IsGlobal(m) /\ IsDefined(symt[m]) =>
        \E k \in DOMAIN smap_table : smap_table[k] = m

SameName(m, n) == IsGlobal(m) /\ IsGlobal(n) /\ symt[m].st_name = symt[n].st_name

\* The entries that a set of symbols needs
Needed(S) ==
    Cardinality({m \in S : symt[m].bind = "STB_LOCAL"})
        + Cardinality({symt[m].st_name : m \in {m \in S : IsGlobal(m)}})

\* Resolution fails for the cause it names.  A name is declared again only if two
\* symbols define it, a tentative definition never clashes; a map overflows only if
\* the symbols so far, each global name counted once, are more than its length; and
\* a symbol fails the clean-up only if no file has a better one of its name.
RefusalHasACause ==
    /\ status = "redeclared" =>
        \E m \in Seen : SameName(m, next) /\ IsDefined(symt[m]) /\ IsDefined(symt[next])
    /\ status = "undetermined" =>
        \E m \in 1 .. next : IsGlobal(m) /\ ~HasPriority(symt[m])
    /\ status = "overrun" => Needed(Seen) > MAX_SYMBOL_MAP_LENGTH
    /\ status = "aborted" =>
        \/ next \in DOMAIN symt /\ Needed(1 .. next) > MAX_SYMBOL_MAP_LENGTH
        \/ \E m \in DOMAIN symt :
            /\ ~MayRemain(symt[m]) /\ symt[m].bind # "STB_WEAK"
            /\ \A n \in DOMAIN symt : SameName(m, n) => symbol_priority(symt[n]) = 0

\* When resolution succeeds every global name of any source file has an entry that is
\* neither undefined nor common, and if the name has several symbols the entry is a
\* definition in a section that the later phases know.  The section of a name's only
\* symbol is never looked at: it may be any.
ResolvedIsPlaced ==
    status = "resolved" =>
        \A m \in DOMAIN symt : IsGlobal(m) =>
            \E k \in Conflicts(m) :
                /\ symt[smap_table[k]].st_shndx \notin {"SHN_UNDEF", "COMMON"}
                /\ \/ IsDefined(symt[smap_table[k]])
                   \/ \A n \in DOMAIN symt : SameName(m, n) => n = m

\* An entry of the map keeps its name for ever and gives way only to a symbol of
\* higher priority: of equally good symbols the first file's stays.
EntriesOnlyImprove ==
    [][\A k \in DOMAIN smap_table :
        /\ k \in DOMAIN smap_table'
        /\ smap_table'[k] # smap_table[k] =>
            /\ symt[smap_table'[k]].st_name = symt[smap_table[k]].st_name
            /\ symbol_priority(symt[smap_table'[k]]) > symbol_priority(symt[smap_table[k]])]_vars
=============================================================================
