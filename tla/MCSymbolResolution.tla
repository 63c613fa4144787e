------------------------- MODULE MCSymbolResolution -------------------------
(* Up to four symbols of two names, in the combinations compilers emit *)
EXTENDS SymbolResolution

CONSTANT MaxSymbols \* the most symbols the source files have together

Emitted ==
    {[st_name |-> n, bind |-> b[1], type |-> b[2], st_shndx |-> b[3]] :
        n \in Name,
        b \in {<<"STB_GLOBAL", "STT_NOTYPE", "SHN_UNDEF">>,
               <<"STB_GLOBAL", "STT_OBJECT", "COMMON">>,
               <<"STB_GLOBAL", "STT_OBJECT", ".data">>,
               <<"STB_GLOBAL", "STT_FUNC", ".text">>,
               <<"STB_GLOBAL", "STT_NOTYPE", ".text">>,
               <<"STB_GLOBAL", "STT_FUNC", ".text.startup">>,
               <<"STB_LOCAL", "STT_OBJECT", ".data">>,
               <<"STB_WEAK", "STT_FUNC", ".text">>}}

EmittedTables == UNION {[1 .. n -> Emitted] : n \in 1 .. MaxSymbols}
=============================================================================
