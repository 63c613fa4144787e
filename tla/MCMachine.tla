----------------------------- MODULE MCMachine -----------------------------
(* Two lines of cache for three frames and four pages, so that lines are       *)
(* replaced and pages are evicted.  A byte has four values, and a word an int  *)
(* of one byte and a byte that an int has no room for.                         *)
EXTENDS Machine

\* Page p starts with word p.
ImageByPage == [p \in 1 .. NUM_PAGE |-> p]

\* Frame f holds page f + 1.  Either frame 0 is free and no frame is flagged as dirty,
\* or frame 0 is flagged, alone or with all others: a fault then takes the free frame,
\* evicts from frame 0, or evicts from another.  All files can be read until
\* one is written at an eviction; files that cannot are in the run of module MCMMU.
MCInit ==
    LET holds(f, p) == page_map[f].pte4 = p
        flagged == {f \in Paging!Frame : page_map[f].dirty = 1}
    IN  /\ Init
        /\ \A f \in Paging!Frame \ {0} : holds(f, f + 1)
        /\ \/ holds(0, Paging!Blank) /\ flagged = {}
           \/ holds(0, 1) /\ flagged \in {{0}, Paging!Frame}
        /\ \A p \in Page : disk[p].file = "blocks"

MCSpec == MCInit /\ [][Next]_vars
=============================================================================
