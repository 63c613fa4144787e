--------------------------- MODULE WriteBackCell ---------------------------
(***************************************************************************)
(* What a group of write-back caches over one memory cell promises to the  *)
(* cores that use it, with the caches themselves left out: a value every   *)
(* core would read now, and the copy memory holds behind it.               *)
(*                                                                         *)
(* A cache that drops a copy it believes to be clean makes memory's copy   *)
(* the visible one (Drop).  If clean copies really are clean a Drop        *)
(* changes nothing; the specification allows it to, because the            *)
(* implementation in src/mains/mesi.c does not keep EXCLUSIVE copies clean.*)
(***************************************************************************)

CONSTANT Values

VARIABLES
    visible,    \* the value the next read by any core returns
    backing,    \* the value in memory
    delivered   \* the value the last read returned

cellVars == <<visible, backing, delivered>>

Init ==
    /\ visible \in Values
    /\ backing = visible
    /\ delivered \in Values

\* Any step may take the opportunity to write the visible value back.
MayWriteBack == backing' \in {backing, visible}

Read ==
    /\ delivered' = visible
    /\ visible' = visible
    /\ MayWriteBack

Write(v) ==
    /\ visible' = v
    /\ MayWriteBack
    /\ UNCHANGED delivered

WriteBack ==
    /\ backing' = visible
    /\ UNCHANGED <<visible, delivered>>

Drop ==
    /\ visible' = backing
    /\ UNCHANGED <<backing, delivered>>

Next == Read \/ (\E v \in Values : Write(v)) \/ WriteBack \/ Drop

Spec == Init /\ [][Next]_cellVars
=============================================================================
