---------------------------- MODULE SRAMHistory ----------------------------
(* The cache of module SRAM with a history variable that counts, for every   *)
(* line, the accesses since the line was last used.  The cache's own timers  *)
(* are meant to be that count.                                               *)
EXTENDS SRAM

VARIABLE idle

historyVars == <<lines, pm, delivered, idle>>

\* The line an access of tag t uses: the one that hits, a free one, the victim.
Used(i, t) == Hit(i, t) \/ (Miss(t) /\ (Free(i) \/ (Full /\ Victim(i))))

Noted(t) == idle' = [i \in LineIndex |-> IF Used(i, t) THEN 0 ELSE idle[i] + 1]

HistoryInit == Init /\ idle = [i \in LineIndex |-> 0]

HistoryNext ==
    \E t \in Tag, o \in Offset :
        /\ sram_cache_read(t, o) \/ \E d \in Data : sram_cache_write(t, o, d)
        /\ Noted(t)

HistorySpec == HistoryInit /\ [][HistoryNext]_historyVars

\* The comment at lines 86 to 88 of sram.c: the line with the highest timer,
\* which is the one a miss replaces, is the one not used for the longest time.
VictimIsLeastRecentlyUsed ==
    \A i \in LineIndex : Full /\ Victim(i) => \A k \in LineIndex : idle[k] <= idle[i]
=============================================================================
