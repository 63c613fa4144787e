------------------------------- MODULE MCMMU -------------------------------
(* Two frames for four pages and a page without tables: frames can be free,  *)
(* clean or dirty, a page can be evicted and come back.  A page starts with   *)
(* its number as content; programs write 6.                                   *)
EXTENDS MMU

ImageByPage == [p \in Page |-> p]
=============================================================================
