--------------------------- MODULE MCSessionKernel --------------------------
(* SessionKernel for TLC.                                                  *)
EXTENDS SessionKernel

CONSTANTS c1, c2, c3

(* Two calls start or end kernels, and a third one uses them.              *)
Asked(c) ==
  CASE c = c1 -> {"start", "restart"}
    [] c = c2 -> {"start", "stop", "restart", "close"}
    [] c = c3 -> {"stop", "execute", "complete"}
MCNext == Next /\ \A c \in Calls : op'[c] \in Asked(c) \cup {None}
MCSpec == Init /\ [][MCNext]_vars /\ Fairness
=============================================================================
