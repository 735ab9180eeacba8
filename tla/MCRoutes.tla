------------------------------ MODULE MCRoutes ------------------------------
(***************************************************************************)
(* Two VMs, two subdomains and ports, two handlers and a watcher.          *)
(***************************************************************************)
EXTENDS Routes, TLC

CONSTANTS v1, v2, n1, n2, p1, p2, r1, r2, w1

\* The VM that runs at first is v1, under n1: the other initial states are this
\* one with other names.
MCInit == Init /\ rows[v1] = Serves(v1, n1, p1)

MCSpec == MCInit /\ [][Next]_vars /\ Fairness
=============================================================================
