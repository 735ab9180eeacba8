----------------------------- MODULE MCCliLogin -----------------------------
(***************************************************************************)
(* One CLI, two accounts that may both open the page.                      *)
(***************************************************************************)
EXTENDS CliLogin, TLC

CONSTANTS a1, a2, c1, r1, r2
=============================================================================
