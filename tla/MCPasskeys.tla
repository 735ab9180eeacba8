----------------------------- MODULE MCPasskeys -----------------------------
(***************************************************************************)
(* Two accounts, two requests at a time, three challenges and one token.   *)
(***************************************************************************)
EXTENDS Passkeys, TLC

CONSTANTS a1, a2, r1, r2, c1, c2, c3, t1

Alike == Permutations(Accounts) \cup Permutations(Requests) \cup Permutations(Challenges)
=============================================================================
