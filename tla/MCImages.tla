------------------------------ MODULE MCImages ------------------------------
(***************************************************************************)
(* Two images under one name, two hosts and a VM.                          *)
(***************************************************************************)
EXTENDS Images, TLC

CONSTANTS i1, i2, n1, h1, h2, v1
=============================================================================
