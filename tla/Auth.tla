-------------------------------- MODULE Auth --------------------------------
(***************************************************************************)
(* What CliLogin and Passkeys have in common: the accounts of the platform *)
(* (db/src/lib.rs AccountRow), and what stands for no row.                 *)
(***************************************************************************)
CONSTANTS Accounts, None
=============================================================================
