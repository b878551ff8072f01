------------------------------ MODULE MCBackup ------------------------------
(***************************************************************************)
(* Two worker threads, four seconds, and at most two backups to keep: the  *)
(* fourth folder makes a prune remove two, of which the last may be one    *)
(* that is still being filled.                                             *)
(***************************************************************************)
EXTENDS Backup, TLC

Symmetry == Permutations(Worker)
=============================================================================
