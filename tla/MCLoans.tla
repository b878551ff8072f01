------------------------------- MODULE MCLoans -------------------------------
(***************************************************************************)
(* Loans of one or two instalments of 5, due every third day; one bears a  *)
(* reference that one withdrawal carries, another withdrawal has the very  *)
(* amount.  Edits grow and shrink the schedule and set the status by hand. *)
(***************************************************************************)
EXTENDS Loans, TLC

MCTx       == {"withRef", "sameAmount"}
MCTxAmount == [t \in MCTx |-> IF t = "withRef" THEN 6 ELSE 5]
MCTxDay    == [t \in MCTx |-> 1]
MCTxRef    == [t \in MCTx |-> IF t = "withRef" THEN "LN" ELSE NoRef]
MCTerms    == {[ref |-> "LN", count |-> 2, amount |-> 5, first |-> 0]}
MCPatch    == {[count |-> 1], [count |-> 3, first |-> 1], [status |-> "settled"]}
Symmetry   == Permutations(Session)
=============================================================================
