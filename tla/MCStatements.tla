----------------------------- MODULE MCStatements -----------------------------
(***************************************************************************)
(* Saman prints totals in its header and Melli does not; a header tells    *)
(* the account or, when its layout has changed, nothing.                   *)
(***************************************************************************)
EXTENDS Statements

MCAmounts == {5, -5}
MCHeaders == {{"iban", "number"}, {}}
=============================================================================
