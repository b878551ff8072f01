------------------------------- MODULE MCLabels -------------------------------
(***************************************************************************)
(* A wage known by a card and by an iban, with its sender's name on it,    *)
(* and, on the next statement, a payment by the same card that the owner's *)
(* alias matches.  A rule the bank's fees are found by matches both.       *)
(***************************************************************************)
EXTENDS Labels, TLC

MCIdents       == [t \in Tx |-> IF t = "wage" THEN <<"card", "iban">> ELSE <<"card">>]
MCNameOf       == [t \in Tx |-> IF t = "wage" THEN "boss" ELSE None]
MCRuleOrder    == <<"fees">>
MCMatches      == [r \in Rule |-> Tx]
MCRuleCategory == [r \in Rule |-> "bank"]
Symmetry       == Permutations(Session)
=============================================================================
