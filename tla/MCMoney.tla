-------------------------------- MODULE MCMoney --------------------------------
(***************************************************************************)
(* A rent paid thrice, over the end of a year that is not a leap year, to  *)
(* a landlord who also pays back what he borrowed; fees with no contact.   *)
(***************************************************************************)
EXTENDS Money, TLC

MCWorth == [t \in Tx |-> CASE t = "fee" -> -1 [] t = "gift" -> 2 [] OTHER -> -4]
MCDay ==
  [t \in Tx |-> CASE t = "rent1" -> <<1404, 11, 30>>
                  [] t = "rent2" -> <<1404, 12, 29>>
                  [] t = "rent3" -> <<1405, 1, 31>>
                  [] t = "fee"   -> <<1404, 12, 29>>
                  [] OTHER       -> <<1405, 1, 1>>]
MCPayee   == [t \in Tx |-> IF t = "fee" THEN "bank" ELSE "card"]
MCKnownAs == [t \in Tx |-> IF t \in {"fee", "gift"} THEN None ELSE "landlord"]
MCMonths  == {<<1404, 12>>, <<1405, 1>>}
MCFactor  == <<3, 2>>
Symmetry  == Permutations(Session)
=============================================================================
