------------------------------ MODULE MCTxLinks ------------------------------
(***************************************************************************)
(* A small bank.  On melli a hawala of 9 that came back an hour later, a   *)
(* deposit of 9 in between that is no return, and a return of 9 from six   *)
(* hours and a minute before; a transfer of 4 to saman, whose other half   *)
(* is on saman's own statement exactly five minutes later; a fee row.      *)
(* Saman's half mentions melli's account, which melli's headers make an    *)
(* alias of the owner.                                                     *)
(***************************************************************************)
EXTENDS TxLinks, TLC

MCTx == {"hawala", "hawala2", "return", "salary", "old_return", "pol_out", "pol_in", "fee"}

MCAccountOf  == [t \in MCTx |-> IF t = "pol_in" THEN "saman" ELSE "melli"]
MCAmount     == [t \in MCTx |->
  CASE t \in {"hawala", "hawala2"} -> -9 [] t \in {"return", "salary", "old_return"} -> 9
    [] t = "pol_out" -> -4 [] t = "pol_in" -> 4
    [] OTHER         -> -1]
MCOccurredAt == [t \in MCTx |->
  CASE t = "hawala"  -> 500 [] t = "hawala2" -> 590 [] t = "return" -> 560 [] t = "salary" -> 530
    [] t = "old_return" -> 139
    [] t = "pol_out" -> 700 [] t = "pol_in" -> 705
    [] OTHER         -> 505]
MCPointsTo   == [t \in MCTx |-> IF t = "pol_in" THEN {"melli"} ELSE {}]
MCKeys       == [t \in MCTx |-> IF t \in {"hawala", "fee"} THEN {"11264"} ELSE {}]
MCStatement  == {{"hawala", "hawala2", "return", "salary", "pol_out", "fee"}, {"old_return"}, {"pol_in"}}
MCNaming     == {f \in MCStatement : "pol_in" \notin f}
Symmetry     == Permutations(Session)
=============================================================================
