------------------------------ MODULE LinkRules ------------------------------
(***************************************************************************)
(* The pairing rules of services/links.py: which two bank transactions may *)
(* be linked, as what, and with how much confidence.  The texts a rule     *)
(* looks for are abstracted to what the rule concludes from them.          *)
(* Times are minutes and confidences per cent.                             *)
(***************************************************************************)
EXTENDS Integers

CONSTANTS
  Tx,            \* the rows table "transaction" may come to hold
  Account, Key,  \* the accounts; the digit runs found in references
  AccountOf,     \* the account of each transaction
  Amount,        \* its signed amount: negative is money out
  OccurredAt,    \* the minute it occurred
  ReversalText,  \* transactions whose type or description says "returned"
  FeeText,       \* transactions whose bank type says "fee"
  PointsTo,      \* the accounts whose iban or number a transaction mentions
  Keys           \* the digit runs of its document number and trace reference

CROSS_ACCOUNT_WINDOW == 5
REVERSAL_WINDOW      == 7 * 24 * 60
FEE_WINDOW           == 5

\* apply_links acts by itself from this confidence on.
AUTO_APPLY == 70

Gap(a, b) ==
  IF OccurredAt[a] >= OccurredAt[b] THEN OccurredAt[a] - OccurredAt[b]
                                    ELSE OccurredAt[b] - OccurredAt[a]

SharedReference(a, b) == Keys[a] \cap Keys[b] # {}

ReversalConfidence(out, in) ==
  CASE SharedReference(out, in)                         -> 98
    [] ~SharedReference(out, in) /\ Gap(out, in) <= 60  -> 90
    [] ~SharedReference(out, in) /\ Gap(out, in) \in 61..360 -> 75
    [] OTHER                                            -> 40

\* Money out and money in of the same size.
Opposite(out, in) == Amount[out] < 0 /\ Amount[in] = -Amount[out]

IsReversal(out, in) ==
  /\ AccountOf[out] = AccountOf[in]
  /\ Gap(out, in) <= REVERSAL_WINDOW
  /\ in \in ReversalText

PointsToTarget(out, in) == AccountOf[in] \in PointsTo[out]
PointsToSource(out, in) == AccountOf[out] \in PointsTo[in]

\* "own" is the set of transactions flagged is_self_transfer at that moment.
IsCrossAccount(out, in, own) ==
  /\ AccountOf[out] # AccountOf[in]
  /\ Gap(out, in) <= CROSS_ACCOUNT_WINDOW
  /\ PointsToTarget(out, in) \/ PointsToSource(out, in) \/ {out, in} \subseteq own

CrossConfidence(out, in) ==
  CASE PointsToTarget(out, in) /\ PointsToSource(out, in)     -> 100
    [] PointsToTarget(out, in) # PointsToSource(out, in)      -> 90
    [] OTHER                                                  -> 70

Pairs(out, in, own) ==
  Opposite(out, in) /\ (IsReversal(out, in) \/ IsCrossAccount(out, in, own))

\* A row of tx_link, by its unique key (kind, primary_tx_id, secondary_tx_id).
LinkKind == {"cross_account", "reversal", "fee"}
Link     == [kind : LinkKind, primary : Tx, secondary : Tx]

PairLink(out, in) ==
  [kind |-> IF AccountOf[out] = AccountOf[in] THEN "reversal" ELSE "cross_account",
   primary |-> out, secondary |-> in]

Ends(link) == {link.primary, link.secondary}

Confidence(link) ==
  CASE link.kind = "reversal"      -> ReversalConfidence(link.primary, link.secondary)
    [] link.kind = "cross_account" -> CrossConfidence(link.primary, link.secondary)
    [] OTHER                       -> 90

\* The fee loop takes, for a fee row, the first transaction in time order that
\* is close to it on the same account and shares a reference with it.
IsFeeOf(fee, parent) ==
  /\ fee \in FeeText /\ parent \notin FeeText
  /\ AccountOf[fee] = AccountOf[parent]
  /\ Gap(fee, parent) <= FEE_WINDOW
  /\ SharedReference(fee, parent)

FirstParents(fee, rows) ==
  {p \in rows : /\ IsFeeOf(fee, p)
                /\ \A q \in rows : IsFeeOf(fee, q) => OccurredAt[p] <= OccurredAt[q]}

FeeLink(fee, parent) == [kind |-> "fee", primary |-> parent, secondary |-> fee]

ASSUME RulesAssumption ==
  /\ AccountOf \in [Tx -> Account]
  /\ Amount \in [Tx -> Int]
  /\ OccurredAt \in [Tx -> Nat]
  /\ ReversalText \subseteq Tx /\ FeeText \subseteq Tx
  /\ PointsTo \in [Tx -> SUBSET Account]
  /\ Keys \in [Tx -> SUBSET Key]
=============================================================================
