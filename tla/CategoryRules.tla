---------------------------- MODULE CategoryRules ----------------------------
(***************************************************************************)
(* The pipeline of services/categorize.py: what a bank row becomes, given  *)
(* what the user has taught so far.  Texts are abstracted to what the      *)
(* pipeline concludes from them: the identifiers found in a row, the       *)
(* contact whose name it carries, the rules that match it.                 *)
(***************************************************************************)
EXTENDS Integers, Sequences

CONSTANTS
  Tx,           \* bank rows
  Ident,        \* (kind, value) identifiers: terminals, cards, ibans, ...
  Contact,      \* contacts, one per folded name
  Category,     \* the user's categories
  Rule,         \* categorisation rules
  Idents,       \* the identifiers of each row, the most precise first
  NameOf,       \* the contact whose name a row carries, or None
  Deposit,      \* rows with direction "in"
  Declared,     \* rows the bank itself declares as own transfers
  AliasMatch,   \* rows the owner's alias matches
  RuleOrder,    \* the rules in order: the user's, then the system's
  Matches,      \* the rows each rule matches
  RuleCategory, \* the category it sets, or None
  AskingRules,  \* rules with set_needs_review
  SystemRules   \* rules with is_system

None          == "none"
Uncategorized == "uncategorized"
OwnTransfer   == "self_transfer"

OrNone(set) == set \cup {None}

\* The columns of a transaction that categorisation and the user write.
Row == [category : OrNone(Category \cup {Uncategorized, OwnTransfer}),
        by       : {"none", "system", "rule", "contact", "manual"},
        contact  : OrNone(Contact),
        own      : BOOLEAN,
        review   : BOOLEAN,
        income   : {"open", "yes", "no"}]

NewRow == [category |-> None, by |-> "none", contact |-> None,
           own |-> FALSE, review |-> TRUE, income |-> "open"]

\* What the user has taught: the tables contact, contact_identifier, rule and
\* owner_alias, as a Categorizer loads them.
Book == [alias    : BOOLEAN,
         contacts : SUBSET Contact,
         spend    : [Contact -> OrNone(Category)],   \* category_id
         earn     : [Contact -> OrNone(Category)],   \* income_category_id
         owner    : [Ident -> OrNone(Contact)],
         rules    : SUBSET Rule]

ASSUME CategoryAssumption ==
  /\ None \notin Contact \cup Category
  /\ Idents \in [Tx -> Seq(Ident)] /\ NameOf \in [Tx -> OrNone(Contact)]
  /\ Deposit \subseteq Tx /\ Declared \subseteq Tx /\ AliasMatch \subseteq Tx
  /\ RuleOrder \in Seq(Rule) /\ Matches \in [Rule -> SUBSET Tx]
  /\ RuleCategory \in [Rule -> OrNone(Category)]
  /\ AskingRules \subseteq Rule /\ SystemRules \subseteq Rule

------------------------------------------------------------------------------
First(places) == CHOOSE n \in places : \A m \in places : n <= m

IdentsOf(t) == {Idents[t][n] : n \in DOMAIN Idents[t]}

IsSelfTransfer(t, book) == t \in Declared \/ (book.alias /\ t \in AliasMatch)

KnownPlaces(t, book) == {n \in DOMAIN Idents[t] : book.owner[Idents[t][n]] # None}

\* The owner of the most precise identifier that is known, else the name's.
MatchContact(t, book) ==
  CASE KnownPlaces(t, book) # {} -> book.owner[Idents[t][First(KnownPlaces(t, book))]]
    [] KnownPlaces(t, book) = {} /\ NameOf[t] \in book.contacts -> NameOf[t]
    [] OTHER -> None

\* Contact.category_for: a contact's category depends on the money's direction.
CategoryFor(c, t, book) ==
  IF t \in Deposit /\ book.earn[c] # None THEN book.earn[c] ELSE book.spend[c]

MatchingRules(t, book) ==
  {n \in DOMAIN RuleOrder : RuleOrder[n] \in book.rules /\ t \in Matches[RuleOrder[n]]}

------------------------------------------------------------------------------
AsOwn(r) ==
  [r EXCEPT !.own = TRUE, !.contact = None, !.income = "no",
            !.category = OwnTransfer, !.by = "system", !.review = FALSE]

\* Mutant: every deposit of a contact with a category becomes income.
AsContactsAlwaysIncome(t, r, c, book) ==
  [r EXCEPT !.own = FALSE, !.contact = c, !.category = CategoryFor(c, t, book),
            !.by = "contact", !.review = FALSE,
            !.income = IF t \in Deposit THEN "yes" ELSE @]

AsContacts(t, r, c, book) ==
  [r EXCEPT !.own = FALSE, !.contact = c, !.category = CategoryFor(c, t, book),
            !.by = "contact", !.review = FALSE,
            !.income = IF t \in Deposit /\ book.earn[c] # None THEN "yes" ELSE @]

\* Mutant: the contact is not reset first.
AsRuleKeepsContact(r, c, rule) ==
  [r EXCEPT !.own = FALSE, !.contact = IF c # None THEN c ELSE @,
            !.category = IF RuleCategory[rule] # None THEN RuleCategory[rule] ELSE @,
            !.by = IF rule \in SystemRules THEN "system" ELSE "rule",
            !.review = rule \in AskingRules /\ c = None]

\* A rule without a category leaves the one the row has.
AsRule(r, c, rule) ==
  [r EXCEPT !.own = FALSE, !.contact = c,
            !.category = IF RuleCategory[rule] # None THEN RuleCategory[rule] ELSE @,
            !.by = IF rule \in SystemRules THEN "system" ELSE "rule",
            !.review = rule \in AskingRules /\ c = None]

AsUnknown(r, c) ==
  [r EXCEPT !.own = FALSE, !.contact = c, !.category = Uncategorized,
            !.by = "none", !.review = TRUE]

\* Categorizer.apply without its first test: own transfers, then the contact if
\* it has a category for the direction, then the first rule, then nothing.
Pipeline(t, r, book) ==
  LET c      == MatchContact(t, book)
      known  == c # None
      ruled  == MatchingRules(t, book)
  IN  CASE IsSelfTransfer(t, book) -> AsOwn(r)
        [] ~IsSelfTransfer(t, book) /\ known /\ CategoryFor(c, t, book) # None ->
             AsContacts(t, r, c, book)
        [] OTHER -> IF ruled # {} THEN AsRule(r, c, RuleOrder[First(ruled)])
                                  ELSE AsUnknown(r, c)

Apply(t, r, book, force) ==
  IF r.by = "manual" /\ ~force THEN r ELSE Pipeline(t, r, book)

\* Mutant: the row's category changes but the review mark stays.
TeachKeepsReview(t, r, c, book) ==
  LET category == CategoryFor(c, t, book)
  IN  IF r.by = "manual" THEN r
      ELSE [r EXCEPT !.contact  = c,
                     !.category = IF category # None THEN category ELSE @,
                     !.by       = IF category # None THEN "contact" ELSE @]

\* Mutant: manual rows are taught as well.
TeachManual(t, r, c, book) ==
  LET category == CategoryFor(c, t, book)
  IN  [r EXCEPT !.contact  = c,
                !.category = IF category # None THEN category ELSE @,
                !.by       = IF category # None THEN "contact" ELSE @,
                !.review   = FALSE]

\* The body of apply_contact_to_matching: the short way a fresh label takes.
Teach(t, r, c, book) ==
  LET category == CategoryFor(c, t, book)
  IN  IF r.by = "manual" THEN r
      ELSE [r EXCEPT !.contact  = c,
                     !.category = IF category # None THEN category ELSE @,
                     !.by       = IF category # None THEN "contact" ELSE @,
                     !.review   = FALSE]
=============================================================================
