-------------------------------- MODULE Labels --------------------------------
(***************************************************************************)
(* Teaching the program what bank rows are: labels from the review queue,  *)
(* contacts and their identifiers, rules, the owner's alias, edits by hand *)
(* and the answers of the income queue, with the imports that go on.       *)
(*                                                                         *)
(* Every request has a thread and a database session of its own.  Those    *)
(* that teach commit what was taught first and then load the rows it       *)
(* concerns and commit them in a second transaction, so requests           *)
(* interleave.  Columns are written only where they differ from the values *)
(* loaded.  Reading the tables of the book is one step.                    *)
(***************************************************************************)
EXTENDS CategoryRules, FiniteSets

CONSTANTS
  Session,     \* worker threads of the server
  Statement,   \* the sets of rows a statement file brings
  Naming,      \* the files whose header names the owner as the alias does
  Imported,    \* the rows imported before anything was taught
  Edited,      \* the rows the user opens, to edit, to answer for or to learn from
  Chosen,      \* spending categories the user picks from
  Earned,      \* receiving categories the user picks from
  MayFail,     \* may a request die between its two commits?
  MaxRequests  \* bound on the number of requests of a run

ASSUME LabelsAssumption ==
  /\ Statement \subseteq SUBSET Tx /\ Naming \subseteq Statement
  /\ Imported \subseteq Tx /\ Edited \subseteq Tx
  /\ Chosen \subseteq Category /\ Earned \subseteq Category
  /\ MayFail \in BOOLEAN /\ MaxRequests \in Nat

VARIABLES
  row,       \* table "transaction": the rows imported so far
  book,      \* the tables a Categorizer loads
  pc,        \* where each session is: "idle" between requests
  job,       \* what its request has still to do
  view,      \* the rows it has loaded
  fresh,     \* history: nobody else committed since the session loaded
  sound,     \* history: no row was written from values loaded before another commit
  hand,      \* history: the category the user last set by hand, or Never
  told,      \* history: rows the user called income, himself or by their contact
  requests   \* history: requests so far

session == <<pc, job, view>>
history == <<fresh, sound, hand, told, requests>>
vars    == <<row, book, session, history>>

Never == "never"
Empty == [t \in {} |-> NewRow]

NewBook ==
  [alias |-> FALSE, contacts |-> {}, rules |-> SystemRules,
   spend |-> [c \in Contact |-> None], earn |-> [c \in Contact |-> None],
   owner |-> [i \in Ident |-> None]]

\* The rest of a request: the identifiers whose rows it still has to label and
\* the contact it labels them with, the book it works from, the rows of its
\* file or query, those it holds on to, whether its file adds the alias, and
\* whether manual rows are redone too.
NoJob == [idents |-> {}, contact |-> None, book |-> NewBook, rows |-> {},
          held |-> {}, names |-> FALSE, force |-> FALSE]

Present == DOMAIN row

------------------------------------------------------------------------------
Init ==
  /\ row = [t \in Imported |-> Apply(t, NewRow, NewBook, FALSE)]
  /\ book = NewBook
  /\ pc = [s \in Session |-> "idle"]
  /\ job = [s \in Session |-> NoJob]
  /\ view = [s \in Session |-> Empty]
  /\ fresh = [s \in Session |-> TRUE]
  /\ sound = TRUE
  /\ hand = [t \in Tx |-> Never]
  /\ told = {}
  /\ requests = 0

Resting(s) == pc[s] \in {"idle", "failed"}

\* A new request starts on a thread that answered its last one.
Begins(s) ==
  /\ Resting(s) /\ requests < MaxRequests
  /\ requests' = requests + 1

Goto(s, where) == pc' = [pc EXCEPT ![s] = where]

\* A commit makes stale whatever the other sessions have loaded.
Committed(s, now) ==
  fresh' = [r \in Session |-> IF r = s THEN now ELSE Resting(r)]

\* The request is over: its session is closed.
Ends(s, how) ==
  /\ Goto(s, how)
  /\ job' = [job EXCEPT ![s] = NoJob]
  /\ view' = [view EXCEPT ![s] = Empty]

\* The unit of work: an UPDATE sets the columns whose value the session changed.
Flush(now, loaded, new) ==
  [f \in DOMAIN now |-> IF new[f] # loaded[f] THEN new[f] ELSE now[f]]

Written(s, new) ==
  [t \in Present |-> IF t \in DOMAIN view[s]
                     THEN Flush(row[t], view[s][t], new[t]) ELSE row[t]]

\* Foreign key: a row cannot be given a contact that is gone by now.
ContactsExist(new, rows) == \A t \in rows : new[t].contact \in OrNone(book.contacts)

MovedRows(s, new) == {t \in DOMAIN view[s] : new[t].contact # view[s][t].contact}

WriteRefused(s, new) == ~ContactsExist(new, MovedRows(s, new))

\* Deposits whose contact has a receiving category: the user called them income.
ToldBy(b) == {t \in Deposit : LET c == MatchContact(t, b) IN c # None /\ b.earn[c] # None}

Teaches(b) == book' = b /\ told' = told \cup ToldBy(b)

------------------------------------------------------------------------------
(* What the user teaches.  A category of None in a request is left out of it. *)

Given(new, old) == IF new # None THEN new ELSE old

\* The contact is created if its name is new, and gets the categories given;
\* the identifiers become his, whoever had them before.
Learned(c, spend, earn, idents) ==
  [book EXCEPT !.contacts = @ \cup {c},
               !.spend[c] = Given(spend, @), !.earn[c] = Given(earn, @),
               !.owner = [i \in Ident |-> IF i \in idents THEN c ELSE @[i]]]

LabelMatching(s, c, idents, b, held) ==
  /\ Goto(s, "match")
  /\ job' = [job EXCEPT ![s] = [NoJob EXCEPT !.idents = idents, !.contact = c, !.book = b,
                                             !.held = held]]
  /\ view' = [view EXCEPT ![s] = [t \in held |-> row[t]]]

\* POST /review/label
LabelGroup(s) ==
  /\ Begins(s)
  /\ \E c \in Contact, i \in Ident, spend \in OrNone(Chosen) :
       LET b == Learned(c, spend, None, {i})
       IN  Teaches(b) /\ LabelMatching(s, c, {i}, b, {})
  /\ Committed(s, TRUE)
  /\ UNCHANGED <<row, sound, hand>>

\* POST /contacts/{id}/identifiers
AddIdentifier(s) ==
  /\ Begins(s)
  /\ \E c \in book.contacts, i \in Ident :
       LET b == Learned(c, None, None, {i})
       IN  Teaches(b) /\ LabelMatching(s, c, {i}, b, {})
  /\ Committed(s, TRUE)
  /\ UNCHANGED <<row, sound, hand>>

\* POST /contacts/from-transaction.  The session goes on holding the row.
CreateFromTransaction(s) ==
  /\ Begins(s)
  /\ \E t \in Present \cap Edited, c \in Contact, spend \in OrNone(Chosen), earn \in OrNone(Earned) :
       LET b == Learned(c, spend, earn, IdentsOf(t))
       IN  Teaches(b) /\ LabelMatching(s, c, IdentsOf(t), b, {t})
  /\ Committed(s, TRUE)
  /\ UNCHANGED <<row, sound, hand>>

\* POST /contacts: nothing past is looked at.
CreateContact(s) ==
  /\ Begins(s)
  /\ \E c \in Contact \ book.contacts, spend \in OrNone(Chosen), earn \in OrNone(Earned) :
       Teaches(Learned(c, spend, earn, {}))
  /\ Ends(s, "idle") /\ Committed(s, TRUE)
  /\ UNCHANGED <<row, sound, hand>>

\* PATCH /contacts/{id} with categories; its identifiers are read afterwards.
UpdateContact(s) ==
  /\ Begins(s)
  /\ \E c \in book.contacts, spend \in OrNone(Chosen), earn \in OrNone(Earned) :
       LET b == [book EXCEPT !.spend[c] = spend, !.earn[c] = earn]
       IN  /\ Teaches(b) /\ Goto(s, "identifiers")
           /\ job' = [job EXCEPT ![s] = [NoJob EXCEPT !.contact = c, !.book = b]]
  /\ Committed(s, TRUE)
  /\ UNCHANGED <<row, view, sound, hand>>

\* Mutant: his identifiers are left behind.
DeleteContactKeepsIdentifiers(s) ==
  /\ Begins(s)
  /\ \E c \in book.contacts :
       /\ Teaches([book EXCEPT !.contacts = @ \ {c}, !.spend[c] = None, !.earn[c] = None])
       /\ row' = [t \in Present |->
            [row[t] EXCEPT !.contact = IF @ = c THEN None ELSE @]]
  /\ Ends(s, "idle") /\ Committed(s, TRUE)
  /\ UNCHANGED <<sound, hand>>

\* DELETE /contacts/{id}: his rows are released, his identifiers go with him.
DeleteContact(s) ==
  /\ Begins(s)
  /\ \E c \in book.contacts :
       /\ Teaches([book EXCEPT
            !.contacts = @ \ {c}, !.spend[c] = None, !.earn[c] = None,
            !.owner = [i \in Ident |-> IF @[i] = c THEN None ELSE @[i]]])
       /\ row' = [t \in Present |->
            [row[t] EXCEPT !.contact = IF @ = c THEN None ELSE @]]
  /\ Ends(s, "idle") /\ Committed(s, TRUE)
  /\ UNCHANGED <<sound, hand>>

\* DELETE /contacts/identifiers/{id}: the rows labelled through it stay as they are.
DeleteIdentifier(s) ==
  /\ Begins(s)
  /\ \E i \in Ident : /\ book.owner[i] # None
                      /\ Teaches([book EXCEPT !.owner[i] = None])
  /\ Ends(s, "idle") /\ Committed(s, TRUE)
  /\ UNCHANGED <<row, sound, hand>>

\* An alias that another session has inserted is waited for by the unique key.
AliasLocked == \E r \in Session : pc[r] = "import" /\ job[r].names

\* POST, PATCH and DELETE of a rule, POST and DELETE of an owner alias.
ChangePolicy(s) ==
  /\ Begins(s)
  /\ \/ \E r \in Rule : Teaches([book EXCEPT !.rules = IF r \in @ THEN @ \ {r} ELSE @ \cup {r}])
     \/ ~AliasLocked /\ Teaches([book EXCEPT !.alias = ~@])
  /\ Goto(s, "recategorize") /\ Committed(s, TRUE)
  /\ UNCHANGED <<row, job, view, sound, hand>>

\* POST /settings/recategorize, with or without force.
Recategorize(s) ==
  /\ Begins(s)
  /\ \E force \in BOOLEAN : job' = [job EXCEPT ![s] = [NoJob EXCEPT !.force = force]]
  /\ Goto(s, "recategorize")
  /\ UNCHANGED <<row, book, view, fresh, sound, hand, told>>

------------------------------------------------------------------------------
(* Edits of rows in one commit.                                             *)

Edit(s, edited) ==
  /\ row' = [t \in Present |-> IF t \in DOMAIN edited THEN edited[t] ELSE row[t]]
  /\ Ends(s, "idle") /\ Committed(s, TRUE)
  /\ UNCHANGED <<book, sound>>

\* PATCH /transactions/{id} and POST /transactions/bulk-categorize: a category
\* makes the rows manual; a contact, the mark and the flag alone do not.
SetCategory(s) ==
  /\ Begins(s)
  /\ \E ts \in (SUBSET (Present \cap Edited)) \ {{}}, v \in OrNone(Chosen) :
       /\ v = None => Cardinality(ts) = 1
       /\ Edit(s, [t \in ts |-> [row[t] EXCEPT !.category = v, !.by = "manual", !.review = FALSE]])
       /\ hand' = [t \in Tx |-> IF t \in ts THEN v ELSE hand[t]]
  /\ UNCHANGED told

SetOther(s) ==
  /\ Begins(s)
  /\ \E t \in Present \cap Edited :
       \/ \E c \in OrNone(book.contacts) : Edit(s, [r \in {t} |-> [row[r] EXCEPT !.contact = c]])
       \/ Edit(s, [r \in {t} |-> [row[r] EXCEPT !.review = ~@]])
       \/ Edit(s, [r \in {t} |-> [row[r] EXCEPT !.own = ~@]])
  /\ UNCHANGED <<hand, told>>

\* POST /review/dismiss-all
DismissAll(s) ==
  /\ Begins(s)
  /\ Edit(s, [t \in {r \in Present : row[r].review /\ ~row[r].own} |->
               [row[t] EXCEPT !.review = FALSE]])
  /\ UNCHANGED <<hand, told>>

\* POST /review/income/decide: for one row, or for a counterparty's deposits.
DecideIncome(s) ==
  /\ Begins(s)
  /\ \E answer \in {"yes", "no"},
        ts \in {{t} : t \in Present \cap Edited}
               \cup {{t \in Present \cap Deposit : i \in IdentsOf(t)} : i \in Ident} :
       /\ Edit(s, [t \in ts |-> [row[t] EXCEPT !.income = answer]])
       /\ told' = IF answer = "yes" THEN told \cup ts ELSE told
  /\ UNCHANGED hand

------------------------------------------------------------------------------
(* POST /imports: the header's alias is inserted and the book loaded, then  *)
(* the new rows are committed with it.  Older rows are left as they are.    *)

BeginImport(s) ==
  /\ Begins(s)
  /\ \A r \in Session : pc[r] # "import"
  /\ \E file \in Statement :
       job' = [job EXCEPT ![s] =
         [NoJob EXCEPT !.rows = file, !.names = file \in Naming /\ ~book.alias,
                       !.book = [book EXCEPT !.alias = @ \/ file \in Naming]]]
  /\ Goto(s, "import")
  /\ fresh' = [fresh EXCEPT ![s] = TRUE]
  /\ UNCHANGED <<row, book, view, sound, hand, told>>

CommitImport(s) ==
  /\ pc[s] = "import"
  /\ LET new == [t \in job[s].rows \ Present |-> Apply(t, NewRow, job[s].book, FALSE)]
     IN  \/ /\ ContactsExist(new, DOMAIN new)
            /\ row' = [t \in Present \cup DOMAIN new |->
                         IF t \in Present THEN row[t] ELSE new[t]]
            /\ book' = [book EXCEPT !.alias = @ \/ job[s].names]
            /\ Ends(s, "idle") /\ Committed(s, TRUE)
         \/ /\ ~ContactsExist(new, DOMAIN new)
            /\ Ends(s, "failed") /\ UNCHANGED <<row, book, fresh>>
  /\ UNCHANGED <<sound, hand, told, requests>>

------------------------------------------------------------------------------
(* apply_contact_to_matching                                                *)

ReadIdentifiers(s) ==
  /\ pc[s] = "identifiers" /\ Goto(s, "match")
  /\ job' = [job EXCEPT ![s].idents = {i \in Ident : book.owner[i] = job[s].contact}]
  /\ UNCHANGED <<row, book, view, history>>

AllMatched(s) ==
  /\ pc[s] = "match" /\ job[s].idents = {}
  /\ Ends(s, "idle")
  /\ UNCHANGED <<row, book, history>>

\* Mutant: only the rows that wait for review are loaded.
MatchingInReview(i) == {t \in Present : i \in IdentsOf(t) /\ row[t].review}

Matching(i) == {t \in Present : i \in IdentsOf(t)}

\* Loads the rows with the next identifier.  Rows the session holds already keep
\* the values they were loaded with.
LoadMatching(s) ==
  /\ pc[s] = "match" /\ Goto(s, "label")
  /\ \E i \in job[s].idents :
       /\ job' = [job EXCEPT ![s].idents = @ \ {i}, ![s].rows = Matching(i)]
       /\ view' = [view EXCEPT ![s] = [t \in Matching(i) \cup job[s].held |->
            IF t \in job[s].held THEN view[s][t] ELSE row[t]]]
  /\ fresh' = [fresh EXCEPT ![s] = @ \/ job[s].held = {}]
  /\ UNCHANGED <<row, book, sound, hand, told, requests>>

Labelled(s) ==
  [t \in DOMAIN view[s] |->
     IF t \in job[s].rows THEN Teach(t, view[s][t], job[s].contact, job[s].book)
                          ELSE view[s][t]]

WriteMatching(s) ==
  /\ pc[s] = "label"
  /\ \/ /\ ~WriteRefused(s, Labelled(s))
        /\ row' = Written(s, Labelled(s))
        /\ Goto(s, "match")
        /\ job' = [job EXCEPT ![s].rows = {}]
        /\ view' = [view EXCEPT ![s] = [t \in job[s].held |-> Labelled(s)[t]]]
        /\ sound' = (sound /\ fresh[s])
        /\ Committed(s, fresh[s])
     \/ /\ WriteRefused(s, Labelled(s))
        /\ Ends(s, "failed") /\ UNCHANGED <<row, sound, fresh>>
  /\ UNCHANGED <<book, hand, told, requests>>

------------------------------------------------------------------------------
(* recategorize_all                                                         *)

LoadAll(s) ==
  /\ pc[s] = "recategorize" /\ Goto(s, "rewrite")
  /\ job' = [job EXCEPT ![s].book = book]
  /\ view' = [view EXCEPT ![s] = row]
  /\ fresh' = [fresh EXCEPT ![s] = TRUE]
  /\ UNCHANGED <<row, book, sound, hand, told, requests>>

Redone(s) ==
  [t \in DOMAIN view[s] |-> Apply(t, view[s][t], job[s].book, job[s].force)]

WriteAll(s) ==
  /\ pc[s] = "rewrite"
  /\ \/ /\ ~WriteRefused(s, Redone(s))
        /\ row' = Written(s, Redone(s))
        /\ hand' = IF job[s].force
                   THEN [t \in Tx |-> IF t \in DOMAIN view[s] THEN Never ELSE hand[t]]
                   ELSE hand
        /\ Ends(s, "idle")
        /\ sound' = (sound /\ fresh[s])
        /\ Committed(s, fresh[s])
     \/ /\ WriteRefused(s, Redone(s))
        /\ Ends(s, "failed") /\ UNCHANGED <<row, hand, sound, fresh>>
  /\ UNCHANGED <<book, told, requests>>

\* The process dies, or the database refuses: nothing of this part is kept.
Fail(s) ==
  /\ MayFail /\ ~Resting(s)
  /\ Ends(s, "failed")
  /\ UNCHANGED <<row, book, history>>

------------------------------------------------------------------------------
User(s) ==
  \/ LabelGroup(s) \/ AddIdentifier(s) \/ CreateFromTransaction(s)
  \/ CreateContact(s) \/ UpdateContact(s) \/ DeleteContact(s) \/ DeleteIdentifier(s)
  \/ ChangePolicy(s) \/ Recategorize(s)
  \/ SetCategory(s) \/ SetOther(s) \/ DismissAll(s) \/ DecideIncome(s)
  \/ BeginImport(s)

Server(s) ==
  \/ CommitImport(s)
  \/ ReadIdentifiers(s) \/ AllMatched(s) \/ LoadMatching(s) \/ WriteMatching(s)
  \/ LoadAll(s) \/ WriteAll(s)

Next == \E s \in Session : User(s) \/ Server(s) \/ Fail(s)

\* A request once begun is carried on by its thread; users may stop asking.
Fairness == \A s \in Session : WF_vars(Server(s))

Spec == Init /\ [][Next]_vars /\ Fairness

------------------------------------------------------------------------------
(* Properties                                                               *)

\* Types, and the references between the tables.
TypeOK ==
  /\ Present \subseteq Tx /\ row \in [Present -> Row]
  /\ book \in Book
  /\ \A t \in Present : row[t].contact \in OrNone(book.contacts)
  /\ \A i \in Ident : book.owner[i] \in OrNone(book.contacts)
  /\ pc \in [Session -> {"idle", "failed", "identifiers", "match", "label",
                         "recategorize", "rewrite", "import"}]
  /\ \A s \in Session : /\ DOMAIN view[s] \subseteq Present
                        /\ view[s] \in [DOMAIN view[s] -> Row]
                        /\ job[s].idents \subseteq Ident /\ job[s].book \in Book
                        /\ job[s].contact \in OrNone(Contact)
  /\ fresh \in [Session -> BOOLEAN] /\ sound \in BOOLEAN
  /\ hand \in [Tx -> OrNone(Category) \cup {Never}] /\ told \subseteq Tx
  /\ requests \in 0..MaxRequests

\* A category set by hand stays what the user made it, through labels, imports,
\* re-categorisation and contacts that come and go, until he sets it again or
\* asks for it with force; only a request that had loaded the row before the
\* edit can undo it (Categorizer.apply, apply_contact_to_matching).
ManualKept ==
  sound => \A t \in Present :
             hand[t] # Never => row[t].by = "manual" /\ row[t].category = hand[t]

\* A row counts as income only if the user said so: of the row, of its
\* counterparty, or by giving its contact a receiving category.
IncomeOnlyIfTold == \A t \in Present : row[t].income = "yes" => t \in told

Label(r) == <<r.category, r.by, r.contact, r.review>>

\* A row as it would be made, but with the mark and the answer it has.
Unanswered(new, r) == [new EXCEPT !.own = r.own, !.income = r.income]

\* Labelling agrees with the pipeline in all but two columns: a row a label reaches
\* gets what re-categorising it would give, and keeps its own-transfer mark and its
\* answer to the income question.  So the next re-categorisation changes those two
\* and no other: it takes off the mark, and it counts as income a deposit of a
\* contact with a receiving category, which until then waits to be asked for
\* (apply_contact_to_matching and Categorizer.apply).  The label must be the row's
\* most precise known identifier, its contact must have a category for the
\* direction that nobody changed meanwhile, and the row must not be own.
LearnedAsPipeline ==
  [][\A s \in Session : WriteMatching(s) /\ fresh[s] /\ pc'[s] = "match" =>
       \A t \in job[s].rows :
         LET c == job[s].contact
             redone == Pipeline(t, row[t], book)
         IN  ( /\ row[t].by # "manual" /\ ~IsSelfTransfer(t, book)
               /\ MatchContact(t, book) = c
               /\ CategoryFor(c, t, book) # None
               /\ CategoryFor(c, t, book) = CategoryFor(c, t, job[s].book) )
             => /\ row'[t] = Unanswered(redone, row[t])
                /\ ~redone.own
                /\ redone.income = IF t \in Deposit /\ book.earn[c] # None
                                   THEN "yes" ELSE row[t].income]_vars

\* Teaching first and importing later is the same as importing first: after an
\* undisturbed recategorize_all every row not set by hand has the label a fresh
\* import of it would get, whatever labels, contacts and rules came and went
\* before.  Not so where the first matching rule sets no category: the row then
\* keeps the category it had.
RecategorizeLikeImport ==
  [][\A s \in Session : WriteAll(s) /\ fresh[s] /\ pc'[s] = "idle" =>
       \A t \in Present :
         LET imported == Apply(t, NewRow, job[s].book, FALSE)
         IN  row'[t].by # "manual" /\ imported.category # None
               => Label(row'[t]) = Label(imported) /\ row'[t].own = imported.own]_vars

\* A label reaches every row of its identifiers that was there when it was given:
\* unless the request fails, each gets the contact at some moment, or was set by
\* hand, or the contact is deleted meanwhile (label_group, add_identifier and
\* update_contact after their first commit).
LabelReaches ==
  \A s \in Session, t \in Tx, c \in Contact :
    ( /\ pc[s] = "match" /\ job[s].contact = c /\ job[s].held = {}
      /\ t \in Present /\ job[s].idents \cap IdentsOf(t) # {} )
    ~> ( \/ t \in Present /\ (row[t].contact = c \/ row[t].by = "manual")
         \/ c \notin book.contacts \/ pc[s] = "failed" )

\* A deposit the user said is no income stays so until he answers otherwise.
RejectedNeverCounts ==
  [][\A t \in Present \ (Declared \cup AliasMatch) :
       row[t].income = "no" /\ row'[t].income = "yes"
         => \E s \in Session : DecideIncome(s)]_vars
=============================================================================
