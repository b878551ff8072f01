----------------------------- MODULE LabelsProofs -----------------------------
(***************************************************************************)
(* What a label, a rule or an answer does to bank rows, proved for any     *)
(* number of sessions, rows, contacts and rules: an edit by hand is kept,  *)
(* income is what the user called so, and labelling and re-categorising    *)
(* agree with importing.                                                   *)
(***************************************************************************)
EXTENDS Labels, SumTheorems

Job == [idents : SUBSET Ident, contact : OrNone(Contact), book : Book, rows : SUBSET Tx,
        held : SUBSET Tx, names : BOOLEAN, force : BOOLEAN]

\* The tables: rows refer to contacts that exist, an edit by hand is kept, and
\* whoever's deposits are income has been called so.
Tables ==
  /\ Present \subseteq Tx /\ row \in [Present -> Row]
  /\ book \in Book
  /\ \A t \in Present : row[t].contact \in OrNone(book.contacts)
  /\ \A i \in Ident : book.owner[i] \in OrNone(book.contacts)
  /\ hand \in [Tx -> OrNone(Category) \cup {Never}] /\ told \subseteq Tx
  /\ \A t \in Tx \ Present : hand[t] = Never
  /\ ManualKept
  /\ IncomeOnlyIfTold /\ ToldBy(book) \subseteq told

\* A session's request: it holds rows only while it is under way, and as long as no
\* other one has committed it has them as they are; what it knows of income was told.
Request(s) ==
  /\ DOMAIN view[s] \subseteq Present /\ view[s] \in [DOMAIN view[s] -> Row]
  /\ job[s] \in Job
  /\ Resting(s) => DOMAIN view[s] = {}
  /\ pc[s] \in {"identifiers", "match", "label"} =>
       job[s].contact \in Contact /\ job[s].held \subseteq DOMAIN view[s]
  /\ pc[s] = "label" => job[s].rows \subseteq DOMAIN view[s]
  /\ fresh[s] => /\ \A t \in DOMAIN view[s] : view[s][t] = row[t]
                 /\ pc[s] = "rewrite" => DOMAIN view[s] = Present
  /\ \A t \in DOMAIN view[s] : view[s][t].income = "yes" => t \in told
  /\ ToldBy(job[s].book) \subseteq told

Shape ==
  /\ pc \in [Session -> {"idle", "failed", "identifiers", "match", "label",
                         "recategorize", "rewrite", "import"}]
  /\ DOMAIN job = Session /\ DOMAIN view = Session
  /\ fresh \in [Session -> BOOLEAN] /\ sound \in BOOLEAN
  /\ requests \in 0..MaxRequests

LabelsInv == Tables /\ Shape /\ \A s \in Session : Request(s)

------------------------------------------------------------------------------
(* The operators of the pipeline.                                            *)

\* The first place is one of the places.
LEMMA FirstPlace ==
  ASSUME NEW P \in SUBSET Nat, P # {}
  PROVE  First(P) \in P
BY LeastNumber DEF First

\* A row's contact is one of the contacts, or none.
LEMMA MatchType ==
  ASSUME NEW t \in Tx, NEW b \in Book
  PROVE  MatchContact(t, b) \in OrNone(Contact)
<1>1. Idents[t] \in Seq(Ident) /\ NameOf[t] \in OrNone(Contact)
  BY CategoryAssumption
<1>2. DOMAIN Idents[t] \subseteq Nat /\ \A n \in DOMAIN Idents[t] : Idents[t][n] \in Ident
  BY <1>1
<1>3. CASE KnownPlaces(t, b) # {}
  <2>1. First(KnownPlaces(t, b)) \in DOMAIN Idents[t]
    BY <1>2, <1>3, FirstPlace DEF KnownPlaces
  <2>2. b.owner[Idents[t][First(KnownPlaces(t, b))]] \in OrNone(Contact)
    BY <1>2, <2>1 DEF Book
  <2> QED
    BY <1>3, <2>2 DEF MatchContact
<1>4. CASE KnownPlaces(t, b) = {}
  BY <1>1, <1>4 DEF MatchContact, OrNone
<1> QED
  BY <1>3, <1>4

\* And so is his category for the row.
LEMMA CategoryType ==
  ASSUME NEW t, NEW b \in Book, NEW c \in Contact
  PROVE  CategoryFor(c, t, b) \in OrNone(Category)
BY DEF CategoryFor, Book

\* The rule that is taken is a rule.
LEMMA RuleType ==
  ASSUME NEW t \in Tx, NEW b \in Book, MatchingRules(t, b) # {}
  PROVE  RuleOrder[First(MatchingRules(t, b))] \in Rule
<1>1. MatchingRules(t, b) \in SUBSET DOMAIN RuleOrder /\ DOMAIN RuleOrder \subseteq Nat
      /\ \A n \in DOMAIN RuleOrder : RuleOrder[n] \in Rule
  BY CategoryAssumption DEF MatchingRules
<1>2. First(MatchingRules(t, b)) \in MatchingRules(t, b)
  BY <1>1, FirstPlace
<1> QED
  BY <1>1, <1>2

\* What the pipeline makes of a row is a row; it is income if it was, or if the
\* user has called its contact's deposits so.
LEMMA PipelineType ==
  ASSUME NEW t \in Tx, NEW r \in Row, NEW b \in Book
  PROVE  /\ Pipeline(t, r, b) \in Row
         /\ Pipeline(t, r, b).income = "yes" => r.income = "yes" \/ t \in ToldBy(b)
<1> DEFINE c == MatchContact(t, b)
<1>1. c \in OrNone(Contact) /\ None \notin Contact
  BY MatchType, CategoryAssumption
<1>2. CASE IsSelfTransfer(t, b)
  BY <1>2 DEF Pipeline, AsOwn, Row, OrNone
<1>3. CASE ~IsSelfTransfer(t, b) /\ c # None /\ CategoryFor(c, t, b) # None
  <2>1. c \in Contact /\ CategoryFor(c, t, b) \in Category
    BY <1>1, <1>3, CategoryType DEF OrNone
  <2>2. Pipeline(t, r, b) = AsContacts(t, r, c, b)
    BY <1>3 DEF Pipeline
  <2>3. AsContacts(t, r, c, b) \in Row
    BY <2>1 DEF AsContacts, Row, OrNone
  <2>4. AsContacts(t, r, c, b).income = "yes" => r.income = "yes" \/ t \in ToldBy(b)
    BY <1>3 DEF AsContacts, Row, ToldBy
  <2> QED
    BY <2>2, <2>3, <2>4
<1>4. CASE ~IsSelfTransfer(t, b) /\ ~(c # None /\ CategoryFor(c, t, b) # None)
  <2>1. CASE MatchingRules(t, b) # {}
    <3> DEFINE rule == RuleOrder[First(MatchingRules(t, b))]
    <3>1. rule \in Rule /\ RuleCategory[rule] \in OrNone(Category)
      BY <2>1, RuleType, CategoryAssumption
    <3>2. Pipeline(t, r, b) = AsRule(r, c, rule)
      BY <1>4, <2>1 DEF Pipeline
    <3> HIDE DEF rule, c
    <3>3. AsRule(r, c, rule) \in Row /\ AsRule(r, c, rule).income = r.income
      BY <1>1, <3>1 DEF AsRule, Row, OrNone
    <3> QED
      BY <3>2, <3>3
  <2>2. CASE MatchingRules(t, b) = {}
    <3>1. Pipeline(t, r, b) = AsUnknown(r, c)
      BY <1>4, <2>2 DEF Pipeline
    <3> HIDE DEF c
    <3>2. AsUnknown(r, c) \in Row /\ AsUnknown(r, c).income = r.income
      BY <1>1 DEF AsUnknown, Row, OrNone
    <3> QED
      BY <3>1, <3>2
  <2> QED
    BY <2>1, <2>2
<1> QED
  BY <1>2, <1>3, <1>4

\* So it is with what is applied to a row, and a manual one is left alone.
LEMMA ApplyType ==
  ASSUME NEW t \in Tx, NEW r \in Row, NEW b \in Book, NEW force \in BOOLEAN
  PROVE  /\ Apply(t, r, b, force) \in Row
         /\ Apply(t, r, b, force).income = "yes" => r.income = "yes" \/ t \in ToldBy(b)
         /\ r.by = "manual" /\ ~force => Apply(t, r, b, force) = r
BY PipelineType DEF Apply

\* A label makes a row of a row and says nothing of income.
LEMMA TeachType ==
  ASSUME NEW t \in Tx, NEW r \in Row, NEW b \in Book, NEW c \in Contact
  PROVE  /\ Teach(t, r, c, b) \in Row /\ Teach(t, r, c, b).income = r.income
         /\ r.by = "manual" => Teach(t, r, c, b) = r
<1>1. CategoryFor(c, t, b) \in OrNone(Category)
  BY CategoryType
<1> QED
  BY <1>1 DEF Teach, Row, OrNone

\* An UPDATE leaves a row, each column of it as it is or as the session wants it;
\* with the row as it was loaded it leaves what the session wants.
LEMMA FlushType ==
  ASSUME NEW now \in Row, NEW loaded \in Row, NEW new \in Row
  PROVE  /\ Flush(now, loaded, new) \in Row
         /\ Flush(now, loaded, new).contact = IF new.contact # loaded.contact THEN new.contact
                                                                          ELSE now.contact
         /\ Flush(now, loaded, new).income \in {now.income, new.income}
         /\ now = loaded => Flush(now, loaded, new) = new
<1> DEFINE columns == {"category", "by", "contact", "own", "review", "income"}
           f == Flush(now, loaded, new)
<1>1. f = [x \in columns |-> IF new[x] # loaded[x] THEN new[x] ELSE now[x]]
  BY DEF Flush, Row
<1>2. f = [category |-> f.category, by |-> f.by, contact |-> f.contact, own |-> f.own,
           review |-> f.review, income |-> f.income]
  BY <1>1
<1> HIDE DEF f
<1>3. /\ f.category \in {new.category, now.category} /\ f.by \in {new.by, now.by}
      /\ f.contact = IF new.contact # loaded.contact THEN new.contact ELSE now.contact
      /\ f.own \in {new.own, now.own} /\ f.review \in {new.review, now.review}
      /\ f.income \in {new.income, now.income}
  BY <1>1
<1>4. f \in Row
  BY <1>2, <1>3 DEF Row
<1>5. now = loaded => f = new
  BY <1>1 DEF Row
<1> QED
  BY <1>3, <1>4, <1>5 DEF f

\* A new book calls nothing income.
LEMMA NewBookType == NewBook \in Book /\ ToldBy(NewBook) = {} /\ NewRow \in Row
<1>1. NewBook \in Book /\ NewRow \in Row
  BY CategoryAssumption DEF NewBook, Book, OrNone, NewRow, Row
<1>2. \A t \in Tx : MatchContact(t, NewBook) \in Contact => NewBook.earn[MatchContact(t, NewBook)] = None
  BY DEF NewBook
<1>3. \A t \in Tx : MatchContact(t, NewBook) \in OrNone(Contact)
  BY <1>1, MatchType
<1> QED
  BY <1>1, <1>2, <1>3, CategoryAssumption DEF ToldBy, OrNone

\* The alias and the rules make no difference to it.
LEMMA ToldSame ==
  ASSUME NEW b, NEW d, b.contacts = d.contacts, b.owner = d.owner, b.earn = d.earn
  PROVE  ToldBy(b) = ToldBy(d)
<1>1. \A t : MatchContact(t, b) = MatchContact(t, d)
  BY DEF MatchContact, KnownPlaces
<1> QED
  BY <1>1 DEF ToldBy

------------------------------------------------------------------------------
(* What the steps have in common.                                            *)

\* A request that somebody else's step passes over keeps what it holds; a commit
\* of another one only makes it stale.
LEMMA PassedOver ==
  ASSUME NEW r \in Session, Request(r), pc'[r] = pc[r], job'[r] = job[r], view'[r] = view[r],
         Present \subseteq Present', told \subseteq told',
         fresh'[r] => Resting(r) \/ (fresh[r] /\ row' = row)
  PROVE  Request(r)'
<1> USE DEF Request
<1>1. Resting(r)' = Resting(r)
  BY DEF Resting
<1>2. ToldBy(job'[r].book) \subseteq told'
  BY DEF ToldBy
<1>3. fresh'[r] => /\ \A t \in DOMAIN view'[r] : view'[r][t] = row'[t]
                   /\ pc'[r] = "rewrite" => DOMAIN view'[r] = Present'
  <2>1. CASE Resting(r)
    BY <2>1 DEF Resting
  <2>2. CASE ~Resting(r)
    BY <2>2 DEF Present
  <2> QED
    BY <2>1, <2>2
<1> QED
  BY <1>1, <1>2, <1>3

\* A session whose request is over holds nothing.
LEMMA Over ==
  ASSUME Shape, NEW s \in Session, NEW how \in {"idle", "failed"}, Ends(s, how)
  PROVE  /\ \A r \in Session \ {s} : pc'[r] = pc[r] /\ job'[r] = job[r] /\ view'[r] = view[r]
         /\ DOMAIN job' = Session /\ DOMAIN view' = Session
         /\ pc' \in [Session -> {"idle", "failed", "identifiers", "match", "label",
                                 "recategorize", "rewrite", "import"}]
         /\ Request(s)'
<1>1. /\ pc' = [pc EXCEPT ![s] = how] /\ job' = [job EXCEPT ![s] = NoJob]
      /\ view' = [view EXCEPT ![s] = Empty]
  BY DEF Ends, Goto
<1>2. pc'[s] = how /\ job'[s] = NoJob /\ view'[s] = Empty
  BY <1>1 DEF Shape
<1>3. NoJob \in Job /\ NoJob.book = NewBook
  BY NewBookType DEF NoJob, Job, OrNone
<1>4. DOMAIN Empty = {} /\ Empty \in [{} -> Row]
  BY DEF Empty
<1>5. Request(s)'
  BY <1>2, <1>3, <1>4, NewBookType DEF Request, Resting
<1> QED
  BY <1>1, <1>5 DEF Shape

\* So a step keeps the invariant if it keeps the tables and the session's own request.
LEMMA StepOf ==
  ASSUME LabelsInv, NEW s \in Session, Tables', Shape', Request(s)',
         \A r \in Session \ {s} : pc'[r] = pc[r] /\ job'[r] = job[r] /\ view'[r] = view[r],
         Present \subseteq Present', told \subseteq told',
         \A r \in Session \ {s} : fresh'[r] => Resting(r) \/ (fresh[r] /\ row' = row)
  PROVE  LabelsInv'
<1>1. \A r \in Session \ {s} : Request(r)'
  BY PassedOver DEF LabelsInv
<1> QED
  BY <1>1 DEF LabelsInv

\* After a commit nobody else is fresh who is under way.
LEMMA CommittedType ==
  ASSUME Shape, NEW s \in Session, NEW now \in BOOLEAN, Committed(s, now)
  PROVE  /\ fresh' \in [Session -> BOOLEAN] /\ fresh'[s] = now
         /\ \A r \in Session \ {s} : fresh'[r] => Resting(r)
<1>1. fresh' = [r \in Session |-> IF r = s THEN now ELSE Resting(r)]
  BY DEF Committed
<1>2. \A r \in Session : Resting(r) \in BOOLEAN
  BY DEF Resting
<1> QED
  BY <1>1, <1>2, Zenon

\* A request that begins is counted.
LEMMA BeginsType ==
  ASSUME Shape, NEW s \in Session, Begins(s)
  PROVE  requests' \in 0..MaxRequests
BY LabelsAssumption DEF Shape, Begins

\* What is taught is told: income is what it was, and more.
LEMMA TeachesTables ==
  ASSUME Tables, NEW b \in Book, Teaches(b), UNCHANGED <<sound, hand>>, DOMAIN row' = DOMAIN row,
         \A i \in Ident : b.owner[i] \in OrNone(b.contacts),
         \A t \in Present : /\ row'[t] = [row[t] EXCEPT !.contact = row'[t].contact]
                            /\ row'[t].contact \in OrNone(b.contacts),
         row' = [t \in DOMAIN row |-> row'[t]]
  PROVE  Tables' /\ told \subseteq told' /\ Present' = Present
<1>1. book' = b /\ told' = told \cup ToldBy(b) /\ ToldBy(b) \subseteq Tx
  BY LabelsAssumption, CategoryAssumption DEF Teaches, ToldBy
<1>2. OrNone(b.contacts) \subseteq OrNone(Contact)
  BY DEF Book, OrNone
<1>3. Present' = Present
  BY DEF Present
<1>4. \A t \in Present : /\ row'[t] \in Row /\ row'[t].income = row[t].income
                         /\ row'[t].by = row[t].by /\ row'[t].category = row[t].category
  <2>1. SUFFICES ASSUME NEW t \in Present
                 PROVE  /\ row'[t] \in Row /\ row'[t].income = row[t].income
                        /\ row'[t].by = row[t].by /\ row'[t].category = row[t].category
    OBVIOUS
  <2>2. row[t] \in Row /\ row'[t].contact \in OrNone(Contact)
    BY <1>2 DEF Tables
  <2> DEFINE c == row'[t].contact
  <2>3. row'[t] = [row[t] EXCEPT !.contact = c] /\ c \in OrNone(Contact)
    BY <2>2
  <2> HIDE DEF c
  <2> QED
    BY <2>2, <2>3 DEF Row
<1>5. ManualKept' /\ IncomeOnlyIfTold'
  BY <1>1, <1>3, <1>4 DEF Tables, ManualKept, IncomeOnlyIfTold
<1>6. row' \in [Present' -> Row]
  BY <1>3, <1>4 DEF Present
<1> QED
  BY <1>1, <1>3, <1>5, <1>6 DEF Tables

------------------------------------------------------------------------------
(* The user's requests.                                                      *)

\* A contact that is learned is in the book, whose identifiers belong to contacts.
LEMMA LearnedType ==
  ASSUME Tables, NEW c \in Contact, NEW spend \in OrNone(Chosen), NEW earn \in OrNone(Earned),
         NEW idents \in SUBSET Ident
  PROVE  LET b == Learned(c, spend, earn, idents)
         IN  /\ b \in Book /\ book.contacts \subseteq b.contacts
             /\ \A i \in Ident : b.owner[i] \in OrNone(b.contacts)
<1> DEFINE contacts == book.contacts \cup {c}
           spends == [book.spend EXCEPT ![c] = Given(spend, @)]
           earns == [book.earn EXCEPT ![c] = Given(earn, @)]
           owners == [i \in Ident |-> IF i \in idents THEN c ELSE book.owner[i]]
<1>1. book \in Book /\ \A i \in Ident : book.owner[i] \in OrNone(book.contacts)
  BY DEF Tables
<1>2. Given(spend, book.spend[c]) \in OrNone(Category) /\ Given(earn, book.earn[c]) \in OrNone(Category)
  BY <1>1, LabelsAssumption DEF Given, OrNone, Book
<1>3. /\ contacts \in SUBSET Contact
      /\ spends \in [Contact -> OrNone(Category)] /\ earns \in [Contact -> OrNone(Category)]
      /\ owners \in [Ident -> OrNone(Contact)]
      /\ \A i \in Ident : owners[i] \in OrNone(contacts)
  BY <1>1, <1>2 DEF Book, OrNone
<1>4. Learned(c, spend, earn, idents)
        = [book EXCEPT !.contacts = contacts, !.spend = spends, !.earn = earns, !.owner = owners]
  BY <1>1 DEF Learned, Book
<1> HIDE DEF contacts, spends, earns, owners
<1>5. book.contacts \subseteq contacts
  BY DEF contacts
<1> DEFINE d == Learned(c, spend, earn, idents)
<1>6. d = [book EXCEPT !.contacts = contacts, !.spend = spends, !.earn = earns, !.owner = owners]
  BY <1>4
<1> HIDE DEF d
<1>7. d \in Book /\ d.contacts = contacts /\ d.owner = owners
  BY <1>1, <1>3, <1>6 DEF Book
<1>8. /\ d \in Book /\ book.contacts \subseteq d.contacts
      /\ \A i \in Ident : d.owner[i] \in OrNone(d.contacts)
  BY <1>3, <1>5, <1>7
<1> QED
  BY <1>8 DEF d

\* Teaching alone leaves the rows as they are.
LEMMA TeachesOnly ==
  ASSUME Tables, NEW b \in Book, Teaches(b), UNCHANGED <<row, sound, hand>>,
         book.contacts \subseteq b.contacts, \A i \in Ident : b.owner[i] \in OrNone(b.contacts)
  PROVE  Tables' /\ told \subseteq told' /\ Present' = Present
<1>1. \A t \in Present : /\ row'[t] = [row[t] EXCEPT !.contact = row'[t].contact]
                         /\ row'[t].contact \in OrNone(b.contacts)
  BY DEF Tables, Row, OrNone
<1>2. DOMAIN row' = DOMAIN row /\ row' = [t \in DOMAIN row |-> row'[t]]
  BY DEF Tables, Present
<1> QED
  BY <1>1, <1>2, TeachesTables

\* A label is learned and committed; the rows are still to be matched.
LEMMA LabelBegins ==
  ASSUME LabelsInv, NEW s \in Session, Begins(s),
         NEW b \in Book, NEW c \in Contact, NEW idents \in SUBSET Ident, NEW held \in SUBSET Present,
         book.contacts \subseteq b.contacts, \A i \in Ident : b.owner[i] \in OrNone(b.contacts),
         Teaches(b), LabelMatching(s, c, idents, b, held), Committed(s, TRUE),
         UNCHANGED <<row, sound, hand>>
  PROVE  LabelsInv'
<1> USE DEF LabelsInv
<1>1. Tables' /\ told \subseteq told' /\ Present' = Present
  BY TeachesOnly
<1>2. /\ pc' = [pc EXCEPT ![s] = "match"]
      /\ job' = [job EXCEPT ![s] = [NoJob EXCEPT !.idents = idents, !.contact = c, !.book = b,
                                                 !.held = held]]
      /\ view' = [view EXCEPT ![s] = [t \in held |-> row[t]]]
  BY DEF LabelMatching, Goto
<1>3. Shape'
  BY <1>2, CommittedType, BeginsType DEF Shape
<1>4. Request(s)'
  <2>1. /\ pc'[s] = "match" /\ view'[s] = [t \in held |-> row[t]] /\ fresh'[s] = TRUE
        /\ job'[s] = [NoJob EXCEPT !.idents = idents, !.contact = c, !.book = b, !.held = held]
    BY <1>2, CommittedType DEF Shape
  <2>2. job'[s] \in Job /\ job'[s].contact = c /\ job'[s].held = held /\ job'[s].book = b
    <3>1. job'[s] = [idents |-> idents, contact |-> c, book |-> b, rows |-> {}, held |-> held,
                     names |-> FALSE, force |-> FALSE]
      BY <2>1 DEF NoJob
    <3> QED
      BY <3>1 DEF Job, Tables, OrNone
  <2>3. ToldBy(b) \subseteq told'
    BY DEF Teaches
  <2>4. DOMAIN view'[s] = held /\ \A t \in held : view'[s][t] = row[t]
    BY <2>1
  <2>5. view'[s] \in [held -> Row] /\ row' = row
    BY <2>1 DEF Tables
  <2>6. \A t \in held : row[t].income = "yes" => t \in told'
    BY <1>1 DEF Tables, IncomeOnlyIfTold
  <2> QED
    BY <1>1, <2>1, <2>2, <2>3, <2>4, <2>5, <2>6 DEF Request, Resting
<1> QED
  BY <1>1, <1>2, <1>3, <1>4, StepOf, CommittedType DEF Shape

\* The requests that teach: a label from the review queue.
LEMMA LabelGroupInv ==
  ASSUME LabelsInv, NEW s \in Session, LabelGroup(s)
  PROVE  LabelsInv'
<1>1. PICK c \in Contact, i \in Ident, spend \in OrNone(Chosen) :
        LET b == Learned(c, spend, None, {i})
        IN  Teaches(b) /\ LabelMatching(s, c, {i}, b, {})
  BY DEF LabelGroup
<1>2. Begins(s) /\ Committed(s, TRUE) /\ UNCHANGED <<row, sound, hand>>
  BY DEF LabelGroup
<1> DEFINE b == Learned(c, spend, None, {i})
<1>3. /\ b \in Book /\ book.contacts \subseteq b.contacts
      /\ \A j \in Ident : b.owner[j] \in OrNone(b.contacts)
  BY LearnedType DEF LabelsInv, OrNone
<1> HIDE DEF b
<1>4. Teaches(b) /\ LabelMatching(s, c, {i}, b, {})
  BY <1>1 DEF b
<1>5. {i} \in SUBSET Ident /\ {} \in SUBSET Present
  OBVIOUS
<1> QED
  BY <1>2, <1>3, <1>4, <1>5, LabelBegins

\* An identifier added to a contact.
LEMMA AddIdentifierInv ==
  ASSUME LabelsInv, NEW s \in Session, AddIdentifier(s)
  PROVE  LabelsInv'
<1>1. PICK c \in book.contacts, i \in Ident :
        LET b == Learned(c, None, None, {i})
        IN  Teaches(b) /\ LabelMatching(s, c, {i}, b, {})
  BY DEF AddIdentifier
<1>2. Begins(s) /\ Committed(s, TRUE) /\ UNCHANGED <<row, sound, hand>> /\ c \in Contact
  BY DEF AddIdentifier, LabelsInv, Tables, Book
<1> DEFINE b == Learned(c, None, None, {i})
<1>3. /\ b \in Book /\ book.contacts \subseteq b.contacts
      /\ \A j \in Ident : b.owner[j] \in OrNone(b.contacts)
  BY <1>2, LearnedType DEF LabelsInv, OrNone
<1> HIDE DEF b
<1>4. Teaches(b) /\ LabelMatching(s, c, {i}, b, {})
  BY <1>1 DEF b
<1>5. {i} \in SUBSET Ident /\ {} \in SUBSET Present
  OBVIOUS
<1> QED
  BY <1>2, <1>3, <1>4, <1>5, LabelBegins

\* A contact made from a row, which the session goes on holding.
LEMMA CreateFromTransactionInv ==
  ASSUME LabelsInv, NEW s \in Session, CreateFromTransaction(s)
  PROVE  LabelsInv'
<1>1. PICK t \in Present \cap Edited, c \in Contact, spend \in OrNone(Chosen), earn \in OrNone(Earned) :
        LET b == Learned(c, spend, earn, IdentsOf(t))
        IN  Teaches(b) /\ LabelMatching(s, c, IdentsOf(t), b, {t})
  BY DEF CreateFromTransaction
<1>2. Begins(s) /\ Committed(s, TRUE) /\ UNCHANGED <<row, sound, hand>>
  BY DEF CreateFromTransaction
<1>3. IdentsOf(t) \in SUBSET Ident
  BY CategoryAssumption DEF IdentsOf, LabelsInv, Tables
<1> DEFINE b == Learned(c, spend, earn, IdentsOf(t))
<1>4. /\ b \in Book /\ book.contacts \subseteq b.contacts
      /\ \A j \in Ident : b.owner[j] \in OrNone(b.contacts)
  BY <1>3, LearnedType DEF LabelsInv
<1> HIDE DEF b
<1>5. Teaches(b) /\ LabelMatching(s, c, IdentsOf(t), b, {t})
  BY <1>1 DEF b
<1> QED
  BY <1>2, <1>3, <1>4, <1>5, LabelBegins

\* Whatever a request does to the book at once, it is over then.
LEMMA TeachesAndEnds ==
  ASSUME LabelsInv, NEW s \in Session, Begins(s), Ends(s, "idle"), Committed(s, TRUE), sound' = sound,
         Tables', told \subseteq told', Present \subseteq Present'
  PROVE  LabelsInv'
<1>1. Shape'
  BY Over, CommittedType, BeginsType DEF LabelsInv, Shape
<1> QED
  BY <1>1, Over, StepOf, CommittedType DEF LabelsInv

\* A contact made by hand.
LEMMA CreateContactInv ==
  ASSUME LabelsInv, NEW s \in Session, CreateContact(s)
  PROVE  LabelsInv'
<1>1. PICK c \in Contact \ book.contacts, spend \in OrNone(Chosen), earn \in OrNone(Earned) :
        Teaches(Learned(c, spend, earn, {}))
  BY DEF CreateContact
<1>2. Begins(s) /\ Ends(s, "idle") /\ Committed(s, TRUE) /\ UNCHANGED <<row, sound, hand>>
  BY DEF CreateContact
<1> DEFINE b == Learned(c, spend, earn, {})
<1>3. /\ b \in Book /\ book.contacts \subseteq b.contacts
      /\ \A j \in Ident : b.owner[j] \in OrNone(b.contacts)
  BY LearnedType DEF LabelsInv
<1> HIDE DEF b
<1>4. Teaches(b)
  BY <1>1 DEF b
<1>5. Tables' /\ told \subseteq told' /\ Present' = Present
  BY <1>2, <1>3, <1>4, TeachesOnly DEF LabelsInv
<1> QED
  BY <1>2, <1>5, TeachesAndEnds

\* New categories for a contact; the rows are still to be labelled with him.
LEMMA UpdateContactInv ==
  ASSUME LabelsInv, NEW s \in Session, UpdateContact(s)
  PROVE  LabelsInv'
<1> USE DEF LabelsInv
<1>1. PICK c \in book.contacts, spend \in OrNone(Chosen), earn \in OrNone(Earned) :
        LET b == [book EXCEPT !.spend[c] = spend, !.earn[c] = earn]
        IN  /\ Teaches(b) /\ Goto(s, "identifiers")
            /\ job' = [job EXCEPT ![s] = [NoJob EXCEPT !.contact = c, !.book = b]]
  BY DEF UpdateContact
<1>2. Begins(s) /\ Committed(s, TRUE) /\ UNCHANGED <<row, view, sound, hand>>
  BY DEF UpdateContact
<1> DEFINE b == [book EXCEPT !.spend[c] = spend, !.earn[c] = earn]
<1>3. book \in Book /\ c \in Contact /\ spend \in OrNone(Category) /\ earn \in OrNone(Category)
  BY LabelsAssumption DEF Tables, Book, OrNone
<1>4. b \in Book /\ b.contacts = book.contacts /\ b.owner = book.owner
  BY <1>3 DEF Book
<1>5. /\ Teaches(b) /\ pc' = [pc EXCEPT ![s] = "identifiers"]
      /\ job' = [job EXCEPT ![s] = [NoJob EXCEPT !.contact = c, !.book = b]]
  BY <1>1 DEF Goto
<1> HIDE DEF b
<1>6. Tables' /\ told \subseteq told' /\ Present' = Present
  BY <1>2, <1>4, <1>5, TeachesOnly DEF Tables
<1>7. Shape'
  BY <1>2, <1>5, CommittedType, BeginsType DEF Shape
<1>8. Request(s)'
  <2>1. /\ pc'[s] = "identifiers" /\ view'[s] = view[s] /\ DOMAIN view[s] = {}
        /\ job'[s] = [idents |-> {}, contact |-> c, book |-> b, rows |-> {}, held |-> {},
                      names |-> FALSE, force |-> FALSE]
    BY <1>2, <1>5 DEF Shape, NoJob, Begins, Request
  <2>2. job'[s] \in Job /\ job'[s].book = b /\ job'[s].contact = c /\ job'[s].held = {}
    BY <1>3, <1>4, <2>1 DEF Job, OrNone
  <2>3. ToldBy(job'[s].book) \subseteq told'
    BY <1>5, <2>2 DEF Teaches
  <2>4. view'[s] \in [DOMAIN view'[s] -> Row] /\ DOMAIN view'[s] = {}
    BY <2>1 DEF Request
  <2> QED
    BY <1>3, <2>1, <2>2, <2>3, <2>4 DEF Request, Resting
<1> QED
  BY <1>2, <1>5, <1>6, <1>7, <1>8, StepOf, CommittedType DEF Shape

\* The rows of a contact that is deleted refer to him no more, nor does the book.
LEMMA DeleteContactInv ==
  ASSUME LabelsInv, NEW s \in Session, DeleteContact(s)
  PROVE  LabelsInv'
<1> USE DEF LabelsInv
<1>1. PICK c \in book.contacts :
       /\ Teaches([book EXCEPT
            !.contacts = @ \ {c}, !.spend[c] = None, !.earn[c] = None,
            !.owner = [i \in Ident |-> IF @[i] = c THEN None ELSE @[i]]])
       /\ row' = [t \in Present |->
            [row[t] EXCEPT !.contact = IF @ = c THEN None ELSE @]]
  BY DEF DeleteContact
<1>2. Begins(s) /\ Ends(s, "idle") /\ Committed(s, TRUE) /\ UNCHANGED <<sound, hand>>
  BY DEF DeleteContact
<1> DEFINE contacts == book.contacts \ {c}
           spends == [book.spend EXCEPT ![c] = None]
           earns == [book.earn EXCEPT ![c] = None]
           owners == [i \in Ident |-> IF book.owner[i] = c THEN None ELSE book.owner[i]]
           b == [book EXCEPT !.contacts = contacts, !.spend = spends, !.earn = earns, !.owner = owners]
<1>3. book \in Book /\ \A i \in Ident : book.owner[i] \in OrNone(book.contacts)
  BY DEF Tables
<1>4. Teaches(b)
  BY <1>1, <1>3 DEF Book
<1>5. /\ contacts \in SUBSET Contact
      /\ spends \in [Contact -> OrNone(Category)] /\ earns \in [Contact -> OrNone(Category)]
      /\ owners \in [Ident -> OrNone(Contact)]
      /\ \A i \in Ident : owners[i] \in OrNone(contacts)
  BY <1>3 DEF Book, OrNone
<1>6. \A t \in Present : /\ row'[t] = [row[t] EXCEPT !.contact = row'[t].contact]
                         /\ row'[t].contact \in OrNone(contacts)
  <2>1. SUFFICES ASSUME NEW t \in Present
                 PROVE  /\ row'[t] = [row[t] EXCEPT !.contact = row'[t].contact]
                        /\ row'[t].contact \in OrNone(contacts)
    OBVIOUS
  <2>2. row[t] \in Row /\ row[t].contact \in OrNone(book.contacts)
    BY DEF Tables
  <2> DEFINE d == IF row[t].contact = c THEN None ELSE row[t].contact
  <2>3. row'[t] = [row[t] EXCEPT !.contact = d]
    BY <1>1
  <2>4. d \in OrNone(contacts)
    BY <2>2 DEF OrNone
  <2> HIDE DEF d
  <2>5. row'[t].contact = d
    BY <2>2, <2>3 DEF Row
  <2> QED
    BY <2>3, <2>4, <2>5
<1> HIDE DEF contacts, spends, earns, owners
<1>7. b \in Book /\ b.contacts = contacts /\ b.owner = owners
  BY <1>3, <1>5 DEF Book
<1> HIDE DEF b
<1>8. DOMAIN row' = DOMAIN row /\ row' = [t \in DOMAIN row |-> row'[t]]
  BY <1>1 DEF Present
<1>9. \A i \in Ident : b.owner[i] \in OrNone(b.contacts)
  BY <1>5, <1>7
<1>10. \A t \in Present : /\ row'[t] = [row[t] EXCEPT !.contact = row'[t].contact]
                          /\ row'[t].contact \in OrNone(b.contacts)
  BY <1>6, <1>7
<1>11. Tables' /\ told \subseteq told' /\ Present' = Present
  BY <1>2, <1>4, <1>7, <1>8, <1>9, <1>10, TeachesTables
<1> QED
  BY <1>2, <1>11, TeachesAndEnds

\* An identifier taken away.
LEMMA DeleteIdentifierInv ==
  ASSUME LabelsInv, NEW s \in Session, DeleteIdentifier(s)
  PROVE  LabelsInv'
<1>1. PICK i \in Ident : Teaches([book EXCEPT !.owner[i] = None])
  BY DEF DeleteIdentifier
<1>2. Begins(s) /\ Ends(s, "idle") /\ Committed(s, TRUE) /\ UNCHANGED <<row, sound, hand>>
  BY DEF DeleteIdentifier
<1> DEFINE b == [book EXCEPT !.owner[i] = None]
<1>3. book \in Book /\ \A j \in Ident : book.owner[j] \in OrNone(book.contacts)
  BY DEF LabelsInv, Tables
<1>4. b \in Book /\ b.contacts = book.contacts /\ \A j \in Ident : b.owner[j] \in OrNone(b.contacts)
  BY <1>3 DEF Book, OrNone
<1> HIDE DEF b
<1>5. Teaches(b)
  BY <1>1 DEF b
<1>6. Tables' /\ told \subseteq told' /\ Present' = Present
  BY <1>2, <1>4, <1>5, TeachesOnly DEF LabelsInv
<1> QED
  BY <1>2, <1>6, TeachesAndEnds

\* Rules and the alias call nothing income.
LEMMA ChangePolicyInv ==
  ASSUME LabelsInv, NEW s \in Session, ChangePolicy(s)
  PROVE  LabelsInv'
<1> USE DEF LabelsInv
<1>1. /\ Begins(s) /\ Committed(s, TRUE) /\ UNCHANGED <<row, job, view, sound, hand>>
      /\ pc' = [pc EXCEPT ![s] = "recategorize"]
  BY DEF ChangePolicy, Goto
<1>2. book \in Book /\ \A j \in Ident : book.owner[j] \in OrNone(book.contacts)
  BY DEF Tables
<1>3. PICK b \in Book : Teaches(b) /\ b.contacts = book.contacts /\ b.owner = book.owner
  <2>1. CASE \E r \in Rule : Teaches([book EXCEPT !.rules = IF r \in @ THEN @ \ {r} ELSE @ \cup {r}])
    <3>1. PICK r \in Rule : Teaches([book EXCEPT !.rules = IF r \in @ THEN @ \ {r} ELSE @ \cup {r}])
      BY <2>1
    <3> DEFINE rules == IF r \in book.rules THEN book.rules \ {r} ELSE book.rules \cup {r}
               d == [book EXCEPT !.rules = rules]
    <3>2. Teaches(d) /\ rules \in SUBSET Rule
      BY <1>2, <3>1 DEF Book
    <3> HIDE DEF rules
    <3>3. d \in Book /\ d.contacts = book.contacts /\ d.owner = book.owner
      BY <1>2, <3>2 DEF Book
    <3> QED
      BY <3>2, <3>3
  <2>2. CASE Teaches([book EXCEPT !.alias = ~@])
    <3> DEFINE alias == ~book.alias
               d == [book EXCEPT !.alias = alias]
    <3>1. Teaches(d) /\ alias \in BOOLEAN
      BY <2>2
    <3> HIDE DEF alias
    <3>2. d \in Book /\ d.contacts = book.contacts /\ d.owner = book.owner
      BY <1>2, <3>1 DEF Book
    <3> QED
      BY <3>1, <3>2
  <2> QED
    BY <2>1, <2>2 DEF ChangePolicy
<1>4. Tables' /\ told \subseteq told' /\ Present' = Present
  BY <1>1, <1>2, <1>3, TeachesOnly
<1>5. Shape'
  BY <1>1, CommittedType, BeginsType DEF Shape
<1>6. Request(s)'
  <2>1. pc'[s] = "recategorize" /\ DOMAIN view[s] = {}
    BY <1>1 DEF Shape, Begins, Request
  <2> QED
    BY <1>1, <1>4, <2>1 DEF Request, Resting
<1> QED
  BY <1>1, <1>4, <1>5, <1>6, StepOf, CommittedType DEF Shape

\* A re-categorisation asked for.
LEMMA RecategorizeInv ==
  ASSUME LabelsInv, NEW s \in Session, Recategorize(s)
  PROVE  LabelsInv'
<1> USE DEF LabelsInv
<1>1. /\ Begins(s) /\ UNCHANGED <<row, book, view, fresh, sound, hand, told>>
      /\ pc' = [pc EXCEPT ![s] = "recategorize"]
  BY DEF Recategorize, Goto
<1>2. PICK force \in BOOLEAN : job' = [job EXCEPT ![s] = [NoJob EXCEPT !.force = force]]
  BY DEF Recategorize
<1>3. Tables' /\ Shape'
  BY <1>1, <1>2, BeginsType DEF Tables, Shape, Present, ManualKept, IncomeOnlyIfTold
<1>4. Request(s)'
  <2>1. /\ pc'[s] = "recategorize" /\ DOMAIN view[s] = {}
        /\ job'[s] = [idents |-> {}, contact |-> None, book |-> NewBook, rows |-> {}, held |-> {},
                      names |-> FALSE, force |-> force]
    BY <1>1, <1>2 DEF Shape, Begins, Request, NoJob
  <2>2. job'[s] \in Job /\ ToldBy(job'[s].book) = {}
    BY <2>1, NewBookType DEF Job, OrNone
  <2> QED
    BY <1>1, <2>1, <2>2 DEF Request, Resting
<1> QED
  BY <1>1, <1>2, <1>3, <1>4, StepOf DEF Shape, Present

------------------------------------------------------------------------------
(* Edits of rows, and imports.                                               *)

\* An edit: the rows are what the user made them, and he remembers what he set by
\* hand and called income.
LEMMA EditInv ==
  ASSUME LabelsInv, NEW s \in Session, Begins(s), NEW D \in SUBSET Present,
         NEW edited \in [D -> Row], Edit(s, edited),
         \A t \in D : edited[t].contact \in OrNone(book.contacts),
         told \subseteq told', told' \subseteq Tx,
         \A t \in D : edited[t].income = "yes" => t \in told',
         hand' \in [Tx -> OrNone(Category) \cup {Never}],
         \A t \in Tx \ D : hand'[t] = hand[t],
         \A t \in D : sound /\ hand'[t] # Never
                        => edited[t].by = "manual" /\ edited[t].category = hand'[t]
  PROVE  LabelsInv'
<1> USE DEF LabelsInv
<1>1. /\ row' = [t \in Present |-> IF t \in D THEN edited[t] ELSE row[t]]
      /\ Ends(s, "idle") /\ Committed(s, TRUE) /\ UNCHANGED <<book, sound>>
  BY DEF Edit
<1>2. Present' = Present /\ row' \in [Present -> Row]
      /\ \A t \in Present : row'[t] = IF t \in D THEN edited[t] ELSE row[t]
  BY <1>1 DEF Present, Tables
<1>3. ManualKept'
  BY <1>1, <1>2 DEF Tables, ManualKept
<1>4. IncomeOnlyIfTold'
  BY <1>2 DEF Tables, IncomeOnlyIfTold
<1>5. \A t \in Present' : row'[t].contact \in OrNone(book'.contacts)
  BY <1>1, <1>2 DEF Tables
<1>6. Tables'
  BY <1>1, <1>2, <1>3, <1>4, <1>5 DEF Tables
<1> QED
  BY <1>1, <1>2, <1>6, TeachesAndEnds

\* The edits: a category set by hand.
LEMMA SetCategoryInv ==
  ASSUME LabelsInv, NEW s \in Session, SetCategory(s)
  PROVE  LabelsInv'
<1>1. PICK ts \in (SUBSET (Present \cap Edited)) \ {{}}, v \in OrNone(Chosen) :
       /\ Edit(s, [t \in ts |-> [row[t] EXCEPT !.category = v, !.by = "manual", !.review = FALSE]])
       /\ hand' = [t \in Tx |-> IF t \in ts THEN v ELSE hand[t]]
  BY DEF SetCategory
<1>2. Begins(s) /\ told' = told
  BY DEF SetCategory
<1> DEFINE edited == [t \in ts |-> [row[t] EXCEPT !.category = v, !.by = "manual", !.review = FALSE]]
<1>3. v \in OrNone(Category)
  BY LabelsAssumption DEF OrNone
<1>4. \A t \in ts : /\ edited[t] \in Row /\ edited[t].by = "manual" /\ edited[t].category = v
                    /\ edited[t].contact = row[t].contact /\ edited[t].income = row[t].income
                    /\ t \in Present
  <2>1. SUFFICES ASSUME NEW t \in ts
                 PROVE  /\ edited[t] \in Row /\ edited[t].by = "manual" /\ edited[t].category = v
                        /\ edited[t].contact = row[t].contact /\ edited[t].income = row[t].income
                        /\ t \in Present
    OBVIOUS
  <2>2. t \in Present /\ row[t] \in Row
    BY DEF LabelsInv, Tables
  <2>3. edited[t] = [row[t] EXCEPT !.category = v, !.by = "manual", !.review = FALSE]
    OBVIOUS
  <2>4. v \in OrNone(Category \cup {Uncategorized, OwnTransfer})
    BY <1>3 DEF OrNone
  <2> HIDE DEF edited
  <2> QED
    BY <2>2, <2>3, <2>4 DEF Row
<1>5. edited \in [ts -> Row] /\ ts \in SUBSET Present
  BY <1>4
<1> HIDE DEF edited
<1>6. Edit(s, edited)
  BY <1>1 DEF edited
<1>7. /\ \A t \in ts : edited[t].contact \in OrNone(book.contacts)
      /\ \A t \in ts : edited[t].income = "yes" => t \in told'
      /\ told \subseteq told' /\ told' \subseteq Tx
  BY <1>2, <1>4 DEF LabelsInv, Tables, IncomeOnlyIfTold
<1>8. /\ hand' \in [Tx -> OrNone(Category) \cup {Never}]
      /\ \A t \in Tx \ ts : hand'[t] = hand[t]
      /\ \A t \in ts : hand'[t] = v
  BY <1>1, <1>3, <1>4 DEF LabelsInv, Tables
<1> QED
  BY <1>2, <1>4, <1>5, <1>6, <1>7, <1>8, EditInv

\* A contact, the mark and the flag are not what the user sets by hand.
LEMMA SetOtherInv ==
  ASSUME LabelsInv, NEW s \in Session, SetOther(s)
  PROVE  LabelsInv'
<1>1. Begins(s) /\ UNCHANGED <<hand, told>>
  BY DEF SetOther
<1>2. ASSUME NEW t \in Present, NEW new \in Row, Edit(s, [r \in {t} |-> new]),
             new.contact \in OrNone(book.contacts), new.income = row[t].income,
             new.by = row[t].by, new.category = row[t].category
      PROVE  LabelsInv'
  <2> DEFINE edited == [r \in {t} |-> new]
  <2>1. edited \in [{t} -> Row] /\ edited[t] = new /\ {t} \in SUBSET Present
    OBVIOUS
  <2> HIDE DEF edited
  <2>2. Edit(s, edited)
    BY <1>2 DEF edited
  <2> QED
    BY <1>1, <1>2, <2>1, <2>2, EditInv DEF LabelsInv, Tables, IncomeOnlyIfTold, ManualKept
<1>3. PICK t \in Present :
       \/ \E c \in OrNone(book.contacts) : Edit(s, [r \in {t} |-> [row[r] EXCEPT !.contact = c]])
       \/ Edit(s, [r \in {t} |-> [row[r] EXCEPT !.review = ~@]])
       \/ Edit(s, [r \in {t} |-> [row[r] EXCEPT !.own = ~@]])
  BY DEF SetOther
<1>4. row[t] \in Row /\ row[t].contact \in OrNone(book.contacts)
  BY DEF LabelsInv, Tables
<1>5. CASE \E c \in OrNone(book.contacts) : Edit(s, [r \in {t} |-> [row[r] EXCEPT !.contact = c]])
  <2>1. PICK c \in OrNone(book.contacts) : Edit(s, [r \in {t} |-> [row[r] EXCEPT !.contact = c]])
    BY <1>5
  <2> DEFINE new == [row[t] EXCEPT !.contact = c]
  <2>2. [r \in {t} |-> [row[r] EXCEPT !.contact = c]] = [r \in {t} |-> new]
    OBVIOUS
  <2>3. c \in OrNone(Contact)
    BY DEF LabelsInv, Tables, Book, OrNone
  <2>4. /\ new \in Row /\ new.contact = c /\ new.income = row[t].income
        /\ new.by = row[t].by /\ new.category = row[t].category
    BY <1>4, <2>3 DEF Row
  <2> HIDE DEF new
  <2> QED
    BY <1>2, <2>1, <2>2, <2>4
<1>6. CASE Edit(s, [r \in {t} |-> [row[r] EXCEPT !.review = ~@]])
  <2> DEFINE new == [row[t] EXCEPT !.review = ~@]
  <2>1. [r \in {t} |-> [row[r] EXCEPT !.review = ~@]] = [r \in {t} |-> new]
    OBVIOUS
  <2>2. /\ new \in Row /\ new.contact = row[t].contact /\ new.income = row[t].income
        /\ new.by = row[t].by /\ new.category = row[t].category
    BY <1>4 DEF Row
  <2> HIDE DEF new
  <2> QED
    BY <1>2, <1>4, <1>6, <2>1, <2>2
<1>7. CASE Edit(s, [r \in {t} |-> [row[r] EXCEPT !.own = ~@]])
  <2> DEFINE new == [row[t] EXCEPT !.own = ~@]
  <2>1. [r \in {t} |-> [row[r] EXCEPT !.own = ~@]] = [r \in {t} |-> new]
    OBVIOUS
  <2>2. /\ new \in Row /\ new.contact = row[t].contact /\ new.income = row[t].income
        /\ new.by = row[t].by /\ new.category = row[t].category
    BY <1>4 DEF Row
  <2> HIDE DEF new
  <2> QED
    BY <1>2, <1>4, <1>7, <2>1, <2>2
<1> QED
  BY <1>3, <1>5, <1>6, <1>7

\* The review queue emptied.
LEMMA DismissAllInv ==
  ASSUME LabelsInv, NEW s \in Session, DismissAll(s)
  PROVE  LabelsInv'
<1> DEFINE D == {r \in Present : row[r].review /\ ~row[r].own}
           edited == [t \in D |-> [row[t] EXCEPT !.review = FALSE]]
<1>1. Begins(s) /\ UNCHANGED <<hand, told>> /\ Edit(s, edited)
  BY DEF DismissAll
<1>2. \A t \in D : /\ edited[t] \in Row /\ edited[t].by = row[t].by
                   /\ edited[t].category = row[t].category /\ edited[t].contact = row[t].contact
                   /\ edited[t].income = row[t].income
  BY DEF LabelsInv, Tables, Row
<1>3. edited \in [D -> Row] /\ D \in SUBSET Present
  BY <1>2
<1> HIDE DEF edited, D
<1>4. /\ \A t \in D : edited[t].contact \in OrNone(book.contacts)
      /\ told \subseteq told' /\ told' \subseteq Tx
      /\ \A t \in D : edited[t].income = "yes" => t \in told'
      /\ hand' \in [Tx -> OrNone(Category) \cup {Never}]
      /\ \A t \in Tx \ D : hand'[t] = hand[t]
      /\ \A t \in D : sound /\ hand'[t] # Never
                        => edited[t].by = "manual" /\ edited[t].category = hand'[t]
  BY <1>1, <1>2, <1>3 DEF LabelsInv, Tables, IncomeOnlyIfTold, ManualKept
<1> QED
  BY <1>1, <1>3, <1>4, EditInv

\* Whatever the user calls income he has told so.
LEMMA DecideIncomeInv ==
  ASSUME LabelsInv, NEW s \in Session, DecideIncome(s)
  PROVE  LabelsInv'
<1>1. PICK answer \in {"yes", "no"},
        ts \in {{t} : t \in Present \cap Edited}
               \cup {{t \in Present \cap Deposit : i \in IdentsOf(t)} : i \in Ident} :
       /\ Edit(s, [t \in ts |-> [row[t] EXCEPT !.income = answer]])
       /\ told' = IF answer = "yes" THEN told \cup ts ELSE told
  BY DEF DecideIncome
<1>2. Begins(s) /\ hand' = hand /\ ts \in SUBSET Present
  BY DEF DecideIncome
<1> DEFINE edited == [t \in ts |-> [row[t] EXCEPT !.income = answer]]
<1>3. \A t \in ts : /\ edited[t] \in Row /\ edited[t].by = row[t].by
                    /\ edited[t].category = row[t].category /\ edited[t].contact = row[t].contact
                    /\ edited[t].income = answer
  BY <1>2 DEF LabelsInv, Tables, Row
<1>4. edited \in [ts -> Row]
  BY <1>3
<1> HIDE DEF edited
<1>5. Edit(s, edited)
  BY <1>1 DEF edited
<1>6. told \subseteq told' /\ told' \subseteq Tx /\ \A t \in ts : edited[t].income = "yes" => t \in told'
  BY <1>1, <1>2, <1>3 DEF LabelsInv, Tables
<1>7. /\ \A t \in ts : edited[t].contact \in OrNone(book.contacts)
      /\ hand' \in [Tx -> OrNone(Category) \cup {Never}]
      /\ \A t \in Tx \ ts : hand'[t] = hand[t]
      /\ \A t \in ts : sound /\ hand'[t] # Never
                         => edited[t].by = "manual" /\ edited[t].category = hand'[t]
  BY <1>2, <1>3 DEF LabelsInv, Tables, ManualKept
<1> QED
  BY <1>2, <1>4, <1>5, <1>6, <1>7, EditInv

\* The book an import works from calls the same rows income, with the alias or not.
LEMMA BeginImportInv ==
  ASSUME LabelsInv, NEW s \in Session, BeginImport(s)
  PROVE  LabelsInv'
<1> USE DEF LabelsInv
<1>1. /\ Begins(s) /\ UNCHANGED <<row, book, view, sound, hand, told>>
      /\ pc' = [pc EXCEPT ![s] = "import"] /\ fresh' = [fresh EXCEPT ![s] = TRUE]
  BY DEF BeginImport, Goto
<1>2. PICK file \in Statement :
       job' = [job EXCEPT ![s] =
         [NoJob EXCEPT !.rows = file, !.names = file \in Naming /\ ~book.alias,
                       !.book = [book EXCEPT !.alias = @ \/ file \in Naming]]]
  BY DEF BeginImport
<1> DEFINE alias == book.alias \/ file \in Naming
           names == file \in Naming /\ ~book.alias
           b == [book EXCEPT !.alias = alias]
<1>3. Tables' /\ Shape'
  BY <1>1, <1>2, BeginsType DEF Tables, Shape, Present, ManualKept, IncomeOnlyIfTold
<1>4. Request(s)'
  <2>1. /\ pc'[s] = "import" /\ DOMAIN view[s] = {}
        /\ job'[s] = [NoJob EXCEPT !.rows = file, !.names = names, !.book = b]
    BY <1>1, <1>2 DEF Shape, Begins, Request
  <2>2. book \in Book /\ alias \in BOOLEAN /\ names \in BOOLEAN /\ file \in SUBSET Tx
    BY LabelsAssumption DEF Tables
  <2> HIDE DEF alias, names
  <2>3. b \in Book /\ b.contacts = book.contacts /\ b.owner = book.owner /\ b.earn = book.earn
    BY <2>2 DEF Book
  <2> HIDE DEF b
  <2>4. job'[s] = [idents |-> {}, contact |-> None, book |-> b, rows |-> file, held |-> {},
                   names |-> names, force |-> FALSE]
    BY <2>1 DEF NoJob
  <2>5. job'[s] \in Job /\ job'[s].book = b
    BY <2>2, <2>3, <2>4 DEF Job, OrNone
  <2>6. ToldBy(b) \subseteq told
    BY <2>3, ToldSame DEF Tables
  <2> QED
    BY <1>1, <2>1, <2>5, <2>6 DEF Request, Resting
<1> QED
  BY <1>1, <1>2, <1>3, <1>4, StepOf DEF Shape, Present

------------------------------------------------------------------------------
(* What the threads then do.                                                 *)

\* Tables nobody writes stay as they are.
LEMMA TablesStay ==
  ASSUME Tables, UNCHANGED <<row, book, sound, hand, told>>
  PROVE  Tables' /\ Present' = Present
BY DEF Tables, Present, ManualKept, IncomeOnlyIfTold

\* A request that ends keeps the invariant if it keeps the tables.
LEMMA EndsInv ==
  ASSUME LabelsInv, NEW s \in Session, NEW how \in {"idle", "failed"}, Ends(s, how),
         \/ \E now \in BOOLEAN : Committed(s, now)
         \/ UNCHANGED <<row, fresh>>,
         sound' \in BOOLEAN, requests' = requests,
         Tables', told \subseteq told', Present \subseteq Present'
  PROVE  LabelsInv'
<1>1. /\ fresh' \in [Session -> BOOLEAN]
      /\ \A r \in Session \ {s} : fresh'[r] => Resting(r) \/ (fresh[r] /\ row' = row)
  BY CommittedType DEF LabelsInv, Shape
<1>2. Shape'
  BY <1>1, Over DEF LabelsInv, Shape
<1> QED
  BY <1>1, <1>2, Over, StepOf DEF LabelsInv

\* The rows an import brings are new: nobody has set them by hand, and if they are
\* income then by what the user said of their contact.
LEMMA CommitImportInv ==
  ASSUME LabelsInv, NEW s \in Session, CommitImport(s)
  PROVE  LabelsInv'
<1> USE DEF LabelsInv
<1> DEFINE new == [t \in job[s].rows \ Present |-> Apply(t, NewRow, job[s].book, FALSE)]
<1>1. UNCHANGED <<sound, hand, told, requests>>
  BY DEF CommitImport
<1>2. CASE /\ ContactsExist(new, DOMAIN new)
           /\ row' = [t \in Present \cup DOMAIN new |-> IF t \in Present THEN row[t] ELSE new[t]]
           /\ book' = [book EXCEPT !.alias = @ \/ job[s].names]
           /\ Ends(s, "idle") /\ Committed(s, TRUE)
  <2>1. job[s] \in Job /\ ToldBy(job[s].book) \subseteq told
    BY DEF Request
  <2>2. DOMAIN new = job[s].rows \ Present /\ job[s].rows \subseteq Tx /\ job[s].book \in Book
    BY <2>1 DEF Job
  <2>3. \A t \in DOMAIN new : /\ new[t] \in Row /\ new[t].contact \in OrNone(book.contacts)
                              /\ new[t].income = "yes" => t \in told
    <3>1. SUFFICES ASSUME NEW t \in DOMAIN new
                   PROVE  /\ new[t] \in Row /\ new[t].contact \in OrNone(book.contacts)
                          /\ new[t].income = "yes" => t \in told
      OBVIOUS
    <3>2. new[t] = Apply(t, NewRow, job[s].book, FALSE) /\ t \in Tx
      BY <2>2
    <3>3. new[t].contact \in OrNone(book.contacts)
      BY <1>2 DEF ContactsExist
    <3>4. NewRow \in Row /\ NewRow.income = "open"
      BY NewBookType DEF NewRow
    <3> HIDE DEF new
    <3> QED
      BY <2>1, <2>2, <3>2, <3>3, <3>4, ApplyType
  <2>4. /\ book' \in Book /\ book'.contacts = book.contacts /\ book'.owner = book.owner
        /\ book'.earn = book.earn
    <3> DEFINE alias == book.alias \/ job[s].names
    <3>1. book \in Book /\ alias \in BOOLEAN /\ book' = [book EXCEPT !.alias = alias]
      BY <1>2 DEF Tables
    <3> HIDE DEF alias
    <3> QED
      BY <3>1 DEF Book
  <2>5. ToldBy(book') = ToldBy(book)
    BY <2>4, ToldSame
  <2> HIDE DEF new
  <2>6. /\ Present' = Present \cup DOMAIN new
        /\ \A t \in Present' : row'[t] = IF t \in Present THEN row[t] ELSE new[t]
    BY <1>2 DEF Present
  <2>7. \A t \in Present' : /\ t \in Tx /\ row'[t] \in Row
                            /\ row'[t].contact \in OrNone(book'.contacts)
                            /\ row'[t].income = "yes" => t \in told
    BY <2>2, <2>3, <2>4, <2>6 DEF Tables, IncomeOnlyIfTold
  <2>8. row' \in [Present' -> Row]
    BY <1>2, <2>6, <2>7
  <2>9. ManualKept'
    BY <1>1, <2>2, <2>6 DEF Tables, ManualKept
  <2>10. Tables'
    BY <1>1, <2>4, <2>5, <2>6, <2>7, <2>8, <2>9 DEF Tables, IncomeOnlyIfTold
  <2> QED
    BY <1>1, <1>2, <2>6, <2>10, EndsInv DEF Shape
<1>3. CASE Ends(s, "failed") /\ UNCHANGED <<row, book, fresh>>
  BY <1>1, <1>3, TablesStay, EndsInv DEF Shape
<1> QED
  BY <1>2, <1>3 DEF CommitImport

\* The identifiers of a contact read after its commit.
LEMMA ReadIdentifiersInv ==
  ASSUME LabelsInv, NEW s \in Session, ReadIdentifiers(s)
  PROVE  LabelsInv'
<1> USE DEF LabelsInv
<1>1. /\ pc[s] = "identifiers" /\ pc' = [pc EXCEPT ![s] = "match"]
      /\ job' = [job EXCEPT ![s].idents = {i \in Ident : book.owner[i] = job[s].contact}]
      /\ UNCHANGED <<row, book, view, fresh, sound, hand, told, requests>>
  BY DEF ReadIdentifiers, Goto, history
<1>2. Tables' /\ Present' = Present
  BY <1>1, TablesStay
<1>3. Shape'
  BY <1>1 DEF Shape
<1>4. Request(s)'
  <2> DEFINE idents == {i \in Ident : book.owner[i] = job[s].contact}
  <2>1. pc'[s] = "match" /\ job'[s] = [job[s] EXCEPT !.idents = idents] /\ job[s] \in Job
    BY <1>1 DEF Shape, Request
  <2>2. idents \in SUBSET Ident
    OBVIOUS
  <2> HIDE DEF idents
  <2>3. /\ job'[s] \in Job /\ job'[s].contact = job[s].contact /\ job'[s].book = job[s].book
        /\ job'[s].held = job[s].held
    BY <2>1, <2>2 DEF Job
  <2> QED
    BY <1>1, <1>2, <2>1, <2>3 DEF Request, Resting
<1> QED
  BY <1>1, <1>2, <1>3, <1>4, StepOf DEF Shape

\* The last identifier is done.
LEMMA AllMatchedInv ==
  ASSUME LabelsInv, NEW s \in Session, AllMatched(s)
  PROVE  LabelsInv'
<1>1. Ends(s, "idle") /\ UNCHANGED <<row, book, fresh, sound, hand, told, requests>>
  BY DEF AllMatched, history
<1> QED
  BY <1>1, TablesStay, EndsInv DEF LabelsInv, Shape

\* The rows a session loads it has as they are, but for those it held on to.
LEMMA LoadMatchingInv ==
  ASSUME LabelsInv, NEW s \in Session, LoadMatching(s)
  PROVE  LabelsInv'
<1> USE DEF LabelsInv
<1>1. /\ pc[s] = "match" /\ pc' = [pc EXCEPT ![s] = "label"]
      /\ fresh' = [fresh EXCEPT ![s] = @ \/ job[s].held = {}]
      /\ UNCHANGED <<row, book, sound, hand, told, requests>>
  BY DEF LoadMatching, Goto
<1>2. PICK i \in job[s].idents :
       /\ job' = [job EXCEPT ![s].idents = @ \ {i}, ![s].rows = Matching(i)]
       /\ view' = [view EXCEPT ![s] = [t \in Matching(i) \cup job[s].held |->
            IF t \in job[s].held THEN view[s][t] ELSE row[t]]]
  BY DEF LoadMatching
<1> DEFINE rows == Matching(i)
           held == job[s].held
           idents == job[s].idents \ {i}
           now == fresh[s] \/ held = {}
<1>3. /\ job[s] \in Job /\ held \subseteq DOMAIN view[s] /\ job[s].contact \in Contact
      /\ DOMAIN view[s] \subseteq Present
  BY <1>1 DEF Request
<1>4. rows \in SUBSET Present /\ Present \subseteq Tx /\ idents \in SUBSET Ident
      /\ held \in SUBSET Present
  BY <1>3 DEF Matching, Tables, Job
<1>5. Tables' /\ Present' = Present
  BY <1>1, TablesStay
<1>6. fresh' = [fresh EXCEPT ![s] = now] /\ now \in BOOLEAN /\ fresh'[s] = now
      /\ fresh' \in [Session -> BOOLEAN]
  <2>1. fresh' = [fresh EXCEPT ![s] = now]
    BY <1>1
  <2>2. now \in BOOLEAN
    BY DEF Shape
  <2> HIDE DEF now
  <2> QED
    BY <2>1, <2>2 DEF Shape
<1>7. job'[s] = [job[s] EXCEPT !.idents = idents, !.rows = rows]
      /\ view'[s] = [t \in rows \cup held |-> IF t \in held THEN view[s][t] ELSE row[t]]
      /\ pc'[s] = "label"
  BY <1>1, <1>2, <1>3 DEF Shape, Job
<1>8. Shape'
  BY <1>1, <1>2, <1>6 DEF Shape
<1> HIDE DEF rows, idents
<1>9. Request(s)'
  <2>1. /\ job'[s] \in Job /\ job'[s].contact = job[s].contact /\ job'[s].book = job[s].book
        /\ job'[s].held = held /\ job'[s].rows = rows
    BY <1>3, <1>4, <1>7 DEF Job
  <2>2. DOMAIN view'[s] = rows \cup held
        /\ \A t \in rows \cup held : view'[s][t] = IF t \in held THEN view[s][t] ELSE row[t]
    BY <1>7
  <2>3. \A t \in rows \cup held : view'[s][t] \in Row
    BY <1>3, <1>4, <2>2 DEF Request, Tables
  <2>4. view'[s] \in [DOMAIN view'[s] -> Row]
    BY <1>7, <2>2, <2>3
  <2>5. \A t \in DOMAIN view'[s] : view'[s][t].income = "yes" => t \in told'
    BY <1>1, <1>3, <1>4, <2>2 DEF Request, Tables, IncomeOnlyIfTold
  <2>6. fresh'[s] => \A t \in DOMAIN view'[s] : view'[s][t] = row'[t]
    BY <1>1, <1>3, <1>6, <2>2 DEF Request
  <2>7. ToldBy(job'[s].book) \subseteq told'
    BY <1>1, <2>1 DEF Request
  <2> HIDE DEF held, now
  <2> QED
    BY <1>3, <1>4, <1>5, <1>7, <2>1, <2>2, <2>4, <2>5, <2>6, <2>7 DEF Request, Resting
<1> QED
  BY <1>1, <1>2, <1>5, <1>6, <1>8, <1>9, StepOf DEF Shape

\* Rows are written: those loaded before another commit may undo it, and sound
\* tells so; the others become what the session wants.
LEMMA WrittenTables ==
  ASSUME LabelsInv, NEW s \in Session, NEW new \in [DOMAIN view[s] -> Row],
         ~WriteRefused(s, new), row' = Written(s, new), UNCHANGED <<book, told>>,
         sound' = (sound /\ fresh[s]),
         \A t \in DOMAIN view[s] :
           new[t].income = "yes" => view[s][t].income = "yes" \/ t \in ToldBy(job[s].book),
         hand' \in [Tx -> OrNone(Category) \cup {Never}],
         \A t \in Tx \ DOMAIN view[s] : hand'[t] = hand[t],
         \A t \in DOMAIN view[s] :
           hand'[t] # Never =>
             hand'[t] = hand[t] /\ (view[s][t].by = "manual" => new[t] = view[s][t])
  PROVE  /\ Tables' /\ Present' = Present
         /\ fresh[s] => \A t \in Present :
                          row'[t] = IF t \in DOMAIN view[s] THEN new[t] ELSE row[t]
<1> USE DEF LabelsInv
<1>1. /\ DOMAIN view[s] \subseteq Present /\ Present' = Present /\ Present \subseteq Tx
      /\ \A t \in Present : row'[t] = IF t \in DOMAIN view[s]
                                      THEN Flush(row[t], view[s][t], new[t]) ELSE row[t]
  BY DEF Request, Written, Present, Tables
<1>2. \A t \in DOMAIN view[s] : row[t] \in Row /\ view[s][t] \in Row /\ new[t] \in Row
  BY <1>1 DEF Request, Tables
<1>3. \A t \in DOMAIN view[s] :
        /\ row'[t] \in Row /\ row'[t].income \in {row[t].income, new[t].income}
        /\ row'[t].contact = IF new[t].contact # view[s][t].contact THEN new[t].contact
                                                                    ELSE row[t].contact
        /\ row[t] = view[s][t] => row'[t] = new[t]
  BY <1>1, <1>2, FlushType
<1>4. \A t \in Present : row'[t] \in Row
  BY <1>1, <1>3 DEF Tables
<1>5. row' \in [Present' -> Row]
  BY <1>1, <1>4 DEF Written
<1>6. \A t \in Present : row'[t].contact \in OrNone(book'.contacts)
  BY <1>1, <1>3 DEF Tables, WriteRefused, ContactsExist, MovedRows
<1>7. IncomeOnlyIfTold'
  BY <1>1, <1>3 DEF Tables, Request, IncomeOnlyIfTold
<1>8. fresh[s] => \A t \in Present : row'[t] = IF t \in DOMAIN view[s] THEN new[t] ELSE row[t]
  BY <1>1, <1>3 DEF Request
<1>9. ManualKept'
  <2>1. SUFFICES ASSUME sound, fresh[s], NEW t \in Present, hand'[t] # Never
                 PROVE  row'[t].by = "manual" /\ row'[t].category = hand'[t]
    BY <1>1 DEF ManualKept
  <2>2. hand'[t] = hand[t]
    BY <1>1, <2>1
  <2>3. row[t].by = "manual" /\ row[t].category = hand[t]
    BY <2>1, <2>2 DEF Tables, ManualKept
  <2>4. t \in DOMAIN view[s] => new[t] = row[t]
    BY <2>1, <2>3 DEF Request
  <2> QED
    BY <1>8, <2>1, <2>2, <2>3, <2>4
<1>10. Tables'
  BY <1>1, <1>5, <1>6, <1>7, <1>9 DEF Tables
<1> QED
  BY <1>1, <1>8, <1>10

\* What a label writes: rows, of which manual ones and income stay.
LEMMA LabelledType ==
  ASSUME LabelsInv, NEW s \in Session, pc[s] = "label"
  PROVE  /\ Labelled(s) \in [DOMAIN view[s] -> Row]
         /\ \A t \in DOMAIN view[s] :
              /\ Labelled(s)[t].income = view[s][t].income
              /\ view[s][t].by = "manual" => Labelled(s)[t] = view[s][t]
<1>1. /\ job[s].contact \in Contact /\ job[s].book \in Book /\ DOMAIN view[s] \subseteq Tx
      /\ \A t \in DOMAIN view[s] : view[s][t] \in Row
  BY DEF LabelsInv, Request, Job, Tables
<1>2. \A t \in DOMAIN view[s] :
        LET new == Teach(t, view[s][t], job[s].contact, job[s].book)
        IN  /\ new \in Row /\ new.income = view[s][t].income
            /\ view[s][t].by = "manual" => new = view[s][t]
  BY <1>1, TeachType
<1> QED
  BY <1>1, <1>2 DEF Labelled

\* The loaded rows get the label: only the columns that differ from the view move.
LEMMA WriteMatchingInv ==
  ASSUME LabelsInv, NEW s \in Session, WriteMatching(s)
  PROVE  LabelsInv'
<1> USE DEF LabelsInv
<1>1. pc[s] = "label" /\ UNCHANGED <<book, hand, told, requests>>
  BY DEF WriteMatching
<1>2. CASE /\ ~WriteRefused(s, Labelled(s))
           /\ row' = Written(s, Labelled(s))
           /\ Goto(s, "match")
           /\ job' = [job EXCEPT ![s].rows = {}]
           /\ view' = [view EXCEPT ![s] = [t \in job[s].held |-> Labelled(s)[t]]]
           /\ sound' = (sound /\ fresh[s])
           /\ Committed(s, fresh[s])
  <2> DEFINE new == Labelled(s)
             held == job[s].held
  <2>1. /\ new \in [DOMAIN view[s] -> Row]
        /\ \A t \in DOMAIN view[s] : /\ new[t].income = view[s][t].income
                                     /\ view[s][t].by = "manual" => new[t] = view[s][t]
    BY <1>1, LabelledType
  <2>2. /\ job[s] \in Job /\ job[s].contact \in Contact /\ held \subseteq DOMAIN view[s]
        /\ DOMAIN view[s] \subseteq Present
    BY <1>1 DEF Request
  <2> HIDE DEF new
  <2>3. /\ Tables' /\ Present' = Present
        /\ fresh[s] => \A t \in Present :
                         row'[t] = IF t \in DOMAIN view[s] THEN new[t] ELSE row[t]
    <3>1. ~WriteRefused(s, new) /\ row' = Written(s, new)
      BY <1>2 DEF new
    <3>2. hand' \in [Tx -> OrNone(Category) \cup {Never}] /\ hand' = hand
      BY <1>1 DEF Tables
    <3> QED
      BY <1>1, <1>2, <2>1, <3>1, <3>2, WrittenTables
  <2>4. /\ pc'[s] = "match" /\ job'[s] = [job[s] EXCEPT !.rows = {}]
        /\ view'[s] = [t \in held |-> new[t]]
        /\ fresh' \in [Session -> BOOLEAN] /\ fresh'[s] = fresh[s]
        /\ \A r \in Session \ {s} : fresh'[r] => Resting(r)
        /\ \A r \in Session \ {s} : pc'[r] = pc[r] /\ job'[r] = job[r] /\ view'[r] = view[r]
    BY <1>2, CommittedType DEF Goto, Shape, new
  <2>5. Shape'
    BY <1>1, <1>2, <2>4 DEF Shape, Goto
  <2>6. Request(s)'
    <3>1. /\ job'[s] \in Job /\ job'[s].contact = job[s].contact /\ job'[s].book = job[s].book
          /\ job'[s].held = held
      BY <2>2, <2>4 DEF Job
    <3>2. DOMAIN view'[s] = held /\ \A t \in held : view'[s][t] = new[t]
      BY <2>4
    <3>3. view'[s] \in [held -> Row]
      BY <2>1, <2>2, <2>4
    <3>4. \A t \in held : view'[s][t].income = "yes" => t \in told'
      BY <1>1, <2>1, <2>2, <3>2 DEF Request
    <3>5. fresh'[s] => \A t \in held : view'[s][t] = row'[t]
      BY <2>2, <2>3, <2>4, <3>2
    <3>6. ToldBy(job'[s].book) \subseteq told'
      BY <1>1, <3>1 DEF Request
    <3> HIDE DEF held
    <3> QED
      BY <2>2, <2>3, <2>4, <3>1, <3>2, <3>3, <3>4, <3>5, <3>6 DEF Request, Resting
  <2> QED
    BY <1>1, <2>3, <2>4, <2>5, <2>6, StepOf
<1>3. CASE Ends(s, "failed") /\ UNCHANGED <<row, sound, fresh>>
  BY <1>1, <1>3, TablesStay, EndsInv DEF Shape
<1> QED
  BY <1>2, <1>3 DEF WriteMatching

\* A re-categorisation loads every row and the book.
LEMMA LoadAllInv ==
  ASSUME LabelsInv, NEW s \in Session, LoadAll(s)
  PROVE  LabelsInv'
<1> USE DEF LabelsInv
<1>1. /\ pc[s] = "recategorize" /\ pc' = [pc EXCEPT ![s] = "rewrite"]
      /\ job' = [job EXCEPT ![s].book = book] /\ view' = [view EXCEPT ![s] = row]
      /\ fresh' = [fresh EXCEPT ![s] = TRUE]
      /\ UNCHANGED <<row, book, sound, hand, told, requests>>
  BY DEF LoadAll, Goto
<1>2. Tables' /\ Present' = Present
  BY <1>1, TablesStay
<1>3. Shape'
  BY <1>1 DEF Shape
<1>4. Request(s)'
  <2>1. /\ pc'[s] = "rewrite" /\ view'[s] = row /\ job'[s] = [job[s] EXCEPT !.book = book]
        /\ job[s] \in Job /\ book \in Book
    BY <1>1 DEF Shape, Request, Tables
  <2>2. job'[s] \in Job /\ job'[s].book = book
    BY <2>1 DEF Job
  <2>3. DOMAIN row = Present /\ row \in [Present -> Row]
    BY DEF Present, Tables
  <2>4. \A t \in Present : row[t].income = "yes" => t \in told
    BY DEF Tables, IncomeOnlyIfTold
  <2>5. ToldBy(book) \subseteq told
    BY DEF Tables
  <2> QED
    BY <1>1, <1>2, <2>1, <2>2, <2>3, <2>4, <2>5 DEF Request, Resting
<1> QED
  BY <1>1, <1>2, <1>3, <1>4, StepOf DEF Shape

\* What a re-categorisation writes: rows, of which manual ones stay unless forced.
LEMMA RedoneType ==
  ASSUME LabelsInv, NEW s \in Session
  PROVE  /\ Redone(s) \in [DOMAIN view[s] -> Row]
         /\ \A t \in DOMAIN view[s] :
              /\ Redone(s)[t].income = "yes" =>
                   view[s][t].income = "yes" \/ t \in ToldBy(job[s].book)
              /\ view[s][t].by = "manual" /\ ~job[s].force => Redone(s)[t] = view[s][t]
<1>1. /\ job[s].book \in Book /\ job[s].force \in BOOLEAN /\ DOMAIN view[s] \subseteq Tx
      /\ \A t \in DOMAIN view[s] : view[s][t] \in Row
  BY DEF LabelsInv, Request, Job, Tables
<1>2. \A t \in DOMAIN view[s] :
        LET new == Apply(t, view[s][t], job[s].book, job[s].force)
        IN  /\ new \in Row
            /\ new.income = "yes" => view[s][t].income = "yes" \/ t \in ToldBy(job[s].book)
            /\ view[s][t].by = "manual" /\ ~job[s].force => new = view[s][t]
  BY <1>1, ApplyType
<1> QED
  BY <1>1, <1>2 DEF Redone

\* And writes back what the pipeline changed.
LEMMA WriteAllInv ==
  ASSUME LabelsInv, NEW s \in Session, WriteAll(s)
  PROVE  LabelsInv'
<1> USE DEF LabelsInv
<1>1. UNCHANGED <<book, told, requests>>
  BY DEF WriteAll
<1>2. CASE /\ ~WriteRefused(s, Redone(s))
           /\ row' = Written(s, Redone(s))
           /\ hand' = IF job[s].force
                      THEN [t \in Tx |-> IF t \in DOMAIN view[s] THEN Never ELSE hand[t]]
                      ELSE hand
           /\ Ends(s, "idle")
           /\ sound' = (sound /\ fresh[s])
           /\ Committed(s, fresh[s])
  <2> DEFINE new == Redone(s)
  <2>1. /\ new \in [DOMAIN view[s] -> Row]
        /\ \A t \in DOMAIN view[s] :
             /\ new[t].income = "yes" => view[s][t].income = "yes" \/ t \in ToldBy(job[s].book)
             /\ view[s][t].by = "manual" /\ ~job[s].force => new[t] = view[s][t]
    BY RedoneType
  <2>2. ~WriteRefused(s, new) /\ row' = Written(s, new) /\ DOMAIN view[s] \subseteq Tx
    BY <1>2 DEF Request, Tables
  <2> HIDE DEF new
  <2>3. /\ hand' \in [Tx -> OrNone(Category) \cup {Never}]
        /\ \A t \in Tx \ DOMAIN view[s] : hand'[t] = hand[t]
        /\ \A t \in DOMAIN view[s] :
             hand'[t] # Never => hand'[t] = hand[t] /\ (view[s][t].by = "manual" => new[t] = view[s][t])
    <3>1. CASE job[s].force
      BY <1>2, <2>2, <3>1 DEF Tables
    <3>2. CASE ~job[s].force
      BY <1>2, <2>1, <3>2 DEF Tables
    <3> QED
      BY <3>1, <3>2
  <2>4. Tables' /\ Present' = Present
    BY <1>1, <1>2, <2>1, <2>2, <2>3, WrittenTables
  <2>5. fresh[s] \in BOOLEAN /\ sound' \in BOOLEAN
    BY <1>2 DEF Shape
  <2> QED
    BY <1>1, <1>2, <2>4, <2>5, EndsInv
<1>3. CASE Ends(s, "failed") /\ UNCHANGED <<row, hand, sound, fresh>>
  BY <1>1, <1>3, TablesStay, EndsInv DEF Shape
<1> QED
  BY <1>2, <1>3 DEF WriteAll

\* A request dies: its session forgets, the tables stay.
LEMMA FailInv ==
  ASSUME LabelsInv, NEW s \in Session, Fail(s)
  PROVE  LabelsInv'
<1>1. Ends(s, "failed") /\ UNCHANGED <<row, book, fresh, sound, hand, told, requests>>
  BY DEF Fail, history
<1> QED
  BY <1>1, TablesStay, EndsInv DEF LabelsInv, Shape

------------------------------------------------------------------------------
(* The invariant, and what follows from it.                                  *)

\* The first state: rows imported before anything was taught.
LEMMA InitInv ==
  ASSUME Init
  PROVE  LabelsInv
<1>1. \A t \in Imported : t \in Tx /\ row[t] = Apply(t, NewRow, NewBook, FALSE)
  BY LabelsAssumption DEF Init
<1>2. \A t \in Imported : row[t] \in Row /\ row[t].income # "yes"
  <2>1. NewRow \in Row /\ NewBook \in Book /\ ToldBy(NewBook) = {} /\ NewRow.income = "open"
    BY NewBookType DEF NewRow
  <2>2. ASSUME NEW t \in Imported PROVE row[t] \in Row /\ row[t].income # "yes"
    BY <1>1, <2>1, ApplyType
  <2> QED
    BY <2>2
<1>3. \A t \in Tx : MatchContact(t, NewBook) = None
  BY CategoryAssumption DEF MatchContact, KnownPlaces, NewBook
<1>4. \A t \in Imported : row[t].contact = None
  <2>1. SUFFICES ASSUME NEW t \in Imported PROVE row[t].contact = None
    OBVIOUS
  <2>2. row[t] = Pipeline(t, NewRow, NewBook)
    BY <1>1 DEF Apply, NewRow
  <2> QED
    BY <1>1, <1>3, <2>2 DEF Pipeline, AsOwn, AsContacts, AsRule, AsUnknown, NewRow
<1>5. Present = Imported /\ row \in [Present -> Row] /\ Present \subseteq Tx
  BY <1>1, <1>2 DEF Init, Present
<1>6. \A i \in Ident : book.owner[i] = None
  BY DEF Init, NewBook
<1>7. Tables
  BY <1>2, <1>4, <1>5, <1>6, NewBookType
     DEF Init, Tables, OrNone, ManualKept, IncomeOnlyIfTold
<1>8. Shape
  BY LabelsAssumption DEF Init, Shape
<1>9. ASSUME NEW s \in Session PROVE Request(s)
  <2>1. job[s] = NoJob /\ view[s] = Empty /\ pc[s] = "idle" /\ told = {}
    BY DEF Init
  <2>2. NoJob \in Job /\ NoJob.book = NewBook
    BY NewBookType DEF NoJob, Job, OrNone
  <2>3. DOMAIN Empty = {} /\ Empty \in [{} -> Row]
    BY DEF Empty
  <2> QED
    BY <2>1, <2>2, <2>3, NewBookType DEF Request, Resting
<1> QED
  BY <1>7, <1>8, <1>9 DEF LabelsInv

\* Every step keeps the invariant.
LEMMA StepInv ==
  ASSUME LabelsInv, [Next]_vars
  PROVE  LabelsInv'
<1>1. CASE UNCHANGED vars
  <2>1. UNCHANGED <<row, book, pc, job, view, fresh, sound, hand, told, requests>>
    BY <1>1 DEF vars, session, history
  <2>2. Tables' /\ Present' = Present
    BY <2>1, TablesStay DEF LabelsInv
  <2>3. Shape'
    BY <2>1 DEF LabelsInv, Shape
  <2>4. \A s \in Session : Request(s)'
    BY <2>1, <2>2, PassedOver DEF LabelsInv
  <2> QED
    BY <2>2, <2>3, <2>4 DEF LabelsInv
<1>2. ASSUME NEW s \in Session, User(s) PROVE LabelsInv'
  BY <1>2, LabelGroupInv, AddIdentifierInv, CreateFromTransactionInv, CreateContactInv,
     UpdateContactInv, DeleteContactInv, DeleteIdentifierInv, ChangePolicyInv, RecategorizeInv,
     SetCategoryInv, SetOtherInv, DismissAllInv, DecideIncomeInv, BeginImportInv DEF User
<1>3. ASSUME NEW s \in Session, Server(s) PROVE LabelsInv'
  BY <1>3, CommitImportInv, ReadIdentifiersInv, AllMatchedInv, LoadMatchingInv, WriteMatchingInv,
     LoadAllInv, WriteAllInv DEF Server
<1> QED
  BY <1>1, <1>2, <1>3, FailInv DEF Next

\* The inductive invariant holds in every reachable state.
THEOREM LabelsInvariant == Spec => []LabelsInv
<1>1. Init => LabelsInv
  BY InitInv
<1>2. LabelsInv /\ [Next]_vars => LabelsInv'
  BY StepInv
<1> QED
  BY <1>1, <1>2, PTL DEF Spec

\* The columns of the rows, the book and the requests keep their types, and no row
\* or identifier refers to a contact that is gone.
THEOREM Types == Spec => []TypeOK
<1>1. ASSUME LabelsInv PROVE TypeOK
  BY <1>1 DEF LabelsInv, Tables, Shape, Request, Job, TypeOK
<1> QED
  BY <1>1, LabelsInvariant, PTL

\* ManualKept: labels, imports and re-categorisations leave a category set by hand,
\* as long as no request wrote a row from values another one had changed.
THEOREM ManualIsKept == Spec => []ManualKept
<1>1. LabelsInv => ManualKept
  BY DEF LabelsInv, Tables
<1> QED
  BY <1>1, LabelsInvariant, PTL

\* IncomeOnlyIfTold: whatever overlaps and fails, no row is income that the user never
\* called so, himself or by giving its contact a receiving category.
THEOREM IncomeIsTold == Spec => []IncomeOnlyIfTold
<1>1. LabelsInv => IncomeOnlyIfTold
  BY DEF LabelsInv, Tables
<1> QED
  BY <1>1, LabelsInvariant, PTL

------------------------------------------------------------------------------
(* Labelling and re-categorising agree with importing.                       *)

\* A label makes of a row what the pipeline does where its contact has a category,
\* in all columns but the mark and the answer, which the pipeline sets and it leaves.
LEMMA TeachIsPipeline ==
  ASSUME NEW t \in Tx, NEW r \in Row, NEW b \in Book, NEW d \in Book, NEW c \in Contact,
         r.by # "manual", ~IsSelfTransfer(t, b), MatchContact(t, b) = c,
         CategoryFor(c, t, b) # None, CategoryFor(c, t, b) = CategoryFor(c, t, d)
  PROVE  /\ Teach(t, r, c, d) = Unanswered(Pipeline(t, r, b), r)
         /\ ~Pipeline(t, r, b).own
         /\ Pipeline(t, r, b).income = IF t \in Deposit /\ b.earn[c] # None
                                       THEN "yes" ELSE r.income
<1>1. c # None
  BY CategoryAssumption
<1>2. Pipeline(t, r, b) = AsContacts(t, r, c, b)
  BY <1>1 DEF Pipeline
<1> DEFINE category == CategoryFor(c, t, b)
           income == IF t \in Deposit /\ b.earn[c] # None THEN "yes" ELSE r.income
<1>3. Teach(t, r, c, d) = [r EXCEPT !.contact = c, !.category = category, !.by = "contact",
                                    !.review = FALSE]
  BY DEF Teach
<1>4. AsContacts(t, r, c, b) = [r EXCEPT !.own = FALSE, !.contact = c, !.category = category,
                                         !.by = "contact", !.review = FALSE, !.income = income]
  BY DEF AsContacts
<1> HIDE DEF category, income
<1>5. AsContacts(t, r, c, b).own = FALSE /\ AsContacts(t, r, c, b).income = income
  BY <1>4 DEF Row
<1>6. Unanswered(AsContacts(t, r, c, b), r)
        = [r EXCEPT !.contact = c, !.category = category, !.by = "contact", !.review = FALSE]
  BY <1>4 DEF Row, Unanswered
<1> QED
  BY <1>2, <1>3, <1>5, <1>6 DEF income

\* What each outcome of the pipeline leaves in the columns of a label.
LEMMA OwnLabel ==
  ASSUME NEW r \in Row
  PROVE  Label(AsOwn(r)) = <<OwnTransfer, "system", None, FALSE>> /\ AsOwn(r).own = TRUE
BY DEF Label, AsOwn, Row

\* A contact with a category for the direction.
LEMMA ContactsLabel ==
  ASSUME NEW t \in Tx, NEW r \in Row, NEW b, NEW c
  PROVE  /\ Label(AsContacts(t, r, c, b)) = <<CategoryFor(c, t, b), "contact", c, FALSE>>
         /\ AsContacts(t, r, c, b).own = FALSE
<1> DEFINE category == CategoryFor(c, t, b)
           income   == IF t \in Deposit /\ b.earn[c] # None THEN "yes" ELSE r.income
<1>1. AsContacts(t, r, c, b) = [r EXCEPT !.own = FALSE, !.contact = c, !.category = category,
                                         !.by = "contact", !.review = FALSE,
                                         !.income = income]
  BY DEF AsContacts, Row
<1> SUFFICES /\ Label(AsContacts(t, r, c, b)) = <<category, "contact", c, FALSE>>
             /\ AsContacts(t, r, c, b).own = FALSE
  OBVIOUS
<1> HIDE DEF category, income
<1> QED
  BY <1>1 DEF Label, Row

\* The label a rule gives a row that had the category.
Ruled(category, c, rule) ==
  <<IF RuleCategory[rule] # None THEN RuleCategory[rule] ELSE category,
    IF rule \in SystemRules THEN "system" ELSE "rule",
    c, rule \in AskingRules /\ c = None>>

\* A rule: a category it does not set stays.
LEMMA RuleLabel ==
  ASSUME NEW r \in Row, NEW c, NEW rule
  PROVE  Label(AsRule(r, c, rule)) = Ruled(r.category, c, rule) /\ AsRule(r, c, rule).own = FALSE
<1> DEFINE set    == IF RuleCategory[rule] # None THEN RuleCategory[rule] ELSE r.category
           by     == IF rule \in SystemRules THEN "system" ELSE "rule"
           review == rule \in AskingRules /\ c = None
<1>1. AsRule(r, c, rule) = [r EXCEPT !.own = FALSE, !.contact = c, !.category = set,
                                     !.by = by, !.review = review]
  BY DEF AsRule, Row
<1> SUFFICES /\ Label(AsRule(r, c, rule)) = <<set, by, c, review>>
             /\ AsRule(r, c, rule).own = FALSE
  BY DEF Ruled
<1> HIDE DEF set, by, review
<1> QED
  BY <1>1 DEF Label, Row

\* Nothing known.
LEMMA UnknownLabel ==
  ASSUME NEW r \in Row, NEW c
  PROVE  Label(AsUnknown(r, c)) = <<Uncategorized, "none", c, TRUE>> /\ AsUnknown(r, c).own = FALSE
BY DEF Label, AsUnknown, Row

\* The pipeline's label does not depend on the row it is applied to, except where a
\* rule sets no category.
LEMMA PipelineForgets ==
  ASSUME NEW t \in Tx, NEW r \in Row, NEW b \in Book, Pipeline(t, NewRow, b).category # None
  PROVE  /\ Label(Pipeline(t, r, b)) = Label(Pipeline(t, NewRow, b))
         /\ Pipeline(t, r, b).own = Pipeline(t, NewRow, b).own
<1> DEFINE c    == MatchContact(t, b)
           rule == RuleOrder[First(MatchingRules(t, b))]
<1>1. NewRow \in Row /\ NewRow.category = None
  BY NewBookType DEF NewRow
<1>2. CASE IsSelfTransfer(t, b)
  <2>1. Pipeline(t, r, b) = AsOwn(r) /\ Pipeline(t, NewRow, b) = AsOwn(NewRow)
    BY <1>2 DEF Pipeline
  <2> QED
    BY <1>1, <2>1, OwnLabel
<1>3. CASE ~IsSelfTransfer(t, b) /\ c # None /\ CategoryFor(c, t, b) # None
  <2>1. /\ Pipeline(t, r, b) = AsContacts(t, r, c, b)
        /\ Pipeline(t, NewRow, b) = AsContacts(t, NewRow, c, b)
    BY <1>3 DEF Pipeline
  <2>2. /\ Label(AsContacts(t, r, c, b)) = <<CategoryFor(c, t, b), "contact", c, FALSE>>
        /\ AsContacts(t, r, c, b).own = FALSE
    BY ContactsLabel
  <2>3. /\ Label(AsContacts(t, NewRow, c, b)) = <<CategoryFor(c, t, b), "contact", c, FALSE>>
        /\ AsContacts(t, NewRow, c, b).own = FALSE
    BY <1>1, ContactsLabel
  <2> QED
    BY <2>1, <2>2, <2>3
<1>4. CASE ~IsSelfTransfer(t, b) /\ ~(c # None /\ CategoryFor(c, t, b) # None)
  <2>1. CASE MatchingRules(t, b) # {}
    <3>1. Pipeline(t, r, b) = AsRule(r, c, rule) /\ Pipeline(t, NewRow, b) = AsRule(NewRow, c, rule)
      BY <1>4, <2>1 DEF Pipeline
    <3> HIDE DEF c, rule
    <3>2. /\ Label(AsRule(r, c, rule)) = Ruled(r.category, c, rule)
          /\ Label(AsRule(NewRow, c, rule)) = Ruled(None, c, rule)
      BY <1>1, RuleLabel
    <3>3. Label(AsRule(NewRow, c, rule))[1] = AsRule(NewRow, c, rule).category
      BY DEF Label
    <3>4. RuleCategory[rule] # None
      BY <3>1, <3>2, <3>3 DEF Ruled
    <3>5. Ruled(r.category, c, rule) = Ruled(None, c, rule)
      BY <3>4 DEF Ruled
    <3>6. AsRule(r, c, rule).own = AsRule(NewRow, c, rule).own
      BY <1>1, RuleLabel
    <3> QED
      BY <3>1, <3>2, <3>5, <3>6
  <2>2. CASE MatchingRules(t, b) = {}
    <3>1. Pipeline(t, r, b) = AsUnknown(r, c) /\ Pipeline(t, NewRow, b) = AsUnknown(NewRow, c)
      BY <1>4, <2>2 DEF Pipeline
    <3> HIDE DEF c
    <3> QED
      BY <1>1, <3>1, UnknownLabel
  <2> QED
    BY <2>1, <2>2
<1> QED
  BY <1>2, <1>3, <1>4

\* LearnedAsPipeline: so the rows a label reaches get what the next re-categorisation
\* would give them, but for the mark and the answer, and those it changes as the
\* property says.
THEOREM LearnsAsPipeline == Spec => LearnedAsPipeline
<1> DEFINE Agrees ==
      \A s \in Session : WriteMatching(s) /\ fresh[s] /\ pc'[s] = "match" =>
        \A t \in job[s].rows :
          LET c == job[s].contact
              redone == Pipeline(t, row[t], book)
          IN  ( /\ row[t].by # "manual" /\ ~IsSelfTransfer(t, book)
                /\ MatchContact(t, book) = c
                /\ CategoryFor(c, t, book) # None
                /\ CategoryFor(c, t, book) = CategoryFor(c, t, job[s].book) )
              => /\ row'[t] = Unanswered(redone, row[t])
                 /\ ~redone.own
                 /\ redone.income = IF t \in Deposit /\ book.earn[c] # None
                                    THEN "yes" ELSE row[t].income
<1>1. ASSUME LabelsInv PROVE Agrees
  <2>1. SUFFICES ASSUME NEW s \in Session, WriteMatching(s), fresh[s], pc'[s] = "match",
                        NEW t \in job[s].rows, NEW c, c = job[s].contact,
                        row[t].by # "manual", ~IsSelfTransfer(t, book), MatchContact(t, book) = c,
                        CategoryFor(c, t, book) # None,
                        CategoryFor(c, t, book) = CategoryFor(c, t, job[s].book)
                 PROVE  LET redone == Pipeline(t, row[t], book)
                        IN  /\ row'[t] = Unanswered(redone, row[t])
                            /\ ~redone.own
                            /\ redone.income = IF t \in Deposit /\ book.earn[c] # None
                                               THEN "yes" ELSE row[t].income
    BY DEF Agrees
  <2>2. pc[s] = "label"
    BY <2>1 DEF WriteMatching
  <2>3. row' = Written(s, Labelled(s))
    <3>1. pc \in [Session -> {"idle", "failed", "identifiers", "match", "label",
                              "recategorize", "rewrite", "import"}]
      BY <1>1 DEF LabelsInv, Shape
    <3>2. ~Ends(s, "failed")
      BY <2>1, <3>1 DEF Ends, Goto
    <3> QED
      BY <2>1, <3>2 DEF WriteMatching
  <2>4. /\ t \in DOMAIN view[s] /\ t \in Present /\ t \in Tx /\ view[s][t] = row[t]
        /\ c \in Contact /\ job[s].book \in Book /\ book \in Book
        /\ row[t] \in Row
    BY <1>1, <2>1, <2>2 DEF LabelsInv, Request, Job, Tables
  <2>5. Labelled(s)[t] = Teach(t, row[t], c, job[s].book)
    BY <2>1, <2>4 DEF Labelled
  <2>6. row'[t] = Flush(row[t], row[t], Labelled(s)[t])
    BY <2>3, <2>4 DEF Written
  <2>7. row'[t] = Teach(t, row[t], c, job[s].book)
    BY <2>4, <2>5, <2>6, TeachType, FlushType
  <2>8. /\ row'[t] = Unanswered(Pipeline(t, row[t], book), row[t])
        /\ ~Pipeline(t, row[t], book).own
        /\ Pipeline(t, row[t], book).income = IF t \in Deposit /\ book.earn[c] # None
                                              THEN "yes" ELSE row[t].income
    BY <2>1, <2>4, <2>7, TeachIsPipeline
  <2> QED
    BY <2>8
<1>2. LabelsInv => [Agrees]_vars
  BY <1>1
<1>3. LearnedAsPipeline <=> [][Agrees]_vars
  BY PTL DEF LearnedAsPipeline
<1> QED
  BY <1>2, <1>3, LabelsInvariant, PTL

\* And after an undisturbed re-categorisation every row not set by hand has the label
\* a fresh import of it would get.
THEOREM RecategorizesLikeImport == Spec => RecategorizeLikeImport
<1> DEFINE Agrees ==
      \A s \in Session : WriteAll(s) /\ fresh[s] /\ pc'[s] = "idle" =>
        \A t \in Present :
          LET imported == Apply(t, NewRow, job[s].book, FALSE)
          IN  row'[t].by # "manual" /\ imported.category # None
                => Label(row'[t]) = Label(imported) /\ row'[t].own = imported.own
<1>1. ASSUME LabelsInv PROVE Agrees
  <2>1. SUFFICES ASSUME NEW s \in Session, WriteAll(s), fresh[s], pc'[s] = "idle",
                        NEW t \in Present, row'[t].by # "manual",
                        Apply(t, NewRow, job[s].book, FALSE).category # None
                 PROVE  LET imported == Apply(t, NewRow, job[s].book, FALSE)
                        IN  Label(row'[t]) = Label(imported) /\ row'[t].own = imported.own
    BY DEF Agrees
  <2>2. pc[s] = "rewrite"
    BY <2>1 DEF WriteAll
  <2>3. row' = Written(s, Redone(s))
    <3>1. pc \in [Session -> {"idle", "failed", "identifiers", "match", "label",
                              "recategorize", "rewrite", "import"}]
      BY <1>1 DEF LabelsInv, Shape
    <3>2. ~Ends(s, "failed")
      BY <2>1, <3>1 DEF Ends, Goto
    <3> QED
      BY <2>1, <3>2 DEF WriteAll
  <2>4. /\ t \in DOMAIN view[s] /\ t \in Tx /\ view[s][t] = row[t] /\ row[t] \in Row
        /\ job[s].book \in Book /\ job[s].force \in BOOLEAN
    BY <1>1, <2>1, <2>2 DEF LabelsInv, Request, Job, Tables
  <2>5. Redone(s)[t] = Apply(t, row[t], job[s].book, job[s].force)
    BY <2>4 DEF Redone
  <2>6. row'[t] = Flush(row[t], row[t], Redone(s)[t])
    BY <2>1, <2>3, <2>4 DEF Written
  <2>7. row'[t] = Apply(t, row[t], job[s].book, job[s].force)
    BY <2>4, <2>5, <2>6, ApplyType, FlushType
  <2>8. row'[t] = Pipeline(t, row[t], job[s].book)
    BY <2>1, <2>7 DEF Apply
  <2>9. Apply(t, NewRow, job[s].book, FALSE) = Pipeline(t, NewRow, job[s].book)
    BY DEF Apply, NewRow
  <2> QED
    BY <2>1, <2>4, <2>8, <2>9, PipelineForgets
<1>2. LabelsInv => [Agrees]_vars
  BY <1>1
<1>3. RecategorizeLikeImport <=> [][Agrees]_vars
  BY PTL DEF RecategorizeLikeImport
<1> QED
  BY <1>2, <1>3, LabelsInvariant, PTL
==============================================================================
