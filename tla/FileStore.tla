------------------------------ MODULE FileStore ------------------------------
(***************************************************************************)
(* The content-addressed file store in the database, and its two users:    *)
(* receipts attached to loans (services/loans.py) and the pictures of wish *)
(* list items (routes/wishlist.py).  A name is the hash of the content and *)
(* a suffix, so equal uploads share one row whoever made them.             *)
(*                                                                         *)
(* A request decides on what it reads in one step and commits in another.  *)
(***************************************************************************)
EXTENDS Integers

CONSTANTS
  Session,      \* worker threads, and the event loop for receipt uploads
  Loan, Item,   \* loans and wish list items
  ReceiptName, ImageName,  \* what may be uploaded as which
  NoName,       \* an item without a picture
  Legacy,       \* files on the old server's disk: name -> kind
  MaxRequests   \* bound

Kind == {"statement", "receipt", "wishlist"}

ASSUME FileStoreAssumption ==
  /\ NoName \notin ReceiptName \cup ImageName \cup DOMAIN Legacy
  /\ \A n \in DOMAIN Legacy : Legacy[n] \in Kind

VARIABLES
  files,     \* table stored_file: name -> kind
  receipts,  \* table loan_attachment
  lastId,    \* the ids it has given out
  loans,     \* loans there are
  image,     \* wish items there are -> name of the picture
  ask,       \* the request each session is serving, with what it decided
  fresh,     \* history: a request is under way and what it read is current
  sound,     \* history: every change so far came from a fresh request
  spilled,   \* history: names on receipts that went with a loan or its edit
  requests   \* history: requests so far

tables == <<files, receipts, lastId, loans, image>>
vars   == <<tables, ask, fresh, sound, spilled, requests>>

Name == ReceiptName \cup ImageName \cup DOMAIN Legacy

Idle == [op |-> "idle"]

Init ==
  /\ files = <<>> /\ receipts = {} /\ lastId = 0
  /\ loans = {} /\ image = <<>>
  /\ ask = [s \in Session |-> Idle]
  /\ fresh = [s \in Session |-> FALSE]
  /\ sound = TRUE /\ spilled = {} /\ requests = 0

Count == requests < MaxRequests /\ requests' = requests + 1

Serve(s, request) ==
  /\ ask[s] = Idle /\ Count
  /\ ask'   = [ask EXCEPT ![s] = request]
  /\ fresh' = [fresh EXCEPT ![s] = TRUE]
  /\ UNCHANGED <<tables, sound, spilled>>

Done(s) ==
  /\ ask'   = [ask EXCEPT ![s] = Idle]
  /\ fresh' = [r \in Session |-> r # s /\ fresh[r] /\ tables' = tables]
  /\ sound' = (sound /\ (fresh[s] \/ tables' = tables))
  /\ UNCHANGED requests

\* Requests that decide nothing from what they read are one step.
AtOnce(s) ==
  /\ ask[s] = Idle /\ Count
  /\ fresh' = [r \in Session |-> FALSE]
  /\ UNCHANGED <<ask, sound>>

With(table, k, v) == [x \in DOMAIN table \cup {k} |-> IF x = k THEN v ELSE table[x]]

\* filestore.put inserts when the session saw no such name; a name another
\* session has inserted meanwhile is a primary key conflict.
Put(add, name, kind) ==
  IF add THEN name \notin DOMAIN files /\ files' = With(files, name, kind)
         ELSE UNCHANGED files

Without(names) == [n \in DOMAIN files \ names |-> files[n]]

------------------------------------------------------------------------------
(* Loans and their receipts                                                 *)

CreateLoan(s) ==
  /\ AtOnce(s)
  /\ \E l \in Loan \ loans : loans' = loans \cup {l}
  /\ UNCHANGED <<files, receipts, lastId, image, spilled>>

\* POST /loans/{id}/receipts, for the loan or for an unpaid instalment of it.
BeginUpload(s) ==
  \E l \in loans, n \in ReceiptName, unpaid \in BOOLEAN :
    Serve(s, [op |-> "receipt", loan |-> l, name |-> n, unpaid |-> unpaid,
              add |-> n \notin DOMAIN files])

\* Mutant: the loan's row is not needed.
UploadReceiptUnchecked(s) ==
  /\ ask[s].op = "receipt"
  /\ Put(ask[s].add, ask[s].name, "receipt")
  /\ receipts' = receipts \cup {[id |-> lastId + 1, loan |-> ask[s].loan,
                                 name |-> ask[s].name, unpaid |-> ask[s].unpaid]}
  /\ lastId' = lastId + 1
  /\ UNCHANGED <<loans, image, spilled>>
  /\ Done(s)

\* The loan may be gone by then: a foreign key keeps the receipt out.
UploadReceipt(s) ==
  /\ ask[s].op = "receipt" /\ ask[s].loan \in loans
  /\ Put(ask[s].add, ask[s].name, "receipt")
  /\ receipts' = receipts \cup {[id |-> lastId + 1, loan |-> ask[s].loan,
                                 name |-> ask[s].name, unpaid |-> ask[s].unpaid]}
  /\ lastId' = lastId + 1
  /\ UNCHANGED <<loans, image, spilled>>
  /\ Done(s)

\* Mutant: the file goes with any of its receipts.
LastNameAny(r) == {r.name}

\* Mutant: the receipt itself counts as another one.
LastNameOfItself(r) == IF \E o \in receipts : o.name = r.name THEN {} ELSE {r.name}

\* delete_receipt_file: the name, if no other receipt has it.
LastName(r) == IF \E o \in receipts \ {r} : o.name = r.name THEN {} ELSE {r.name}

\* DELETE /loans/receipts/{id}
BeginDeleteReceipt(s) ==
  \E r \in receipts :
    Serve(s, [op |-> "drop", gone |-> {r}, names |-> LastName(r)])

\* DELETE /loans/{id}: the same for each of its receipts in turn, all still there.
BeginDeleteLoan(s) ==
  \E l \in loans :
    LET rs == {r \in receipts : r.loan = l}
    IN  Serve(s, [op |-> "dropLoan", loan |-> l, names |-> UNION {LastName(r) : r \in rs}])

DeleteReceipt(s) ==
  /\ ask[s].op = "drop"
  /\ receipts' = receipts \ ask[s].gone
  /\ files' = Without(ask[s].names)
  /\ UNCHANGED <<lastId, loans, image, spilled>>
  /\ Done(s)

DeleteLoan(s) ==
  /\ ask[s].op = "dropLoan"
  /\ LET rs == {r \in receipts : r.loan = ask[s].loan}
     IN  /\ receipts' = receipts \ rs
         /\ spilled' = spilled \cup {r.name : r \in rs}
  /\ loans' = loans \ {ask[s].loan}
  /\ files' = Without(ask[s].names)
  /\ UNCHANGED <<lastId, image>>
  /\ Done(s)

\* PATCH /loans/{id} that rebuilds the schedule: the unpaid instalments go and,
\* by cascade, their receipts; the files stay.
RescheduleLoan(s) ==
  /\ AtOnce(s)
  /\ \E l \in loans :
       LET rs == {r \in receipts : r.loan = l /\ r.unpaid}
       IN  /\ receipts' = receipts \ rs
           /\ spilled' = spilled \cup {r.name : r \in rs}
  /\ UNCHANGED <<files, lastId, loans, image>>

------------------------------------------------------------------------------
(* Wish list items and their pictures                                       *)

CreateItem(s) ==
  /\ AtOnce(s)
  /\ \E i \in Item \ DOMAIN image : image' = With(image, i, NoName)
  /\ UNCHANGED <<files, receipts, lastId, loans, spilled>>

\* Mutant: other items that show the picture are not asked for.
UnusedByItself(i, new) == {image[i]} \ {NoName, new}

\* _drop_image_if_unused: the item's old picture, if it gets another one and
\* no other item shows it.
Unused(i, new) ==
  IF image[i] \in {NoName, new} \/ \E j \in DOMAIN image \ {i} : image[j] = image[i]
  THEN {} ELSE {image[i]}

\* POST /wishlist/{id}/image
BeginImage(s) ==
  \E i \in DOMAIN image, n \in ImageName :
    Serve(s, [op |-> "image", item |-> i, name |-> n, add |-> n \notin DOMAIN files,
              names |-> Unused(i, n), same |-> n = image[i]])

\* The new picture is stored, the old one dropped; the item's column is written
\* only when it changes, and then the item must still be there.
UploadImage(s) ==
  /\ ask[s].op = "image"
  /\ ask[s].add => ask[s].name \notin DOMAIN files
  /\ files' = LET kept == Without(ask[s].names)
              IN  IF ask[s].add THEN With(kept, ask[s].name, "wishlist") ELSE kept
  /\ \/ ask[s].same /\ UNCHANGED image
     \/ /\ ~ask[s].same /\ ask[s].item \in DOMAIN image
        /\ image' = [image EXCEPT ![ask[s].item] = ask[s].name]
  /\ UNCHANGED <<receipts, lastId, loans, spilled>>
  /\ Done(s)

\* DELETE /wishlist/{id}
BeginDeleteItem(s) ==
  \E i \in DOMAIN image :
    Serve(s, [op |-> "dropItem", item |-> i, names |-> Unused(i, NoName)])

\* Mutant: the picture is never dropped with the item.
DeleteItemOnly(s) ==
  /\ ask[s].op = "dropItem"
  /\ image' = [i \in DOMAIN image \ {ask[s].item} |-> image[i]]
  /\ UNCHANGED <<files, receipts, lastId, loans, spilled>>
  /\ Done(s)

DeleteItem(s) ==
  /\ ask[s].op = "dropItem"
  /\ image' = [i \in DOMAIN image \ {ask[s].item} |-> image[i]]
  /\ files' = Without(ask[s].names)
  /\ UNCHANGED <<receipts, lastId, loans, spilled>>
  /\ Done(s)

------------------------------------------------------------------------------
\* A request ends without a commit: conflict, vanished row, or server stop.
RollBack(s) ==
  /\ ask[s] # Idle
  /\ ask' = [ask EXCEPT ![s] = Idle]
  /\ fresh' = [fresh EXCEPT ![s] = FALSE]
  /\ UNCHANGED <<tables, sound, spilled, requests>>

\* The server starts again: requests under way are gone, and import_legacy_dir
\* brings in every file of the old folders whose name the table does not have.
Restart ==
  /\ Count
  /\ ask' = [s \in Session |-> Idle]
  /\ fresh' = [s \in Session |-> FALSE]
  /\ files' = [n \in DOMAIN files \cup DOMAIN Legacy |->
                IF n \in DOMAIN files THEN files[n] ELSE Legacy[n]]
  /\ UNCHANGED <<receipts, lastId, loans, image, sound, spilled>>

Next ==
  \/ Restart
  \/ \E s \in Session :
       \/ CreateLoan(s) \/ BeginUpload(s) \/ UploadReceipt(s)
       \/ BeginDeleteReceipt(s) \/ DeleteReceipt(s)
       \/ BeginDeleteLoan(s) \/ DeleteLoan(s) \/ RescheduleLoan(s)
       \/ CreateItem(s) \/ BeginImage(s) \/ UploadImage(s)
       \/ BeginDeleteItem(s) \/ DeleteItem(s)
       \/ RollBack(s)

Spec == Init /\ [][Next]_vars

------------------------------------------------------------------------------
(* Properties                                                               *)

TypeOK ==
  /\ DOMAIN files \subseteq Name
  /\ \A n \in DOMAIN files : files[n] \in Kind
  /\ \A r \in receipts : r.id \in 1..lastId /\ r.loan \in loans /\ r.name \in ReceiptName
  /\ \A q, r \in receipts : q.id = r.id => q = r
  /\ DOMAIN image \subseteq Item
  /\ \A i \in DOMAIN image : image[i] \in ImageName \cup {NoName}
  /\ loans \subseteq Loan

\* As long as no request acted on what another had changed meanwhile, every
\* receipt whose content can be nothing else can be shown: its file is stored,
\* and under the kind that receipt_file insists on.  Sharing between receipts,
\* deletions of receipts, loans and items, and restarts never take it away.
ReceiptsServed ==
  sound => \A r \in receipts :
    r.name \notin ImageName \cup DOMAIN Legacy =>
      r.name \in DOMAIN files /\ files[r.name] = "receipt"

\* Likewise the picture of an item, whatever other items showed and replaced.
ImagesServed ==
  sound => \A i \in DOMAIN image :
    image[i] \notin ReceiptName \cup {NoName} => image[i] \in DOMAIN files

\* And the store keeps no picture that nothing shows, apart from those an old
\* server's folder brings back on every start.
NoOrphanImage ==
  sound => \A n \in DOMAIN files \ (ReceiptName \cup DOMAIN Legacy) :
    \E i \in DOMAIN image : image[i] = n

\* Nor a receipt's file without its receipt, unless receipts of that name went
\* with their loan or with an unpaid instalment.
NoOrphanReceipt ==
  sound => \A n \in DOMAIN files \ (ImageName \cup DOMAIN Legacy \cup spilled) :
    \E r \in receipts : r.name = n
=============================================================================
