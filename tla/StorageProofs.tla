---------------------------- MODULE StorageProofs ----------------------------
(***************************************************************************)
(* Proofs about what is stored: the files in the database and the backups  *)
(* on the disk.  Whatever requests share a file, receipts and pictures     *)
(* stay served and nothing is kept for nobody; whatever requests make and  *)
(* remove backups side by side, those that are listed can be restored, the *)
(* last ones stay and no more than asked for pile up.                      *)
(***************************************************************************)
EXTENDS FileStore, Backup, SumTheorems

------------------------------------------------------------------------------
(* Files.                                                                   *)


Shape ==
  /\ DOMAIN ask = Session /\ fresh \in [Session -> BOOLEAN]
  /\ sound \in BOOLEAN /\ lastId \in Nat

\* What a request has decided on; as long as nobody else committed, it is what
\* the request would decide now.
Decided(s) ==
  /\ ask[s].op = "receipt" =>
       /\ ask[s].name \in ReceiptName
       /\ fresh[s] => (ask[s].add <=> ask[s].name \notin DOMAIN files)
  /\ ask[s].op = "drop" /\ fresh[s] =>
       \E r \in receipts : ask[s].gone = {r} /\ ask[s].names = LastName(r)
  /\ ask[s].op = "dropLoan" /\ fresh[s] =>
       ask[s].names = UNION {LastName(r) : r \in {q \in receipts : q.loan = ask[s].loan}}
  /\ ask[s].op = "image" =>
       /\ ask[s].name \in ImageName
       /\ fresh[s] => /\ ask[s].item \in DOMAIN image
                      /\ ask[s].add <=> ask[s].name \notin DOMAIN files
                      /\ ask[s].names = Unused(ask[s].item, ask[s].name)
                      /\ ask[s].same <=> ask[s].name = image[ask[s].item]
  /\ ask[s].op = "dropItem" /\ fresh[s] =>
       ask[s].item \in DOMAIN image /\ ask[s].names = Unused(ask[s].item, NoName)

\* A name only receipts have is stored as a receipt.
KindsKept ==
  \A n \in DOMAIN files : n \notin ImageName \cup DOMAIN Legacy => files[n] = "receipt"

Served == ReceiptsServed /\ ImagesServed /\ NoOrphanImage /\ NoOrphanReceipt

FileInv == TypeOK /\ Shape /\ KindsKept /\ Served /\ \A s \in Session : Decided(s)

------------------------------------------------------------------------------
(* What the steps have in common.                                           *)

\* Another request's decision stands as long as it is marked as current only
\* while nothing was committed.
LEMMA DecidedKept ==
  ASSUME NEW s \in Session, Decided(s), ask'[s] = ask[s],
         fresh'[s] => fresh[s] /\ tables' = tables
  PROVE  Decided(s)'
<1>1. CASE ~fresh'[s]
  BY <1>1 DEF Decided
<1>2. CASE fresh'[s]
  <2>1. /\ files' = files /\ receipts' = receipts /\ image' = image
    BY <1>2 DEF tables
  <2>2. \A r : LastName(r)' = LastName(r)
    BY <2>1 DEF LastName
  <2>3. \A i, n : Unused(i, n)' = Unused(i, n)
    BY <2>1 DEF Unused
  <2>4. fresh[s]
    BY <1>2
  <2> DEFINE a == ask[s]
  <2>5. /\ a.op = "receipt" => a.name \in ReceiptName /\ (a.add <=> a.name \notin DOMAIN files')
    BY <2>1, <2>4 DEF Decided
  <2>6. a.op = "drop" => \E r \in receipts' : a.gone = {r} /\ a.names = LastName(r)'
    BY <2>1, <2>2, <2>4 DEF Decided
  <2>7. a.op = "dropLoan" =>
          a.names = UNION {LastName(r)' : r \in {q \in receipts' : q.loan = a.loan}}
    BY <2>1, <2>2, <2>4 DEF Decided
  <2>8. a.op = "image" => /\ a.name \in ImageName /\ a.item \in DOMAIN image'
                          /\ a.add <=> a.name \notin DOMAIN files'
                          /\ a.names = Unused(a.item, a.name)'
                          /\ a.same <=> a.name = image'[a.item]
    BY <2>1, <2>3, <2>4 DEF Decided
  <2>9. a.op = "dropItem" => a.item \in DOMAIN image' /\ a.names = Unused(a.item, NoName)'
    BY <2>1, <2>3, <2>4 DEF Decided
  <2> QED
    BY <2>5, <2>6, <2>7, <2>8, <2>9 DEF Decided
<1> QED
  BY <1>1, <1>2

\* A session at rest has decided nothing.
LEMMA DecidedIdle ==
  ASSUME NEW s \in Session, ask'[s] = Idle
  PROVE  Decided(s)'
BY DEF Decided, Idle

\* The end of a request.
LEMMA DoneShape ==
  ASSUME FileInv, NEW s \in Session, Done(s)
  PROVE  /\ DOMAIN ask' = Session /\ fresh' \in [Session -> BOOLEAN] /\ sound' \in BOOLEAN
         /\ \A r \in Session : Decided(r)'
         /\ sound' => sound /\ (fresh[s] \/ tables' = tables)
<1>1. /\ DOMAIN ask' = Session /\ fresh' \in [Session -> BOOLEAN] /\ sound' \in BOOLEAN
      /\ sound' => sound /\ (fresh[s] \/ tables' = tables)
  BY DEF FileInv, Shape, Done
<1>2. ASSUME NEW r \in Session PROVE Decided(r)'
  <2>1. CASE r = s
    BY <2>1, DecidedIdle DEF Done, FileInv, Shape
  <2>2. CASE r # s
    <3>1. ask'[r] = ask[r] /\ (fresh'[r] => fresh[r] /\ tables' = tables)
      BY <2>2 DEF Done, FileInv, Shape
    <3> QED
      BY <3>1, DecidedKept DEF FileInv
  <2> QED
    BY <2>1, <2>2
<1> QED
  BY <1>1, <1>2

\* A request of one step.
LEMMA AtOnceShape ==
  ASSUME FileInv, NEW s \in Session, AtOnce(s)
  PROVE  /\ DOMAIN ask' = Session /\ fresh' \in [Session -> BOOLEAN] /\ sound' = sound
         /\ \A r \in Session : Decided(r)'
<1>1. \A r \in Session : ask'[r] = ask[r] /\ ~fresh'[r]
  BY DEF AtOnce
<1> QED
  BY <1>1, DecidedKept DEF FileInv, Shape, AtOnce

\* A request that begins reads the tables and changes nothing.
LEMMA ServeKeeps ==
  ASSUME FileInv, NEW s \in Session, NEW request, Serve(s, request),
         ask'[s] = request => Decided(s)'
  PROVE  FileInv'
<1>1. /\ DOMAIN ask' = Session /\ fresh' \in [Session -> BOOLEAN] /\ ask'[s] = request
      /\ \A r \in Session \ {s} : ask'[r] = ask[r] /\ fresh'[r] = fresh[r]
  BY DEF FileInv, Shape, Serve
<1>2. /\ files' = files /\ receipts' = receipts /\ lastId' = lastId /\ loans' = loans
      /\ image' = image /\ sound' = sound /\ spilled' = spilled
  BY DEF Serve, tables
<1>3. \A r \in Session : Decided(r)'
  BY <1>1, <1>2, DecidedKept DEF FileInv, tables
<1>4. Shape'
  BY <1>1, <1>2 DEF FileInv, Shape
<1>5. (TypeOK /\ KindsKept /\ Served)'
  BY <1>2 DEF FileInv, TypeOK, KindsKept, Served, ReceiptsServed, ImagesServed,
              NoOrphanImage, NoOrphanReceipt
<1> QED
  BY <1>3, <1>4, <1>5 DEF FileInv

------------------------------------------------------------------------------
(* Requests that begin: what they decide on is so.                          *)

\* A receipt to be attached.
LEMMA BeginUploadInv ==
  ASSUME FileInv, NEW s \in Session, BeginUpload(s)
  PROVE  FileInv'
<1>1. PICK l \in loans, n \in ReceiptName, unpaid \in BOOLEAN :
        Serve(s, [op |-> "receipt", loan |-> l, name |-> n, unpaid |-> unpaid,
                  add |-> n \notin DOMAIN files])
  BY DEF BeginUpload
<1> DEFINE add     == n \notin DOMAIN files
           request == [op |-> "receipt", loan |-> l, name |-> n, unpaid |-> unpaid, add |-> add]
<1>2. files' = files
  BY <1>1 DEF Serve, tables
<1>3. /\ request.op = "receipt" /\ request.name = n
      /\ request.add <=> n \notin DOMAIN files'
  BY <1>2
<1>4. Serve(s, request)
  BY <1>1
<1> HIDE DEF request, add
<1>5. ask'[s] = request => Decided(s)'
  BY <1>3 DEF Decided
<1> QED
  BY <1>4, <1>5, ServeKeeps

\* A receipt to be deleted.
LEMMA BeginDeleteReceiptInv ==
  ASSUME FileInv, NEW s \in Session, BeginDeleteReceipt(s)
  PROVE  FileInv'
<1>1. PICK r \in receipts : Serve(s, [op |-> "drop", gone |-> {r}, names |-> LastName(r)])
  BY DEF BeginDeleteReceipt
<1> DEFINE request == [op |-> "drop", gone |-> {r}, names |-> LastName(r)]
<1>2. receipts' = receipts
  BY <1>1 DEF Serve, tables
<1>3. LastName(r)' = LastName(r)
  BY <1>2 DEF LastName
<1>4. request.op = "drop" /\ request.gone = {r} /\ request.names = LastName(r)'
  BY <1>3
<1> HIDE DEF request
<1>5. ask'[s] = request => Decided(s)'
  BY <1>2, <1>4 DEF Decided
<1> QED
  BY <1>1, <1>5, ServeKeeps DEF request

\* A loan to be deleted, with its receipts.
LEMMA BeginDeleteLoanInv ==
  ASSUME FileInv, NEW s \in Session, BeginDeleteLoan(s)
  PROVE  FileInv'
<1> DEFINE last(l)    == UNION {LastName(r) : r \in {r \in receipts : r.loan = l}}
           request(l) == [op |-> "dropLoan", loan |-> l, names |-> last(l)]
<1>1. PICK l \in loans : Serve(s, request(l))
  BY DEF BeginDeleteLoan
<1>2. receipts' = receipts
  BY <1>1 DEF Serve, tables
<1>3. \A r : LastName(r)' = LastName(r)
  BY <1>2 DEF LastName
<1>4. last(l) = UNION {LastName(r)' : r \in {r \in receipts' : r.loan = l}}
  BY <1>2, <1>3
<1>5. /\ request(l).op = "dropLoan" /\ request(l).loan = l
      /\ request(l).names = UNION {LastName(r)' : r \in {r \in receipts' : r.loan = l}}
  BY <1>4
<1> HIDE DEF request
<1>6. ask'[s] = request(l) => Decided(s)'
  BY <1>5 DEF Decided
<1> QED
  BY <1>1, <1>6, ServeKeeps

\* A picture to be put on an item.
LEMMA BeginImageInv ==
  ASSUME FileInv, NEW s \in Session, BeginImage(s)
  PROVE  FileInv'
<1>1. PICK i \in DOMAIN image, n \in ImageName :
        Serve(s, [op |-> "image", item |-> i, name |-> n, add |-> n \notin DOMAIN files,
                  names |-> Unused(i, n), same |-> n = image[i]])
  BY DEF BeginImage
<1> DEFINE add     == n \notin DOMAIN files
           same    == n = image[i]
           request == [op |-> "image", item |-> i, name |-> n, add |-> add,
                       names |-> Unused(i, n), same |-> same]
<1>2. files' = files /\ image' = image
  BY <1>1 DEF Serve, tables
<1>3. Unused(i, n)' = Unused(i, n)
  BY <1>2 DEF Unused
<1>4. /\ request.op = "image" /\ request.item = i /\ request.name = n
      /\ request.names = Unused(i, n)'
      /\ request.add <=> n \notin DOMAIN files'
      /\ request.same <=> n = image'[i]
      /\ i \in DOMAIN image'
  BY <1>2, <1>3
<1>5. Serve(s, request)
  BY <1>1
<1> HIDE DEF request, add, same
<1>6. ask'[s] = request => Decided(s)'
  BY <1>4 DEF Decided
<1> QED
  BY <1>5, <1>6, ServeKeeps

\* An item to be deleted.
LEMMA BeginDeleteItemInv ==
  ASSUME FileInv, NEW s \in Session, BeginDeleteItem(s)
  PROVE  FileInv'
<1>1. PICK i \in DOMAIN image :
        Serve(s, [op |-> "dropItem", item |-> i, names |-> Unused(i, NoName)])
  BY DEF BeginDeleteItem
<1> DEFINE request == [op |-> "dropItem", item |-> i, names |-> Unused(i, NoName)]
<1>2. image' = image
  BY <1>1 DEF Serve, tables
<1>3. Unused(i, NoName)' = Unused(i, NoName)
  BY <1>2 DEF Unused
<1>4. /\ request.op = "dropItem" /\ request.item = i /\ i \in DOMAIN image'
      /\ request.names = Unused(i, NoName)'
  BY <1>2, <1>3
<1> HIDE DEF request
<1>5. ask'[s] = request => Decided(s)'
  BY <1>4 DEF Decided
<1> QED
  BY <1>1, <1>5, ServeKeeps DEF request

------------------------------------------------------------------------------
(* Requests that commit.                                                    *)

\* A commit that changes nothing, or whose request was up to date, keeps what
\* is promised of the tables.
LEMMA DoneKeeps ==
  ASSUME FileInv, NEW s \in Session, Done(s), TypeOK', KindsKept', lastId' \in Nat,
         spilled \subseteq spilled', sound /\ fresh[s] => Served'
  PROVE  FileInv'
<1>1. Shape' /\ \A r \in Session : Decided(r)'
  BY DoneShape DEF Shape
<1>2. Served'
  <2>1. CASE ~sound'
    BY <2>1 DEF Served, ReceiptsServed, ImagesServed, NoOrphanImage, NoOrphanReceipt
  <2>2. CASE sound' /\ tables' = tables
    <3>1. sound
      BY <2>2, DoneShape
    <3> QED
      BY <2>2, <3>1 DEF tables, FileInv, Served, ReceiptsServed, ImagesServed, NoOrphanImage,
                        NoOrphanReceipt
  <2>3. CASE sound' /\ tables' # tables
    BY <2>3, DoneShape
  <2> QED
    BY <2>1, <2>2, <2>3
<1> QED
  BY <1>1, <1>2 DEF FileInv

\* The same for a request of one step.
LEMMA AtOnceKeeps ==
  ASSUME FileInv, NEW s \in Session, AtOnce(s), TypeOK', KindsKept', lastId' \in Nat, Served'
  PROVE  FileInv'
BY AtOnceShape DEF FileInv, Shape

\* A loan is made.
LEMMA CreateLoanInv ==
  ASSUME FileInv, NEW s \in Session, CreateLoan(s)
  PROVE  FileInv'
<1>1. /\ loans \subseteq loans' /\ loans' \subseteq Loan
      /\ files' = files /\ receipts' = receipts /\ lastId' = lastId /\ image' = image
      /\ spilled' = spilled /\ AtOnce(s)
  BY DEF CreateLoan, FileInv, TypeOK
<1>2. sound' = sound
  BY <1>1 DEF AtOnce
<1>3. TypeOK' /\ KindsKept' /\ lastId' \in Nat
  BY <1>1 DEF FileInv, TypeOK, KindsKept, Shape
<1>4. Served'
  BY <1>1, <1>2 DEF FileInv, Served, ReceiptsServed, ImagesServed, NoOrphanImage, NoOrphanReceipt
<1> QED
  BY <1>1, <1>3, <1>4, AtOnceKeeps

\* A receipt is attached, and its file stored unless the store has it.
LEMMA UploadReceiptInv ==
  ASSUME FileInv, NEW s \in Session, UploadReceipt(s)
  PROVE  FileInv'
<1> DEFINE n   == ask[s].name
           new == [id |-> lastId + 1, loan |-> ask[s].loan, name |-> n, unpaid |-> ask[s].unpaid]
<1>1. /\ Put(ask[s].add, n, "receipt") /\ receipts' = receipts \cup {new}
      /\ lastId' = lastId + 1 /\ lastId \in Nat
      /\ loans' = loans /\ image' = image /\ spilled' = spilled /\ Done(s)
      /\ ask[s].op = "receipt" /\ ask[s].loan \in loans /\ n \in ReceiptName
  BY DEF UploadReceipt, FileInv, Shape, Decided
<1>2. new.id = lastId + 1 /\ new.loan \in loans /\ new.name = n
  BY <1>1
<1> HIDE DEF new
<1>3. /\ DOMAIN files' = DOMAIN files \cup (IF ask[s].add THEN {n} ELSE {})
      /\ \A x \in DOMAIN files : files'[x] = files[x]
      /\ ask[s].add => n \notin DOMAIN files /\ files'[n] = "receipt"
  BY <1>1 DEF Put, With
<1>4. TypeOK'
  <2>1. /\ DOMAIN files' \subseteq Name
        /\ \A x \in DOMAIN files' : files'[x] \in Kind
    BY <1>1, <1>3 DEF FileInv, TypeOK, Name, Kind
  <2>2. \A r \in receipts' : r.id \in 1..lastId' /\ r.loan \in loans' /\ r.name \in ReceiptName
    BY <1>1, <1>2 DEF FileInv, TypeOK
  <2>3. \A q, r \in receipts' : q.id = r.id => q = r
    <3>1. \A r \in receipts : r.id \in 1..lastId
      BY DEF FileInv, TypeOK
    <3>2. \A r \in receipts : r.id # new.id
      BY <1>1, <1>2, <3>1
    <3> QED
      BY <1>1, <3>2 DEF FileInv, TypeOK
  <2> QED
    BY <1>1, <2>1, <2>2, <2>3 DEF FileInv, TypeOK
<1>5. KindsKept'
  BY <1>3 DEF FileInv, KindsKept
<1>6. ASSUME sound, fresh[s] PROVE Served'
  <2>1. n \in DOMAIN files'
    BY <1>1, <1>3, <1>6 DEF FileInv, Decided
  <2>2. ReceiptsServed'
    BY <1>1, <1>2, <1>3, <1>5, <1>6, <2>1
       DEF FileInv, Served, ReceiptsServed, KindsKept
  <2>3. ImagesServed' /\ NoOrphanImage'
    BY <1>1, <1>3, <1>6 DEF FileInv, Served, ImagesServed, NoOrphanImage
  <2>4. NoOrphanReceipt'
    BY <1>1, <1>2, <1>3, <1>6 DEF FileInv, Served, NoOrphanReceipt
  <2> QED
    BY <2>2, <2>3, <2>4 DEF Served
<1> QED
  BY <1>1, <1>4, <1>5, <1>6, DoneKeeps

\* A receipt goes, and its file if no other receipt has it.
LEMMA DeleteReceiptInv ==
  ASSUME FileInv, NEW s \in Session, DeleteReceipt(s)
  PROVE  FileInv'
<1>1. /\ receipts' = receipts \ ask[s].gone
      /\ lastId' = lastId /\ loans' = loans /\ image' = image /\ spilled' = spilled
      /\ Done(s) /\ ask[s].op = "drop"
      /\ DOMAIN files' = DOMAIN files \ ask[s].names
      /\ \A x \in DOMAIN files' : files'[x] = files[x]
  BY DEF DeleteReceipt, Without
<1>2. TypeOK' /\ KindsKept' /\ lastId' \in Nat
  BY <1>1 DEF FileInv, TypeOK, KindsKept, Shape
<1>3. ASSUME sound, fresh[s] PROVE Served'
  <2>1. PICK r \in receipts : ask[s].gone = {r} /\ ask[s].names = LastName(r)
    BY <1>1, <1>3 DEF FileInv, Decided
  <2>2. /\ \A o \in receipts' : o.name \notin ask[s].names
        /\ ask[s].names \subseteq {r.name} /\ r.name \in ReceiptName
        /\ \A o \in receipts : o.name \in ask[s].names \/ \E q \in receipts' : q.name = o.name
    BY <1>1, <2>1 DEF LastName, FileInv, TypeOK
  <2>3. ReceiptsServed'
    BY <1>1, <1>3, <2>2 DEF FileInv, Served, ReceiptsServed
  <2>4. ImagesServed' /\ NoOrphanImage'
    BY <1>1, <1>3, <2>2 DEF FileInv, Served, ImagesServed, NoOrphanImage
  <2>5. NoOrphanReceipt'
    BY <1>1, <1>3, <2>2 DEF FileInv, Served, NoOrphanReceipt
  <2> QED
    BY <2>3, <2>4, <2>5 DEF Served
<1> QED
  BY <1>1, <1>2, <1>3, DoneKeeps

\* A loan goes with its receipts; a file two of them share stays behind.
LEMMA DeleteLoanInv ==
  ASSUME FileInv, NEW s \in Session, DeleteLoan(s)
  PROVE  FileInv'
<1> DEFINE rs == {r \in receipts : r.loan = ask[s].loan}
<1>1. /\ receipts' = receipts \ rs /\ spilled' = spilled \cup {r.name : r \in rs}
      /\ loans' = loans \ {ask[s].loan} /\ lastId' = lastId /\ image' = image
      /\ Done(s) /\ ask[s].op = "dropLoan"
      /\ DOMAIN files' = DOMAIN files \ ask[s].names
      /\ \A x \in DOMAIN files' : files'[x] = files[x]
  BY DEF DeleteLoan, Without
<1>2. TypeOK' /\ KindsKept' /\ lastId' \in Nat
  BY <1>1 DEF FileInv, TypeOK, KindsKept, Shape
<1>3. ASSUME sound, fresh[s] PROVE Served'
  <2>1. ask[s].names = UNION {LastName(r) : r \in rs}
    BY <1>1, <1>3 DEF FileInv, Decided
  <2>2. \A n \in ask[s].names : \E r \in rs : n \in LastName(r)
    BY <2>1
  <2>3. /\ \A o \in receipts' : o.name \notin ask[s].names
        /\ ask[s].names \subseteq ReceiptName
    BY <1>1, <2>2 DEF LastName, FileInv, TypeOK
  <2>4. ReceiptsServed'
    BY <1>1, <1>3, <2>3 DEF FileInv, Served, ReceiptsServed
  <2>5. ImagesServed' /\ NoOrphanImage'
    BY <1>1, <1>3, <2>3 DEF FileInv, Served, ImagesServed, NoOrphanImage
  <2>6. NoOrphanReceipt'
    BY <1>1, <1>3 DEF FileInv, Served, NoOrphanReceipt
  <2> QED
    BY <2>4, <2>5, <2>6 DEF Served
<1> QED
  BY <1>1, <1>2, <1>3, DoneKeeps

\* A rebuilt schedule takes the receipts of unpaid instalments with it.
LEMMA RescheduleLoanInv ==
  ASSUME FileInv, NEW s \in Session, RescheduleLoan(s)
  PROVE  FileInv'
<1>1. PICK l \in loans :
        LET rs == {r \in receipts : r.loan = l /\ r.unpaid}
        IN  receipts' = receipts \ rs /\ spilled' = spilled \cup {r.name : r \in rs}
  BY DEF RescheduleLoan
<1> DEFINE rs == {r \in receipts : r.loan = l /\ r.unpaid}
<1>2. receipts' = receipts \ rs /\ spilled' = spilled \cup {r.name : r \in rs}
  BY <1>1
<1> HIDE DEF rs
<1>3. /\ files' = files /\ lastId' = lastId /\ loans' = loans /\ image' = image /\ AtOnce(s)
      /\ sound' = sound
  BY DEF RescheduleLoan, AtOnce
<1>4. TypeOK' /\ KindsKept' /\ lastId' \in Nat
  BY <1>2, <1>3 DEF FileInv, TypeOK, KindsKept, Shape
<1>5. Served'
  BY <1>2, <1>3 DEF FileInv, Served, ReceiptsServed, ImagesServed, NoOrphanImage, NoOrphanReceipt
<1> QED
  BY <1>3, <1>4, <1>5, AtOnceKeeps

\* An item is made.
LEMMA CreateItemInv ==
  ASSUME FileInv, NEW s \in Session, CreateItem(s)
  PROVE  FileInv'
<1>1. PICK i \in Item \ DOMAIN image : image' = With(image, i, NoName)
  BY DEF CreateItem
<1>2. /\ DOMAIN image' = DOMAIN image \cup {i} /\ image'[i] = NoName
      /\ \A j \in DOMAIN image : image'[j] = image[j]
  BY <1>1 DEF With
<1>3. /\ files' = files /\ receipts' = receipts /\ lastId' = lastId /\ loans' = loans
      /\ spilled' = spilled /\ AtOnce(s) /\ sound' = sound
  BY DEF CreateItem, AtOnce
<1>4. TypeOK' /\ KindsKept' /\ lastId' \in Nat
  BY <1>2, <1>3 DEF FileInv, TypeOK, KindsKept, Shape
<1>5. Served'
  BY <1>2, <1>3 DEF FileInv, Served, ReceiptsServed, ImagesServed, NoOrphanImage, NoOrphanReceipt
<1> QED
  BY <1>3, <1>4, <1>5, AtOnceKeeps

\* A picture is put on an item; the one it had goes if no other item shows it.
LEMMA UploadImageInv ==
  ASSUME FileInv, NEW s \in Session, UploadImage(s)
  PROVE  FileInv'
<1> DEFINE n == ask[s].name
           i == ask[s].item
           gone == ask[s].names
           added == IF ask[s].add THEN {n} ELSE {}
<1>1. /\ receipts' = receipts /\ lastId' = lastId /\ loans' = loans /\ spilled' = spilled
      /\ Done(s) /\ ask[s].op = "image" /\ n \in ImageName
      /\ \/ ask[s].same /\ image' = image
         \/ ~ask[s].same /\ i \in DOMAIN image /\ image' = [image EXCEPT ![i] = n]
  BY DEF UploadImage, FileInv, Decided
<1>2. /\ DOMAIN files' = (DOMAIN files \ gone) \cup added
      /\ \A x \in DOMAIN files \ gone : files'[x] = files[x]
      /\ added \cap DOMAIN files = {}
      /\ \A x \in added : files'[x] = "wishlist"
  BY DEF UploadImage, With, Without
<1>3. TypeOK' /\ KindsKept' /\ lastId' \in Nat
  <2>1. \A x \in added : x = n
    OBVIOUS
  <2> HIDE DEF added, gone, n
  <2>2. DOMAIN files' \subseteq Name /\ \A x \in DOMAIN files' : files'[x] \in Kind
    BY <1>1, <1>2, <2>1 DEF FileInv, TypeOK, Name, Kind
  <2>3. DOMAIN image' \subseteq Item /\ \A j \in DOMAIN image' : image'[j] \in ImageName \cup {NoName}
    BY <1>1 DEF FileInv, TypeOK
  <2>4. KindsKept'
    BY <1>1, <1>2, <2>1 DEF FileInv, KindsKept
  <2> QED
    BY <1>1, <2>2, <2>3, <2>4 DEF FileInv, TypeOK, Shape
<1>4. ASSUME sound, fresh[s] PROVE Served'
  <2>1. /\ i \in DOMAIN image /\ gone = Unused(i, n)
        /\ ask[s].add <=> n \notin DOMAIN files
        /\ ask[s].same <=> n = image[i]
    BY <1>1, <1>4 DEF FileInv, Decided
  <2>2. added \subseteq {n} /\ (n \notin DOMAIN files => n \in added)
    BY <2>1
  <2> HIDE DEF added, gone, n, i
  <2>3. /\ gone \subseteq {image[i]} \ {n, NoName}
        /\ \A j \in DOMAIN image \ {i} : image[j] \notin gone
        /\ image[i] \in {n, NoName} \cup gone \/ \E j \in DOMAIN image \ {i} : image[j] = image[i]
    <3>1. CASE image[i] \in {NoName, n} \/ \E j \in DOMAIN image \ {i} : image[j] = image[i]
      <4>1. gone = {}
        BY <2>1, <3>1 DEF Unused
      <4> QED
        BY <3>1, <4>1
    <3>2. CASE ~(image[i] \in {NoName, n} \/ \E j \in DOMAIN image \ {i} : image[j] = image[i])
      <4>1. gone = {image[i]}
        BY <2>1, <3>2 DEF Unused
      <4> QED
        BY <3>2, <4>1
    <3> QED
      BY <3>1, <3>2
  <2>4. /\ n \in DOMAIN files'
        /\ DOMAIN image' = DOMAIN image /\ image'[i] = n
        /\ \A j \in DOMAIN image \ {i} : image'[j] = image[j]
        /\ gone \subseteq ImageName
    <3>1. n \in DOMAIN files'
      BY <1>2, <2>2, <2>3
    <3>2. /\ DOMAIN image' = DOMAIN image /\ image'[i] = n
          /\ \A j \in DOMAIN image \ {i} : image'[j] = image[j]
      BY <1>1, <2>1
    <3>3. gone \subseteq ImageName
      BY <2>1, <2>3 DEF FileInv, TypeOK
    <3> QED
      BY <3>1, <3>2, <3>3
  <2>5. ReceiptsServed'
    BY <1>1, <1>2, <1>4, <2>4 DEF FileInv, Served, ReceiptsServed
  <2>6. ImagesServed'
    BY <1>1, <1>2, <1>4, <2>3, <2>4 DEF FileInv, Served, ImagesServed
  <2>7. NoOrphanImage'
    <3>1. SUFFICES ASSUME NEW x \in DOMAIN files' \ (ReceiptName \cup DOMAIN Legacy)
                   PROVE  \E j \in DOMAIN image' : image'[j] = x
      BY DEF NoOrphanImage
    <3>2. CASE x = n
      BY <2>1, <2>4, <3>2
    <3>3. CASE x # n
      <4>1. x \in DOMAIN files /\ x \notin gone
        BY <1>2, <2>2, <3>3
      <4>2. PICK j \in DOMAIN image : image[j] = x
        BY <1>4, <4>1 DEF FileInv, Served, NoOrphanImage
      <4>3. x # NoName
        BY <3>1, <4>1, FileStoreAssumption DEF FileInv, TypeOK, Name
      <4> QED
        BY <2>3, <2>4, <3>3, <4>1, <4>2, <4>3
    <3> QED
      BY <3>2, <3>3
  <2>8. NoOrphanReceipt'
    BY <1>1, <1>2, <1>4, <2>2 DEF FileInv, Served, NoOrphanReceipt
  <2> QED
    BY <2>5, <2>6, <2>7, <2>8 DEF Served
<1> QED
  BY <1>1, <1>3, <1>4, DoneKeeps

\* An item goes, and its picture if no other item shows it.
LEMMA DeleteItemInv ==
  ASSUME FileInv, NEW s \in Session, DeleteItem(s)
  PROVE  FileInv'
<1> DEFINE i == ask[s].item
           gone == ask[s].names
<1>1. /\ receipts' = receipts /\ lastId' = lastId /\ loans' = loans /\ spilled' = spilled
      /\ Done(s) /\ ask[s].op = "dropItem"
      /\ DOMAIN image' = DOMAIN image \ {i} /\ \A j \in DOMAIN image' : image'[j] = image[j]
      /\ DOMAIN files' = DOMAIN files \ gone /\ \A x \in DOMAIN files' : files'[x] = files[x]
  BY DEF DeleteItem, Without
<1>2. TypeOK' /\ KindsKept' /\ lastId' \in Nat
  BY <1>1 DEF FileInv, TypeOK, KindsKept, Shape
<1>3. ASSUME sound, fresh[s] PROVE Served'
  <2>1. i \in DOMAIN image /\ gone = Unused(i, NoName)
    BY <1>1, <1>3 DEF FileInv, Decided
  <2>2. /\ gone \subseteq {image[i]} \ {NoName}
        /\ \A j \in DOMAIN image \ {i} : image[j] \notin gone
        /\ image[i] \in {NoName} \cup gone \/ \E j \in DOMAIN image \ {i} : image[j] = image[i]
    BY <2>1 DEF Unused
  <2>3. gone \subseteq ImageName
    BY <2>1, <2>2 DEF FileInv, TypeOK
  <2> HIDE DEF gone, i
  <2>4. ReceiptsServed' /\ NoOrphanReceipt'
    BY <1>1, <1>3, <2>3 DEF FileInv, Served, ReceiptsServed, NoOrphanReceipt
  <2>5. ImagesServed'
    BY <1>1, <1>3, <2>2 DEF FileInv, Served, ImagesServed
  <2>6. NoOrphanImage'
    <3>1. SUFFICES ASSUME NEW x \in DOMAIN files' \ (ReceiptName \cup DOMAIN Legacy)
                   PROVE  \E j \in DOMAIN image' : image'[j] = x
      BY DEF NoOrphanImage
    <3>2. PICK j \in DOMAIN image : image[j] = x
      BY <1>1, <1>3, <3>1 DEF FileInv, Served, NoOrphanImage
    <3>3. x # NoName
      BY <1>1, <3>1, FileStoreAssumption DEF FileInv, TypeOK, Name
    <3> QED
      BY <1>1, <2>2, <3>1, <3>2, <3>3
  <2> QED
    BY <2>4, <2>5, <2>6 DEF Served
<1> QED
  BY <1>1, <1>2, <1>3, DoneKeeps

------------------------------------------------------------------------------
\* A request is rolled back.
LEMMA RollBackInv ==
  ASSUME FileInv, NEW s \in Session, RollBack(s)
  PROVE  FileInv'
<1>1. /\ DOMAIN ask' = Session /\ fresh' \in [Session -> BOOLEAN] /\ ask'[s] = Idle
      /\ \A r \in Session \ {s} : ask'[r] = ask[r] /\ fresh'[r] = fresh[r]
      /\ tables' = tables /\ sound' = sound /\ spilled' = spilled
  BY DEF RollBack, FileInv, Shape
<1>2. \A r \in Session : Decided(r)'
  BY <1>1, DecidedKept, DecidedIdle DEF FileInv
<1> QED
  BY <1>1, <1>2 DEF FileInv, Shape, TypeOK, KindsKept, Served, ReceiptsServed, ImagesServed,
                    NoOrphanImage, NoOrphanReceipt, tables

\* The server starts again and brings in the old folders' files.
LEMMA RestartInv ==
  ASSUME FileInv, Restart
  PROVE  FileInv'
<1>1. /\ DOMAIN ask' = Session /\ fresh' \in [Session -> BOOLEAN]
      /\ \A r \in Session : ask'[r] = Idle
      /\ receipts' = receipts /\ lastId' = lastId /\ loans' = loans /\ image' = image
      /\ sound' = sound /\ spilled' = spilled
      /\ DOMAIN files' = DOMAIN files \cup DOMAIN Legacy
      /\ \A x \in DOMAIN files : files'[x] = files[x]
      /\ \A x \in DOMAIN Legacy \ DOMAIN files : files'[x] = Legacy[x]
  BY DEF Restart
<1>2. \A r \in Session : Decided(r)'
  BY <1>1, DecidedIdle
<1>3. TypeOK' /\ KindsKept' /\ Shape'
  BY <1>1, FileStoreAssumption DEF FileInv, Shape, TypeOK, KindsKept, Name
<1>4. Served'
  BY <1>1 DEF FileInv, Served, ReceiptsServed, ImagesServed, NoOrphanImage, NoOrphanReceipt
<1> QED
  BY <1>2, <1>3, <1>4 DEF FileInv

\* Nothing is stored at first.
LEMMA InitInv == Init => FileInv
<1>1. SUFFICES ASSUME Init PROVE FileInv
  OBVIOUS
<1>2. DOMAIN files = {} /\ DOMAIN image = {} /\ receipts = {}
  BY <1>1 DEF Init
<1>3. TypeOK /\ Shape /\ KindsKept /\ Served
  BY <1>1, <1>2 DEF Init, TypeOK, Shape, KindsKept, Served, ReceiptsServed, ImagesServed,
                    NoOrphanImage, NoOrphanReceipt
<1>4. \A s \in Session : Decided(s)
  BY <1>1 DEF Init, Idle, Decided
<1> QED
  BY <1>3, <1>4 DEF FileInv

\* Every step keeps the invariant.
LEMMA StepInv == FileInv /\ [Next]_vars => FileInv'
<1>1. SUFFICES ASSUME FileInv, [Next]_vars PROVE FileInv'
  OBVIOUS
<1>2. CASE UNCHANGED vars
  <2>1. \A s \in Session : Decided(s)'
    BY <1>1, <1>2, DecidedKept DEF FileInv, vars
  <2> QED
    BY <1>1, <1>2, <2>1 DEF vars, tables, FileInv, Shape, TypeOK, KindsKept, Served,
                            ReceiptsServed, ImagesServed, NoOrphanImage, NoOrphanReceipt
<1>3. CASE Restart
  BY <1>1, <1>3, RestartInv
<1>4. ASSUME NEW s \in Session,
             \/ CreateLoan(s) \/ BeginUpload(s) \/ UploadReceipt(s)
             \/ BeginDeleteReceipt(s) \/ DeleteReceipt(s)
             \/ BeginDeleteLoan(s) \/ DeleteLoan(s) \/ RescheduleLoan(s)
             \/ CreateItem(s) \/ BeginImage(s) \/ UploadImage(s)
             \/ BeginDeleteItem(s) \/ DeleteItem(s)
             \/ RollBack(s)
      PROVE  FileInv'
  BY <1>1, <1>4, CreateLoanInv, BeginUploadInv, UploadReceiptInv, BeginDeleteReceiptInv,
     DeleteReceiptInv, BeginDeleteLoanInv, DeleteLoanInv, RescheduleLoanInv, CreateItemInv,
     BeginImageInv, UploadImageInv, BeginDeleteItemInv, DeleteItemInv, RollBackInv
<1> QED
  BY <1>1, <1>2, <1>3, <1>4 DEF Next

------------------------------------------------------------------------------
\* The inductive invariant holds in every reachable state.
THEOREM FileInvariant == Spec => []FileInv
BY InitInv, StepInv, PTL DEF Spec

\* Names, kinds and receipts keep their types, and a receipt its loan.
THEOREM Types == Spec => []TypeOK
<1>1. FileInv => TypeOK
  BY DEF FileInv
<1> QED
  BY <1>1, FileInvariant, PTL

\* ReceiptsServed: as long as no request acted on stale data, every receipt can be
\* shown, under the kind that receipt_file insists on.
THEOREM ReceiptsAreServed == Spec => []ReceiptsServed
<1>1. FileInv => ReceiptsServed
  BY DEF FileInv, Served
<1> QED
  BY <1>1, FileInvariant, PTL

\* ImagesServed: so can every item's picture.
THEOREM ImagesAreServed == Spec => []ImagesServed
<1>1. FileInv => ImagesServed
  BY DEF FileInv, Served
<1> QED
  BY <1>1, FileInvariant, PTL

\* NoOrphanImage: the store keeps no picture that nothing shows, but those of the old
\* folders, which every start imports again.
THEOREM ImagesAreShown == Spec => []NoOrphanImage
<1>1. FileInv => NoOrphanImage
  BY DEF FileInv, Served
<1> QED
  BY <1>1, FileInvariant, PTL

\* NoOrphanReceipt: nor a receipt's file without its receipt, but those that went with
\* their loan or an edit of it.
THEOREM ReceiptsAreAttached == Spec => []NoOrphanReceipt
<1>1. FileInv => NoOrphanReceipt
  BY DEF FileInv, Served
<1> QED
  BY <1>1, FileInvariant, PTL

------------------------------------------------------------------------------
(* Backups.                                                                 *)

Task ==
  [op : {"idle"}] \cup [op : {"dump"}, at : Nat, keep : Keep]
  \cup [op : {"write"}, at : Nat, keep : Keep, cut : BOOLEAN, mixed : BOOLEAN]
  \cup [op : {"list"}, keep : Keep]
  \cup [op : {"prune"}, keep : Keep, left : SUBSET Nat, latest : BOOLEAN]

Filling(s) == task[s].op \in {"dump", "write"}

TasksShape ==
  /\ task \in [Worker -> Task]
  /\ \A s \in Worker : Filling(s) => task[s].at <= now

\* Unless two backups were begun in one second, a folder that is being filled is
\* one request's own, and not yet whole; once removed it does not come back.
OwnFolders ==
  "shared" \notin trouble =>
    \A s \in Worker : Filling(s) =>
      /\ \A r \in Worker \ {s} : Filling(r) => task[r].at # task[s].at
      /\ task[s].at \in DOMAIN folders => folders[task[s].at] # "whole"
      /\ task[s].op = "write" => ~task[s].mixed /\ (task[s].cut => task[s].at \notin DOMAIN folders)

\* Without an overlap a request finds every other worker at rest.
OneAtATime ==
  trouble = {} => \A s, r \in Worker : s # r => task[s] = NoTask \/ task[r] = NoTask

\* The folders nobody is filling, those a prune that was not disturbed has still
\* to remove left out, are few; or else somebody is about to list them.
Settled      == {n \in DOMAIN folders : ~Busy(n)}
Few(names)   == \E keep \in Keep : Cardinality(Settled \ names) <= keep
Listing      == \E s \in Worker : task[s].op = "list"
Undisturbed  == {s \in Worker : task[s].op = "prune" /\ task[s].latest}

Bounded ==
  ~overdue \/ Undisturbed # {} =>
    Listing \/ Few({}) \/ \E s \in Undisturbed : Few(task[s].left)

\* A prune that runs alone removes what is older than the `keep` folders that stay.
NewestStay ==
  trouble = {} => \A s \in Worker : task[s].op = "prune" /\ task[s].left # {} =>
      /\ Cardinality(DOMAIN folders \ task[s].left) >= task[s].keep
      /\ \A n \in task[s].left, q \in DOMAIN folders \ task[s].left : q > n

BackupInv ==
  /\ BackupTypeOK /\ TasksShape /\ OwnFolders /\ ListedIsWhole
  /\ OneAtATime /\ Bounded /\ NewestStay

------------------------------------------------------------------------------
(* Requests.                                                                *)

\* The record of a request has the fields of its kind.
LEMMA TaskKinds ==
  ASSUME NEW t \in Task
  PROVE  /\ t.op \in {"idle", "dump", "write", "list", "prune"}
         /\ t.op = "idle" => t = NoTask
         /\ t.op = "dump" => t \in [op : {"dump"}, at : Nat, keep : Keep]
         /\ t.op = "write" => t \in [op : {"write"}, at : Nat, keep : Keep, cut : BOOLEAN, mixed : BOOLEAN]
         /\ t.op = "list" => t \in [op : {"list"}, keep : Keep]
         /\ t.op = "prune" => t \in [op : {"prune"}, keep : Keep, left : SUBSET Nat, latest : BOOLEAN]
<1>1. CASE t \in [op : {"idle"}]
  BY <1>1 DEF NoTask
<1>2. CASE t \in [op : {"dump"}, at : Nat, keep : Keep]
  BY <1>2
<1>3. CASE t \in [op : {"write"}, at : Nat, keep : Keep, cut : BOOLEAN, mixed : BOOLEAN]
  BY <1>3
<1>4. CASE t \in [op : {"list"}, keep : Keep]
  BY <1>4
<1>5. CASE t \in [op : {"prune"}, keep : Keep, left : SUBSET Nat, latest : BOOLEAN]
  BY <1>5
<1> QED
  BY <1>1, <1>2, <1>3, <1>4, <1>5 DEF Task

\* Removing a folder tells the requests that write there and changes no other.
LEMMA CutEffect ==
  ASSUME TasksShape, NEW n
  PROVE  /\ Cut(n) \in [Worker -> Task]
         /\ \A r \in Worker :
              /\ Cut(n)[r].op = task[r].op
              /\ task[r].op \in {"dump", "write"} => Cut(n)[r].at = task[r].at
              /\ task[r].op # "write" => Cut(n)[r] = task[r]
              /\ task[r].op = "write" =>
                   /\ Cut(n)[r].mixed = task[r].mixed
                   /\ Cut(n)[r].cut <=> (task[r].cut \/ task[r].at = n)
<1> SUFFICES ASSUME NEW r \in Worker
             PROVE  /\ Cut(n)[r] \in Task
                    /\ Cut(n)[r].op = task[r].op
                    /\ task[r].op \in {"dump", "write"} => Cut(n)[r].at = task[r].at
                    /\ task[r].op # "write" => Cut(n)[r] = task[r]
                    /\ task[r].op = "write" =>
                         /\ Cut(n)[r].mixed = task[r].mixed
                         /\ Cut(n)[r].cut <=> (task[r].cut \/ task[r].at = n)
  BY DEF Cut
<1>1. task[r] \in Task
  BY DEF TasksShape
<1>2. CASE task[r].op = "write"
  <2>1. task[r] \in [op : {"write"}, at : Nat, keep : Keep, cut : BOOLEAN, mixed : BOOLEAN]
    BY <1>1, <1>2, TaskKinds
  <2>2. CASE task[r].at = n
    <3>1. Cut(n)[r] = [task[r] EXCEPT !.cut = TRUE]
      BY <1>2, <2>2 DEF Cut
    <3>2. [task[r] EXCEPT !.cut = TRUE] \in
            [op : {"write"}, at : Nat, keep : Keep, cut : BOOLEAN, mixed : BOOLEAN]
      BY <2>1
    <3> QED
      BY <1>2, <2>1, <2>2, <3>1, <3>2 DEF Task
  <2>3. CASE task[r].at # n
    BY <1>1, <1>2, <2>1, <2>3 DEF Cut
  <2> QED
    BY <2>2, <2>3
<1>3. CASE task[r].op # "write"
  BY <1>1, <1>3 DEF Cut
<1> QED
  BY <1>2, <1>3

\* Names are seconds that have passed, so there are finitely many folders.
LEMMA FoldersFinite ==
  ASSUME BackupTypeOK
  PROVE  IsFiniteSet(DOMAIN folders) /\ DOMAIN folders \subseteq Nat
<1>1. now \in Nat /\ DOMAIN folders \subseteq 0..now
  BY BackupAssumption DEF BackupTypeOK, Second
<1>2. IsFiniteSet(0..now)
  BY <1>1, FS_Interval
<1> QED
  BY <1>1, <1>2, FS_Subset

\* Part of a few is few.
LEMMA FewerStill ==
  ASSUME NEW A, IsFiniteSet(A), NEW B, B \subseteq A,
         \E keep \in Keep : Cardinality(A) <= keep
  PROVE  \E keep \in Keep : Cardinality(B) <= keep
<1>1. IsFiniteSet(B) /\ Cardinality(B) <= Cardinality(A)
  BY FS_Subset
<1>2. Cardinality(A) \in Nat /\ Cardinality(B) \in Nat
  BY <1>1, FS_CardinalityType
<1> QED
  BY <1>1, <1>2, BackupAssumption

\* A step that settles no folder and takes nothing from a prune's list leaves the
\* bound as it is.
LEMMA BoundedKept ==
  ASSUME IsFiniteSet(DOMAIN folders), Bounded,
         ~overdue' \/ Undisturbed' # {} => ~overdue \/ Undisturbed # {},
         Listing => Listing',
         Settled' \subseteq Settled,
         \A s \in Undisturbed :
           s \in Undisturbed' /\ Settled' \ task'[s].left \subseteq Settled \ task[s].left
  PROVE  Bounded'
<1> SUFFICES ASSUME ~overdue' \/ Undisturbed' # {}
             PROVE  Listing' \/ Few({})' \/ \E s \in Undisturbed' : Few(task[s].left)'
  BY DEF Bounded
<1>1. IsFiniteSet(Settled)
  BY FS_Subset DEF Settled
<1>2. CASE Listing
  BY <1>2
<1>3. CASE Few({})
  <2>1. \E keep \in Keep : Cardinality(Settled) <= keep
    BY <1>3 DEF Few
  <2>2. \E keep \in Keep : Cardinality(Settled' \ {}) <= keep
    BY <1>1, <2>1, FewerStill
  <2> QED
    BY <2>2 DEF Few
<1>4. CASE \E s \in Undisturbed : Few(task[s].left)
  <2>1. PICK s \in Undisturbed : Few(task[s].left)
    BY <1>4
  <2>2. IsFiniteSet(Settled \ task[s].left)
    BY <1>1, FS_Subset
  <2>3. \E keep \in Keep : Cardinality(Settled' \ task'[s].left) <= keep
    BY <2>1, <2>2, FewerStill DEF Few
  <2> QED
    BY <2>1, <2>3 DEF Few
<1> QED
  BY <1>2, <1>3, <1>4 DEF Bounded

\* The bound holds as soon as somebody is about to list.
LEMMA BoundedListing ==
  ASSUME Listing'
  PROVE  Bounded'
BY DEF Bounded

\* A request alone stays alone until another one begins.
LEMMA AloneKept ==
  ASSUME OneAtATime, NEW s \in Worker, task[s] # NoTask, trouble' = trouble,
         \A r \in Worker \ {s} : task[r] = NoTask => task'[r] = NoTask
  PROVE  /\ OneAtATime'
         /\ trouble' = {} => \A r \in Worker \ {s} : task[r] = NoTask /\ task'[r] = NoTask
BY DEF OneAtATime

\* Unless it prunes itself, no prune is under way then.
LEMMA NewestKept ==
  ASSUME NEW s \in Worker, trouble' = {} => \A r \in Worker \ {s} : task'[r] = NoTask,
         task'[s].op # "prune"
  PROVE  NewestStay'
BY DEF NewestStay, NoTask

------------------------------------------------------------------------------
(* The steps.                                                               *)

\* Time passes.
LEMMA TickInv ==
  ASSUME BackupInv, Tick
  PROVE  BackupInv'
<1> USE DEF Tick, BackupInv, history
<1>1. now \in Nat /\ now' \in Nat /\ now < now' /\ 0..now \subseteq 0..now'
  BY BackupAssumption DEF BackupTypeOK, Second
<1>2. BackupTypeOK'
  <2>1. now' \in Second
    BY <1>1, BackupAssumption DEF BackupTypeOK, Second
  <2>2. DOMAIN folders' \subseteq 0..now'
    BY <1>1 DEF BackupTypeOK
  <2>3. \A s \in Worker : task[s].op = "prune" => task[s].left \subseteq 0..now'
    BY <1>1 DEF BackupTypeOK
  <2> QED
    BY <2>1, <2>2, <2>3 DEF BackupTypeOK
<1>3. TasksShape'
  <2>1. \A s \in Worker : Filling(s) => task[s].at \in Nat
    BY TaskKinds DEF TasksShape, Filling
  <2> QED
    BY <1>1, <2>1 DEF TasksShape, Filling
<1>4. OwnFolders' /\ ListedIsWhole'
  BY DEF OwnFolders, ListedIsWhole, Filling, Busy
<1>5. OneAtATime' /\ NewestStay'
  BY DEF OneAtATime, NewestStay
<1>6. Bounded'
  BY DEF Bounded, Few, Settled, Listing, Undisturbed, Busy
<1> QED
  BY <1>2, <1>3, <1>4, <1>5, <1>6

\* A backup is begun.
LEMMA BeginBackupInv ==
  ASSUME BackupInv, NEW s \in Worker, BeginBackup(s)
  PROVE  BackupInv'
<1> USE DEF BackupInv
<1>1. PICK keep \in Keep : task' = [task EXCEPT ![s] = [op |-> "dump", at |-> now, keep |-> keep]]
  BY DEF BeginBackup, Become
<1>2. /\ task[s] = NoTask /\ now' = now /\ overdue' = overdue
      /\ DOMAIN folders' = DOMAIN folders \cup {now}
      /\ \A n \in DOMAIN folders : folders'[n] = folders[n]
      /\ now \notin DOMAIN folders => folders'[now] = "none"
      /\ trouble' = trouble \cup Overlap \cup
           (IF now \in DOMAIN folders \/ Busy(now) THEN {"shared"} ELSE {})
  BY DEF BeginBackup
<1>3. now \in Nat /\ now \in Second /\ calls' \in 0..MaxCalls
  BY BackupAssumption DEF BackupTypeOK, Second, BeginBackup
<1>4. task'[s] = [op |-> "dump", at |-> now, keep |-> keep] /\ task'[s] \in Task
  BY <1>1, <1>3 DEF Task, TasksShape
<1>5. \A r \in Worker \ {s} : task'[r] = task[r]
  BY <1>1 DEF TasksShape
<1>6. TasksShape'
  <2>1. task' \in [Worker -> Task]
    BY <1>1, <1>4 DEF TasksShape
  <2>2. \A r \in Worker : Filling(r)' => task'[r].at <= now'
    BY <1>2, <1>3, <1>4, <1>5 DEF TasksShape, Filling
  <2> QED
    BY <2>1, <2>2 DEF TasksShape
<1>7. BackupTypeOK'
  <2>1. DOMAIN folders' \subseteq 0..now' /\ \A n \in DOMAIN folders' : folders'[n] \in {"none", "part", "whole"}
    BY <1>2, <1>3 DEF BackupTypeOK
  <2>2. trouble' \subseteq {"stop", "overlap", "shared"}
    BY <1>2 DEF BackupTypeOK, Overlap
  <2>3. \A r \in Worker :
       /\ task'[r].op \in {"idle", "dump", "write", "list", "prune"}
       /\ task'[r].op = "prune" => task'[r].left \subseteq 0..now'
       /\ task'[r].op = "write" /\ ~task'[r].cut => task'[r].at \in DOMAIN folders'
    BY <1>2, <1>4, <1>5 DEF BackupTypeOK
  <2> QED
    BY <1>2, <1>3, <2>1, <2>2, <2>3 DEF BackupTypeOK
<1>8. OwnFolders' /\ ListedIsWhole'
  <2> SUFFICES ASSUME "shared" \notin trouble'
               PROVE  OwnFolders' /\ ListedIsWhole'
    BY DEF OwnFolders, ListedIsWhole
  <2>1. "shared" \notin trouble /\ now \notin DOMAIN folders /\ ~Busy(now)
    BY <1>2
  <2>2. \A r \in Worker \ {s} : Filling(r) => task[r].at # now
    BY <2>1 DEF Busy, Filling
  <2>3. OwnFolders'
    BY <1>2, <1>4, <1>5, <2>1, <2>2 DEF OwnFolders, Filling
  <2>4. \A n \in DOMAIN folders : Busy(n) => Busy(n)'
    BY <1>2, <1>5 DEF Busy, NoTask
  <2>5. Busy(now)'
    BY <1>2, <1>4 DEF Busy
  <2>6. ListedIsWhole'
    BY <1>2, <2>1, <2>4, <2>5 DEF ListedIsWhole
  <2> QED
    BY <2>3, <2>6
<1>9. trouble' = {} => trouble = {} /\ \A r \in Worker : task[r] = NoTask
  BY <1>2 DEF Overlap
<1>10. OneAtATime' /\ NewestStay'
  BY <1>4, <1>5, <1>9 DEF OneAtATime, NewestStay, NoTask
<1>11. Bounded'
  <2>1. Listing => Listing'
    BY <1>2, <1>5 DEF Listing, NoTask
  <2>2. Settled' \subseteq Settled
    <3>1. \A n : Busy(n) => Busy(n)'
      BY <1>2, <1>5 DEF Busy, NoTask
    <3>2. Busy(now)'
      BY <1>2, <1>4 DEF Busy
    <3> QED
      BY <1>2, <3>1, <3>2 DEF Settled
  <2>3. Undisturbed' = Undisturbed /\ \A r \in Undisturbed : task'[r] = task[r]
    BY <1>2, <1>4, <1>5 DEF Undisturbed, NoTask
  <2> QED
    BY <1>2, <2>1, <2>2, <2>3, FoldersFinite, BoundedKept
<1> QED
  BY <1>6, <1>7, <1>8, <1>10, <1>11

\* What a request that fails leaves behind: its folder is gone and it is at rest.
LEMMA GiveUpInv ==
  ASSUME BackupInv, NEW s \in Worker, Filling(s), GiveUp(s, task[s].at), now' = now,
         UNCHANGED history
  PROVE  BackupInv'
<1> USE DEF BackupInv
<1> DEFINE n == task[s].at
<1>1. /\ task' = [Cut(n) EXCEPT ![s] = NoTask]
      /\ folders' = FoldersWithout({n})
      /\ trouble' = trouble /\ overdue' = overdue /\ calls' = calls
  BY DEF GiveUp, history
<1>2. /\ DOMAIN folders' = DOMAIN folders \ {n}
      /\ \A q \in DOMAIN folders' : folders'[q] = folders[q]
  BY <1>1 DEF FoldersWithout
<1>3. /\ task' \in [Worker -> Task] /\ task'[s] = NoTask
      /\ \A r \in Worker \ {s} : task'[r] = Cut(n)[r]
  BY <1>1, CutEffect DEF Task, NoTask
<1>4. \A r \in Worker \ {s} :
        /\ task'[r].op = task[r].op
        /\ task[r].op \in {"dump", "write"} => task'[r].at = task[r].at
        /\ task[r].op # "write" => task'[r] = task[r]
        /\ task[r].op = "write" => /\ task'[r].mixed = task[r].mixed
                                   /\ task'[r].cut <=> (task[r].cut \/ task[r].at = n)
  BY <1>3, CutEffect
<1>5. TasksShape'
  BY <1>3, <1>4 DEF TasksShape, Filling, NoTask
<1>6. BackupTypeOK'
  <2>1. DOMAIN folders' \subseteq 0..now' /\ \A q \in DOMAIN folders' : folders'[q] \in {"none", "part", "whole"}
    BY <1>2 DEF BackupTypeOK
  <2>2. \A r \in Worker :
       /\ task'[r].op \in {"idle", "dump", "write", "list", "prune"}
       /\ task'[r].op = "prune" => task'[r].left \subseteq 0..now'
       /\ task'[r].op = "write" /\ ~task'[r].cut => task'[r].at \in DOMAIN folders'
    BY <1>2, <1>3, <1>4 DEF BackupTypeOK, NoTask
  <2> QED
    BY <1>1, <2>1, <2>2 DEF BackupTypeOK
<1>7. OwnFolders'
  <2> SUFFICES ASSUME "shared" \notin trouble,
                      NEW r \in Worker \ {s}, Filling(r)
               PROVE  /\ \A q \in Worker \ {r} : Filling(q)' => task'[q].at # task'[r].at
                      /\ task'[r].at \in DOMAIN folders' => folders'[task'[r].at] # "whole"
                      /\ task'[r].op = "write" =>
                           ~task'[r].mixed /\ (task'[r].cut => task'[r].at \notin DOMAIN folders')
    BY <1>1, <1>3, <1>4 DEF OwnFolders, Filling, NoTask
  <2> HIDE DEF n
  <2>1. /\ \A q \in Worker \ {r} : Filling(q) => task[q].at # task[r].at
        /\ task[r].at \in DOMAIN folders => folders[task[r].at] # "whole"
        /\ task[r].op = "write" => ~task[r].mixed /\ (task[r].cut => task[r].at \notin DOMAIN folders)
    BY DEF OwnFolders
  <2>2. \A q \in Worker \ {r} : Filling(q)' => task'[q].at # task'[r].at
    BY <1>3, <1>4, <2>1 DEF Filling, NoTask
  <2>3. task'[r].at \in DOMAIN folders' => folders'[task'[r].at] # "whole"
    BY <1>2, <1>4, <2>1 DEF Filling
  <2>4. task'[r].op = "write" =>
          ~task'[r].mixed /\ (task'[r].cut => task'[r].at \notin DOMAIN folders')
    BY <1>2, <1>4, <2>1 DEF Filling
  <2> QED
    BY <2>2, <2>3, <2>4
<1>8. \A q : q # n => (Busy(q)' <=> Busy(q))
  BY <1>3, <1>4 DEF Busy, NoTask
<1>9. ListedIsWhole'
  BY <1>1, <1>2, <1>8 DEF ListedIsWhole
<1>10. /\ OneAtATime'
       /\ trouble' = {} => \A r \in Worker \ {s} : task[r] = NoTask /\ task'[r] = NoTask
  BY <1>1, <1>4, AloneKept DEF Filling, NoTask
<1>11. NewestStay'
  BY <1>3, <1>10, NewestKept DEF NoTask
<1>12. Bounded'
  <2>1. Listing => Listing'
    BY <1>4 DEF Listing, Filling
  <2>2. Settled' \subseteq Settled
    BY <1>2, <1>8 DEF Settled
  <2>3. Undisturbed' = Undisturbed /\ \A r \in Undisturbed : task'[r] = task[r]
    BY <1>3, <1>4 DEF Undisturbed, Filling, NoTask
  <2> QED
    BY <1>1, <2>1, <2>2, <2>3, FoldersFinite, BoundedKept
<1> QED
  BY <1>5, <1>6, <1>7, <1>9, <1>10, <1>11, <1>12

\* pg_dump is done and the file is opened.
LEMMA OpenFileInv ==
  ASSUME BackupInv, NEW s \in Worker, OpenFile(s)
  PROVE  BackupInv'
<1> USE DEF BackupInv
<1> DEFINE n == task[s].at
           others == {r \in Worker \ {s} : task[r].op = "write" /\ task[r].at = n /\ ~task[r].cut}
           file == [op |-> "write", at |-> n, keep |-> task[s].keep, cut |-> FALSE,
                    mixed |-> others # {}]
<1>1. /\ task[s].op = "dump" /\ n \in DOMAIN folders
      /\ folders' = [folders EXCEPT ![n] = "part"]
      /\ task' = [r \in Worker |->
            IF r = s THEN file
            ELSE IF r \in others THEN [task[r] EXCEPT !.mixed = TRUE] ELSE task[r]]
      /\ now' = now /\ trouble' = trouble /\ overdue' = overdue /\ calls' = calls
  BY DEF OpenFile, history, Present
<1>2. /\ DOMAIN folders' = DOMAIN folders /\ folders'[n] = "part"
      /\ \A q \in DOMAIN folders : q # n => folders'[q] = folders[q]
  BY <1>1
<1>3. file \in Task /\ task'[s] = file
  <2>1. task[s] \in [op : {"dump"}, at : Nat, keep : Keep]
    BY <1>1, TaskKinds DEF TasksShape
  <2>2. file \in [op : {"write"}, at : Nat, keep : Keep, cut : BOOLEAN, mixed : BOOLEAN]
    BY <2>1
  <2> HIDE DEF file, others
  <2> QED
    BY <1>1, <2>2 DEF Task
<1>4. \A r \in Worker \ {s} :
        /\ task'[r] \in Task
        /\ task'[r].op = task[r].op
        /\ task[r].op \in {"dump", "write"} => task'[r].at = task[r].at
        /\ task[r].op # "write" => task'[r] = task[r]
        /\ task[r].op = "write" => task'[r].cut = task[r].cut
        /\ r \notin others => task'[r] = task[r]
  <2> SUFFICES ASSUME NEW r \in Worker \ {s}
               PROVE  /\ task'[r] \in Task
                      /\ task'[r].op = task[r].op
                      /\ task[r].op \in {"dump", "write"} => task'[r].at = task[r].at
                      /\ task[r].op # "write" => task'[r] = task[r]
                      /\ task[r].op = "write" => task'[r].cut = task[r].cut
                      /\ r \notin others => task'[r] = task[r]
    OBVIOUS
  <2>1. task[r] \in Task
    BY DEF TasksShape
  <2>2. CASE r \in others
    <3>1. task[r] \in [op : {"write"}, at : Nat, keep : Keep, cut : BOOLEAN, mixed : BOOLEAN]
      BY <2>1, <2>2, TaskKinds
    <3>2. task'[r] = [task[r] EXCEPT !.mixed = TRUE]
      BY <1>1, <2>2
    <3>3. [task[r] EXCEPT !.mixed = TRUE] \in
            [op : {"write"}, at : Nat, keep : Keep, cut : BOOLEAN, mixed : BOOLEAN]
      BY <3>1
    <3> QED
      BY <2>2, <3>1, <3>2, <3>3 DEF Task
  <2>3. CASE r \notin others
    <3>1. task'[r] = task[r]
      BY <1>1, <2>3
    <3> QED
      BY <2>1, <2>3, <3>1
  <2> QED
    BY <2>2, <2>3
<1>5. task'[s].op = "write" /\ task'[s].at = n /\ task'[s].cut = FALSE /\ task'[s].mixed = (others # {})
  BY <1>3
<1>6. DOMAIN task' = Worker
  BY <1>1
<1> HIDE DEF file
<1>7. TasksShape'
  <2>1. task' \in [Worker -> Task]
    BY <1>1, <1>3, <1>4
  <2> QED
    BY <1>1, <1>4, <1>5, <2>1 DEF TasksShape, Filling
<1>8. BackupTypeOK'
  <2>1. DOMAIN folders' \subseteq 0..now' /\ \A q \in DOMAIN folders' : folders'[q] \in {"none", "part", "whole"}
    BY <1>1, <1>2 DEF BackupTypeOK
  <2>2. \A r \in Worker :
       /\ task'[r].op \in {"idle", "dump", "write", "list", "prune"}
       /\ task'[r].op = "prune" => task'[r].left \subseteq 0..now'
       /\ task'[r].op = "write" /\ ~task'[r].cut => task'[r].at \in DOMAIN folders'
    BY <1>1, <1>2, <1>4, <1>5 DEF BackupTypeOK
  <2> QED
    BY <1>1, <2>1, <2>2 DEF BackupTypeOK
<1>9. OwnFolders'
  <2> SUFFICES ASSUME "shared" \notin trouble
               PROVE  OwnFolders'
    BY <1>1 DEF OwnFolders
  <2>1. others = {}
    BY <1>1 DEF OwnFolders, Filling
  <2>2. \A r \in Worker \ {s} : task'[r] = task[r]
    BY <1>4, <2>1
  <2>3. task'[s].mixed = FALSE
    BY <1>5, <2>1
  <2>4. \A r \in Worker \ {s} : Filling(r) => task[r].at # n
    BY <1>1 DEF OwnFolders, Filling
  <2> HIDE DEF others, n
  <2>5. \A r \in Worker \ {s} : Filling(r)' =>
          /\ \A q \in Worker \ {r} : Filling(q)' => task'[q].at # task'[r].at
          /\ task'[r].at \in DOMAIN folders' => folders'[task'[r].at] # "whole"
          /\ task'[r].op = "write" => ~task'[r].mixed /\ (task'[r].cut => task'[r].at \notin DOMAIN folders')
    BY <1>2, <1>5, <2>2, <2>4 DEF OwnFolders, Filling
  <2>6. /\ \A q \in Worker \ {s} : Filling(q)' => task'[q].at # task'[s].at
        /\ folders'[task'[s].at] # "whole"
        /\ ~task'[s].mixed /\ ~task'[s].cut
    BY <1>2, <1>5, <2>2, <2>3, <2>4 DEF Filling
  <2> QED
    BY <2>5, <2>6 DEF OwnFolders
<1>10. \A q : Busy(q)' <=> Busy(q)
  BY <1>1, <1>4, <1>5 DEF Busy
<1>11. ListedIsWhole'
  BY <1>1, <1>2, <1>5, <1>10 DEF ListedIsWhole, Busy
<1>12. /\ OneAtATime'
       /\ trouble' = {} => \A r \in Worker \ {s} : task[r] = NoTask /\ task'[r] = NoTask
  BY <1>1, <1>4, AloneKept DEF NoTask
<1>13. NewestStay'
  BY <1>5, <1>12, NewestKept
<1>14. Bounded'
  <2>1. Listing => Listing'
    BY <1>1, <1>4 DEF Listing
  <2>2. Settled' \subseteq Settled
    BY <1>2, <1>10 DEF Settled
  <2>3. Undisturbed' = Undisturbed /\ \A r \in Undisturbed : task'[r] = task[r]
    BY <1>1, <1>4, <1>5 DEF Undisturbed
  <2> QED
    BY <1>1, <2>1, <2>2, <2>3, FoldersFinite, BoundedKept
<1> QED
  BY <1>7, <1>8, <1>9, <1>11, <1>12, <1>13, <1>14

\* The file is closed: whole, if it was the request's own, or gone.
LEMMA CloseFileInv ==
  ASSUME BackupInv, NEW s \in Worker, CloseFile(s)
  PROVE  BackupInv'
<1> USE DEF BackupInv
<1> DEFINE n == task[s].at
<1>1. /\ task[s].op = "write" /\ now' = now /\ trouble' = trouble /\ overdue' = overdue /\ calls' = calls
      /\ task' = [task EXCEPT ![s] =
           IF n \in DOMAIN folders THEN [op |-> "list", keep |-> task[s].keep] ELSE NoTask]
      /\ task[s].cut => folders' = folders
      /\ ~task[s].cut => \E out \in {"part", "whole"} :
           folders' = [folders EXCEPT ![n] = out] /\ (~task[s].mixed => out = "whole")
  BY DEF CloseFile, Become, Present, history
<1>2. task[s] \in [op : {"write"}, at : Nat, keep : Keep, cut : BOOLEAN, mixed : BOOLEAN]
  BY <1>1, TaskKinds DEF TasksShape
<1>3. /\ DOMAIN folders' = DOMAIN folders
      /\ \A q \in DOMAIN folders : q # n => folders'[q] = folders[q]
      /\ \A q \in DOMAIN folders : folders'[q] \in {"none", "part", "whole"}
      /\ n \in DOMAIN folders /\ "shared" \notin trouble => folders'[n] = "whole"
  <2>1. CASE task[s].cut
    <3>1. folders' = folders
      BY <1>1, <2>1
    <3>2. n \in DOMAIN folders => "shared" \in trouble
      BY <1>1, <2>1 DEF OwnFolders, Filling
    <3> QED
      BY <3>1, <3>2 DEF BackupTypeOK
  <2>2. CASE ~task[s].cut
    <3>1. PICK out \in {"part", "whole"} :
            folders' = [folders EXCEPT ![n] = out] /\ (~task[s].mixed => out = "whole")
      BY <1>1, <2>2
    <3>2. "shared" \notin trouble => ~task[s].mixed
      BY <1>1 DEF OwnFolders, Filling
    <3> QED
      BY <3>1, <3>2 DEF BackupTypeOK
  <2> QED
    BY <2>1, <2>2
<1>4. /\ task' \in [Worker -> Task]
      /\ \A r \in Worker \ {s} : task'[r] = task[r]
      /\ n \in DOMAIN folders => task'[s].op = "list"
      /\ n \notin DOMAIN folders => task'[s] = NoTask
      /\ task'[s].op \in {"list", "idle"}
  <2>1. [op |-> "list", keep |-> task[s].keep] \in Task /\ NoTask \in Task
    BY <1>2 DEF Task, NoTask
  <2>2. \A r \in Worker \ {s} : task'[r] = task[r]
    BY <1>1 DEF TasksShape
  <2>3. task'[s] = IF n \in DOMAIN folders THEN [op |-> "list", keep |-> task[s].keep] ELSE NoTask
    BY <1>1 DEF TasksShape
  <2>4. task' \in [Worker -> Task]
    BY <1>1, <2>1 DEF TasksShape
  <2> QED
    BY <2>2, <2>3, <2>4 DEF NoTask
<1> HIDE DEF n
<1>5. TasksShape'
  BY <1>1, <1>4 DEF TasksShape, Filling
<1>6. BackupTypeOK'
  <2>1. DOMAIN folders' \subseteq 0..now' /\ \A q \in DOMAIN folders' : folders'[q] \in {"none", "part", "whole"}
    BY <1>1, <1>3 DEF BackupTypeOK
  <2>2. \A r \in Worker :
       /\ task'[r].op \in {"idle", "dump", "write", "list", "prune"}
       /\ task'[r].op = "prune" => task'[r].left \subseteq 0..now'
       /\ task'[r].op = "write" /\ ~task'[r].cut => task'[r].at \in DOMAIN folders'
    BY <1>1, <1>3, <1>4 DEF BackupTypeOK
  <2> QED
    BY <1>1, <2>1, <2>2 DEF BackupTypeOK
<1>7. OwnFolders'
  <2> SUFFICES ASSUME "shared" \notin trouble, NEW r \in Worker \ {s}, Filling(r)
               PROVE  /\ \A q \in Worker \ {r} : Filling(q)' => task'[q].at # task'[r].at
                      /\ task'[r].at \in DOMAIN folders' => folders'[task'[r].at] # "whole"
                      /\ task'[r].op = "write" =>
                           ~task'[r].mixed /\ (task'[r].cut => task'[r].at \notin DOMAIN folders')
    BY <1>1, <1>4 DEF OwnFolders, Filling
  <2>1. /\ \A q \in Worker \ {r} : Filling(q) => task[q].at # task[r].at
        /\ task[r].at \in DOMAIN folders => folders[task[r].at] # "whole"
        /\ task[r].op = "write" => ~task[r].mixed /\ (task[r].cut => task[r].at \notin DOMAIN folders)
    BY DEF OwnFolders
  <2>2. task[r].at # n
    BY <1>1, <2>1 DEF n, Filling
  <2> QED
    BY <1>3, <1>4, <2>1, <2>2 DEF Filling
<1>8. \A q : q # n => (Busy(q)' <=> Busy(q))
  BY <1>1, <1>4 DEF Busy, n
<1>9. ListedIsWhole'
  BY <1>1, <1>3, <1>8 DEF ListedIsWhole
<1>10. /\ OneAtATime'
       /\ trouble' = {} => \A r \in Worker \ {s} : task[r] = NoTask /\ task'[r] = NoTask
  BY <1>1, <1>4, AloneKept DEF NoTask
<1>11. NewestStay'
  BY <1>4, <1>10, NewestKept
<1>12. Bounded'
  <2>1. CASE n \in DOMAIN folders
    BY <1>4, <2>1, BoundedListing DEF Listing
  <2>2. CASE n \notin DOMAIN folders
    <3>1. Listing => Listing'
      BY <1>1, <1>4 DEF Listing
    <3>2. Settled' \subseteq Settled
      BY <1>3, <1>8, <2>2 DEF Settled
    <3>3. Undisturbed' = Undisturbed /\ \A r \in Undisturbed : task'[r] = task[r]
      BY <1>1, <1>4 DEF Undisturbed
    <3> QED
      BY <1>1, <3>1, <3>2, <3>3, FoldersFinite, BoundedKept
  <2> QED
    BY <2>1, <2>2
<1> QED
  BY <1>5, <1>6, <1>7, <1>9, <1>10, <1>11, <1>12

------------------------------------------------------------------------------
(* Pruning.                                                                 *)

\* Of some numbers up to m one is the greatest.
LEMMA GreatestName ==
  ASSUME NEW m \in Nat, NEW S \in SUBSET (0..m), S # {}
  PROVE  \E n \in S : \A q \in S : q <= n
<1> DEFINE T == {k \in Nat : m - k \in S}
<1>1. T # {}
  <2>1. PICK n \in S : TRUE
    OBVIOUS
  <2>2. m - n \in Nat /\ m - (m - n) = n
    OBVIOUS
  <2> QED
    BY <2>1, <2>2
<1>2. PICK k \in T : \A j \in T : k <= j
  BY <1>1, LeastNumber
<1>3. \A q \in S : m - q \in T
  <2>1. ASSUME NEW q \in S PROVE m - q \in Nat /\ m - (m - q) = q
    OBVIOUS
  <2> QED
    BY <2>1
<1>4. m - k \in S /\ \A q \in S : q <= m - k
  BY <1>2, <1>3
<1> QED
  BY <1>4

Above(S, n) == {q \in S : q > n}

\* Among what is above there are the members that are greater, and no others.
LEMMA AboveMembers ==
  ASSUME NEW S, NEW n
  PROVE  \A q : q \in Above(S, n) <=> q \in S /\ q > n
BY DEF Above

\* Of some names those with at least k newer ones are all older than the others,
\* which are at most k, and k if there is any that old.
LEMMA NewestOnes ==
  ASSUME NEW m \in Nat, NEW S \in SUBSET (0..m), NEW k \in Nat \ {0}, NEW Old \in SUBSET S,
         \A n \in S : n \in Old <=> Cardinality(Above(S, n)) >= k
  PROVE  /\ Cardinality(S \ Old) <= k
         /\ Old # {} => Cardinality(S \ Old) >= k
         /\ \A n \in Old, q \in S \ Old : q > n
<1>1. IsFiniteSet(S) /\ IsFiniteSet(S \ Old)
  <2>1. IsFiniteSet(0..m)
    BY FS_Interval
  <2>2. IsFiniteSet(S)
    BY <2>1, FS_Subset
  <2> QED
    BY <2>2, FS_Subset
<1> \A n \in S : n \in Int
  OBVIOUS
<1>2. \A n \in S : IsFiniteSet(Above(S, n)) /\ Cardinality(Above(S, n)) \in Nat
  BY <1>1, AboveMembers, FS_Subset, FS_CardinalityType
<1>3. ASSUME NEW n \in Old, NEW q \in S \ Old PROVE q > n
  <2> SUFFICES ASSUME ~ (q > n) PROVE FALSE
    OBVIOUS
  <2>1. n \in S /\ q <= n
    OBVIOUS
  <2>2. ASSUME NEW p \in Above(S, n) PROVE p \in Above(S, q)
    <3>1. p \in S /\ p > n
      BY AboveMembers
    <3>2. p \in Int /\ n \in Int /\ q \in Int
      BY <2>1, <3>1
    <3>3. p > q
      BY <2>1, <3>1, <3>2
    <3> QED
      BY <3>1, <3>3, AboveMembers
  <2>3. Cardinality(Above(S, n)) <= Cardinality(Above(S, q))
    BY <1>2, <2>2, FS_Subset
  <2>4. Cardinality(Above(S, n)) >= k /\ ~ (Cardinality(Above(S, q)) >= k)
    OBVIOUS
  <2> QED
    BY <1>2, <2>1, <2>3, <2>4
<1>4. Cardinality(S \ Old) <= k
  <2>1. CASE S \ Old = {}
    <3>1. Cardinality(S \ Old) = 0
      BY <2>1, FS_EmptySet, Zenon
    <3> QED
      BY <3>1
  <2>2. CASE S \ Old # {}
    <3>1. S \ Old \in SUBSET Nat
      OBVIOUS
    <3>2. PICK n \in S \ Old : \A q \in S \ Old : n <= q
      BY <2>2, <3>1, LeastNumber
    <3>3. S \ Old \subseteq Above(S, n) \cup {n}
      BY <3>2, AboveMembers
    <3>4. ~ (Cardinality(Above(S, n)) >= k)
      OBVIOUS
    <3>5. IsFiniteSet(Above(S, n) \cup {n}) /\ Cardinality(Above(S, n) \cup {n}) = Cardinality(Above(S, n)) + 1
      <4>1. n \notin Above(S, n)
        BY AboveMembers
      <4>2. IsFiniteSet(Above(S, n))
        BY <1>2
      <4> QED
        BY <4>1, <4>2, FS_AddElement
    <3>6. Cardinality(S \ Old) <= Cardinality(Above(S, n) \cup {n})
      BY <3>3, <3>5, FS_Subset
    <3>7. Cardinality(S \ Old) \in Nat /\ Cardinality(Above(S, n)) \in Nat
      BY <1>1, <1>2, FS_CardinalityType
    <3> QED
      BY <3>4, <3>5, <3>6, <3>7
  <2> QED
    BY <2>1, <2>2
<1>5. ASSUME Old # {} PROVE Cardinality(S \ Old) >= k
  <2>1. Old \in SUBSET (0..m)
    OBVIOUS
  <2>2. PICK n \in Old : \A q \in Old : q <= n
    BY <1>5, <2>1, GreatestName
  <2>3. ASSUME NEW p \in Above(S, n) PROVE p \in S \ Old
    <3>1. p \in S /\ p > n
      BY AboveMembers
    <3>2. p \in Int /\ n \in Int
      BY <2>1, <3>1
    <3>3. p \notin Old
      BY <2>2, <3>1, <3>2
    <3> QED
      BY <3>1, <3>3
  <2>4. Cardinality(Above(S, n)) <= Cardinality(S \ Old)
    BY <1>1, <2>3, FS_Subset
  <2>5. n \in S /\ Cardinality(Above(S, n)) >= k
    OBVIOUS
  <2>6. Cardinality(S \ Old) \in Nat /\ Cardinality(Above(S, n)) \in Nat
    BY <1>1, <1>2, <2>5, FS_CardinalityType
  <2> QED
    BY <2>4, <2>5, <2>6
<1> QED
  BY <1>3, <1>4, <1>5

\* What is listed as too old, and what stays.
LEMMA TooOldEffect ==
  ASSUME BackupTypeOK, NEW k \in Keep
  PROVE  /\ TooOld(k) \in SUBSET DOMAIN folders
         /\ Cardinality(DOMAIN folders \ TooOld(k)) <= k
         /\ TooOld(k) # {} => Cardinality(DOMAIN folders \ TooOld(k)) >= k
         /\ \A n \in TooOld(k), q \in DOMAIN folders \ TooOld(k) : q > n
<1>1. now \in Nat /\ DOMAIN folders \in SUBSET (0..now)
  BY BackupAssumption DEF BackupTypeOK, Second
<1>2. k \in Nat \ {0}
  BY BackupAssumption
<1>3. TooOld(k) = {n \in DOMAIN folders : Cardinality(Above(DOMAIN folders, n)) >= k}
  BY DEF TooOld, Above
<1>4. /\ TooOld(k) \in SUBSET DOMAIN folders
      /\ \A n \in DOMAIN folders : n \in TooOld(k) <=> Cardinality(Above(DOMAIN folders, n)) >= k
  BY <1>3
<1> QED
  BY <1>1, <1>2, <1>4, NewestOnes

\* The folders are listed.
LEMMA BeginPruneInv ==
  ASSUME BackupInv, NEW s \in Worker, BeginPrune(s)
  PROVE  BackupInv'
<1> USE DEF BackupInv
<1> DEFINE k == task[s].keep
           list == [op |-> "prune", keep |-> k, left |-> TooOld(k), latest |-> TRUE]
<1>1. /\ task[s].op = "list" /\ task' = [task EXCEPT ![s] = list]
      /\ now' = now /\ folders' = folders /\ trouble' = trouble /\ overdue' = overdue /\ calls' = calls
  BY DEF BeginPrune, Become, history
<1>2. k \in Keep
  BY <1>1, TaskKinds DEF TasksShape
<1>3. TooOld(k) \subseteq DOMAIN folders
  BY <1>2, TooOldEffect
<1>4. list \in Task
  BY <1>2, <1>3, FoldersFinite DEF Task
<1>5. /\ task' \in [Worker -> Task]
      /\ task'[s].op = "prune" /\ task'[s].keep = k /\ task'[s].left = TooOld(k) /\ task'[s].latest
      /\ \A r \in Worker \ {s} : task'[r] = task[r]
  BY <1>1, <1>4 DEF TasksShape
<1> HIDE DEF k, list
<1>6. TasksShape'
  BY <1>1, <1>5 DEF TasksShape, Filling
<1>7. BackupTypeOK'
  BY <1>1, <1>3, <1>5 DEF BackupTypeOK
<1>8. OwnFolders'
  BY <1>1, <1>5 DEF OwnFolders, Filling
<1>9. \A q : Busy(q)' <=> Busy(q)
  BY <1>1, <1>5 DEF Busy
<1>10. ListedIsWhole'
  BY <1>1, <1>9 DEF ListedIsWhole
<1>11. /\ OneAtATime'
       /\ trouble' = {} => \A r \in Worker \ {s} : task[r] = NoTask /\ task'[r] = NoTask
  BY <1>1, <1>5, AloneKept DEF NoTask
<1>12. NewestStay'
  <2>1. TooOld(k) # {} =>
          /\ Cardinality(DOMAIN folders \ TooOld(k)) >= k
          /\ \A n \in TooOld(k), q \in DOMAIN folders \ TooOld(k) : q > n
    BY <1>2, TooOldEffect
  <2> QED
    BY <1>1, <1>2, <1>5, <1>11, <2>1 DEF NewestStay, NoTask
<1>13. Bounded'
  <2>1. IsFiniteSet(DOMAIN folders \ TooOld(k)) /\ Cardinality(DOMAIN folders \ TooOld(k)) <= k
    BY <1>2, TooOldEffect, FoldersFinite, FS_Subset
  <2>2. Settled' \ task'[s].left \subseteq DOMAIN folders \ TooOld(k)
    BY <1>1, <1>5 DEF Settled
  <2>3. \E keep \in Keep : Cardinality(Settled' \ task'[s].left) <= keep
    BY <1>2, <2>1, <2>2, FewerStill
  <2>4. s \in Undisturbed'
    BY <1>5 DEF Undisturbed
  <2> QED
    BY <2>3, <2>4 DEF Bounded, Few
<1> QED
  BY <1>6, <1>7, <1>8, <1>10, <1>11, <1>12, <1>13

\* A folder is removed: no other is touched, whoever wrote there is told, and at
\* most it is struck off a list.
LEMMA RemovalKeeps ==
  ASSUME BackupInv, NEW n, task' \in [Worker -> Task],
         now' = now, overdue' = overdue, folders' = FoldersWithout({n}), calls' \in 0..MaxCalls,
         trouble \subseteq trouble', trouble' \subseteq trouble \cup {"overlap"},
         \A r \in Worker :
           /\ task[r].op # "prune" => task'[r] = Cut(n)[r]
           /\ task[r].op = "prune" => /\ task'[r].op = "prune" /\ task'[r].latest = task[r].latest
                                      /\ task'[r].left \in {task[r].left, task[r].left \ {n}}
  PROVE  BackupTypeOK' /\ TasksShape' /\ OwnFolders' /\ ListedIsWhole' /\ Bounded'
<1> USE DEF BackupInv
<1>1. /\ DOMAIN folders' = DOMAIN folders \ {n}
      /\ \A q \in DOMAIN folders' : folders'[q] = folders[q]
  BY DEF FoldersWithout
<1>2. \A r \in Worker :
        /\ task'[r].op = task[r].op
        /\ task[r].op \in {"dump", "write"} => task'[r].at = task[r].at
        /\ task[r].op = "write" => /\ task'[r].mixed = task[r].mixed
                                   /\ task'[r].cut <=> (task[r].cut \/ task[r].at = n)
  BY CutEffect
<1>3. TasksShape'
  BY <1>2 DEF TasksShape, Filling
<1>4. BackupTypeOK'
  <2>1. DOMAIN folders' \subseteq 0..now' /\ \A q \in DOMAIN folders' : folders'[q] \in {"none", "part", "whole"}
    BY <1>1 DEF BackupTypeOK
  <2>2. \A r \in Worker :
       /\ task'[r].op \in {"idle", "dump", "write", "list", "prune"}
       /\ task'[r].op = "prune" => task'[r].left \subseteq 0..now'
       /\ task'[r].op = "write" /\ ~task'[r].cut => task'[r].at \in DOMAIN folders'
    BY <1>1, <1>2 DEF BackupTypeOK
  <2>3. now' \in Second /\ overdue' \in BOOLEAN /\ trouble' \subseteq {"stop", "overlap", "shared"}
    BY DEF BackupTypeOK
  <2> QED
    BY <2>1, <2>2, <2>3 DEF BackupTypeOK
<1>5. OwnFolders'
  <2> SUFFICES ASSUME "shared" \notin trouble, NEW r \in Worker, Filling(r)
               PROVE  /\ \A q \in Worker \ {r} : Filling(q)' => task'[q].at # task'[r].at
                      /\ task'[r].at \in DOMAIN folders' => folders'[task'[r].at] # "whole"
                      /\ task'[r].op = "write" =>
                           ~task'[r].mixed /\ (task'[r].cut => task'[r].at \notin DOMAIN folders')
    BY <1>2 DEF OwnFolders, Filling
  <2>1. /\ \A q \in Worker \ {r} : Filling(q) => task[q].at # task[r].at
        /\ task[r].at \in DOMAIN folders => folders[task[r].at] # "whole"
        /\ task[r].op = "write" => ~task[r].mixed /\ (task[r].cut => task[r].at \notin DOMAIN folders)
    BY DEF OwnFolders
  <2>2. \A q \in Worker \ {r} : Filling(q)' => task'[q].at # task'[r].at
    BY <1>2, <2>1 DEF Filling
  <2>3. task'[r].at \in DOMAIN folders' => folders'[task'[r].at] # "whole"
    <3>1. task'[r].at = task[r].at
      BY <1>2 DEF Filling
    <3> QED
      BY <1>1, <2>1, <3>1
  <2>4. task'[r].op = "write" =>
          ~task'[r].mixed /\ (task'[r].cut => task'[r].at \notin DOMAIN folders')
    BY <1>1, <1>2, <2>1 DEF Filling
  <2> QED
    BY <2>2, <2>3, <2>4
<1>6. \A q : Busy(q)' <=> Busy(q)
  BY <1>2 DEF Busy
<1>7. ListedIsWhole'
  BY <1>1, <1>6 DEF ListedIsWhole
<1>8. Bounded'
  <2>1. Listing => Listing'
    BY <1>2 DEF Listing
  <2>2. Settled' = Settled \ {n}
    BY <1>1, <1>6 DEF Settled
  <2>3. Undisturbed' = Undisturbed
    BY <1>2 DEF Undisturbed
  <2>4. \A r \in Undisturbed : Settled' \ task'[r].left \subseteq Settled \ task[r].left
    BY <2>2 DEF Undisturbed
  <2> QED
    BY <2>1, <2>2, <2>3, <2>4, FoldersFinite, BoundedKept
<1> QED
  BY <1>3, <1>4, <1>5, <1>7, <1>8

\* One entry of the list goes, the newest first.
LEMMA PruneOneInv ==
  ASSUME BackupInv, NEW s \in Worker, PruneOne(s)
  PROVE  BackupInv'
<1> USE DEF BackupInv
<1> DEFINE n == CHOOSE n \in task[s].left : \A q \in task[s].left : q <= n
<1>1. /\ task[s].op = "prune" /\ task[s].left # {}
      /\ folders' = FoldersWithout({n}) /\ task' = [Cut(n) EXCEPT ![s].left = @ \ {n}]
      /\ now' = now /\ trouble' = trouble /\ overdue' = overdue /\ calls' = calls
  BY DEF PruneOne, history
<1> HIDE DEF n
<1>2. Cut(n) \in [Worker -> Task] /\ Cut(n)[s] = task[s]
  BY <1>1, CutEffect
<1>3. task[s] \in [op : {"prune"}, keep : Keep, left : SUBSET Nat, latest : BOOLEAN]
  BY <1>1, TaskKinds DEF TasksShape
<1>4. /\ task' = [Cut(n) EXCEPT ![s] = [task[s] EXCEPT !.left = task[s].left \ {n}]]
      /\ [task[s] EXCEPT !.left = task[s].left \ {n}] \in [op : {"prune"}, keep : Keep, left : SUBSET Nat, latest : BOOLEAN]
  BY <1>1, <1>2, <1>3
<1>5. /\ task' \in [Worker -> Task]
      /\ task'[s].op = "prune" /\ task'[s].keep = task[s].keep
      /\ task'[s].latest = task[s].latest /\ task'[s].left = task[s].left \ {n}
      /\ \A r \in Worker \ {s} : task'[r] = Cut(n)[r]
  BY <1>2, <1>3, <1>4 DEF Task
<1>6. BackupTypeOK' /\ TasksShape' /\ OwnFolders' /\ ListedIsWhole' /\ Bounded'
  <2>1. \A r \in Worker :
           /\ task[r].op # "prune" => task'[r] = Cut(n)[r]
           /\ task[r].op = "prune" => /\ task'[r].op = "prune" /\ task'[r].latest = task[r].latest
                                      /\ task'[r].left \in {task[r].left, task[r].left \ {n}}
    BY <1>1, <1>5, CutEffect
  <2>2. calls' \in 0..MaxCalls
    BY <1>1 DEF BackupTypeOK
  <2> QED
    BY <1>1, <1>5, <2>1, <2>2, RemovalKeeps
<1>7. /\ OneAtATime'
      /\ trouble' = {} => \A r \in Worker \ {s} : task[r] = NoTask /\ task'[r] = NoTask
  BY <1>1, <1>5, CutEffect, AloneKept DEF NoTask
<1>8. NewestStay'
  <2> SUFFICES ASSUME trouble = {}, task'[s].left # {}
               PROVE  /\ Cardinality(DOMAIN folders' \ task'[s].left) >= task'[s].keep
                      /\ \A m \in task'[s].left, q \in DOMAIN folders' \ task'[s].left : q > m
    <3>1. trouble' = {} => trouble = {} /\ \A r \in Worker \ {s} : task'[r].op # "prune"
      BY <1>1, <1>7 DEF NoTask
    <3> QED
      BY <3>1 DEF NewestStay
  <2>1. /\ Cardinality(DOMAIN folders \ task[s].left) >= task[s].keep
        /\ \A m \in task[s].left, q \in DOMAIN folders \ task[s].left : q > m
    BY <1>1 DEF NewestStay
  <2>2. n \in task[s].left
    <3>1. now \in Nat /\ task[s].left \in SUBSET (0..now)
      BY <1>1, BackupAssumption DEF BackupTypeOK, Second
    <3> QED
      BY <1>1, <3>1, GreatestName DEF n
  <2>3. DOMAIN folders' \ task'[s].left = DOMAIN folders \ task[s].left
    BY <1>1, <1>5, <2>2 DEF FoldersWithout
  <2> QED
    BY <1>5, <2>1, <2>3
<1> QED
  BY <1>6, <1>7, <1>8

\* A folder the user deletes.
LEMMA DeleteBackupInv ==
  ASSUME BackupInv, NEW s \in Worker, DeleteBackup(s)
  PROVE  BackupInv'
<1> USE DEF BackupInv
<1>1. PICK n \in DOMAIN folders : folders' = FoldersWithout({n}) /\ task' = Cut(n)
  BY DEF DeleteBackup
<1>2. /\ now' = now /\ overdue' = overdue /\ trouble' = trouble \cup Overlap
      /\ calls' \in 0..MaxCalls
      /\ Overlap \subseteq {"overlap"}
      /\ trouble' = {} => trouble = {} /\ \A r \in Worker : task[r] = NoTask
  BY BackupAssumption DEF DeleteBackup, Overlap, BackupTypeOK
<1>3. BackupTypeOK' /\ TasksShape' /\ OwnFolders' /\ ListedIsWhole' /\ Bounded'
  <2>1. task' \in [Worker -> Task]
    BY <1>1, CutEffect
  <2>2. \A r \in Worker :
           /\ task[r].op # "prune" => task'[r] = Cut(n)[r]
           /\ task[r].op = "prune" => /\ task'[r].op = "prune" /\ task'[r].latest = task[r].latest
                                      /\ task'[r].left \in {task[r].left, task[r].left \ {n}}
    BY <1>1, CutEffect
  <2> QED
    BY <1>1, <1>2, <2>1, <2>2, RemovalKeeps
<1>4. trouble' = {} => \A r \in Worker : task'[r] = NoTask
  BY <1>1, <1>2, CutEffect DEF NoTask
<1>5. OneAtATime' /\ NewestStay'
  BY <1>4 DEF OneAtATime, NewestStay, NoTask
<1> QED
  BY <1>3, <1>5

\* The list is done with.
LEMMA EndPruneInv ==
  ASSUME BackupInv, NEW s \in Worker, EndPrune(s)
  PROVE  BackupInv'
<1> USE DEF BackupInv
<1>1. /\ task[s].op = "prune" /\ task[s].left = {} /\ task' = [task EXCEPT ![s] = NoTask]
      /\ now' = now /\ folders' = folders /\ trouble' = trouble /\ calls' = calls
      /\ overdue' = (overdue /\ ~task[s].latest)
  BY DEF EndPrune, Become
<1>2. /\ task' \in [Worker -> Task] /\ task'[s] = NoTask
      /\ \A r \in Worker \ {s} : task'[r] = task[r]
  BY <1>1 DEF TasksShape, Task, NoTask
<1>3. overdue' \in BOOLEAN /\ (~overdue' <=> ~overdue \/ task[s].latest)
  BY <1>1
<1>4. TasksShape' /\ BackupTypeOK'
  BY <1>1, <1>2, <1>3 DEF TasksShape, BackupTypeOK, Filling, NoTask
<1>5. OwnFolders'
  BY <1>1, <1>2 DEF OwnFolders, Filling, NoTask
<1>6. \A q : Busy(q)' <=> Busy(q)
  BY <1>1, <1>2 DEF Busy, NoTask
<1>7. ListedIsWhole'
  BY <1>1, <1>6 DEF ListedIsWhole
<1>8. /\ OneAtATime'
      /\ trouble' = {} => \A r \in Worker \ {s} : task[r] = NoTask /\ task'[r] = NoTask
  BY <1>1, <1>2, AloneKept DEF NoTask
<1>9. NewestStay'
  BY <1>2, <1>8, NewestKept DEF NoTask
<1>10. Bounded'
  <2> SUFFICES ASSUME ~overdue' \/ Undisturbed' # {}
               PROVE  Listing' \/ Few({})' \/ \E r \in Undisturbed' : Few(task[r].left)'
    BY DEF Bounded
  <2>1. Undisturbed' = Undisturbed \ {s}
    BY <1>2 DEF Undisturbed, NoTask
  <2>2. ~overdue \/ Undisturbed # {}
    <3>1. task[s].latest => s \in Undisturbed
      BY <1>1 DEF Undisturbed
    <3> QED
      BY <1>3, <2>1, <3>1
  <2>3. Listing => Listing'
    BY <1>1, <1>2 DEF Listing
  <2>4. Settled' = Settled
    BY <1>1, <1>6 DEF Settled
  <2>5. Few({}) => Few({})'
    BY <2>4 DEF Few
  <2>6. ASSUME NEW r \in Undisturbed, Few(task[r].left)
        PROVE  Few({})' \/ \E q \in Undisturbed' : Few(task[q].left)'
    <3>1. CASE r = s
      BY <1>1, <2>4, <2>6, <3>1 DEF Few
    <3>2. CASE r # s
      <4>1. r \in Undisturbed' /\ task'[r].left = task[r].left
        BY <1>2, <2>1, <3>2 DEF Undisturbed
      <4> QED
        BY <2>4, <2>6, <4>1 DEF Few
    <3> QED
      BY <3>1, <3>2
  <2> QED
    BY <2>2, <2>3, <2>5, <2>6 DEF Bounded
<1> QED
  BY <1>4, <1>5, <1>7, <1>8, <1>9, <1>10

\* A request stumbles over another one's removal.
LEMMA StumbleInv ==
  ASSUME BackupInv, NEW s \in Worker, Stumble(s)
  PROVE  BackupInv'
<1> USE DEF BackupInv
<1>1. /\ task[s].op \in {"list", "prune"}
      /\ task' = [r \in Worker |->
           IF r = s THEN NoTask
           ELSE IF task[r].op = "prune" THEN [task[r] EXCEPT !.latest = FALSE] ELSE task[r]]
      /\ now' = now /\ folders' = folders /\ trouble' = trouble /\ overdue' = TRUE
      /\ calls' = calls
  BY DEF Stumble
<1>2. task'[s] = NoTask /\ NoTask \in Task
  BY <1>1 DEF Task, NoTask
<1>3. \A r \in Worker \ {s} :
        /\ task'[r] \in Task /\ task'[r].op = task[r].op
        /\ task[r].op # "prune" => task'[r] = task[r]
        /\ task[r].op = "prune" => task'[r].left = task[r].left /\ ~task'[r].latest
  <2> SUFFICES ASSUME NEW r \in Worker \ {s}
               PROVE  /\ task'[r] \in Task /\ task'[r].op = task[r].op
                      /\ task[r].op # "prune" => task'[r] = task[r]
                      /\ task[r].op = "prune" => task'[r].left = task[r].left /\ ~task'[r].latest
    OBVIOUS
  <2>1. task[r] \in Task
    BY DEF TasksShape
  <2>2. CASE task[r].op = "prune"
    <3>1. task[r] \in [op : {"prune"}, keep : Keep, left : SUBSET Nat, latest : BOOLEAN]
      BY <2>1, <2>2, TaskKinds
    <3>2. task'[r] = [task[r] EXCEPT !.latest = FALSE]
      BY <1>1, <2>2
    <3>3. /\ [task[r] EXCEPT !.latest = FALSE] \in [op : {"prune"}, keep : Keep, left : SUBSET Nat, latest : BOOLEAN]
          /\ [task[r] EXCEPT !.latest = FALSE].left = task[r].left
          /\ [task[r] EXCEPT !.latest = FALSE].latest = FALSE
      BY <3>1
    <3>4. task'[r].left = task[r].left /\ ~task'[r].latest
      BY <3>2, <3>3
    <3>5. task'[r] \in Task /\ task'[r].op = "prune"
      BY <3>2, <3>3 DEF Task
    <3> QED
      BY <2>2, <3>4, <3>5
  <2>3. CASE task[r].op # "prune"
    <3>1. task'[r] = task[r]
      BY <1>1, <2>3
    <3> QED
      BY <2>1, <2>3, <3>1
  <2> QED
    BY <2>2, <2>3
<1>4. task' \in [Worker -> Task]
  BY <1>1, <1>2, <1>3
<1>5. TasksShape'
  BY <1>1, <1>2, <1>3, <1>4 DEF TasksShape, Filling, NoTask
<1>6. BackupTypeOK'
  <2>1. \A r \in Worker :
       /\ task'[r].op \in {"idle", "dump", "write", "list", "prune"}
       /\ task'[r].op = "prune" => task'[r].left \subseteq 0..now'
       /\ task'[r].op = "write" /\ ~task'[r].cut => task'[r].at \in DOMAIN folders'
    BY <1>1, <1>2, <1>3 DEF BackupTypeOK, NoTask
  <2> QED
    BY <1>1, <2>1 DEF BackupTypeOK
<1>7. OwnFolders'
  BY <1>1, <1>2, <1>3 DEF OwnFolders, Filling, NoTask
<1>8. \A q : Busy(q)' <=> Busy(q)
  BY <1>1, <1>2, <1>3 DEF Busy, NoTask
<1>9. ListedIsWhole'
  BY <1>1, <1>8 DEF ListedIsWhole
<1>10. /\ OneAtATime'
       /\ trouble' = {} => \A r \in Worker \ {s} : task[r] = NoTask /\ task'[r] = NoTask
  BY <1>1, <1>3, AloneKept DEF NoTask
<1>11. NewestStay'
  BY <1>2, <1>10, NewestKept DEF NoTask
<1>12. Bounded'
  <2>1. Undisturbed' = {}
    BY <1>2, <1>3 DEF Undisturbed, NoTask
  <2> QED
    BY <1>1, <2>1 DEF Bounded
<1> QED
  BY <1>5, <1>6, <1>7, <1>9, <1>10, <1>11, <1>12

\* The server stops.
LEMMA ServerStopsInv ==
  ASSUME BackupInv, ServerStops
  PROVE  BackupInv'
<1> USE DEF BackupInv
<1>1. /\ task' = [s \in Worker |-> NoTask]
      /\ now' = now /\ folders' = folders /\ calls' = calls
      /\ trouble' = trouble \cup {"stop"} /\ overdue' = TRUE
  BY DEF ServerStops
<1>2. \A s \in Worker : task'[s] = NoTask
  BY <1>1
<1>3. TasksShape'
  <2>1. NoTask \in Task
    BY DEF Task, NoTask
  <2> QED
    BY <1>1, <1>2, <2>1 DEF TasksShape, Filling, NoTask
<1>4. BackupTypeOK'
  BY <1>1, <1>2 DEF BackupTypeOK, NoTask
<1>5. OwnFolders' /\ ListedIsWhole' /\ OneAtATime' /\ NewestStay'
  BY <1>1, <1>2 DEF OwnFolders, ListedIsWhole, OneAtATime, NewestStay, Filling, NoTask
<1>6. Bounded'
  BY <1>1, <1>2 DEF Bounded, Undisturbed, NoTask
<1> QED
  BY <1>3, <1>4, <1>5, <1>6

------------------------------------------------------------------------------
(* The specification.                                                       *)

\* Nothing is there at the start.
LEMMA BackupInitInv == BackupInit => BackupInv
<1> SUFFICES ASSUME BackupInit PROVE BackupInv
  OBVIOUS
<1>1. /\ now = 0 /\ DOMAIN folders = {} /\ trouble = {} /\ overdue = FALSE
      /\ task \in [Worker -> {NoTask}] /\ \A s \in Worker : task[s] = NoTask
  BY DEF BackupInit
<1>2. BackupTypeOK /\ TasksShape
  <2>1. NoTask \in Task
    BY DEF Task, NoTask
  <2>2. now \in Second /\ calls \in 0..MaxCalls
    BY BackupAssumption DEF BackupInit, Second
  <2>3. TasksShape
    BY <1>1, <2>1 DEF TasksShape, Filling, NoTask
  <2>4. \A s \in Worker : task[s].op = "idle"
    BY <1>1 DEF NoTask
  <2> QED
    BY <1>1, <2>2, <2>3, <2>4 DEF BackupTypeOK
<1>3. OwnFolders /\ ListedIsWhole /\ OneAtATime /\ NewestStay
  BY <1>1 DEF OwnFolders, ListedIsWhole, OneAtATime, NewestStay, Filling, NoTask
<1>4. Bounded
  <2>1. Settled \ {} = {}
    BY <1>1 DEF Settled
  <2>2. Cardinality(Settled \ {}) = 0
    BY <2>1, FS_EmptySet, Zenon
  <2>3. PICK keep \in Keep : TRUE
    BY BackupAssumption
  <2>4. 0 <= keep
    BY BackupAssumption
  <2> QED
    BY <2>2, <2>4 DEF Bounded, Few
<1> QED
  BY <1>2, <1>3, <1>4 DEF BackupInv

\* Every step keeps the invariant.
LEMMA BackupStepInv == BackupInv /\ [BackupNext]_backupVars => BackupInv'
<1> SUFFICES ASSUME BackupInv, [BackupNext]_backupVars PROVE BackupInv'
  OBVIOUS
<1>1. CASE Tick
  BY <1>1, TickInv
<1>2. CASE ServerStops
  BY <1>2, ServerStopsInv
<1>3. ASSUME NEW s \in Worker, DumpFails(s) PROVE BackupInv'
  BY <1>3, GiveUpInv DEF DumpFails, Filling
<1>4. ASSUME NEW s \in Worker, WriteFails(s) PROVE BackupInv'
  BY <1>4, GiveUpInv DEF WriteFails, Filling
<1>5. ASSUME NEW s \in Worker,
             \/ BeginBackup(s) \/ OpenFile(s) \/ CloseFile(s)
             \/ BeginPrune(s) \/ PruneOne(s) \/ EndPrune(s) \/ Stumble(s) \/ DeleteBackup(s)
      PROVE  BackupInv'
  BY <1>5, BeginBackupInv, OpenFileInv, CloseFileInv, BeginPruneInv, PruneOneInv, EndPruneInv,
     StumbleInv, DeleteBackupInv
<1>6. CASE UNCHANGED backupVars
  BY <1>6 DEF backupVars, history, BackupInv, BackupTypeOK, TasksShape, OwnFolders, ListedIsWhole,
     OneAtATime, NewestStay, Bounded, Few, Settled, Listing, Undisturbed, Busy, Filling
<1> QED
  BY <1>1, <1>2, <1>3, <1>4, <1>5, <1>6 DEF BackupNext

\* The inductive invariant of the backups.
THEOREM BackupInvariant == BackupSpec => []BackupInv
BY BackupInitInv, BackupStepInv, PTL DEF BackupSpec

\* The folders and the requests that work on them are of their types, and a file
\* that is written to is in a folder that is there.
THEOREM BackupTypes == BackupSpec => []BackupTypeOK
<1>1. BackupInv => BackupTypeOK
  BY DEF BackupInv
<1> QED
  BY <1>1, BackupInvariant, PTL

\* However many requests make, prune and delete backups side by side: what the
\* list shows and nobody is filling can be restored, unless the server stopped or
\* two backups shared a folder.
THEOREM ListIsWhole == BackupSpec => []ListedIsWhole
<1>1. BackupInv => ListedIsWhole
  BY DEF BackupInv
<1> QED
  BY <1>1, BackupInvariant, PTL

\* However requests overlap, no more folders than were asked for are there when
\* all have ended, unless the last prune was cut short.
THEOREM FoldersAreFew == BackupSpec => []NoPileUp
<1>1. BackupInv => NoPileUp
  <2> SUFFICES ASSUME Bounded, \A s \in Worker : task[s] = NoTask, ~overdue
               PROVE  \E keep \in Keep : Cardinality(DOMAIN folders) <= keep
    BY DEF BackupInv, NoPileUp
  <2>1. ~Listing /\ Undisturbed = {}
    BY DEF Listing, Undisturbed, NoTask
  <2>2. Settled \ {} = DOMAIN folders
    BY DEF Settled, Busy, NoTask
  <2> QED
    BY <2>1, <2>2 DEF Bounded, Few
<1> QED
  BY <1>1, BackupInvariant, PTL

\* Only the request that fills it, if it fails, or a prune that leaves enough
\* whole folders removes a backup, as long as requests come one at a time.
LEMMA StepKeepsLast ==
  ASSUME BackupInv, BackupNext, trouble = {}, calls' = calls,
         NEW n \in DOMAIN folders \ DOMAIN folders', folders[n] = "whole"
  PROVE  \E s \in Worker :
           /\ task[s].op = "prune"
           /\ Cardinality({q \in DOMAIN folders' : q > n /\ folders'[q] = "whole"})
                >= task[s].keep
<1> USE DEF BackupInv
<1> SUFFICES ASSUME ~ \E s \in Worker :
                        /\ task[s].op = "prune"
                        /\ Cardinality({q \in DOMAIN folders' : q > n /\ folders'[q] = "whole"})
                             >= task[s].keep
             PROVE  FALSE
  OBVIOUS
<1>1. calls # calls + 1
  BY BackupAssumption DEF BackupTypeOK
<1>2. \A s \in Worker : ~BeginBackup(s) /\ ~DeleteBackup(s)
  BY <1>1 DEF BeginBackup, DeleteBackup
<1>3. ASSUME NEW s \in Worker, Filling(s), GiveUp(s, task[s].at) PROVE FALSE
  <2>1. n = task[s].at
    BY <1>3 DEF GiveUp, FoldersWithout
  <2> QED
    BY <1>3, <2>1 DEF OwnFolders
<1>4. ASSUME NEW s \in Worker, PruneOne(s) PROVE FALSE
  <2> DEFINE m == CHOOSE m \in task[s].left : \A q \in task[s].left : q <= m
             after == {q \in DOMAIN folders' : q > n /\ folders'[q] = "whole"}
  <2>1. /\ task[s].op = "prune" /\ task[s].left # {} /\ folders' = FoldersWithout({m})
    BY <1>4 DEF PruneOne
  <2>2. n = m
    BY <2>1 DEF FoldersWithout
  <2>3. now \in Nat /\ task[s].left \in SUBSET (0..now)
    BY <2>1, BackupAssumption DEF BackupTypeOK, Second
  <2>4. m \in task[s].left
    BY <2>1, <2>3, GreatestName
  <2> HIDE DEF m
  <2>5. /\ Cardinality(DOMAIN folders \ task[s].left) >= task[s].keep
        /\ \A o \in task[s].left, q \in DOMAIN folders \ task[s].left : q > o
    BY <2>1 DEF NewestStay
  <2>6. \A q : ~Busy(q)
    BY <2>1 DEF OneAtATime, Busy, NoTask
  <2>7. \A q \in DOMAIN folders : folders[q] = "whole"
    BY <2>6 DEF ListedIsWhole
  <2>8. DOMAIN folders \ task[s].left \subseteq after
    BY <2>1, <2>2, <2>4, <2>5, <2>7 DEF FoldersWithout
  <2>9. IsFiniteSet(after)
    <3>1. after \subseteq DOMAIN folders
      BY <2>1 DEF FoldersWithout
    <3> QED
      BY <3>1, FoldersFinite, FS_Subset
  <2>10. Cardinality(after) >= Cardinality(DOMAIN folders \ task[s].left)
    BY <2>8, <2>9, FS_Subset
  <2>11. Cardinality(after) \in Nat /\ Cardinality(DOMAIN folders \ task[s].left) \in Nat
    BY <2>9, FoldersFinite, FS_Subset, FS_CardinalityType
  <2>12. task[s].keep \in Nat
    <3>1. task[s] \in Task
      BY DEF TasksShape
    <3>2. task[s].keep \in Keep
      BY <2>1, <3>1, TaskKinds
    <3> QED
      BY <3>2, BackupAssumption
  <2>13. Cardinality(after) >= task[s].keep
    BY <2>5, <2>10, <2>11, <2>12
  <2> QED
    BY <2>1, <2>13
<1>5. ASSUME NEW s \in Worker, OpenFile(s) \/ CloseFile(s) PROVE FALSE
  BY <1>5 DEF OpenFile, CloseFile
<1>6. ASSUME \/ Tick \/ ServerStops
             \/ \E s \in Worker : BeginPrune(s) \/ EndPrune(s) \/ Stumble(s)
      PROVE  FALSE
  BY <1>6 DEF Tick, ServerStops, BeginPrune, EndPrune, Stumble
<1> QED
  BY <1>2, <1>3, <1>4, <1>5, <1>6 DEF BackupNext, DumpFails, WriteFails, Filling

\* KeepsLast, for any number of workers and any `keep`: as long as requests come one
\* at a time, seconds apart, and the server is not stopped, a whole backup that no
\* one deletes goes only when as many newer whole ones stay as the pruning request
\* was to keep.
THEOREM LastAreKept == BackupSpec => KeepsLast
<1>1. BackupInv /\ [BackupNext]_backupVars =>
        [trouble = {} /\ calls' = calls =>
           \A n \in DOMAIN folders \ DOMAIN folders' : folders[n] = "whole" =>
             \E s \in Worker :
               /\ task[s].op = "prune"
               /\ Cardinality({q \in DOMAIN folders' : q > n /\ folders'[q] = "whole"})
                    >= task[s].keep]_backupVars
  BY StepKeepsLast
<1> QED
  BY <1>1, BackupInvariant, PTL DEF BackupSpec, KeepsLast
=============================================================================
