----------------------------- MODULE LoansProofs -----------------------------
(***************************************************************************)
(* Proofs about loans: the schedule is whole, marks and payment columns    *)
(* agree, and a loan is settled exactly when all its instalments are paid, *)
(* as long as no commit was computed from stale rows.                      *)
(***************************************************************************)
EXTENDS Loans, TLAPS

Positive == Nat \ {0}
Ref      == {t.ref : t \in Terms} \cup Given("ref")

LoanRow == [status : LoanStatus, ref : Ref, count : Positive, amount : Positive, first : Int]

Installment == [loan : Nat, seq : Positive, due : Int, amount : Positive,
                status : InstallmentStatus, paid : BOOLEAN, tx : Tx \cup {NoTx}]

\* The two tables as the database has them or a session loaded them.
Sane(loans, rows) ==
  /\ \A l \in DOMAIN loans : loans[l] \in LoanRow
  /\ \A k \in DOMAIN rows : rows[k] \in Installment /\ rows[k].loan \in DOMAIN loans

Numbered ==
  \A j, k \in DOMAIN row : row[j].loan = row[k].loan /\ row[j].seq = row[k].seq => j = k

Shape ==
  /\ today \in 0..MaxDay
  /\ lastLoan \in Nat /\ lastRow \in Nat
  /\ DOMAIN loan \subseteq 1..lastLoan /\ DOMAIN row \subseteq 1..lastRow
  /\ edited \subseteq 1..lastLoan
  /\ DOMAIN ask = Session /\ DOMAIN view = Session
  /\ fresh \in [Session -> BOOLEAN] /\ sound \in BOOLEAN

\* What a session holds is a sane copy of the tables, and theirs while it is fresh;
\* its request speaks of rows that it holds.
Holds(s) ==
  /\ Sane(view[s].loan, view[s].row)
  /\ fresh[s] => view[s].loan = loan /\ view[s].row = row
  /\ ask[s].op = "update" => /\ ask[s].loan \in DOMAIN view[s].loan /\ ask[s].patch \in Patch
                             /\ "count"  \in DOMAIN ask[s].patch => ask[s].patch.count >= 1
                             /\ "amount" \in DOMAIN ask[s].patch => ask[s].patch.amount > 0
  /\ ask[s].op = "pay" => ask[s].row \in DOMAIN view[s].row /\ ask[s].tx \in Tx \cup {NoTx}
  /\ ask[s].op = "unpay" => ask[s].row \in DOMAIN view[s].row
  /\ ask[s].op = "autolink" => ask[s].loan \in DOMAIN view[s].loan

Exact == ScheduleComplete /\ PaidExact /\ SettledExact

LoansInv ==
  /\ Shape /\ Sane(loan, row) /\ Numbered /\ Exact
  /\ \A s \in Session : Holds(s)

------------------------------------------------------------------------------
(* What the steps have in common.                                           *)

\* What a session holds stands, as long as it counts as fresh only while nothing
\* was committed.
LEMMA HoldsKept ==
  ASSUME NEW s \in Session, Holds(s), ask'[s] = ask[s], view'[s] = view[s],
         fresh'[s] => fresh[s] /\ tables' = tables
  PROVE  Holds(s)'
<1>1. Sane(view'[s].loan, view'[s].row)
  BY DEF Holds
<1>2. fresh'[s] => view'[s].loan = loan' /\ view'[s].row = row'
  BY DEF Holds, tables
<1> QED
  BY <1>1, <1>2 DEF Holds

\* A session at rest holds nothing.
LEMMA HoldsNothing ==
  ASSUME NEW s \in Session, ask'[s] = Idle, view'[s] = Nothing, ~fresh'[s]
  PROVE  Holds(s)'
<1>1. Sane(view'[s].loan, view'[s].row)
  BY DEF Nothing, Sane
<1> QED
  BY <1>1 DEF Holds, Idle

\* The end of a request.
LEMMA DoneKeeps ==
  ASSUME LoansInv, NEW s \in Session, Done(s),
         lastLoan' \in Nat, lastRow' \in Nat,
         DOMAIN loan' \subseteq 1..lastLoan', DOMAIN row' \subseteq 1..lastRow',
         edited \subseteq edited', edited' \subseteq 1..lastLoan',
         Sane(loan', row'), Numbered', sound /\ fresh[s] /\ sound' => Exact'
  PROVE  LoansInv'
<1>1. /\ today' = today /\ DOMAIN ask' = Session /\ DOMAIN view' = Session
      /\ fresh' \in [Session -> BOOLEAN] /\ sound' \in BOOLEAN
      /\ ask'[s] = Idle /\ view'[s] = Nothing /\ ~fresh'[s]
      /\ sound' => sound /\ (fresh[s] \/ tables' = tables)
      /\ \A r \in Session \ {s} : /\ ask'[r] = ask[r] /\ view'[r] = view[r]
                                  /\ fresh'[r] => fresh[r] /\ tables' = tables
  BY DEF Done, LoansInv, Shape
<1>2. Shape'
  BY <1>1 DEF Shape, LoansInv
<1>3. \A r \in Session : Holds(r)'
  BY <1>1, HoldsKept, HoldsNothing DEF LoansInv
<1>4. Exact'
  <2>1. CASE ~sound'
    BY <2>1 DEF Exact, ScheduleComplete, PaidExact, SettledExact
  <2>2. CASE sound' /\ tables' = tables
    <3>1. sound /\ loan' = loan /\ row' = row
      BY <1>1, <2>2 DEF tables
    <3> QED
      BY <2>2, <3>1 DEF LoansInv, Exact, ScheduleComplete, PaidExact, SettledExact, Seqs, RowsOf
  <2>3. CASE sound' /\ tables' # tables
    BY <1>1, <2>3
  <2> QED
    BY <2>1, <2>2, <2>3
<1> QED
  BY <1>2, <1>3, <1>4 DEF LoansInv

\* A request that begins holds the tables as they are.
LEMMA ServeKeeps ==
  ASSUME LoansInv, NEW s \in Session, NEW request, Serve(s, request),
         /\ request.op = "update" =>
              /\ request.loan \in DOMAIN loan /\ request.patch \in Patch
              /\ "count"  \in DOMAIN request.patch => request.patch.count >= 1
              /\ "amount" \in DOMAIN request.patch => request.patch.amount > 0
         /\ request.op = "pay" => request.row \in DOMAIN row /\ request.tx \in Tx \cup {NoTx}
         /\ request.op = "unpay" => request.row \in DOMAIN row
         /\ request.op = "autolink" => request.loan \in DOMAIN loan
  PROVE  LoansInv'
<1>1. /\ DOMAIN ask' = Session /\ DOMAIN view' = Session /\ fresh' \in [Session -> BOOLEAN]
      /\ ask'[s] = request /\ view'[s].loan = loan /\ view'[s].row = row
      /\ \A r \in Session \ {s} : /\ ask'[r] = ask[r] /\ view'[r] = view[r]
                                  /\ fresh'[r] = fresh[r]
  BY DEF Serve, LoansInv, Shape
<1>2. /\ today' = today /\ loan' = loan /\ row' = row /\ lastLoan' = lastLoan
      /\ lastRow' = lastRow /\ edited' = edited /\ sound' = sound
  BY DEF Serve, tables
<1>3. Holds(s)'
  BY <1>1, <1>2 DEF Holds, LoansInv
<1>4. \A r \in Session : Holds(r)'
  BY <1>1, <1>2, <1>3, HoldsKept DEF LoansInv, tables
<1>5. Shape' /\ Sane(loan', row') /\ Numbered'
  BY <1>1, <1>2 DEF LoansInv, Shape, Numbered
<1>6. Exact'
  BY <1>2 DEF LoansInv, Exact, ScheduleComplete, PaidExact, SettledExact, Seqs, RowsOf
<1> QED
  BY <1>4, <1>5, <1>6 DEF LoansInv

\* The flush of an instalment.
LEMMA FlushInstallment ==
  ASSUME NEW r \in Installment, NEW loaded \in Installment, NEW wanted \in Installment
  PROVE  /\ Flush(r, loaded, wanted) \in Installment
         /\ wanted.loan = loaded.loan => Flush(r, loaded, wanted).loan = r.loan
         /\ wanted.seq = loaded.seq => Flush(r, loaded, wanted).seq = r.seq
         /\ r = loaded => Flush(r, loaded, wanted) = wanted
<1> DEFINE new == Flush(r, loaded, wanted)
<1>1. new = [loan   |-> IF wanted.loan = loaded.loan THEN r.loan ELSE wanted.loan,
             seq    |-> IF wanted.seq = loaded.seq THEN r.seq ELSE wanted.seq,
             due    |-> IF wanted.due = loaded.due THEN r.due ELSE wanted.due,
             amount |-> IF wanted.amount = loaded.amount THEN r.amount ELSE wanted.amount,
             status |-> IF wanted.status = loaded.status THEN r.status ELSE wanted.status,
             paid   |-> IF wanted.paid = loaded.paid THEN r.paid ELSE wanted.paid,
             tx     |-> IF wanted.tx = loaded.tx THEN r.tx ELSE wanted.tx]
  BY DEF Flush, Installment
<1>2. new \in Installment
  BY <1>1 DEF Installment
<1>3. r = loaded => new = wanted
  BY DEF Flush, Installment
<1> QED
  BY <1>1, <1>2, <1>3

\* The flush of a loan.
LEMMA FlushLoan ==
  ASSUME NEW r \in LoanRow, NEW loaded \in LoanRow, NEW wanted \in LoanRow
  PROVE  /\ Flush(r, loaded, wanted) \in LoanRow
         /\ wanted.count = loaded.count => Flush(r, loaded, wanted).count = r.count
         /\ r = loaded => Flush(r, loaded, wanted) = wanted
<1> DEFINE new == Flush(r, loaded, wanted)
<1>1. new = [status |-> IF wanted.status = loaded.status THEN r.status ELSE wanted.status,
             ref    |-> IF wanted.ref = loaded.ref THEN r.ref ELSE wanted.ref,
             count  |-> IF wanted.count = loaded.count THEN r.count ELSE wanted.count,
             amount |-> IF wanted.amount = loaded.amount THEN r.amount ELSE wanted.amount,
             first  |-> IF wanted.first = loaded.first THEN r.first ELSE wanted.first]
  BY DEF Flush, LoanRow
<1>2. new \in LoanRow
  BY <1>1 DEF LoanRow
<1>3. r = loaded => new = wanted
  BY DEF Flush, LoanRow
<1> QED
  BY <1>1, <1>2, <1>3

\* The marks of instalments are saved: their loans and numbers stay.
LEMMA SavedRows ==
  ASSUME LoansInv, NEW s \in Session, NEW wanted, Saved(row, view[s].row, wanted),
         DOMAIN wanted \subseteq DOMAIN view[s].row,
         \A k \in DOMAIN wanted : /\ wanted[k] \in Installment
                                  /\ wanted[k].loan = view[s].row[k].loan
                                  /\ wanted[k].seq = view[s].row[k].seq
  PROVE  /\ DOMAIN row' = DOMAIN row
         /\ \A k \in DOMAIN row : /\ row'[k] \in Installment
                                  /\ row'[k].loan = row[k].loan /\ row'[k].seq = row[k].seq
         /\ fresh[s] => \A k \in DOMAIN row :
              row'[k] = IF k \in DOMAIN wanted THEN wanted[k] ELSE row[k]
<1> DEFINE loaded == view[s].row
<1>1. row' = FlushAll(row, loaded, wanted)
  BY DEF Saved
<1>2. /\ \A k \in DOMAIN row : row[k] \in Installment
      /\ \A k \in DOMAIN wanted : loaded[k] \in Installment
      /\ fresh[s] => loaded = row
  BY DEF LoansInv, Holds, Sane
<1>3. \A k \in DOMAIN row \cap DOMAIN wanted : row'[k] = Flush(row[k], loaded[k], wanted[k])
  BY <1>1 DEF FlushAll
<1>4. /\ DOMAIN row' = DOMAIN row
      /\ \A k \in DOMAIN row \ DOMAIN wanted : row'[k] = row[k]
  BY <1>1 DEF FlushAll
<1> HIDE DEF loaded
<1>5. \A k \in DOMAIN row \cap DOMAIN wanted :
        /\ row'[k] \in Installment /\ row'[k].loan = row[k].loan /\ row'[k].seq = row[k].seq
        /\ loaded = row => row'[k] = wanted[k]
  BY <1>2, <1>3, FlushInstallment DEF loaded
<1> QED
  BY <1>2, <1>4, <1>5

\* The status of one loan is saved: the others stay, and its schedule.
LEMMA SavedLoan ==
  ASSUME LoansInv, NEW s \in Session, NEW l \in DOMAIN view[s].loan, NEW wanted \in LoanRow,
         Saved(loan, view[s].loan, Only(l, wanted))
  PROVE  /\ DOMAIN loan' = DOMAIN loan /\ \A x \in DOMAIN loan : loan'[x] \in LoanRow
         /\ \A x \in DOMAIN loan \ {l} : loan'[x] = loan[x]
         /\ fresh[s] => l \in DOMAIN loan /\ loan'[l] = wanted
         /\ wanted.count = view[s].loan[l].count =>
              \A x \in DOMAIN loan : loan'[x].count = loan[x].count
<1> DEFINE loaded == view[s].loan
           held   == Only(l, wanted)
<1>1. loan' = FlushAll(loan, loaded, held) /\ DOMAIN held = {l} /\ held[l] = wanted
  BY DEF Saved, Only
<1>2. /\ \A x \in DOMAIN loan : loan[x] \in LoanRow
      /\ loaded[l] \in LoanRow
      /\ fresh[s] => loaded = loan
  BY DEF LoansInv, Holds, Sane
<1> HIDE DEF held
<1>3. /\ DOMAIN loan' = DOMAIN loan
      /\ \A x \in DOMAIN loan \ {l} : loan'[x] = loan[x]
      /\ l \in DOMAIN loan => loan'[l] = Flush(loan[l], loaded[l], wanted)
  BY <1>1 DEF FlushAll
<1>4. l \in DOMAIN loan => /\ loan'[l] \in LoanRow
                           /\ wanted.count = loaded[l].count => loan'[l].count = loan[l].count
                           /\ loan[l] = loaded[l] => loan'[l] = wanted
  BY <1>2, <1>3, FlushLoan
<1> QED
  BY <1>2, <1>3, <1>4

\* Where only marks change, the rows of a loan and their numbers stay.
LEMMA MarksOnly ==
  ASSUME LoansInv, DOMAIN row' = DOMAIN row, DOMAIN loan' = DOMAIN loan,
         \A k \in DOMAIN row : /\ row'[k] \in Installment
                               /\ row'[k].loan = row[k].loan /\ row'[k].seq = row[k].seq,
         \A x \in DOMAIN loan : loan'[x] \in LoanRow /\ loan'[x].count = loan[x].count
  PROVE  /\ Sane(loan', row') /\ Numbered'
         /\ sound => \A l \in DOMAIN loan' : 1..loan'[l].count \subseteq Seqs(row', l)
         /\ \A l : RowsOf(row', l) = RowsOf(row, l)
<1>1. Sane(loan', row')
  BY DEF Sane, LoansInv
<1>2. Numbered'
  BY DEF Numbered, LoansInv
<1>3. \A l : RowsOf(row', l) = RowsOf(row, l)
  BY DEF RowsOf
<1>4. \A l : Seqs(row', l) = Seqs(row, l)
  BY <1>3 DEF Seqs, RowsOf
<1>5. sound => \A l \in DOMAIN loan' : 1..loan'[l].count \subseteq Seqs(row', l)
  BY <1>4 DEF LoansInv, Exact, ScheduleComplete
<1> QED
  BY <1>1, <1>2, <1>3, <1>5

------------------------------------------------------------------------------
(* Requests that begin, and those that end without a commit.                *)

\* A request that loads the tables speaks of rows that are there.
LEMMA BeginInv ==
  ASSUME LoansInv, NEW s \in Session,
         \/ BeginUpdate(s) \/ BeginPay(s) \/ BeginUnpay(s) \/ BeginAutolink(s) \/ BeginRefresh(s)
  PROVE  LoansInv'
<1>1. CASE BeginUpdate(s)
  <2>1. PICK l \in DOMAIN loan, p \in Patch :
          /\ "count"  \in DOMAIN p => p.count >= 1
          /\ "amount" \in DOMAIN p => p.amount > 0
          /\ Serve(s, [op |-> "update", loan |-> l, patch |-> p])
    BY <1>1 DEF BeginUpdate
  <2> DEFINE request == [op |-> "update", loan |-> l, patch |-> p]
  <2>2. request.op = "update" /\ request.loan = l /\ request.patch = p /\ Serve(s, request)
    BY <2>1
  <2> HIDE DEF request
  <2> QED
    BY <2>1, <2>2, ServeKeeps
<1>2. CASE BeginPay(s)
  <2>1. PICK k \in DOMAIN row, t \in Tx \cup {NoTx} : Serve(s, [op |-> "pay", row |-> k, tx |-> t])
    BY <1>2 DEF BeginPay
  <2> DEFINE request == [op |-> "pay", row |-> k, tx |-> t]
  <2>2. request.op = "pay" /\ request.row = k /\ request.tx = t /\ Serve(s, request)
    BY <2>1
  <2> HIDE DEF request
  <2> QED
    BY <2>2, ServeKeeps
<1>3. CASE BeginUnpay(s)
  <2>1. PICK k \in DOMAIN row : Serve(s, [op |-> "unpay", row |-> k])
    BY <1>3 DEF BeginUnpay
  <2> DEFINE request == [op |-> "unpay", row |-> k]
  <2>2. request.op = "unpay" /\ request.row = k /\ Serve(s, request)
    BY <2>1
  <2> HIDE DEF request
  <2> QED
    BY <2>2, ServeKeeps
<1>4. CASE BeginAutolink(s)
  <2>1. PICK l \in DOMAIN loan : Serve(s, [op |-> "autolink", loan |-> l])
    BY <1>4 DEF BeginAutolink
  <2> DEFINE request == [op |-> "autolink", loan |-> l]
  <2>2. request.op = "autolink" /\ request.loan = l /\ Serve(s, request)
    BY <2>1
  <2> HIDE DEF request
  <2> QED
    BY <2>2, ServeKeeps
<1>5. CASE BeginRefresh(s)
  <2>1. PICK ls \in {DOMAIN loan} \cup {{l} : l \in DOMAIN loan} :
          Serve(s, [op |-> "refresh", loans |-> ls])
    BY <1>5 DEF BeginRefresh
  <2> DEFINE request == [op |-> "refresh", loans |-> ls]
  <2>2. request.op = "refresh" /\ Serve(s, request)
    BY <2>1
  <2> HIDE DEF request
  <2> QED
    BY <2>2, ServeKeeps
<1> QED
  BY <1>1, <1>2, <1>3, <1>4, <1>5

\* A request is rolled back.
LEMMA RollBackInv ==
  ASSUME LoansInv, NEW s \in Session, RollBack(s)
  PROVE  LoansInv'
<1>1. /\ DOMAIN ask' = Session /\ DOMAIN view' = Session /\ fresh' \in [Session -> BOOLEAN]
      /\ ask'[s] = Idle /\ view'[s] = Nothing /\ ~fresh'[s]
      /\ \A r \in Session \ {s} : /\ ask'[r] = ask[r] /\ view'[r] = view[r]
                                  /\ fresh'[r] = fresh[r]
      /\ today' = today /\ loan' = loan /\ row' = row /\ lastLoan' = lastLoan
      /\ lastRow' = lastRow /\ edited' = edited /\ sound' = sound
  BY DEF RollBack, LoansInv, Shape, tables
<1>2. \A r \in Session : Holds(r)'
  BY <1>1, HoldsKept, HoldsNothing DEF LoansInv, tables
<1>3. Shape' /\ Sane(loan', row') /\ Numbered'
  BY <1>1 DEF LoansInv, Shape, Numbered
<1>4. Exact'
  BY <1>1 DEF LoansInv, Exact, ScheduleComplete, PaidExact, SettledExact, Seqs, RowsOf
<1> QED
  BY <1>2, <1>3, <1>4 DEF LoansInv

\* A day passes: the marks wait for the next request that reads them.
LEMMA NextDayInv ==
  ASSUME LoansInv, NextDay
  PROVE  LoansInv'
<1>1. /\ today' \in 0..MaxDay
      /\ ask' = ask /\ view' = view /\ fresh' = fresh
      /\ loan' = loan /\ row' = row /\ lastLoan' = lastLoan
      /\ lastRow' = lastRow /\ edited' = edited /\ sound' = sound
  BY LoansAssumption DEF NextDay, tables, LoansInv, Shape
<1>2. \A r \in Session : Holds(r)'
  BY <1>1, HoldsKept DEF LoansInv, tables
<1>3. Shape' /\ Sane(loan', row') /\ Numbered'
  BY <1>1 DEF LoansInv, Shape, Numbered
<1>4. Exact'
  BY <1>1 DEF LoansInv, Exact, ScheduleComplete, PaidExact, SettledExact, Seqs, RowsOf
<1> QED
  BY <1>2, <1>3, <1>4 DEF LoansInv

------------------------------------------------------------------------------
(* Loans come and go.                                                       *)

\* A request of one step leaves the other sessions with what is stale now.
LEMMA StaleHolds ==
  ASSUME LoansInv, ask' = ask, view' = view, fresh' = [r \in Session |-> FALSE]
  PROVE  \A s \in Session : Holds(s)'
<1>1. \A s \in Session : ~fresh'[s]
  OBVIOUS
<1> QED
  BY <1>1, HoldsKept DEF LoansInv

\* An instalment that nobody has paid.
Unpaid(r, l, n) ==
  /\ r \in Installment /\ r.loan = l /\ r.seq = n
  /\ r.status # "paid" /\ r.paid = FALSE /\ r.tx = NoTx

\* A new instalment, with its mark of the day.
LEMMA NewInstallment ==
  ASSUME NEW l \in Nat, NEW n \in Positive, NEW terms,
         terms.amount \in Positive, terms.first \in Int
  PROVE  Unpaid(NewRow(l, n, terms), l, n)
<1> DEFINE due == terms.first + (n - 1) * Month
           new == [loan |-> l, seq |-> n, due |-> due, amount |-> terms.amount,
                   status |-> Target(due), paid |-> FALSE, tx |-> NoTx]
<1>1. NewRow(l, n, terms) = new
  BY DEF NewRow
<1>2. due \in Int
  BY LoansAssumption DEF Positive
<1> HIDE DEF due
<1>3. Target(due) \in InstallmentStatus /\ Target(due) # "paid"
  BY DEF Target, InstallmentStatus
<1> QED
  BY <1>1, <1>2, <1>3 DEF Unpaid, Installment

\* The rows a schedule adds have ids of their own, one for each of the numbers.
LEMMA NewSchedule ==
  ASSUME NEW l \in Nat, NEW seqs \in SUBSET Positive, NEW terms, lastRow \in Nat,
         terms.amount \in Positive, terms.first \in Int
  PROVE  /\ DOMAIN Schedule(l, seqs, terms) = {lastRow + n : n \in seqs}
         /\ \A n \in seqs : Schedule(l, seqs, terms)[lastRow + n] = NewRow(l, n, terms)
         /\ \A k \in DOMAIN Schedule(l, seqs, terms) :
              /\ k > lastRow /\ k - lastRow \in seqs
              /\ Schedule(l, seqs, terms)[k] = NewRow(l, k - lastRow, terms)
<1>1. DOMAIN Schedule(l, seqs, terms) = {lastRow + n : n \in seqs}
  BY DEF Schedule
<1>2. \A k \in {lastRow + n : n \in seqs} : k > lastRow /\ k - lastRow \in seqs
  BY DEF Positive
<1>3. \A k \in {lastRow + n : n \in seqs} :
        Schedule(l, seqs, terms)[k] = NewRow(l, k - lastRow, terms)
  BY DEF Schedule
<1>4. \A n \in seqs : Schedule(l, seqs, terms)[lastRow + n] = NewRow(l, n, terms)
  <2>1. SUFFICES ASSUME NEW n \in seqs
                 PROVE  Schedule(l, seqs, terms)[lastRow + n] = NewRow(l, n, terms)
    OBVIOUS
  <2>2. (lastRow + n) - lastRow = n
    BY DEF Positive
  <2>3. lastRow + n \in {lastRow + m : m \in seqs}
    OBVIOUS
  <2> QED
    BY <1>3, <2>2, <2>3
<1> QED
  BY <1>1, <1>2, <1>3, <1>4

\* A loan is made with its whole schedule.
LEMMA CreateLoanInv ==
  ASSUME LoansInv, NEW s \in Session, CreateLoan(s)
  PROVE  LoansInv'
<1> DEFINE l == lastLoan + 1
<1>1. PICK t \in Terms :
        /\ t.count >= 1 /\ t.amount > 0
        /\ loan' = With(loan, Only(l, [status |-> "active", ref |-> t.ref, count |-> t.count,
                                       amount |-> t.amount, first |-> t.first]))
        /\ row' = With(row, Schedule(l, 1..t.count, t))
        /\ lastLoan' = lastLoan + 1 /\ lastRow' = lastRow + t.count
  BY DEF CreateLoan
<1>2. /\ t.count \in Positive /\ t.amount \in Positive /\ t.first \in Int
      /\ l \in Nat /\ lastRow \in Nat /\ lastLoan \in Nat
  BY <1>1, RequestAssumption DEF Positive, LoansInv, Shape
<1> DEFINE new  == [status |-> "active", ref |-> t.ref, count |-> t.count,
                    amount |-> t.amount, first |-> t.first]
           seqs == 1..t.count
           more == Schedule(l, seqs, t)
<1>3. new \in LoanRow /\ new.status = "active" /\ new.count = t.count
  BY <1>2 DEF LoanRow, LoanStatus, Ref
<1>4. /\ DOMAIN more = {lastRow + n : n \in seqs}
      /\ \A k \in DOMAIN more :
           /\ k > lastRow /\ k - lastRow \in seqs
           /\ more[k] = NewRow(l, k - lastRow, t)
      /\ \A n \in seqs : more[lastRow + n] = NewRow(l, n, t)
  <2>1. seqs \in SUBSET Positive
    BY <1>2 DEF Positive
  <2> HIDE DEF l, seqs
  <2> QED
    BY <1>2, <2>1, NewSchedule
<1>5. \A k \in DOMAIN more :
        /\ more[k] \in Installment /\ more[k].loan = l /\ more[k].seq = k - lastRow
        /\ more[k].status # "paid" /\ more[k].paid = FALSE /\ more[k].tx = NoTx
  <2>1. \A n \in seqs : n \in Positive
    BY <1>2 DEF Positive
  <2> HIDE DEF more, seqs, l
  <2>2. \A k \in DOMAIN more : Unpaid(more[k], l, k - lastRow)
    BY <1>2, <1>4, <2>1, NewInstallment
  <2> QED
    BY <2>2 DEF Unpaid
<1>6. /\ DOMAIN loan' = DOMAIN loan \cup {l} /\ l \notin DOMAIN loan
      /\ loan'[l] = new /\ \A x \in DOMAIN loan : loan'[x] = loan[x]
  <2>1. l \notin DOMAIN loan
    BY <1>2 DEF LoansInv, Shape
  <2> HIDE DEF new, l
  <2> QED
    BY <1>1, <2>1 DEF With, Only, new
<1> HIDE DEF new
<1>7. /\ DOMAIN row' = DOMAIN row \cup DOMAIN more /\ DOMAIN row \cap DOMAIN more = {}
      /\ \A k \in DOMAIN row : row'[k] = row[k] /\ row[k].loan # l
      /\ \A k \in DOMAIN more : row'[k] = more[k]
  <2>1. DOMAIN row \cap DOMAIN more = {}
    <3> HIDE DEF more
    <3> QED
      BY <1>4 DEF LoansInv, Shape
  <2>2. \A k \in DOMAIN row : row[k].loan # l
    BY <1>6 DEF LoansInv, Sane
  <2> HIDE DEF more, l
  <2> QED
    BY <1>1, <2>1, <2>2 DEF With, more
<1> HIDE DEF more
<1>8. Shape'
  <2>1. /\ ask' = ask /\ view' = view /\ fresh' = [r \in Session |-> FALSE]
        /\ sound' = sound /\ today' = today /\ edited' = edited
    BY DEF CreateLoan
  <2>2. DOMAIN loan' \subseteq 1..lastLoan' /\ edited' \subseteq 1..lastLoan'
    BY <1>1, <1>2, <1>6, <2>1 DEF LoansInv, Shape
  <2>3. DOMAIN row' \subseteq 1..lastRow'
    BY <1>1, <1>2, <1>4, <1>7 DEF LoansInv, Shape, Positive
  <2>4. lastLoan' \in Nat /\ lastRow' \in Nat
    BY <1>1, <1>2 DEF Positive
  <2> QED
    BY <2>1, <2>2, <2>3, <2>4 DEF LoansInv, Shape
<1>9. Sane(loan', row')
  <2> HIDE DEF l
  <2> QED
    BY <1>3, <1>5, <1>6, <1>7 DEF LoansInv, Sane
<1>10. Numbered'
  <2>1. SUFFICES ASSUME NEW j \in DOMAIN row', NEW k \in DOMAIN row',
                        row'[j].loan = row'[k].loan, row'[j].seq = row'[k].seq
                 PROVE  j = k
    BY DEF Numbered
  <2>2. CASE j \in DOMAIN row /\ k \in DOMAIN row
    BY <1>7, <2>1, <2>2 DEF LoansInv, Numbered
  <2>3. CASE j \in DOMAIN more /\ k \in DOMAIN more
    <3>1. j - lastRow = k - lastRow
      BY <1>5, <1>7, <2>1, <2>3
    <3>2. j \in Int /\ k \in Int
      BY <1>2, <1>4, <2>3
    <3> QED
      BY <1>2, <3>1, <3>2
  <2> HIDE DEF l
  <2> QED
    BY <1>5, <1>7, <2>1, <2>2, <2>3
<1>11. \A x : RowsOf(row', x) = IF x = l THEN DOMAIN more ELSE RowsOf(row, x)
  <2> HIDE DEF l
  <2> QED
    BY <1>5, <1>7 DEF RowsOf
<1>12. Exact'
  <2>1. sound' = sound /\ edited' = edited
    BY DEF CreateLoan
  <2>2. 1..loan'[l].count \subseteq Seqs(row', l)
    <3>1. SUFFICES ASSUME NEW n \in seqs PROVE n \in Seqs(row', l)
      BY <1>3, <1>6
    <3>2. lastRow + n \in DOMAIN more /\ (lastRow + n) - lastRow = n
      BY <1>2, <1>4
    <3>3. lastRow + n \in RowsOf(row', l)
      BY <1>11, <3>2
    <3>4. row'[lastRow + n].seq = n
      BY <1>5, <1>7, <3>2
    <3> QED
      BY <3>3, <3>4 DEF Seqs
  <2>3. \A x \in DOMAIN loan : Seqs(row', x) = Seqs(row, x)
    <3> HIDE DEF l
    <3> QED
      BY <1>6, <1>7, <1>11 DEF Seqs, RowsOf
  <2>4. ScheduleComplete'
    <3> HIDE DEF l, seqs
    <3> QED
      BY <1>6, <2>1, <2>2, <2>3 DEF LoansInv, Exact, ScheduleComplete
  <2>5. PaidExact'
    <3> HIDE DEF l
    <3> QED
      BY <1>5, <1>7, <2>1 DEF LoansInv, Exact, PaidExact
  <2>6. SettledExact'
    <3>1. loan'[l].status # "settled" /\ \E k \in RowsOf(row', l) : row'[k].status # "paid"
      <4>1. 1 \in seqs /\ lastRow + 1 \in DOMAIN more
        BY <1>2, <1>4 DEF Positive
      <4> QED
        BY <1>3, <1>5, <1>6, <1>7, <1>11, <4>1
    <3>2. \A x \in DOMAIN loan : /\ loan'[x] = loan[x] /\ RowsOf(row', x) = RowsOf(row, x)
                                 /\ \A k \in RowsOf(row, x) : row'[k] = row[k]
      <4> HIDE DEF l
      <4> QED
        BY <1>6, <1>7, <1>11 DEF RowsOf
    <3> HIDE DEF l
    <3> QED
      BY <1>6, <2>1, <3>1, <3>2 DEF LoansInv, Exact, SettledExact
  <2> QED
    BY <2>4, <2>5, <2>6 DEF Exact
<1>13. \A r \in Session : Holds(r)'
  BY StaleHolds DEF CreateLoan
<1> QED
  BY <1>8, <1>9, <1>10, <1>12, <1>13 DEF LoansInv

\* A loan goes with its instalments.
LEMMA DeleteLoanInv ==
  ASSUME LoansInv, NEW s \in Session, DeleteLoan(s)
  PROVE  LoansInv'
<1>1. PICK l \in DOMAIN loan :
        /\ loan' = [k \in DOMAIN loan \ {l} |-> loan[k]]
        /\ row' = [k \in DOMAIN row \ RowsOf(row, l) |-> row[k]]
  BY DEF DeleteLoan
<1>2. /\ DOMAIN loan' = DOMAIN loan \ {l} /\ \A x \in DOMAIN loan' : loan'[x] = loan[x]
      /\ DOMAIN row' = {k \in DOMAIN row : row[k].loan # l}
      /\ \A k \in DOMAIN row' : row'[k] = row[k]
  BY <1>1 DEF RowsOf
<1>3. /\ ask' = ask /\ view' = view /\ fresh' = [r \in Session |-> FALSE]
      /\ sound' = sound /\ today' = today /\ edited' = edited
      /\ lastLoan' = lastLoan /\ lastRow' = lastRow
  BY DEF DeleteLoan
<1>4. Shape' /\ Sane(loan', row') /\ Numbered'
  BY <1>2, <1>3 DEF LoansInv, Shape, Sane, Numbered
<1>5. \A x \in DOMAIN loan' : RowsOf(row', x) = RowsOf(row, x)
  BY <1>2 DEF RowsOf
<1>6. Exact'
  <2>1. \A x \in DOMAIN loan' : Seqs(row', x) = Seqs(row, x)
    BY <1>2, <1>5 DEF Seqs, RowsOf
  <2>2. \A x \in DOMAIN loan' : \A k \in RowsOf(row', x) : row'[k] = row[k]
    BY <1>2 DEF RowsOf
  <2>3. ScheduleComplete' /\ PaidExact'
    BY <1>2, <1>3, <2>1 DEF LoansInv, Exact, ScheduleComplete, PaidExact
  <2>4. SettledExact'
    BY <1>2, <1>3, <1>5, <2>2 DEF LoansInv, Exact, SettledExact
  <2> QED
    BY <2>3, <2>4 DEF Exact
<1>7. \A r \in Session : Holds(r)'
  BY <1>3, StaleHolds
<1> QED
  BY <1>4, <1>6, <1>7 DEF LoansInv

------------------------------------------------------------------------------
(* Payments.                                                                *)

\* The loan with its status once the instalments held are paid.
LEMMA SettleType ==
  ASSUME LoansInv, NEW s \in Session, NEW l \in DOMAIN view[s].loan, NEW held
  PROVE  \E wanted \in LoanRow :
           /\ Settle(s, l, held) = Only(l, wanted)
           /\ wanted.count = view[s].loan[l].count
           /\ IF \A k \in RowsOf(view[s].row, l) : Held(s, held, k).status = "paid"
              THEN wanted.status = "settled" ELSE wanted = view[s].loan[l]
<1> DEFINE old  == view[s].loan[l]
           all  == \A k \in RowsOf(view[s].row, l) : Held(s, held, k).status = "paid"
<1>1. old \in LoanRow
  BY DEF LoansInv, Holds, Sane
<1>2. CASE all
  <2> DEFINE new == [old EXCEPT !.status = "settled"]
  <2>1. Settle(s, l, held) = Only(l, new)
    BY <1>2 DEF Settle
  <2>2. new \in LoanRow /\ new.count = old.count /\ new.status = "settled"
    BY <1>1 DEF LoanRow, LoanStatus
  <2> QED
    BY <1>2, <2>1, <2>2
<1>3. CASE ~all
  <2>1. Settle(s, l, held) = Only(l, old)
    BY <1>3 DEF Settle
  <2> QED
    BY <1>1, <1>3, <2>1
<1> QED
  BY <1>2, <1>3

\* Instalments of one loan are paid and the loan settled with its last one.
LEMMA PaymentKeeps ==
  ASSUME LoansInv, NEW s \in Session, Done(s), NEW l \in DOMAIN view[s].loan, NEW held,
         DOMAIN held \subseteq RowsOf(view[s].row, l),
         \A k \in DOMAIN held :
           /\ held[k] \in Installment /\ held[k].loan = l /\ held[k].seq = view[s].row[k].seq
           /\ held[k].status = "paid" /\ held[k].paid,
         Saved(row, view[s].row, held), Saved(loan, view[s].loan, Settle(s, l, held)),
         lastLoan' = lastLoan, lastRow' = lastRow, edited' = edited
  PROVE  LoansInv'
<1> DEFINE all == \A k \in RowsOf(view[s].row, l) : Held(s, held, k).status = "paid"
<1>1. PICK wanted \in LoanRow :
        /\ Settle(s, l, held) = Only(l, wanted) /\ wanted.count = view[s].loan[l].count
        /\ IF all THEN wanted.status = "settled" ELSE wanted = view[s].loan[l]
  BY SettleType
<1>2. /\ DOMAIN loan' = DOMAIN loan /\ \A x \in DOMAIN loan : loan'[x] \in LoanRow
      /\ \A x \in DOMAIN loan \ {l} : loan'[x] = loan[x]
      /\ fresh[s] => l \in DOMAIN loan /\ loan'[l] = wanted
      /\ \A x \in DOMAIN loan : loan'[x].count = loan[x].count
  BY <1>1, SavedLoan
<1>3. \A k \in DOMAIN held : k \in DOMAIN view[s].row /\ view[s].row[k].loan = l
  BY DEF RowsOf
<1>4. /\ DOMAIN row' = DOMAIN row
      /\ \A k \in DOMAIN row : /\ row'[k] \in Installment
                               /\ row'[k].loan = row[k].loan /\ row'[k].seq = row[k].seq
      /\ fresh[s] => \A k \in DOMAIN row :
           row'[k] = IF k \in DOMAIN held THEN held[k] ELSE row[k]
  <2>1. /\ DOMAIN held \subseteq DOMAIN view[s].row
        /\ \A k \in DOMAIN held : /\ held[k] \in Installment
                                  /\ held[k].loan = view[s].row[k].loan
                                  /\ held[k].seq = view[s].row[k].seq
    BY <1>3
  <2> QED
    BY <2>1, SavedRows
<1>5. /\ Sane(loan', row') /\ Numbered'
      /\ sound => \A x \in DOMAIN loan' : 1..loan'[x].count \subseteq Seqs(row', x)
      /\ \A x : RowsOf(row', x) = RowsOf(row, x)
  BY <1>2, <1>4, MarksOnly
<1>6. ASSUME sound, fresh[s] PROVE Exact'
  <2>1. view[s].row = row /\ view[s].loan = loan
    BY <1>6 DEF LoansInv, Holds
  <2>2. ScheduleComplete'
    BY <1>5, <1>6 DEF ScheduleComplete
  <2>3. PaidExact'
    <3>1. \A k \in DOMAIN row : /\ row[k].status = "paid" <=> row[k].paid
                                /\ row[k].tx # NoTx => row[k].status = "paid"
      BY <1>6 DEF LoansInv, Exact, PaidExact
    <3>2. \A k \in DOMAIN row : row'[k] = row[k] \/ (row'[k].status = "paid" /\ row'[k].paid)
      BY <1>4, <1>6
    <3> QED
      BY <1>4, <3>1, <3>2 DEF PaidExact
  <2>4. ASSUME NEW x \in DOMAIN loan \ edited
        PROVE  loan'[x].status = "settled" <=> \A k \in RowsOf(row, x) : row'[k].status = "paid"
    <3>1. loan[x].status = "settled" <=> \A k \in RowsOf(row, x) : row[k].status = "paid"
      BY <1>6 DEF LoansInv, Exact, SettledExact
    <3>2. CASE x # l
      <4>1. loan'[x] = loan[x]
        BY <1>2, <3>2
      <4>2. \A k \in RowsOf(row, x) : row'[k] = row[k]
        BY <1>3, <1>4, <1>6, <2>1, <3>2 DEF RowsOf
      <4> QED
        BY <3>1, <4>1, <4>2
    <3>3. CASE x = l
      <4>1. \A k \in RowsOf(row, l) : row'[k] = Held(s, held, k)
        BY <1>4, <1>6, <2>1 DEF Held, RowsOf
      <4>2. all <=> \A k \in RowsOf(row, l) : row'[k].status = "paid"
        BY <2>1, <4>1
      <4>3. CASE all
        BY <1>1, <1>2, <1>6, <3>3, <4>2, <4>3
      <4>4. CASE ~all
        <5>1. loan'[l] = loan[l]
          BY <1>1, <1>2, <1>6, <2>1, <4>4
        <5>2. PICK k \in RowsOf(row, l) : row'[k].status # "paid"
          BY <4>2, <4>4
        <5>3. row'[k] = row[k]
          BY <1>4, <1>6, <5>2 DEF RowsOf
        <5> QED
          BY <3>1, <3>3, <4>2, <4>4, <5>1, <5>2, <5>3
      <4> QED
        BY <4>3, <4>4
    <3> QED
      BY <3>2, <3>3
  <2>5. SettledExact'
    BY <1>2, <1>5, <2>4 DEF SettledExact
  <2> QED
    BY <2>2, <2>3, <2>5 DEF Exact
<1> QED
  BY <1>2, <1>4, <1>5, <1>6, DoneKeeps DEF LoansInv, Shape

\* An instalment is marked paid.
LEMMA MarkPaidInv ==
  ASSUME LoansInv, NEW s \in Session, MarkPaid(s)
  PROVE  LoansInv'
<1> DEFINE k    == ask[s].row
           old  == view[s].row[k]
           new  == [old EXCEPT !.status = "paid", !.paid = TRUE, !.tx = ask[s].tx]
           held == Only(k, new)
<1>1. k \in DOMAIN view[s].row /\ ask[s].tx \in Tx \cup {NoTx}
  BY DEF MarkPaid, LoansInv, Holds
<1>2. old \in Installment /\ old.loan \in DOMAIN view[s].loan
  BY <1>1 DEF LoansInv, Holds, Sane
<1>3. /\ new \in Installment /\ new.loan = old.loan /\ new.seq = old.seq
      /\ new.status = "paid" /\ new.paid
  <2> HIDE DEF old
  <2> QED
    BY <1>1, <1>2 DEF Installment, InstallmentStatus
<1>4. /\ Saved(row, view[s].row, held)
      /\ Saved(loan, view[s].loan, Settle(s, old.loan, held))
      /\ lastLoan' = lastLoan /\ lastRow' = lastRow /\ edited' = edited /\ Done(s)
  BY DEF MarkPaid
<1>5. k \in RowsOf(view[s].row, old.loan)
  BY <1>1 DEF RowsOf
<1>6. DOMAIN held = {k} /\ held[k] = new
  BY DEF Only
<1> HIDE DEF k, new, held
<1> QED
  BY <1>2, <1>3, <1>4, <1>5, <1>6, PaymentKeeps

\* Open instalments are linked to transactions, and so paid.
LEMMA AutolinkInv ==
  ASSUME LoansInv, NEW s \in Session, Autolink(s)
  PROVE  LoansInv'
<1> DEFINE l    == ask[s].loan
           rows == view[s].row
           open == {k \in RowsOf(rows, l) : rows[k].status # "paid" /\ rows[k].tx = NoTx}
           held(pick) == [k \in {k \in open : pick[k] # NoTx} |->
                            [rows[k] EXCEPT !.status = "paid", !.paid = TRUE, !.tx = pick[k]]]
<1>1. PICK pick \in [open -> Tx \cup {NoTx}] :
        Saved(row, rows, held(pick)) /\ Saved(loan, view[s].loan, Settle(s, l, held(pick)))
  BY DEF Autolink
<1>2. l \in DOMAIN view[s].loan /\ Sane(view[s].loan, rows)
  BY DEF Autolink, LoansInv, Holds
<1>3. ASSUME NEW k \in open
      PROVE  LET new == [rows[k] EXCEPT !.status = "paid", !.paid = TRUE, !.tx = pick[k]]
             IN  /\ new \in Installment /\ new.loan = l /\ new.seq = rows[k].seq
                 /\ new.status = "paid" /\ new.paid
  <2> DEFINE old == rows[k]
             t   == pick[k]
  <2>1. old \in Installment /\ old.loan = l /\ t \in Tx \cup {NoTx}
    BY <1>2 DEF Sane, RowsOf
  <2> HIDE DEF old, t
  <2>2. LET new == [old EXCEPT !.status = "paid", !.paid = TRUE, !.tx = t]
        IN  /\ new \in Installment /\ new.loan = l /\ new.seq = old.seq
            /\ new.status = "paid" /\ new.paid
    BY <2>1 DEF Installment, InstallmentStatus
  <2> QED
    BY <2>2 DEF old, t
<1> DEFINE wanted == held(pick)
<1>4. /\ DOMAIN wanted \subseteq RowsOf(rows, l)
      /\ \A k \in DOMAIN wanted :
           /\ wanted[k] \in Installment /\ wanted[k].loan = l /\ wanted[k].seq = rows[k].seq
           /\ wanted[k].status = "paid" /\ wanted[k].paid
  BY <1>3
<1>5. /\ lastLoan' = lastLoan /\ lastRow' = lastRow /\ edited' = edited /\ Done(s)
  BY DEF Autolink
<1>6. Saved(row, rows, wanted) /\ Saved(loan, view[s].loan, Settle(s, l, wanted))
  BY <1>1
<1> HIDE DEF wanted, open, l
<1> QED
  BY <1>2, <1>4, <1>5, <1>6, PaymentKeeps

------------------------------------------------------------------------------
(* Overdue marks, and payments undone.                                      *)

\* The mark of the day is never that of a paid instalment.
LEMMA TargetType == \A due : Target(due) \in InstallmentStatus /\ Target(due) # "paid"
BY DEF Target, InstallmentStatus

\* An instalment marked again is paid exactly if it was.
LEMMA RemarkType ==
  ASSUME NEW old \in Installment, old.status # "paid"
  PROVE  LET new == [old EXCEPT !.status = Target(old.due)]
         IN  /\ new \in Installment /\ new.loan = old.loan /\ new.seq = old.seq
             /\ new.status # "paid" /\ new.paid = old.paid /\ new.tx = old.tx
<1> DEFINE mark == Target(old.due)
           new  == [old EXCEPT !.status = mark]
<1>1. mark \in InstallmentStatus /\ mark # "paid"
  BY TargetType
<1> HIDE DEF mark
<1>2. /\ new \in Installment /\ new.loan = old.loan /\ new.seq = old.seq
      /\ new.status # "paid" /\ new.paid = old.paid /\ new.tx = old.tx
  BY <1>1 DEF Installment
<1> QED
  BY <1>2 DEF mark

\* Payment columns stay in accord with a mark that moves between unpaid ones.
SameMarks(j, k) == /\ row'[j].status = "paid" <=> row[k].status = "paid"
                   /\ row'[j].paid = row[k].paid /\ row'[j].tx = row[k].tx

\* A request that reads loans refreshes the marks of what it loaded as unpaid.
LEMMA RefreshStatusesInv ==
  ASSUME LoansInv, NEW s \in Session, RefreshStatuses(s)
  PROVE  LoansInv'
<1> DEFINE rows   == view[s].row
           unpaid == {k \in DOMAIN rows : rows[k].loan \in ask[s].loans /\ rows[k].status # "paid"}
           wanted == [k \in unpaid |-> [rows[k] EXCEPT !.status = Target(rows[k].due)]]
<1>1. Saved(row, rows, wanted)
  BY DEF RefreshStatuses
<1>2. \A k \in unpaid : /\ wanted[k] \in Installment
                        /\ wanted[k].loan = rows[k].loan /\ wanted[k].seq = rows[k].seq
                        /\ wanted[k].status # "paid" /\ rows[k].status # "paid"
                        /\ wanted[k].paid = rows[k].paid /\ wanted[k].tx = rows[k].tx
  BY RemarkType DEF LoansInv, Holds, Sane
<1>3. DOMAIN wanted = unpaid /\ unpaid \subseteq DOMAIN rows
  OBVIOUS
<1> HIDE DEF wanted, unpaid
<1>4. /\ DOMAIN row' = DOMAIN row
      /\ \A k \in DOMAIN row : /\ row'[k] \in Installment
                               /\ row'[k].loan = row[k].loan /\ row'[k].seq = row[k].seq
      /\ fresh[s] => \A k \in DOMAIN row :
           row'[k] = IF k \in DOMAIN wanted THEN wanted[k] ELSE row[k]
  BY <1>1, <1>2, <1>3, SavedRows
<1>5. /\ loan' = loan /\ lastLoan' = lastLoan /\ lastRow' = lastRow /\ edited' = edited /\ Done(s)
  BY DEF RefreshStatuses
<1>6. \A x \in DOMAIN loan : loan'[x] \in LoanRow /\ loan'[x].count = loan[x].count
  BY <1>5 DEF LoansInv, Sane
<1>7. /\ Sane(loan', row') /\ Numbered'
      /\ sound => \A x \in DOMAIN loan' : 1..loan'[x].count \subseteq Seqs(row', x)
      /\ \A x : RowsOf(row', x) = RowsOf(row, x)
  BY <1>4, <1>5, <1>6, MarksOnly
<1>8. ASSUME sound, fresh[s] PROVE Exact'
  <2>1. rows = row
    BY <1>8 DEF LoansInv, Holds
  <2>2. \A k \in DOMAIN row : SameMarks(k, k)
    BY <1>2, <1>3, <1>4, <1>8, <2>1 DEF SameMarks
  <2>3. PaidExact'
    BY <1>4, <1>8, <2>2 DEF LoansInv, Exact, PaidExact, SameMarks
  <2>4. ASSUME NEW x \in DOMAIN loan \ edited
        PROVE  loan[x].status = "settled" <=> \A k \in RowsOf(row, x) : row'[k].status = "paid"
    <3>1. \A k \in RowsOf(row, x) : row'[k].status = "paid" <=> row[k].status = "paid"
      BY <2>2 DEF RowsOf, SameMarks
    <3> QED
      BY <1>8, <3>1 DEF LoansInv, Exact, SettledExact
  <2>5. SettledExact'
    BY <1>5, <1>7, <2>4 DEF SettledExact
  <2> QED
    BY <1>7, <1>8, <2>3, <2>5 DEF Exact, ScheduleComplete
<1> QED
  BY <1>4, <1>5, <1>7, <1>8, DoneKeeps DEF LoansInv, Shape

\* A payment is undone: the other instalments of the loan get the mark of the day.
LEMMA MarkUnpaidInv ==
  ASSUME LoansInv, NEW s \in Session, MarkUnpaid(s)
  PROVE  LoansInv'
<1> DEFINE k      == ask[s].row
           old    == view[s].row[k]
           l      == old.loan
           undone == Cancelled(old)
           held   == IF row[k].status = "paid" THEN undone
                     ELSE [undone EXCEPT !.status = Target(old.due)]
           others == [j \in DOMAIN row \ {k} |-> row[j]]
           before == view[s].loan[l]
           wanted == [before EXCEPT !.status = IF @ = "settled" THEN "active" ELSE @]
<1>1. /\ k \in DOMAIN row
      /\ row' = With(Refreshed(others, l), Only(k, Flush(row[k], old, held)))
      /\ Saved(loan, view[s].loan, Only(l, wanted))
      /\ lastLoan' = lastLoan /\ lastRow' = lastRow /\ edited' = edited /\ Done(s)
  BY DEF MarkUnpaid
<1>2. /\ k \in DOMAIN view[s].row /\ old \in Installment /\ l \in DOMAIN view[s].loan
      /\ before \in LoanRow /\ row[k] \in Installment
  BY <1>1 DEF MarkUnpaid, LoansInv, Holds, Sane
<1>3. /\ held \in Installment /\ held.loan = l /\ held.seq = old.seq
      /\ held.status # "paid" /\ held.paid = FALSE /\ held.tx = NoTx
  <2> HIDE DEF old
  <2>1. /\ undone \in Installment /\ undone.loan = old.loan /\ undone.seq = old.seq
        /\ undone.status # "paid" /\ undone.paid = FALSE /\ undone.tx = NoTx
        /\ undone.due = old.due
    BY <1>2 DEF Cancelled, Installment, InstallmentStatus
  <2> HIDE DEF undone
  <2>2. CASE row[k].status = "paid"
    BY <2>1, <2>2
  <2>3. CASE row[k].status # "paid"
    BY <2>1, <2>3, RemarkType
  <2> QED
    BY <2>2, <2>3
<1>4. /\ wanted \in LoanRow /\ wanted.count = before.count /\ wanted.status # "settled"
  <2> HIDE DEF before
  <2> QED
    BY <1>2 DEF LoanRow, LoanStatus
<1>5. /\ DOMAIN row' = DOMAIN row
      /\ row'[k] = Flush(row[k], old, held)
      /\ \A j \in DOMAIN row \ {k} :
           row'[j] = IF row[j].loan = l /\ row[j].status # "paid"
                     THEN [row[j] EXCEPT !.status = Target(row[j].due)] ELSE row[j]
  <2> DEFINE marked == Refreshed(others, l)
             flushed == Flush(row[k], old, held)
  <2>1. /\ DOMAIN marked = DOMAIN row \ {k}
        /\ \A j \in DOMAIN row \ {k} :
             marked[j] = IF row[j].loan = l /\ row[j].status # "paid"
                         THEN [row[j] EXCEPT !.status = Target(row[j].due)] ELSE row[j]
    <3> HIDE DEF k, l
    <3> QED
      BY DEF Refreshed
  <2>2. row' = With(marked, Only(k, flushed))
    BY <1>1
  <2> HIDE DEF marked, flushed, k, l, old, held, others
  <2>3. /\ DOMAIN row' = DOMAIN row /\ row'[k] = flushed
        /\ \A j \in DOMAIN row \ {k} : row'[j] = marked[j]
    BY <1>1, <2>1, <2>2 DEF With, Only
  <2> QED
    BY <2>1, <2>3 DEF flushed
<1>6. \A j \in DOMAIN row \ {k} :
        /\ row'[j] \in Installment /\ row'[j].loan = row[j].loan /\ row'[j].seq = row[j].seq
        /\ SameMarks(j, j)
  <2>1. \A j \in DOMAIN row : row[j] \in Installment
    BY DEF LoansInv, Sane
  <2> HIDE DEF k, l
  <2> QED
    BY <1>5, <2>1, RemarkType DEF SameMarks
<1>7. /\ row'[k] \in Installment /\ row'[k].loan = row[k].loan /\ row'[k].seq = row[k].seq
      /\ row[k] = old => row'[k] = held
  <2> HIDE DEF k, held
  <2> QED
    BY <1>2, <1>3, <1>5, FlushInstallment
<1> HIDE DEF wanted
<1>8. /\ DOMAIN loan' = DOMAIN loan /\ \A x \in DOMAIN loan : loan'[x] \in LoanRow
      /\ \A x \in DOMAIN loan \ {l} : loan'[x] = loan[x]
      /\ fresh[s] => l \in DOMAIN loan /\ loan'[l] = wanted
      /\ \A x \in DOMAIN loan : loan'[x].count = loan[x].count
  BY <1>1, <1>2, <1>4, SavedLoan
<1> HIDE DEF held, others, undone
<1>9. /\ Sane(loan', row') /\ Numbered'
      /\ sound => \A x \in DOMAIN loan' : 1..loan'[x].count \subseteq Seqs(row', x)
      /\ \A x : RowsOf(row', x) = RowsOf(row, x)
  <2>1. \A j \in DOMAIN row : /\ row'[j] \in Installment
                              /\ row'[j].loan = row[j].loan /\ row'[j].seq = row[j].seq
    <3> HIDE DEF k
    <3> QED
      BY <1>6, <1>7
  <2> QED
    BY <1>5, <1>8, <2>1, MarksOnly
<1>10. ASSUME sound, fresh[s] PROVE Exact'
  <2>1. view[s].row = row /\ view[s].loan = loan
    BY <1>10 DEF LoansInv, Holds
  <2>2. row'[k] = held /\ row[k].loan = l
    BY <1>7, <2>1
  <2> HIDE DEF k, l, old, before
  <2>3. PaidExact'
    BY <1>3, <1>5, <1>6, <1>10, <2>2 DEF LoansInv, Exact, PaidExact, SameMarks
  <2>4. SettledExact'
    <3>1. ASSUME NEW x \in DOMAIN loan \ edited
          PROVE  loan'[x].status = "settled" <=> \A j \in RowsOf(row, x) : row'[j].status = "paid"
      <4>1. CASE x = l
        <5>1. k \in RowsOf(row, l)
          BY <1>1, <2>2 DEF RowsOf
        <5> QED
          BY <1>3, <1>4, <1>8, <1>10, <2>2, <4>1, <5>1
      <4>2. CASE x # l
        <5>1. \A j \in RowsOf(row, x) : row'[j].status = "paid" <=> row[j].status = "paid"
          BY <1>6, <2>2, <4>2 DEF RowsOf, SameMarks
        <5> QED
          BY <1>8, <1>10, <4>2, <5>1 DEF LoansInv, Exact, SettledExact
      <4> QED
        BY <4>1, <4>2
    <3> QED
      BY <1>1, <1>8, <1>9, <3>1 DEF SettledExact
  <2> QED
    BY <1>9, <1>10, <2>3, <2>4 DEF Exact, ScheduleComplete
<1> QED
  BY <1>1, <1>5, <1>8, <1>9, <1>10, DoneKeeps DEF LoansInv, Shape

------------------------------------------------------------------------------
(* Edits.                                                                   *)

\* A loan as a PATCH leaves it.
LEMMA PatchedType ==
  ASSUME NEW old \in LoanRow, NEW p \in Patch,
         "count"  \in DOMAIN p => p.count >= 1,
         "amount" \in DOMAIN p => p.amount > 0
  PROVE  /\ Patched(old, p) \in LoanRow
         /\ DOMAIN p \cap ScheduleFields = {} => Patched(old, p).count = old.count
<1> DEFINE new == Patched(old, p)
<1>1. new = [status |-> IF "status" \in DOMAIN p THEN p["status"] ELSE old.status,
             ref    |-> IF "ref" \in DOMAIN p THEN p["ref"] ELSE old.ref,
             count  |-> IF "count" \in DOMAIN p THEN p["count"] ELSE old.count,
             amount |-> IF "amount" \in DOMAIN p THEN p["amount"] ELSE old.amount,
             first  |-> IF "first" \in DOMAIN p THEN p["first"] ELSE old.first]
  BY DEF Patched, LoanRow
<1>2. /\ "status" \in DOMAIN p => p["status"] \in LoanStatus
      /\ "ref" \in DOMAIN p => p["ref"] \in Ref
  BY DEF LoanStatus, Ref, Given
<1>3. /\ "count" \in DOMAIN p => p["count"] \in Positive
      /\ "amount" \in DOMAIN p => p["amount"] \in Positive
      /\ "first" \in DOMAIN p => p["first"] \in Int
  BY RequestAssumption DEF ScheduleFields, Positive
<1> QED
  BY <1>1, <1>2, <1>3 DEF LoanRow, ScheduleFields

\* The schedule is made anew around the instalments that were paid.
LEMMA RescheduleRows ==
  ASSUME LoansInv, NEW s \in Session, NEW l \in DOMAIN loan, NEW terms \in LoanRow,
         Reschedule(s, l, terms), DOMAIN loan' = DOMAIN loan,
         \A x \in DOMAIN loan : loan'[x] \in LoanRow
  PROVE  /\ lastRow' \in Nat /\ DOMAIN row' \subseteq 1..lastRow'
         /\ Sane(loan', row') /\ Numbered'
         /\ fresh[s] =>
              /\ 1..terms.count \subseteq Seqs(row', l)
              /\ \A x \in DOMAIN loan \ {l} :
                   /\ RowsOf(row', x) = RowsOf(row, x) /\ Seqs(row', x) = Seqs(row, x)
                   /\ \A k \in RowsOf(row, x) : SameMarks(k, k)
              /\ \A k \in DOMAIN row' : \/ k \in DOMAIN row /\ SameMarks(k, k)
                                        \/ Unpaid(row'[k], l, row'[k].seq)
<1> DEFINE loaded == view[s].row
           gone   == Discarded(loaded, l)
           kept   == [k \in DOMAIN row \ gone |-> row[k]]
           seqs   == Missing(loaded, l, terms)
           more   == Schedule(l, seqs, terms)
           marked == Refreshed(kept, l)
<1>1. /\ seqs \cap Seqs(kept, l) = {}
      /\ row' = With(marked, more)
      /\ lastRow' = lastRow + terms.count
  BY DEF Reschedule
<1>2. /\ terms.count \in Positive /\ terms.amount \in Positive /\ terms.first \in Int
      /\ lastRow \in Nat /\ DOMAIN row \subseteq 1..lastRow /\ l \in Nat
      /\ \A k \in DOMAIN row : row[k] \in Installment /\ row[k].loan \in DOMAIN loan
  BY DEF LoanRow, LoansInv, Shape, Sane
<1>3. seqs \subseteq 1..terms.count /\ seqs \in SUBSET Positive
  BY <1>2 DEF Missing, Positive
<1>4. /\ \A k \in DOMAIN more : /\ k > lastRow /\ k - lastRow \in seqs
                                /\ more[k] = NewRow(l, k - lastRow, terms)
      /\ DOMAIN more = {lastRow + n : n \in seqs}
      /\ \A n \in seqs : more[lastRow + n] = NewRow(l, n, terms)
  <2> HIDE DEF seqs
  <2> QED
    BY <1>2, <1>3, NewSchedule
<1>5. \A k \in DOMAIN more : Unpaid(more[k], l, k - lastRow)
  <2> HIDE DEF more, seqs
  <2> QED
    BY <1>2, <1>3, <1>4, NewInstallment
<1>6. /\ DOMAIN marked = DOMAIN row \ gone
      /\ \A k \in DOMAIN row \ gone :
           marked[k] = IF row[k].loan = l /\ row[k].status # "paid"
                       THEN [row[k] EXCEPT !.status = Target(row[k].due)] ELSE row[k]
  <2> HIDE DEF gone
  <2> QED
    BY DEF Refreshed
<1> HIDE DEF more, marked
<1>7. DOMAIN more \cap DOMAIN row = {}
  BY <1>2, <1>4
<1>8. /\ DOMAIN row' = (DOMAIN row \ gone) \cup DOMAIN more
      /\ \A k \in DOMAIN row \ gone : row'[k] = marked[k]
      /\ \A k \in DOMAIN more : row'[k] = more[k]
  <2> HIDE DEF gone
  <2> QED
    BY <1>1, <1>6, <1>7 DEF With
<1>9. \A k \in DOMAIN row \ gone :
        /\ row'[k] \in Installment /\ row'[k].loan = row[k].loan /\ row'[k].seq = row[k].seq
        /\ SameMarks(k, k)
  <2> HIDE DEF gone
  <2>1. SUFFICES ASSUME NEW k \in DOMAIN row \ gone
                 PROVE  /\ row'[k] \in Installment
                        /\ row'[k].loan = row[k].loan /\ row'[k].seq = row[k].seq
                        /\ SameMarks(k, k)
    OBVIOUS
  <2>2. row[k] \in Installment
    BY <1>2
  <2>3. CASE row'[k] = row[k]
    BY <2>2, <2>3 DEF SameMarks
  <2>4. CASE row[k].status # "paid" /\ row'[k] = [row[k] EXCEPT !.status = Target(row[k].due)]
    BY <2>2, <2>4, RemarkType DEF SameMarks
  <2> QED
    BY <1>6, <1>8, <2>3, <2>4
<1>10. \A k \in DOMAIN more : Unpaid(row'[k], l, k - lastRow)
  BY <1>5, <1>8
<1>11. \A k \in DOMAIN more : /\ row'[k] \in Installment /\ row'[k].loan = l
                              /\ row'[k].seq = k - lastRow /\ row'[k].seq \in seqs
  BY <1>4, <1>10 DEF Unpaid
<1>12. lastRow' \in Nat /\ DOMAIN row' \subseteq 1..lastRow'
  <2>1. lastRow' \in Nat /\ lastRow' >= lastRow
    BY <1>1, <1>2 DEF Positive
  <2>2. \A k \in DOMAIN more : k \in 1..lastRow'
    <3>1. SUFFICES ASSUME NEW n \in seqs PROVE lastRow + n \in 1..lastRow'
      BY <1>4
    <3>2. n \in 1..terms.count
      BY <1>3
    <3> QED
      BY <1>1, <1>2, <3>2 DEF Positive
  <2> HIDE DEF gone
  <2> QED
    BY <1>2, <1>8, <2>1, <2>2
<1>13. Sane(loan', row')
  <2> HIDE DEF gone
  <2> QED
    BY <1>2, <1>8, <1>9, <1>11 DEF Sane
<1>14. Numbered'
  <2>1. SUFFICES ASSUME NEW j \in DOMAIN row', NEW k \in DOMAIN row',
                        row'[j].loan = row'[k].loan, row'[j].seq = row'[k].seq
                 PROVE  j = k
    BY DEF Numbered
  <2>2. \A i \in DOMAIN row \ gone : row[i].loan = l => row[i].seq \in Seqs(kept, l)
    <3> HIDE DEF gone
    <3> QED
      BY DEF Seqs, RowsOf
  <2> HIDE DEF gone, seqs, kept
  <2>3. CASE j \in DOMAIN row \ gone /\ k \in DOMAIN row \ gone
    BY <1>9, <2>1, <2>3 DEF LoansInv, Numbered
  <2>4. CASE j \in DOMAIN more /\ k \in DOMAIN more
    <3>1. j - lastRow = k - lastRow
      BY <1>11, <2>1, <2>4
    <3>2. j \in Int /\ k \in Int
      BY <1>2, <1>3, <1>4, <2>4 DEF Positive
    <3> QED
      BY <1>2, <3>1, <3>2
  <2>5. \A i \in DOMAIN row \ gone, m \in DOMAIN more :
          row'[i].loan = row'[m].loan => row'[i].seq # row'[m].seq
    BY <1>1, <1>9, <1>11, <2>2
  <2> QED
    BY <1>8, <2>1, <2>3, <2>4, <2>5
<1>15. ASSUME fresh[s]
       PROVE  /\ 1..terms.count \subseteq Seqs(row', l)
              /\ \A x \in DOMAIN loan \ {l} :
                   /\ RowsOf(row', x) = RowsOf(row, x) /\ Seqs(row', x) = Seqs(row, x)
                   /\ \A k \in RowsOf(row, x) : SameMarks(k, k)
  <2>1. loaded = row
    BY <1>15 DEF LoansInv, Holds
  <2>2. gone = {k \in RowsOf(row, l) : row[k].status # "paid"}
    BY <2>1 DEF Discarded
  <2>3. seqs = (1..terms.count) \ {row[k].seq : k \in RowsOf(row, l) \ gone}
    BY <2>1 DEF Missing
  <2> HIDE DEF gone, seqs
  <2>4. ASSUME NEW n \in 1..terms.count PROVE n \in Seqs(row', l)
    <3>1. CASE n \in seqs
      <4>1. lastRow + n \in DOMAIN more /\ (lastRow + n) - lastRow = n
        BY <1>2, <1>3, <1>4, <3>1 DEF Positive
      <4>2. lastRow + n \in RowsOf(row', l) /\ row'[lastRow + n].seq = n
        BY <1>8, <1>11, <4>1 DEF RowsOf
      <4> QED
        BY <4>2 DEF Seqs
    <3>2. CASE n \notin seqs
      <4>1. PICK k \in RowsOf(row, l) \ gone : row[k].seq = n
        BY <2>3, <3>2
      <4>2. k \in RowsOf(row', l) /\ row'[k].seq = n
        BY <1>8, <1>9, <4>1 DEF RowsOf
      <4> QED
        BY <4>2 DEF Seqs
    <3> QED
      BY <3>1, <3>2
  <2>5. ASSUME NEW x \in DOMAIN loan \ {l}
        PROVE  /\ RowsOf(row', x) = RowsOf(row, x) /\ Seqs(row', x) = Seqs(row, x)
               /\ \A k \in RowsOf(row, x) : SameMarks(k, k)
    <3>1. \A k \in RowsOf(row, x) : k \in DOMAIN row \ gone
      BY <2>2 DEF RowsOf
    <3>2. RowsOf(row', x) = RowsOf(row, x)
      BY <1>8, <1>9, <1>11, <3>1 DEF RowsOf
    <3>3. Seqs(row', x) = Seqs(row, x)
      BY <1>9, <3>1, <3>2 DEF Seqs
    <3> QED
      BY <1>9, <3>1, <3>2, <3>3
  <2> QED
    BY <2>4, <2>5
<1>16. \A k \in DOMAIN row' : \/ k \in DOMAIN row /\ SameMarks(k, k)
                              \/ Unpaid(row'[k], l, row'[k].seq)
  <2>1. \A k \in DOMAIN more : Unpaid(row'[k], l, row'[k].seq)
    BY <1>10, <1>11
  <2> HIDE DEF gone
  <2> QED
    BY <1>8, <1>9, <2>1
<1> QED
  BY <1>12, <1>13, <1>14, <1>15, <1>16

\* A loan is edited, and its schedule with it if the edit concerns it.
LEMMA UpdateLoanInv ==
  ASSUME LoansInv, NEW s \in Session, UpdateLoan(s)
  PROVE  LoansInv'
<1> DEFINE l      == ask[s].loan
           p      == ask[s].patch
           before == view[s].loan[l]
           wanted == Patched(before, p)
<1>1. /\ l \in DOMAIN loan /\ Saved(loan, view[s].loan, Only(l, wanted))
      /\ edited' = edited \cup {l} /\ lastLoan' = lastLoan /\ Done(s)
      /\ IF DOMAIN p \cap ScheduleFields # {} THEN Reschedule(s, l, wanted)
         ELSE row' = row /\ lastRow' = lastRow
  BY DEF UpdateLoan
<1>2. /\ l \in DOMAIN view[s].loan /\ before \in LoanRow /\ p \in Patch
      /\ "count"  \in DOMAIN p => p.count >= 1
      /\ "amount" \in DOMAIN p => p.amount > 0
  BY DEF UpdateLoan, LoansInv, Holds, Sane
<1>3. wanted \in LoanRow /\ (DOMAIN p \cap ScheduleFields = {} => wanted.count = before.count)
  <2> HIDE DEF before, p
  <2> QED
    BY <1>2, PatchedType
<1> HIDE DEF wanted
<1>4. /\ DOMAIN loan' = DOMAIN loan /\ \A x \in DOMAIN loan : loan'[x] \in LoanRow
      /\ \A x \in DOMAIN loan \ {l} : loan'[x] = loan[x]
      /\ fresh[s] => l \in DOMAIN loan /\ loan'[l] = wanted
      /\ wanted.count = before.count => \A x \in DOMAIN loan : loan'[x].count = loan[x].count
  BY <1>1, <1>2, <1>3, SavedLoan
<1>5. /\ DOMAIN loan' \subseteq 1..lastLoan' /\ lastLoan' \in Nat
      /\ edited \subseteq edited' /\ edited' \subseteq 1..lastLoan'
  BY <1>1, <1>4 DEF LoansInv, Shape
<1> HIDE DEF l, p
<1>6. CASE DOMAIN p \cap ScheduleFields # {}
  <2>1. Reschedule(s, l, wanted)
    BY <1>1, <1>6
  <2>2. /\ lastRow' \in Nat /\ DOMAIN row' \subseteq 1..lastRow'
        /\ Sane(loan', row') /\ Numbered'
        /\ fresh[s] =>
             /\ 1..wanted.count \subseteq Seqs(row', l)
             /\ \A x \in DOMAIN loan \ {l} :
                  /\ RowsOf(row', x) = RowsOf(row, x) /\ Seqs(row', x) = Seqs(row, x)
                  /\ \A k \in RowsOf(row, x) : SameMarks(k, k)
             /\ \A k \in DOMAIN row' : \/ k \in DOMAIN row /\ SameMarks(k, k)
                                       \/ Unpaid(row'[k], l, row'[k].seq)
    BY <1>1, <1>3, <1>4, <2>1, RescheduleRows
  <2>3. ASSUME sound, fresh[s] PROVE Exact'
    <3>1. ScheduleComplete'
      BY <1>4, <2>2, <2>3 DEF LoansInv, Exact, ScheduleComplete
    <3>2. PaidExact'
      <4>1. \A k \in DOMAIN row' : \/ k \in DOMAIN row /\ SameMarks(k, k)
                                   \/ Unpaid(row'[k], l, row'[k].seq)
        BY <2>2, <2>3
      <4> QED
        BY <2>3, <4>1 DEF LoansInv, Exact, PaidExact, SameMarks, Unpaid
    <3>3. ASSUME NEW x \in DOMAIN loan \ edited'
          PROVE  loan'[x].status = "settled" <=> \A k \in RowsOf(row', x) : row'[k].status = "paid"
      <4>1. x \in DOMAIN loan \ {l} /\ x \notin edited
        BY <1>1
      <4>2. loan'[x] = loan[x] /\ RowsOf(row', x) = RowsOf(row, x)
        BY <1>4, <2>2, <2>3, <4>1
      <4>3. \A k \in RowsOf(row, x) : row'[k].status = "paid" <=> row[k].status = "paid"
        BY <2>2, <2>3, <4>1 DEF SameMarks
      <4> QED
        BY <2>3, <4>1, <4>2, <4>3 DEF LoansInv, Exact, SettledExact
    <3>4. SettledExact'
      BY <1>4, <3>3 DEF SettledExact
    <3> QED
      BY <3>1, <3>2, <3>4 DEF Exact
  <2> QED
    BY <1>1, <1>5, <2>2, <2>3, DoneKeeps
<1>7. CASE DOMAIN p \cap ScheduleFields = {}
  <2>1. row' = row /\ lastRow' = lastRow
    BY <1>1, <1>7
  <2>2. \A x \in DOMAIN loan : loan'[x] \in LoanRow /\ loan'[x].count = loan[x].count
    BY <1>3, <1>4, <1>7
  <2>3. \A k \in DOMAIN row : row[k] \in Installment
    BY DEF LoansInv, Sane
  <2>4. /\ Sane(loan', row') /\ Numbered'
        /\ sound => \A x \in DOMAIN loan' : 1..loan'[x].count \subseteq Seqs(row', x)
    BY <1>4, <2>1, <2>2, <2>3, MarksOnly
  <2>5. ASSUME sound, fresh[s] PROVE Exact'
    <3>1. ScheduleComplete' /\ PaidExact'
      BY <2>1, <2>4, <2>5 DEF LoansInv, Exact, ScheduleComplete, PaidExact
    <3>2. SettledExact'
      BY <1>1, <1>4, <2>1, <2>5 DEF LoansInv, Exact, SettledExact
    <3> QED
      BY <3>1, <3>2 DEF Exact
  <2>6. lastRow' \in Nat /\ DOMAIN row' \subseteq 1..lastRow'
    BY <2>1 DEF LoansInv, Shape
  <2> QED
    BY <1>1, <1>5, <2>4, <2>5, <2>6, DoneKeeps
<1> QED
  BY <1>6, <1>7

------------------------------------------------------------------------------
(* The invariant.                                                           *)

\* There are no loans at first.
LEMMA InitInv == Init => LoansInv
<1>1. SUFFICES ASSUME Init PROVE LoansInv
  OBVIOUS
<1>2. DOMAIN loan = {} /\ DOMAIN row = {}
  BY <1>1 DEF Init
<1>3. Shape
  BY <1>1, <1>2, LoansAssumption DEF Init, Shape
<1>4. Sane(loan, row) /\ Numbered /\ Exact
  BY <1>2 DEF Sane, Numbered, Exact, ScheduleComplete, PaidExact, SettledExact
<1>5. ASSUME NEW s \in Session PROVE Holds(s)
  <2>1. ask[s] = Idle /\ view[s] = Nothing /\ ~fresh[s]
    BY <1>1 DEF Init
  <2>2. Sane(view[s].loan, view[s].row)
    BY <2>1 DEF Nothing, Sane
  <2> QED
    BY <2>1, <2>2 DEF Holds, Idle
<1> QED
  BY <1>3, <1>4, <1>5 DEF LoansInv

\* Every step keeps the invariant.
LEMMA StepInv == LoansInv /\ [Next]_vars => LoansInv'
<1>1. SUFFICES ASSUME LoansInv, [Next]_vars PROVE LoansInv'
  OBVIOUS
<1>2. CASE UNCHANGED vars
  <2>1. \A s \in Session : Holds(s)'
    BY <1>1, <1>2, HoldsKept DEF LoansInv, vars
  <2>2. Shape' /\ Sane(loan', row') /\ Numbered'
    BY <1>1, <1>2 DEF vars, tables, LoansInv, Shape, Numbered
  <2>3. Exact'
    BY <1>1, <1>2 DEF vars, tables, LoansInv, Exact, ScheduleComplete, PaidExact, SettledExact,
                      Seqs, RowsOf
  <2> QED
    BY <2>1, <2>2, <2>3 DEF LoansInv
<1>3. CASE NextDay
  BY <1>1, <1>3, NextDayInv
<1>4. ASSUME NEW s \in Session,
             \/ CreateLoan(s) \/ DeleteLoan(s)
             \/ BeginUpdate(s) \/ UpdateLoan(s)
             \/ BeginPay(s) \/ MarkPaid(s) \/ BeginUnpay(s) \/ MarkUnpaid(s)
             \/ BeginAutolink(s) \/ Autolink(s)
             \/ BeginRefresh(s) \/ RefreshStatuses(s)
             \/ RollBack(s)
      PROVE  LoansInv'
  BY <1>1, <1>4, CreateLoanInv, DeleteLoanInv, BeginInv, UpdateLoanInv, MarkPaidInv,
     MarkUnpaidInv, AutolinkInv, RefreshStatusesInv, RollBackInv
<1> QED
  BY <1>1, <1>2, <1>3, <1>4 DEF Next

\* The inductive invariant holds in every reachable state.
THEOREM LoansInvariant == Spec => []LoansInv
BY InitInv, StepInv, PTL DEF Spec

\* Every instalment has its loan, no loan has a number twice, and ids grow.
THEOREM Types == Spec => []TypeOK
<1>1. ASSUME LoansInv PROVE TypeOK
  <2>1. \A l \in DOMAIN loan : /\ loan[l].status \in LoanStatus
                               /\ loan[l].count >= 1 /\ loan[l].amount > 0
    BY <1>1 DEF LoansInv, Sane, LoanRow, Positive
  <2>2. \A k \in DOMAIN row :
          /\ row[k].loan \in DOMAIN loan /\ row[k].seq >= 1
          /\ row[k].status \in InstallmentStatus /\ row[k].paid \in BOOLEAN
          /\ row[k].tx \in Tx \cup {NoTx}
    BY <1>1 DEF LoansInv, Sane, Installment, Positive
  <2> QED
    BY <1>1, <2>1, <2>2 DEF LoansInv, Shape, Numbered, TypeOK
<1> QED
  BY <1>1, LoansInvariant, PTL

\* ScheduleComplete: however often reschedule rebuilds it, a loan's schedule has an
\* instalment for each number, as long as no commit was computed from stale rows.
THEOREM ScheduleIsComplete == Spec => []ScheduleComplete
<1>1. LoansInv => ScheduleComplete
  BY DEF LoansInv, Exact
<1> QED
  BY <1>1, LoansInvariant, PTL

\* PaidExact: under the same condition an instalment's mark and its payment columns
\* agree, whatever payments, undone payments, autolinks and overdue marks came.
THEOREM PaidIsExact == Spec => []PaidExact
<1>1. LoansInv => PaidExact
  BY DEF LoansInv, Exact
<1> QED
  BY <1>1, LoansInvariant, PTL

\* SettledExact: under the same condition a loan nobody edited is settled exactly when
\* all its instalments are paid.
THEOREM SettledIsExact == Spec => []SettledExact
<1>1. LoansInv => SettledExact
  BY DEF LoansInv, Exact
<1> QED
  BY <1>1, LoansInvariant, PTL
==============================================================================
