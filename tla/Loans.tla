-------------------------------- MODULE Loans --------------------------------
(***************************************************************************)
(* Loans and their instalments: creation, editing with a rebuilt schedule, *)
(* payment and its undoing, linking to bank transactions, and the overdue  *)
(* marks that every reading request refreshes.                             *)
(*                                                                         *)
(* A request loads rows in one step and commits in another, on a thread    *)
(* and a database session of its own.  The session writes a column only    *)
(* when its new value differs from the loaded one (Flush below), and fails *)
(* when a row it wants to write is gone.                                   *)
(*                                                                         *)
(* Days are numbers; the Jalali month is a constant Month days here.       *)
(***************************************************************************)
EXTENDS Integers

CONSTANTS
  Session,    \* worker threads
  Tx,         \* withdrawals in the bank's books
  TxAmount, TxDay, TxRef,  \* their size, day and loan reference
  NoTx, NoRef,
  Terms,      \* what a new loan may be: [ref, count, amount, first]
  Patch,      \* edits: records over some of status, ref, count, amount, first
  Month,      \* days between two due dates
  Window,     \* days around a due date in which autolink looks
  MaxDay, MaxLoans, MaxRequests    \* bounds

Given(f) == {p[f] : p \in {q \in Patch : f \in DOMAIN q}}

\* What the program sets, and whatever else a PATCH gives: no one looks at it.
LoanStatus        == {"active", "settled"} \cup Given("status")
InstallmentStatus == {"pending", "paid", "overdue"}
ScheduleFields    == {"count", "amount", "first"}
LoanFields        == {"status", "ref"} \cup ScheduleFields

ASSUME LoansAssumption ==
  /\ NoTx \notin Tx
  /\ TxAmount \in [Tx -> Nat] /\ TxDay \in [Tx -> Int]
  /\ Month \in Nat /\ Window \in Nat /\ MaxDay \in Nat

\* What the fields of a request's body may be.
ASSUME RequestAssumption ==
  /\ \A t \in Terms : t.count \in Int /\ t.amount \in Int /\ t.first \in Int
  /\ \A p \in Patch :
       /\ DOMAIN p \subseteq LoanFields
       /\ \A f \in DOMAIN p \cap ScheduleFields : p[f] \in Int

VARIABLES
  today,
  loan,       \* table loan, by id: [status, ref, count, amount, first]
  row,        \* table loan_installment, by id
  lastLoan, lastRow,  \* the ids given out so far
  ask,        \* the request each session is serving
  view,       \* what it has loaded
  fresh,      \* history: a request is under way and what it loaded is current
  sound,      \* history: every commit so far came from a fresh view
  edited,     \* history: loans a PATCH has changed
  requests    \* history: requests so far

tables  == <<loan, row, lastLoan, lastRow>>
vars    == <<today, tables, ask, view, fresh, sound, edited, requests>>

Idle    == [op |-> "idle"]
Nothing == [loan |-> <<>>, row |-> <<>>]

Only(k, r)        == [x \in {k} |-> r]
With(table, more) == [k \in DOMAIN table \cup DOMAIN more |->
                        IF k \in DOMAIN table THEN table[k] ELSE more[k]]

RowsOf(rows, l) == {k \in DOMAIN rows : rows[k].loan = l}
Seqs(rows, l)   == {rows[k].seq : k \in RowsOf(rows, l)}

\* refresh_statuses: what an instalment that is not paid is marked.
Target(due) == IF due < today THEN "overdue" ELSE "pending"

\* build_schedule, and the rows reschedule adds, with their first refresh.
NewRow(l, seq, terms) ==
  LET due == terms.first + (seq - 1) * Month
  IN  [loan |-> l, seq |-> seq, due |-> due, amount |-> terms.amount,
       status |-> Target(due), paid |-> FALSE, tx |-> NoTx]

Schedule(l, seqs, terms) ==
  [k \in {lastRow + seq : seq \in seqs} |-> NewRow(l, k - lastRow, terms)]

------------------------------------------------------------------------------
(* The unit of work of a session.                                           *)

\* A record as the database has it, after a flush of what the session changed.
Flush(current, loaded, wanted) ==
  [f \in DOMAIN current |->
     IF wanted[f] = loaded[f] THEN current[f] ELSE wanted[f]]

\* Every record of the table, where "wanted" names those the session holds.
FlushAll(table, loaded, wanted) ==
  [k \in DOMAIN table |->
     IF k \in DOMAIN wanted THEN Flush(table[k], loaded[k], wanted[k]) ELSE table[k]]

Changes(loaded, wanted) == {k \in DOMAIN wanted : wanted[k] # loaded[k]}

\* What becomes of the table, if all the rows to be written are still there.
Saved(table, loaded, wanted) ==
  /\ Changes(loaded, wanted) \subseteq DOMAIN table
  /\ table' = FlushAll(table, loaded, wanted)

Init ==
  /\ today = 0
  /\ loan = <<>> /\ row = <<>> /\ lastLoan = 0 /\ lastRow = 0
  /\ ask = [s \in Session |-> Idle]
  /\ view = [s \in Session |-> Nothing]
  /\ fresh = [s \in Session |-> FALSE]
  /\ sound = TRUE /\ edited = {} /\ requests = 0

Count == requests < MaxRequests /\ requests' = requests + 1

\* The request loads the rows it works on.
Serve(s, request) ==
  /\ ask[s] = Idle /\ Count
  /\ ask'   = [ask EXCEPT ![s] = request]
  /\ view'  = [view EXCEPT ![s] = [loan |-> loan, row |-> row]]
  /\ fresh' = [fresh EXCEPT ![s] = TRUE]
  /\ UNCHANGED <<today, tables, sound, edited>>

\* It has committed: if that changed anything, what the others hold is stale.
Done(s) ==
  /\ ask'   = [ask EXCEPT ![s] = Idle]
  /\ view'  = [view EXCEPT ![s] = Nothing]
  /\ fresh' = [r \in Session |-> r # s /\ fresh[r] /\ tables' = tables]
  /\ sound' = (sound /\ (fresh[s] \/ tables' = tables))
  /\ UNCHANGED <<today, requests>>

------------------------------------------------------------------------------
(* Requests that decide nothing from what they read.                        *)

NextDay ==
  /\ today < MaxDay /\ today' = today + 1
  /\ UNCHANGED <<tables, ask, view, fresh, sound, edited, requests>>

\* POST /loans
CreateLoan(s) ==
  /\ ask[s] = Idle /\ Count
  /\ lastLoan < MaxLoans
  /\ \E t \in Terms :
       /\ t.count >= 1 /\ t.amount > 0
       /\ loan' = With(loan, Only(lastLoan + 1,
                    [status |-> "active", ref |-> t.ref,
                     count |-> t.count, amount |-> t.amount, first |-> t.first]))
       /\ row' = With(row, Schedule(lastLoan + 1, 1..t.count, t))
       /\ lastLoan' = lastLoan + 1 /\ lastRow' = lastRow + t.count
  /\ fresh' = [r \in Session |-> FALSE]
  /\ UNCHANGED <<today, ask, view, sound, edited>>

\* Mutant: the instalments are not deleted with their loan.
DeleteLoanOnly(s) ==
  /\ ask[s] = Idle /\ Count
  /\ \E l \in DOMAIN loan : loan' = [k \in DOMAIN loan \ {l} |-> loan[k]]
  /\ fresh' = [r \in Session |-> FALSE]
  /\ UNCHANGED <<today, row, lastLoan, lastRow, ask, view, sound, edited>>

\* DELETE /loans/{id}, instalments included (its receipts: module FileStore).
DeleteLoan(s) ==
  /\ ask[s] = Idle /\ Count
  /\ \E l \in DOMAIN loan :
       /\ loan' = [k \in DOMAIN loan \ {l} |-> loan[k]]
       /\ row' = [k \in DOMAIN row \ RowsOf(row, l) |-> row[k]]
  /\ fresh' = [r \in Session |-> FALSE]
  /\ UNCHANGED <<today, lastLoan, lastRow, ask, view, sound, edited>>

------------------------------------------------------------------------------
(* PATCH /loans/{id}                                                        *)

BeginUpdate(s) ==
  \E l \in DOMAIN loan, p \in Patch :
    /\ "count"  \in DOMAIN p => p.count >= 1
    /\ "amount" \in DOMAIN p => p.amount > 0
    /\ Serve(s, [op |-> "update", loan |-> l, patch |-> p])

Patched(old, p) == [f \in DOMAIN old |-> IF f \in DOMAIN p THEN p[f] ELSE old[f]]

\* reschedule throws away what its session believes to be unpaid.
Discarded(loaded, l) == {k \in RowsOf(loaded, l) : loaded[k].status # "paid"}

\* Mutant: range(1, installment_count).
MissingOneShort(loaded, l, terms) ==
  (1..terms.count - 1) \ {loaded[k].seq : k \in RowsOf(loaded, l) \ Discarded(loaded, l)}

\* And makes anew the numbers no kept instalment has.
Missing(loaded, l, terms) ==
  (1..terms.count) \ {loaded[k].seq : k \in RowsOf(loaded, l) \ Discarded(loaded, l)}

\* refresh_statuses of one loan, reading the rows as they now are.
Refreshed(rows, l) ==
  [k \in DOMAIN rows |->
     IF rows[k].loan = l /\ rows[k].status # "paid"
     THEN [rows[k] EXCEPT !.status = Target(rows[k].due)] ELSE rows[k]]

Reschedule(s, l, terms) ==
  LET loaded == view[s].row
      kept   == [k \in DOMAIN row \ Discarded(loaded, l) |-> row[k]]
      seqs   == Missing(loaded, l, terms)
  IN  /\ seqs \cap Seqs(kept, l) = {}            \* uq_installment_seq
      /\ row' = With(Refreshed(kept, l), Schedule(l, seqs, terms))
      /\ lastRow' = lastRow + terms.count

UpdateLoan(s) ==
  /\ ask[s].op = "update"
  /\ LET l      == ask[s].loan
         p      == ask[s].patch
         wanted == Patched(view[s].loan[l], p)
     IN  /\ l \in DOMAIN loan
         /\ Saved(loan, view[s].loan, Only(l, wanted))
         /\ edited' = edited \cup {l}
         /\ IF DOMAIN p \cap ScheduleFields # {}
            THEN Reschedule(s, l, wanted)
            ELSE UNCHANGED <<row, lastRow>>
  /\ UNCHANGED lastLoan
  /\ Done(s)

------------------------------------------------------------------------------
(* POST /loans/installments/{id}/pay and /unpay                             *)

BeginPay(s) ==
  \E k \in DOMAIN row, t \in Tx \cup {NoTx} :
    Serve(s, [op |-> "pay", row |-> k, tx |-> t])

BeginUnpay(s) == \E k \in DOMAIN row : Serve(s, [op |-> "unpay", row |-> k])

\* An instalment as the session has it by now.
Held(s, held, k) == IF k \in DOMAIN held THEN held[k] ELSE view[s].row[k]

\* Mutant: instalments still to come do not count as open.
SettleUnlessOverdue(s, l, held) ==
  Only(l, IF \A k \in RowsOf(view[s].row, l) : Held(s, held, k).status # "overdue"
          THEN [view[s].loan[l] EXCEPT !.status = "settled"]
          ELSE view[s].loan[l])

\* The loan is settled once every instalment of it that the session holds,
\* as the session holds it, is paid.
Settle(s, l, held) ==
  Only(l, IF \A k \in RowsOf(view[s].row, l) : Held(s, held, k).status = "paid"
          THEN [view[s].loan[l] EXCEPT !.status = "settled"]
          ELSE view[s].loan[l])

MarkPaid(s) ==
  /\ ask[s].op = "pay"
  /\ LET k    == ask[s].row
         held == Only(k, [view[s].row[k] EXCEPT !.status = "paid", !.paid = TRUE,
                                                !.tx = ask[s].tx])
     IN  /\ Saved(row, view[s].row, held)
         /\ Saved(loan, view[s].loan, Settle(s, view[s].row[k].loan, held))
  /\ UNCHANGED <<lastLoan, lastRow, edited>>
  /\ Done(s)

\* Mutant: the transaction stays linked.
CancelledKeepsTx(r) == [r EXCEPT !.status = "pending", !.paid = FALSE]

Cancelled(r) == [r EXCEPT !.status = "pending", !.paid = FALSE, !.tx = NoTx]

\* refresh_statuses runs before the row itself is flushed (autoflush is off):
\* the query does not see the row that the database still has as paid.
MarkUnpaid(s) ==
  /\ ask[s].op = "unpay"
  /\ LET k      == ask[s].row
         old    == view[s].row[k]
         l      == old.loan
         undone == Cancelled(old)
         held   == IF row[k].status = "paid" THEN undone
                   ELSE [undone EXCEPT !.status = Target(old.due)]
         others == [j \in DOMAIN row \ {k} |-> row[j]]
     IN  /\ k \in DOMAIN row
         /\ row' = With(Refreshed(others, l), Only(k, Flush(row[k], old, held)))
         /\ Saved(loan, view[s].loan,
                  Only(l, [view[s].loan[l] EXCEPT !.status = IF @ = "settled" THEN "active" ELSE @]))
  /\ UNCHANGED <<lastLoan, lastRow, edited>>
  /\ Done(s)

------------------------------------------------------------------------------
(* POST /loans/{id}/autolink                                                *)

BeginAutolink(s) == \E l \in DOMAIN loan : Serve(s, [op |-> "autolink", loan |-> l])

Near(r, t) == TxDay[t] \in (r.due - Window)..(r.due + Window)

\* What one instalment may be linked to: a transaction with the loan's own
\* reference if there is one, else one of the very amount, never a used one.
Offers(terms, r, used) ==
  LET byRef    == {t \in Tx \ used : Near(r, t) /\ terms.ref # NoRef /\ TxRef[t] = terms.ref}
      byAmount == {t \in Tx \ used : Near(r, t) /\ TxAmount[t] = r.amount}
  IN  CASE byRef # {}                     -> byRef
        [] byRef = {} /\ byAmount # {}    -> byAmount
        [] OTHER                          -> {NoTx}

\* The open instalments take their turn by number, each with what is left.
Autolink(s) ==
  /\ ask[s].op = "autolink"
  /\ LET l    == ask[s].loan
         rows == view[s].row
         open == {k \in RowsOf(rows, l) : rows[k].status # "paid" /\ rows[k].tx = NoTx}
         used == {rows[k].tx : k \in DOMAIN rows} \ {NoTx}
     IN  \E pick \in [open -> Tx \cup {NoTx}] :
           LET earlier(k) == {pick[j] : j \in {i \in open : rows[i].seq < rows[k].seq}}
               linked     == {k \in open : pick[k] # NoTx}
               held       == [k \in linked |-> [rows[k] EXCEPT !.status = "paid",
                                                   !.paid = TRUE, !.tx = pick[k]]]
           IN  /\ \A k \in open : pick[k] \in Offers(view[s].loan[l], rows[k], used \cup earlier(k))
               /\ Saved(row, rows, held)
               /\ Saved(loan, view[s].loan, Settle(s, l, held))
  /\ UNCHANGED <<lastLoan, lastRow, edited>>
  /\ Done(s)

------------------------------------------------------------------------------
(* GET /loans, GET /loans/upcoming (every loan) and GET /loans/{id}         *)

BeginRefresh(s) ==
  \E ls \in {DOMAIN loan} \cup {{l} : l \in DOMAIN loan} :
    Serve(s, [op |-> "refresh", loans |-> ls])

\* refresh_statuses: the rows it loaded as not paid get the mark of the day.
RefreshStatuses(s) ==
  /\ ask[s].op = "refresh"
  /\ LET rows   == view[s].row
         unpaid == {k \in DOMAIN rows : rows[k].loan \in ask[s].loans /\ rows[k].status # "paid"}
     IN  Saved(row, rows, [k \in unpaid |-> [rows[k] EXCEPT !.status = Target(rows[k].due)]])
  /\ UNCHANGED <<loan, lastLoan, lastRow, edited>>
  /\ Done(s)

------------------------------------------------------------------------------
\* The request ends without a commit: a row it wrote to is gone, its numbers
\* collide with another edit's, or the client or the server gave up.
RollBack(s) ==
  /\ ask[s] # Idle
  /\ ask'  = [ask EXCEPT ![s] = Idle]
  /\ view' = [view EXCEPT ![s] = Nothing]
  /\ fresh' = [fresh EXCEPT ![s] = FALSE]
  /\ UNCHANGED <<today, tables, sound, edited, requests>>

Next ==
  \/ NextDay
  \/ \E s \in Session :
       \/ CreateLoan(s) \/ DeleteLoan(s)
       \/ BeginUpdate(s) \/ UpdateLoan(s)
       \/ BeginPay(s) \/ MarkPaid(s) \/ BeginUnpay(s) \/ MarkUnpaid(s)
       \/ BeginAutolink(s) \/ Autolink(s)
       \/ BeginRefresh(s) \/ RefreshStatuses(s)
       \/ RollBack(s)

Spec == Init /\ [][Next]_vars

------------------------------------------------------------------------------
(* Properties                                                               *)

\* Every row belongs to a loan, no loan has a number twice, and ids grow.
TypeOK ==
  /\ today \in 0..MaxDay
  /\ DOMAIN loan \subseteq 1..lastLoan /\ DOMAIN row \subseteq 1..lastRow
  /\ \A l \in DOMAIN loan :
       /\ loan[l].status \in LoanStatus
       /\ loan[l].count >= 1 /\ loan[l].amount > 0
  /\ \A k \in DOMAIN row :
       /\ row[k].loan \in DOMAIN loan /\ row[k].seq >= 1
       /\ row[k].status \in InstallmentStatus /\ row[k].paid \in BOOLEAN
       /\ row[k].tx \in Tx \cup {NoTx}
  /\ \A j, k \in DOMAIN row :
       row[j].loan = row[k].loan /\ row[j].seq = row[k].seq => j = k
  /\ edited \subseteq 1..lastLoan

\* Unless a commit was computed from data another request had changed, the
\* schedule of a loan has an instalment for each of its numbers, whatever edits,
\* payments and undone payments it went through.
ScheduleComplete ==
  sound => \A l \in DOMAIN loan : 1..loan[l].count \subseteq Seqs(row, l)

\* Under the same condition an instalment's mark and its payment columns agree:
\* paid exactly with a payment date, and a linked transaction only on a paid one.
\* The overdue marks that reading requests write never disturb it.
PaidExact ==
  sound => \A k \in DOMAIN row :
    /\ row[k].status = "paid" <=> row[k].paid
    /\ row[k].tx # NoTx => row[k].status = "paid"

\* A loan nobody edited is settled exactly when all its instalments are paid,
\* by hand or by autolink, however often payments are undone and made again.
SettledExact ==
  sound => \A l \in DOMAIN loan \ edited :
    loan[l].status = "settled" <=> \A k \in RowsOf(row, l) : row[k].status = "paid"
=============================================================================
