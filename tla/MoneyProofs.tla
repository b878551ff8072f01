------------------------------ MODULE MoneyProofs ------------------------------
(***************************************************************************)
(* The debt book, the budgets and the reports, proved for any number of    *)
(* sessions, debts, events and rows: the sums owed, the amount a month is  *)
(* judged by, and that the reports tell of the same money.                 *)
(***************************************************************************)
EXTENDS Money, SumTheorems

\* A request that changes events holds one that nobody else holds: a new one,
\* or one that is in the table as it was read.
Jobs ==
  /\ pc \in [Session -> {"idle", "events", "commit", "budget"}] /\ DOMAIN job = Session
  /\ \A s \in Changing :
       /\ job[s] \in [op : {"add", "delete"}, entry : EntryId, row : Entry, repaid : Int,
                      status : {"open", "settled"}, alone : BOOLEAN]
       /\ job[s].op = "add" => job[s].entry \notin DOMAIN entries
       /\ job[s].op = "delete" => /\ job[s].entry \in DOMAIN entries
                                  /\ job[s].row = entries[job[s].entry]
       /\ \A r \in Changing : r # s => job[r].entry # job[s].entry

Finite == IsFiniteSet(DOMAIN debts) /\ IsFiniteSet(DOMAIN entries)

\* A session that no other one has overlapped knows the debt's mark, and what its
\* commit will leave repaid.
Informed ==
  \A s \in Changing : job[s].alone =>
    /\ job[s].status = debts[job[s].row.debt].status
    /\ pc[s] = "commit" => job[s].repaid = Repaid(Seen(s), job[s].row.debt)

\* The mark of a calm debt tells whether it is paid back; only a new debt made from a
\* row of no amount is still open with nothing owed.
Fits(d, repaid) ==
  \/ debts[d].status = RefreshStatus(d, repaid)
  \/ debts[d].status = "open" /\ debts[d].principal - repaid = 0

Marked == \A d \in DOMAIN debts \cap calm : Fits(d, Repaid(entries, d))

DebtInv == DebtsTypeOK /\ Jobs /\ Finite /\ Informed /\ Marked

\* A key that never had two budgets has none unless one was set, at most one then,
\* and the one last set if its request has seen it.
AsWished(k) ==
  /\ \A a, b \in BudgetsOf(k) : a = b
  /\ BudgetsOf(k) # {} => k \in DOMAIN wish
  /\ k \in DOMAIN wish =>
       \E b \in BudgetId : BudgetsOf(k) = {b} /\ budgets[b].amount = wish[k]

\* A session that is to update a budget knows its key.
Knows(s) ==
  pc[s] = "budget" /\ job[s].found \in DOMAIN budgets => job[s].found \in BudgetsOf(job[s].key)

Budgeted ==
  /\ \A s \in Session : Knows(s)
  /\ \A k \in Key \ twins : AsWished(k)

\* The tables here, and the columns of a row.
Tables ==
  /\ \A s \in Session : pc[s] = "budget" =>
       /\ job[s].key \in Key /\ job[s].found \in BudgetId \cup {None} /\ job[s].amount \in Amount
  /\ DOMAIN rows = Tx /\ \A t \in Tx : DOMAIN rows[t] = DOMAIN Imported(t)
  /\ \A t \in Tx : rows[t].amount = Worth[t] /\ rows[t].day = Day[t]
  /\ \A t \in Tx : rows[t].category \in Category \cup {None} /\ rows[t].contact \in Contact \cup {None}
  /\ DOMAIN budgets \subseteq BudgetId
  /\ \A b \in DOMAIN budgets : /\ <<budgets[b].category, budgets[b].period>> \in Key
                                /\ budgets[b].amount \in Amount /\ "amount" \in DOMAIN budgets[b]
  /\ DOMAIN wish \subseteq Key /\ (\A k \in DOMAIN wish : wish[k] \in Amount)
  /\ twins \subseteq Category \X {Default}

BudgetInv == Tables /\ Budgeted

MoneyInv == DebtInv /\ BudgetInv

------------------------------------------------------------------------------
(* What has been repaid of a debt depends on its own events only.           *)

Agree(es, fs, d) ==
  \A e : /\ e \in DOMAIN es /\ es[e].debt = d <=> e \in DOMAIN fs /\ fs[e].debt = d
         /\ e \in DOMAIN es /\ es[e].debt = d => es[e] = fs[e]

\* Tables with the same events of a debt have the same repaid.
LEMMA AgreeRepaid ==
  ASSUME NEW es, NEW fs, NEW d, Agree(es, fs, d)
  PROVE  Repaid(es, d) = Repaid(fs, d)
<1> DEFINE Repayments(t) == {e \in DOMAIN t : t[e].debt = d /\ t[e].kind = "repayment"}
<1>1. Repayments(es) = Repayments(fs) /\ \A e \in Repayments(es) : es[e].amount = fs[e].amount
  BY DEF Agree
<1>2. [e \in Repayments(es) |-> es[e].amount] = [e \in Repayments(fs) |-> fs[e].amount]
  BY <1>1
<1> QED
  BY <1>2 DEF Repaid

\* The same event inserted or deleted in both leaves them so.
LEMMA AgreeStays ==
  ASSUME NEW es, NEW fs, NEW d, Agree(es, fs, d), NEW e, NEW row
  PROVE  /\ Agree(With(es, e, row), With(fs, e, row), d)
         /\ Agree(Restrict(es, DOMAIN es \ {e}), Restrict(fs, DOMAIN fs \ {e}), d)
BY DEF Agree, With, Restrict

\* An event of another debt makes no difference.
LEMMA AgreeOther ==
  ASSUME NEW es, NEW e, NEW row, NEW d
  PROVE  /\ e \notin DOMAIN es /\ row.debt # d => Agree(es, With(es, e, row), d)
         /\ es[e].debt # d => Agree(es, Restrict(es, DOMAIN es \ {e}), d)
BY DEF Agree, With, Restrict

\* What is repaid is a number.
LEMMA RepaidType ==
  ASSUME NEW es, IsFiniteSet(DOMAIN es),
         \A e \in DOMAIN es : es[e] \in Entry, NEW d
  PROVE  /\ Repaid(es, d) \in Int
         /\ (\A e \in DOMAIN es : es[e].debt = d => es[e].kind # "repayment")
              => Repaid(es, d) = 0
<1> DEFINE S == {e \in DOMAIN es : es[e].debt = d /\ es[e].kind = "repayment"}
           f == [e \in S |-> es[e].amount]
<1>1. IsFiniteSet(S)
  BY FS_Subset
<1>2. \A x \in S : es[x].amount \in Int
  <2>1. (\A t \in Tx : Size(t) \in Int) /\ (\A v \in Sums : v \in Int)
    BY DebtsAssumption DEF Size
  <2>2. SUFFICES ASSUME NEW x \in S PROVE es[x].amount \in Int
    OBVIOUS
  <2>3. es[x].amount \in Sums \cup {Size(t) : t \in Tx}
    <3>1. es[x] \in Entry
      OBVIOUS
    <3> QED
      BY <3>1 DEF Entry
  <2>4. CASE es[x].amount \in Sums
    BY <2>1, <2>4
  <2>5. CASE es[x].amount \in {Size(t) : t \in Tx}
    BY <2>1, <2>5
  <2> QED
    BY <2>3, <2>4, <2>5
<1>3. DOMAIN f = S /\ \A x \in S : f[x] = es[x].amount
  OBVIOUS
<1>4. SumFunction(f) \in Int /\ (S = {} => SumFunction(f) = 0)
  <2> HIDE DEF f, S
  <2> QED
    BY <1>1, <1>2, <1>3, SumFunctionType
<1> QED
  BY <1>4 DEF Repaid

\* So what a session sees of a debt stays the same when other debts' events change.
LEMMA SeenSame ==
  ASSUME NEW s, NEW d, Agree(entries, entries', d),
         job'[s].op = job[s].op, job'[s].entry = job[s].entry, job'[s].row = job[s].row
  PROVE  Repaid(Seen(s)', d) = Repaid(Seen(s), d)
<1>1. Agree(Seen(s), Seen(s)', d)
  BY AgreeStays DEF Seen
<1> QED
  BY <1>1, AgreeRepaid

\* A table has no more than one row more, or fewer.
LEMMA FiniteStays ==
  ASSUME NEW f, IsFiniteSet(DOMAIN f), NEW k, NEW v, NEW S
  PROVE  IsFiniteSet(DOMAIN With(f, k, v)) /\ IsFiniteSet(DOMAIN Restrict(f, DOMAIN f \cap S))
<1>1. DOMAIN With(f, k, v) = DOMAIN f \cup {k} /\ DOMAIN Restrict(f, DOMAIN f \cap S) = DOMAIN f \cap S
  BY DEF With, Restrict
<1>2. IsFiniteSet(DOMAIN f \cup {k}) /\ IsFiniteSet(DOMAIN f \cap S)
  BY FS_AddElement, FS_Subset
<1> QED
  BY <1>1, <1>2

------------------------------------------------------------------------------
(* Each step of the debt book keeps its invariant.                           *)

\* A new debt has no events: it is open.
LEMMA CreateDebtInv ==
  ASSUME DebtInv, NEW s \in Session, CreateDebt(s)
  PROVE  DebtInv'
<1>1. PICK d \in DebtId \ DOMAIN debts, way \in Way, principal \in Sums :
        debts' = With(debts, d, [way |-> way, principal |-> principal, status |-> "open"])
  BY DEF CreateDebt
<1>2. UNCHANGED <<entries, pc, job, calm>>
  BY DEF CreateDebt
<1>3. /\ DOMAIN debts' = DOMAIN debts \cup {d}
      /\ \A x \in DOMAIN debts : debts'[x] = debts[x]
      /\ debts'[d] = [way |-> way, principal |-> principal, status |-> "open"]
  BY <1>1 DEF With
<1>4. DebtsTypeOK'
  <2>1. debts'[d] \in Debt
    BY <1>3 DEF Debt
  <2>2. debts' \in [DOMAIN debts' -> Debt]
    BY <1>1, <1>3, <2>1 DEF DebtInv, DebtsTypeOK, With
  <2> QED
    BY <1>2, <1>3, <2>2 DEF DebtInv, DebtsTypeOK, Changing
<1>5. Jobs'
  BY <1>2 DEF DebtInv, Jobs, Changing
<1>6. Finite'
  BY <1>1, <1>2, FiniteStays DEF DebtInv, Finite
<1>7. Informed'
  BY <1>2, <1>3 DEF DebtInv, Informed, DebtsTypeOK, Changing, Seen
<1>8. Marked'
  <2>1. Repaid(entries, d) = 0
    BY RepaidType DEF DebtInv, DebtsTypeOK, Finite
  <2>2. ~ (principal - 0 <= 0)
    BY DebtsAssumption
  <2>3. SUFFICES ASSUME NEW x \in DOMAIN debts' \cap calm'
                 PROVE  Fits(x, Repaid(entries, x))'
    BY DEF Marked
  <2>4. CASE x = d
    BY <1>2, <1>3, <2>1, <2>2, <2>4 DEF Fits, RefreshStatus
  <2>5. CASE x # d
    BY <1>2, <1>3, <2>5 DEF DebtInv, Marked, Fits, RefreshStatus
  <2> QED
    BY <2>4, <2>5
<1> QED
  BY <1>4, <1>5, <1>6, <1>7, <1>8 DEF DebtInv

\* Nor is anything repaid of one entered from a bank row: that row is its principal.
LEMMA DebtFromTransactionInv ==
  ASSUME DebtInv, NEW s \in Session, DebtFromTransaction(s)
  PROVE  DebtInv'
<1> USE DEF DebtInv
<1>1. PICK d \in DebtId \ DOMAIN debts, e \in FreeEntries, way \in Way, t \in Lent :
        /\ debts' = With(debts, d, [way |-> way, principal |-> Size(t), status |-> "open"])
        /\ entries' = With(entries, e,
             [debt |-> d, kind |-> "principal", amount |-> Size(t), tx |-> t])
  BY DEF DebtFromTransaction
<1>2. UNCHANGED <<pc, job, calm>>
  BY DEF DebtFromTransaction
<1>3. /\ DOMAIN debts' = DOMAIN debts \cup {d}
      /\ \A x \in DOMAIN debts : debts'[x] = debts[x]
      /\ debts'[d] = [way |-> way, principal |-> Size(t), status |-> "open"]
  BY <1>1 DEF With
<1>4. /\ DOMAIN entries' = DOMAIN entries \cup {e}
      /\ \A x \in DOMAIN entries : entries'[x] = entries[x]
      /\ entries'[e] = [debt |-> d, kind |-> "principal", amount |-> Size(t), tx |-> t]
      /\ e \notin DOMAIN entries /\ e \in EntryId
      /\ \A r \in Changing : job[r].entry # e
  <2>1. e \in EntryId /\ e \notin DOMAIN entries /\ \A r \in Changing : job[r].entry # e
    BY DEF FreeEntries
  <2> QED
    BY <1>1, <2>1 DEF With
<1>5. t \in Tx /\ Size(t) \in Int /\ Size(t) >= 0
  BY DebtsAssumption DEF Size
<1>6. DebtsTypeOK'
  <2>1. debts'[d] \in Debt
    BY <1>3, <1>5 DEF Debt
  <2>2. debts' \in [DOMAIN debts' -> Debt]
    BY <1>1, <1>3, <2>1 DEF DebtsTypeOK, With
  <2>3. entries'[e] \in Entry
    BY <1>4, <1>5 DEF Entry
  <2>4. entries' \in [DOMAIN entries' -> Entry]
    BY <1>1, <1>4, <2>3 DEF DebtsTypeOK, With
  <2>5. DOMAIN debts' \subseteq DebtId /\ DOMAIN entries' \subseteq EntryId
    BY <1>3, <1>4 DEF DebtsTypeOK
  <2>6. \A x \in DOMAIN entries' : entries'[x].debt \in DOMAIN debts'
    BY <1>3, <1>4 DEF DebtsTypeOK
  <2> QED
    BY <1>2, <1>3, <2>2, <2>4, <2>5, <2>6 DEF DebtsTypeOK, Changing
<1>7. Jobs'
  <2>1. Changing' = Changing
    BY <1>2 DEF Changing
  <2> QED
    BY <1>2, <1>4, <2>1 DEF Jobs
<1>8. Finite'
  BY <1>1, FiniteStays DEF Finite
<1>9. \A x \in DOMAIN debts : /\ Repaid(entries', x) = Repaid(entries, x)
                             /\ \A r \in Session : Repaid(Seen(r)', x) = Repaid(Seen(r), x)
  <2>1. SUFFICES ASSUME NEW x \in DOMAIN debts
                 PROVE  /\ Repaid(entries', x) = Repaid(entries, x)
                        /\ \A r \in Session : Repaid(Seen(r)', x) = Repaid(Seen(r), x)
    OBVIOUS
  <2>2. Agree(entries, entries', x)
    BY <1>4 DEF Agree
  <2>3. Repaid(entries', x) = Repaid(entries, x)
    BY <2>2, AgreeRepaid
  <2>4. ASSUME NEW r \in Session PROVE Repaid(Seen(r)', x) = Repaid(Seen(r), x)
    BY <1>2, <2>2, SeenSame
  <2> QED
    BY <2>3, <2>4
<1>10. Informed'
  <2>1. Changing' = Changing
    BY <1>2 DEF Changing
  <2> QED
    BY <1>2, <1>3, <1>9, <2>1 DEF Informed, DebtsTypeOK, Changing
<1>11. Marked'
  <2>1. Repaid(entries', d) = 0
    BY <1>4, <1>6, <1>8, RepaidType DEF DebtsTypeOK, Finite
  <2>2. SUFFICES ASSUME NEW x \in DOMAIN debts' \cap calm'
                 PROVE  Fits(x, Repaid(entries, x))'
    BY DEF Marked
  <2>3. CASE x = d
    BY <1>3, <1>5, <2>1, <2>3 DEF Fits, RefreshStatus
  <2>4. CASE x # d
    BY <1>2, <1>3, <1>9, <2>4 DEF Marked, Fits, RefreshStatus
  <2> QED
    BY <2>3, <2>4
<1> QED
  BY <1>6, <1>7, <1>8, <1>10, <1>11

\* Nobody is in the middle of changing a debt that is deleted.
LEMMA DeleteDebtInv ==
  ASSUME DebtInv, NEW s \in Session, DeleteDebt(s)
  PROVE  DebtInv'
<1> USE DEF DebtInv
<1>1. PICK d \in DOMAIN debts :
        /\ ~Busy(d)
        /\ debts' = Restrict(debts, DOMAIN debts \ {d})
        /\ entries' = Restrict(entries, {e \in DOMAIN entries : entries[e].debt # d})
        /\ calm' = calm \cup {d}
  BY DEF DeleteDebt
<1>2. UNCHANGED <<pc, job>> /\ Changing' = Changing
  BY DEF DeleteDebt, Changing
<1>3. /\ DOMAIN debts' = DOMAIN debts \ {d}
      /\ \A x \in DOMAIN debts' : debts'[x] = debts[x]
  BY <1>1 DEF Restrict
<1>4. /\ DOMAIN entries' = {e \in DOMAIN entries : entries[e].debt # d}
      /\ \A e \in DOMAIN entries' : entries'[e] = entries[e]
  BY <1>1 DEF Restrict
<1>5. \A r \in Changing : job[r].row.debt # d
  BY <1>1 DEF Busy
<1>6. DebtsTypeOK'
  <2>1. debts' \in [DOMAIN debts' -> Debt]
    BY <1>1, <1>3 DEF DebtsTypeOK, Restrict
  <2>2. entries' \in [DOMAIN entries' -> Entry]
    BY <1>1, <1>4 DEF DebtsTypeOK, Restrict
  <2>3. DOMAIN debts' \subseteq DebtId /\ DOMAIN entries' \subseteq EntryId
    BY <1>3, <1>4 DEF DebtsTypeOK
  <2>4. \A x \in DOMAIN entries' : entries'[x].debt \in DOMAIN debts'
    BY <1>3, <1>4 DEF DebtsTypeOK
  <2> QED
    BY <1>2, <1>3, <1>5, <2>1, <2>2, <2>3, <2>4 DEF DebtsTypeOK
<1>7. Jobs'
  BY <1>2, <1>4, <1>5 DEF Jobs
<1>8. Finite'
  BY <1>3, <1>4, FS_Subset DEF Finite
<1>9. \A x \in DOMAIN debts' : /\ Repaid(entries', x) = Repaid(entries, x)
                              /\ \A r \in Session : Repaid(Seen(r)', x) = Repaid(Seen(r), x)
  <2>1. SUFFICES ASSUME NEW x \in DOMAIN debts'
                 PROVE  /\ Repaid(entries', x) = Repaid(entries, x)
                        /\ \A r \in Session : Repaid(Seen(r)', x) = Repaid(Seen(r), x)
    OBVIOUS
  <2>2. Agree(entries, entries', x)
    BY <1>3, <1>4 DEF Agree
  <2>3. Repaid(entries', x) = Repaid(entries, x)
    BY <2>2, AgreeRepaid
  <2>4. ASSUME NEW r \in Session PROVE Repaid(Seen(r)', x) = Repaid(Seen(r), x)
    BY <1>2, <2>2, SeenSame
  <2> QED
    BY <2>3, <2>4
<1>10. Informed'
  BY <1>2, <1>3, <1>5, <1>9 DEF Informed, DebtsTypeOK, Changing
<1>11. Marked'
  BY <1>1, <1>3, <1>9 DEF Marked, Fits, RefreshStatus
<1> QED
  BY <1>6, <1>7, <1>8, <1>10, <1>11

\* A request that begins knows the mark it has just read.
LEMMA BeginInv ==
  ASSUME DebtInv, NEW s \in Session, pc[s] = "idle", NEW op \in {"add", "delete"},
         NEW e \in EntryId, NEW row \in Entry, row.debt \in DOMAIN debts,
         \A r \in Changing : job[r].entry # e,
         op = "add" => e \notin DOMAIN entries,
         op = "delete" => e \in DOMAIN entries /\ row = entries[e],
         Begin(s, op, e, row)
  PROVE  DebtInv'
<1> USE DEF DebtInv
<1>1. /\ UNCHANGED <<debts, entries, calm>>
      /\ pc' = [pc EXCEPT ![s] = "events"]
      /\ job' = [job EXCEPT ![s] = [op |-> op, entry |-> e, row |-> row, repaid |-> 0,
                                    status |-> debts[row.debt].status, alone |-> TRUE]]
  BY DEF Begin, Goto
<1>2. /\ pc'[s] = "events" /\ pc' \in [Session -> {"idle", "events", "commit", "budget"}]
      /\ DOMAIN job' = Session
      /\ Changing' = Changing \cup {s} /\ s \notin Changing
      /\ job'[s] = [op |-> op, entry |-> e, row |-> row, repaid |-> 0,
                    status |-> debts[row.debt].status, alone |-> TRUE]
      /\ \A r \in Session \ {s} : job'[r] = job[r] /\ pc'[r] = pc[r]
      /\ \A r \in Changing : r \in Session \ {s}
  BY <1>1 DEF Jobs, Changing
<1>3. DebtsTypeOK'
  BY <1>1, <1>2 DEF DebtsTypeOK
<1>4. Jobs'
  <2>1. debts[row.debt].status \in {"open", "settled"}
    BY DEF DebtsTypeOK, Debt
  <2>2. job'[s] \in [op : {"add", "delete"}, entry : EntryId, row : Entry, repaid : Int,
                     status : {"open", "settled"}, alone : BOOLEAN]
    BY <1>2, <2>1
  <2> QED
    BY <1>1, <1>2, <2>2 DEF Jobs
<1>5. Finite'
  BY <1>1 DEF Finite
<1>6. Informed'
  BY <1>1, <1>2 DEF Informed, Seen
<1>7. Marked'
  BY <1>1 DEF Marked, Fits, RefreshStatus
<1> QED
  BY <1>3, <1>4, <1>5, <1>6, <1>7

\* An event to be inserted has an id nobody else holds, and belongs to a debt.
LEMMA BeginAddInv ==
  ASSUME DebtInv, NEW s \in Session, BeginAdd(s)
  PROVE  DebtInv'
<1>1. pc[s] = "idle"
  BY DEF BeginAdd, Begins
<1>2. PICK d \in DOMAIN debts, e \in FreeEntries :
       \/ \E kind \in {"principal", "repayment"}, amount \in Sums, t \in Lent \cup {NoTx} :
            Begin(s, "add", e, [debt |-> d, kind |-> kind, amount |-> amount, tx |-> t])
       \/ \E t \in Lent :
            Begin(s, "add", e, [debt |-> d, kind |-> "repayment", amount |-> Size(t), tx |-> t])
  BY DEF BeginAdd
<1>3. d \in DebtId /\ e \in EntryId /\ e \notin DOMAIN entries /\ \A r \in Changing : job[r].entry # e
  BY DEF FreeEntries, DebtInv, DebtsTypeOK
<1>4. \A row \in Entry : row.debt = d /\ Begin(s, "add", e, row) => DebtInv'
  BY <1>1, <1>3, BeginInv
<1>5. ASSUME NEW kind \in {"principal", "repayment"}, NEW amount \in Sums, NEW t \in Lent \cup {NoTx}
      PROVE  [debt |-> d, kind |-> kind, amount |-> amount, tx |-> t] \in Entry
  BY <1>3, DebtsAssumption DEF Entry
<1>6. ASSUME NEW t \in Lent
      PROVE  [debt |-> d, kind |-> "repayment", amount |-> Size(t), tx |-> t] \in Entry
  BY <1>3, DebtsAssumption DEF Entry
<1> QED
  BY <1>2, <1>4, <1>5, <1>6

\* One to be deleted is deleted by nobody else.
LEMMA BeginDeleteInv ==
  ASSUME DebtInv, NEW s \in Session, BeginDelete(s)
  PROVE  DebtInv'
<1>1. pc[s] = "idle"
  BY DEF BeginDelete, Begins
<1>2. PICK e \in DOMAIN entries :
        (\A r \in Changing : job[r].entry # e) /\ Begin(s, "delete", e, entries[e])
  BY DEF BeginDelete
<1>3. e \in EntryId /\ entries[e] \in Entry /\ entries[e].debt \in DOMAIN debts
  BY DEF DebtInv, DebtsTypeOK
<1> QED
  BY <1>1, <1>2, <1>3, BeginInv

\* Reading the events tells a session what its commit will leave repaid.
LEMMA ReadEventsInv ==
  ASSUME DebtInv, NEW s \in Session, ReadEvents(s)
  PROVE  DebtInv'
<1> USE DEF DebtInv
<1>1. /\ UNCHANGED <<debts, entries, calm>>
      /\ pc[s] = "events" /\ pc' = [pc EXCEPT ![s] = "commit"]
      /\ job' = [job EXCEPT ![s].repaid = Repaid(Seen(s), job[s].row.debt)]
  BY DEF ReadEvents, Goto
<1>2. s \in Changing /\ DOMAIN job = Session
  BY <1>1 DEF Changing, Jobs
<1>3. /\ pc' \in [Session -> {"idle", "events", "commit", "budget"}] /\ DOMAIN job' = Session
      /\ Changing' = Changing
      /\ \A r \in Session \ {s} : job'[r] = job[r] /\ pc'[r] = pc[r]
  BY <1>1 DEF Jobs, Changing
<1>4. /\ job'[s].op = job[s].op /\ job'[s].entry = job[s].entry /\ job'[s].row = job[s].row
      /\ job'[s].status = job[s].status /\ job'[s].alone = job[s].alone
      /\ job'[s].repaid = Repaid(Seen(s), job[s].row.debt)
  BY <1>1, <1>2 DEF Jobs
<1>5. Repaid(Seen(s), job[s].row.debt) \in Int
  <2>1. IsFiniteSet(DOMAIN Seen(s))
    <3>1. DOMAIN entries \ {job[s].entry} = DOMAIN entries \cap (EntryId \ {job[s].entry})
      BY DEF DebtsTypeOK
    <3> QED
      BY <3>1, FiniteStays DEF Seen, Finite
  <2>2. \A e \in DOMAIN Seen(s) : Seen(s)[e] \in Entry
    BY <1>2 DEF Seen, With, Restrict, DebtsTypeOK
  <2> QED
    BY <2>1, <2>2, RepaidType
<1>6. job'[s] \in [op : {"add", "delete"}, entry : EntryId, row : Entry, repaid : Int,
                   status : {"open", "settled"}, alone : BOOLEAN]
  BY <1>1, <1>2, <1>5 DEF Jobs
<1>7. DebtsTypeOK'
  BY <1>1, <1>3, <1>4 DEF DebtsTypeOK
<1>8. Jobs'
  BY <1>1, <1>3, <1>4, <1>6 DEF Jobs
<1>9. Finite'
  BY <1>1 DEF Finite
<1>10. Informed'
  <2>1. \A r \in Changing : Seen(r)' = Seen(r)
    BY <1>1, <1>2, <1>3, <1>4 DEF Seen
  <2>2. \A r \in Changing : r # s => r \in Session \ {s}
    BY DEF Changing
  <2> QED
    BY <1>1, <1>2, <1>3, <1>4, <2>1, <2>2 DEF Informed
<1>11. Marked'
  BY <1>1 DEF Marked, Fits, RefreshStatus
<1> QED
  BY <1>7, <1>8, <1>9, <1>10, <1>11

\* At its commit a session marks the debt by its events, unless another one has
\* committed a change of that debt since it began; whoever is still changing the
\* debt then is no longer alone.
LEMMA CommitEntryInv ==
  ASSUME DebtInv, NEW s \in Session, CommitEntry(s)
  PROVE  DebtInv'
<1> USE DEF DebtInv
<1> DEFINE d == job[s].row.debt
           mark == RefreshStatus(d, job[s].repaid)
<1>1. /\ pc[s] = "commit" /\ pc' = [pc EXCEPT ![s] = "idle"]
      /\ entries' = Seen(s)
      /\ debts' = IF mark # job[s].status THEN [debts EXCEPT ![d].status = mark] ELSE debts
      /\ calm' = IF job[s].alone THEN calm \cup {d} ELSE calm \ {d}
      /\ job' = [r \in Session |->
           IF r = s THEN NoJob
           ELSE IF r \in Changing /\ job[r].row.debt = d
                THEN [job[r] EXCEPT !.alone = FALSE] ELSE job[r]]
  BY DEF CommitEntry, Goto
<1>2. s \in Changing /\ DOMAIN job = Session /\ d \in DOMAIN debts /\ job[s].row \in Entry
      /\ job[s].entry \in EntryId
  BY <1>1 DEF Changing, Jobs, DebtsTypeOK
<1>3. /\ pc' \in [Session -> {"idle", "events", "commit", "budget"}] /\ DOMAIN job' = Session
      /\ Changing' = Changing \ {s}
  BY <1>1 DEF Jobs, Changing
<1>4. ASSUME NEW r \in Changing'
      PROVE  /\ r \in Changing /\ r \in Session /\ r # s
             /\ job'[r].op = job[r].op /\ job'[r].entry = job[r].entry
             /\ job'[r].row = job[r].row
             /\ job[r].row.debt # d => job'[r] = job[r] /\ pc'[r] = pc[r]
             /\ job[r].row.debt = d => job'[r].alone = FALSE
             /\ job'[r] \in [op : {"add", "delete"}, entry : EntryId, row : Entry, repaid : Int,
                             status : {"open", "settled"}, alone : BOOLEAN]
  <2>1. r \in Changing /\ r \in Session /\ r # s
    BY <1>3 DEF Changing
  <2>2. job'[r] = IF job[r].row.debt = d THEN [job[r] EXCEPT !.alone = FALSE] ELSE job[r]
    BY <1>1, <2>1
  <2>3. job[r] \in [op : {"add", "delete"}, entry : EntryId, row : Entry, repaid : Int,
                    status : {"open", "settled"}, alone : BOOLEAN]
    BY <2>1 DEF Jobs
  <2>4. pc'[r] = pc[r]
    BY <1>1, <2>1 DEF Jobs
  <2> QED
    BY <2>1, <2>2, <2>3, <2>4
<1>5. /\ DOMAIN debts' = DOMAIN debts
      /\ \A x \in DOMAIN debts : x # d => debts'[x] = debts[x]
      /\ debts'[d].principal = debts[d].principal
      /\ job[s].alone => debts'[d].status = mark
      /\ debts' \in [DOMAIN debts' -> Debt]
  <2>1. debts \in [DOMAIN debts -> Debt] /\ debts[d] \in Debt
    BY <1>2 DEF DebtsTypeOK
  <2>2. mark \in {"open", "settled"}
    BY DEF RefreshStatus
  <2>3. CASE mark # job[s].status
    <3> HIDE DEF mark, d
    <3>1. debts' = [debts EXCEPT ![d].status = mark]
      BY <1>1, <2>3
    <3>2. [debts[d] EXCEPT !.status = mark] \in Debt
      BY <2>1, <2>2 DEF Debt
    <3> QED
      BY <1>2, <2>1, <3>1, <3>2 DEF Debt
  <2>4. CASE mark = job[s].status
    <3>1. job[s].alone => debts[d].status = job[s].status
      BY <1>2 DEF Informed
    <3> QED
      BY <1>1, <2>1, <2>4, <3>1
  <2> QED
    BY <2>3, <2>4
<1>6. DebtsTypeOK' /\ Finite'
  <2>1. DOMAIN entries' \subseteq EntryId /\ entries' \in [DOMAIN entries' -> Entry]
    BY <1>1, <1>2 DEF DebtsTypeOK, Seen, With, Restrict
  <2>2. \A e \in DOMAIN entries' : entries'[e].debt \in DOMAIN debts'
    BY <1>1, <1>2, <1>5 DEF DebtsTypeOK, Seen, With, Restrict
  <2>3. \A r \in Changing' : job'[r].row \in Entry /\ job'[r].row.debt \in DOMAIN debts'
    <3> HIDE DEF d
    <3> QED
      BY <1>4, <1>5 DEF DebtsTypeOK
  <2>4. DOMAIN entries \ {job[s].entry} = DOMAIN entries \cap (EntryId \ {job[s].entry})
    BY DEF DebtsTypeOK
  <2>5. IsFiniteSet(DOMAIN entries')
    BY <1>1, <2>4, FiniteStays DEF Seen, Finite
  <2> QED
    BY <1>5, <2>1, <2>2, <2>3, <2>5 DEF DebtsTypeOK, Finite
<1>7. Jobs'
  <2>1. /\ \A e \in DOMAIN entries : e # job[s].entry => e \in DOMAIN entries' /\ entries'[e] = entries[e]
        /\ \A e \in DOMAIN entries' : e # job[s].entry => e \in DOMAIN entries
    BY <1>1 DEF Seen, With, Restrict
  <2>2. \A r \in Changing' :
          /\ job'[r].op = "add" => job'[r].entry \notin DOMAIN entries'
          /\ job'[r].op = "delete" => /\ job'[r].entry \in DOMAIN entries'
                                      /\ job'[r].row = entries'[job'[r].entry]
          /\ \A q \in Changing' : q # r => job'[q].entry # job'[r].entry
    <3>1. SUFFICES ASSUME NEW r \in Changing'
          PROVE /\ job'[r].op = "add" => job'[r].entry \notin DOMAIN entries'
                /\ job'[r].op = "delete" => /\ job'[r].entry \in DOMAIN entries'
                                            /\ job'[r].row = entries'[job'[r].entry]
                /\ \A q \in Changing' : q # r => job'[q].entry # job'[r].entry
      OBVIOUS
    <3>2. job[r].entry # job[s].entry
      BY <1>2, <1>4 DEF Jobs
    <3>3. \A q \in Changing' : q \in Changing /\ job'[q].entry = job[q].entry
      BY <1>4
    <3>4. job'[r].op = job[r].op /\ job'[r].entry = job[r].entry /\ job'[r].row = job[r].row
      BY <1>4
    <3> QED
      BY <2>1, <3>2, <3>3, <3>4 DEF Jobs
  <2> QED
    BY <1>3, <1>4, <2>2 DEF Jobs
<1>8. \A x \in DOMAIN debts : x # d =>
        /\ Repaid(entries', x) = Repaid(entries, x)
        /\ \A r \in Changing' : Repaid(Seen(r)', x) = Repaid(Seen(r), x)
  <2>1. SUFFICES ASSUME NEW x \in DOMAIN debts, x # d
                 PROVE  /\ Repaid(entries', x) = Repaid(entries, x)
                        /\ \A r \in Changing' : Repaid(Seen(r)', x) = Repaid(Seen(r), x)
    OBVIOUS
  <2>2. Agree(entries, entries', x)
    BY <1>1, <1>2, <2>1, AgreeOther DEF Seen, Jobs
  <2>3. Repaid(entries', x) = Repaid(entries, x)
    BY <2>2, AgreeRepaid
  <2>4. ASSUME NEW r \in Changing' PROVE Repaid(Seen(r)', x) = Repaid(Seen(r), x)
    <3>1. job'[r].op = job[r].op /\ job'[r].entry = job[r].entry /\ job'[r].row = job[r].row
      BY <1>4
    <3> QED
      BY <2>2, <3>1, SeenSame
  <2> QED
    BY <2>3, <2>4
<1>9. Informed'
  <2>1. SUFFICES ASSUME NEW r \in Changing', job'[r].alone
                 PROVE  /\ job'[r].status = debts'[job'[r].row.debt].status
                        /\ pc'[r] = "commit" =>
                             job'[r].repaid = Repaid(Seen(r)', job'[r].row.debt)
    BY DEF Informed
  <2>2. /\ job[r].row.debt # d /\ job'[r] = job[r] /\ pc'[r] = pc[r]
        /\ r \in Changing /\ job[r].row.debt \in DOMAIN debts
    BY <1>4, <2>1 DEF DebtsTypeOK
  <2> HIDE DEF d, mark
  <2> QED
    BY <1>5, <1>8, <2>1, <2>2 DEF Informed
<1>10. Marked'
  <2>1. SUFFICES ASSUME NEW x \in DOMAIN debts' \cap calm'
                 PROVE  Fits(x, Repaid(entries, x))'
    BY DEF Marked
  <2>2. CASE x = d
    <3>1. job[s].alone
      BY <1>1, <2>1, <2>2
    <3>2. job[s].repaid = Repaid(entries', d)
      BY <1>1, <1>2, <3>1 DEF Informed
    <3> QED
      BY <1>5, <2>2, <3>1, <3>2 DEF Fits, RefreshStatus
  <2>3. CASE x # d
    <3>1. x \in calm /\ x \in DOMAIN debts
      BY <1>1, <1>5, <2>3
    <3> HIDE DEF d, mark
    <3> QED
      BY <1>5, <1>8, <2>3, <3>1 DEF Marked, Fits, RefreshStatus
  <2> QED
    BY <2>2, <2>3
<1> QED
  BY <1>6, <1>7, <1>9, <1>10

\* What is done elsewhere leaves the debt book alone.
LEMMA DebtsStay ==
  ASSUME DebtInv, UNCHANGED <<debts, entries, calm>>,
         pc' \in [Session -> {"idle", "events", "commit", "budget"}], DOMAIN job' = Session,
         \A s \in Session :
           \/ pc'[s] = pc[s] /\ job'[s] = job[s]
           \/ pc[s] \in {"idle", "budget"} /\ pc'[s] \in {"idle", "budget"}
  PROVE  DebtInv'
<1> USE DEF DebtInv
<1>1. Changing' = Changing /\ \A s \in Changing : s \in Session /\ pc'[s] = pc[s] /\ job'[s] = job[s]
  BY DEF Changing
<1>2. DebtsTypeOK' /\ Finite'
  BY <1>1 DEF DebtsTypeOK, Finite
<1>3. Jobs'
  BY <1>1 DEF Jobs
<1>4. Informed'
  BY <1>1 DEF Informed, Seen
<1>5. Marked'
  BY DEF Marked, Fits, RefreshStatus
<1> QED
  BY <1>2, <1>3, <1>4, <1>5

\* And the budgets are left alone by whatever is not one's own request for one.
LEMMA BudgetsStay ==
  ASSUME BudgetInv, UNCHANGED <<rows, budgetVars>>,
         \A s \in Session : pc'[s] = "budget" => pc[s] = "budget" /\ job'[s] = job[s]
  PROVE  BudgetInv'
<1> USE DEF budgetVars
<1>1. Tables'
  BY DEF BudgetInv, Tables
<1>2. Budgeted'
  BY DEF BudgetInv, Budgeted, Knows, AsWished, BudgetsOf
<1> QED
  BY <1>1, <1>2 DEF BudgetInv

\* A request for a debt is none for a budget.
LEMMA DebtsNextInv ==
  ASSUME MoneyInv, NEW s \in Session, DebtsNext(s), UNCHANGED <<rows, budgetVars>>
  PROVE  MoneyInv'
<1>1. DebtInv'
  BY CreateDebtInv, DebtFromTransactionInv, DeleteDebtInv, BeginAddInv, BeginDeleteInv,
     ReadEventsInv, CommitEntryInv DEF DebtsNext, MoneyInv
<1>2. \A r \in Session : pc'[r] = "budget" => pc[r] = "budget" /\ job'[r] = job[r]
  <2>1. pc \in [Session -> {"idle", "events", "commit", "budget"}] /\ DOMAIN job = Session
    BY DEF MoneyInv, DebtInv, Jobs
  <2>2. CASE UNCHANGED <<pc, job>>
    BY <2>2
  <2>3. CASE BeginAdd(s) \/ BeginDelete(s)
    <3>1. PICK where : pc' = [pc EXCEPT ![s] = "events"] /\ job' = [job EXCEPT ![s] = where]
      BY <2>3 DEF BeginAdd, BeginDelete, Begin, Goto
    <3> QED
      BY <2>1, <3>1
  <2>4. CASE ReadEvents(s)
    <3>1. PICK read : pc' = [pc EXCEPT ![s] = "commit"] /\ job' = [job EXCEPT ![s] = read]
      BY <2>4 DEF ReadEvents, Goto
    <3> QED
      BY <2>1, <3>1
  <2>5. CASE CommitEntry(s)
    <3>1. pc' = [pc EXCEPT ![s] = "idle"]
      BY <2>5 DEF CommitEntry, Goto
    <3>2. \A r \in Session \ {s} : r \notin Changing => job'[r] = job[r]
      BY <2>5 DEF CommitEntry
    <3>3. \A r \in Session : pc[r] = "budget" => r \notin Changing
      BY DEF Changing
    <3> QED
      BY <2>1, <3>1, <3>2, <3>3
  <2> QED
    BY <2>2, <2>3, <2>4, <2>5 DEF DebtsNext, CreateDebt, DebtFromTransaction, DeleteDebt
<1> QED
  BY <1>1, <1>2, BudgetsStay DEF MoneyInv

------------------------------------------------------------------------------
(* Each step of the budgets keeps the invariant.                             *)

\* Changing a row changes none of the sums the user typed.
LEMMA ChangeRowInv ==
  ASSUME MoneyInv, NEW s \in Session, ChangeRow(s)
  PROVE  MoneyInv'
<1>1. UNCHANGED <<debts, entries, job, calm, pc, budgets, wish, twins>>
  BY DEF ChangeRow, debtVars, budgetVars
<1>2. DebtInv'
  BY <1>1, DebtsStay DEF MoneyInv, DebtInv, Jobs
<1>3. /\ DOMAIN rows' = Tx /\ \A t \in Tx : DOMAIN rows'[t] = DOMAIN Imported(t)
      /\ \A t \in Tx : rows'[t].amount = Worth[t] /\ rows'[t].day = Day[t]
      /\ \A t \in Tx : rows'[t].category \in Category \cup {None}
                       /\ rows'[t].contact \in Contact \cup {None}
  <2>1. /\ DOMAIN rows = Tx /\ \A t \in Tx : DOMAIN rows[t] = DOMAIN Imported(t)
        /\ \A t \in Tx : rows[t].amount = Worth[t] /\ rows[t].day = Day[t]
        /\ \A t \in Tx : rows[t].category \in Category \cup {None}
                         /\ rows[t].contact \in Contact \cup {None}
    BY DEF MoneyInv, BudgetInv, Tables
  <2>2. \A t \in Tx : DOMAIN rows[t] = {"amount", "day", "payee", "category", "contact", "own",
                                        "reversed", "income", "review"}
    BY <2>1 DEF Imported
  <2>3. PICK t \in Tx :
       \/ \E c \in Category : rows' = [rows EXCEPT ![t].category = c, ![t].review = FALSE]
       \/ \E c \in Contact \cup {None} : rows' = [rows EXCEPT ![t].contact = c]
       \/ \E b \in BOOLEAN : rows' = [rows EXCEPT ![t].own = b]
       \/ \E b \in BOOLEAN : rows' = [rows EXCEPT ![t].reversed = b]
       \/ \E answer \in {"yes", "no"} : rows' = [rows EXCEPT ![t].income = answer]
    BY MoneyAssumption DEF ChangeRow
  <2>4. DOMAIN rows' = Tx /\ \A u \in Tx \ {t} : rows'[u] = rows[u]
    BY <2>1, <2>3
  <2>5. /\ DOMAIN rows'[t] = DOMAIN rows[t]
        /\ rows'[t].amount = rows[t].amount /\ rows'[t].day = rows[t].day
    BY <2>1, <2>2, <2>3
  <2>6. rows'[t].category \in Category \cup {None} /\ rows'[t].contact \in Contact \cup {None}
    BY <2>1, <2>2, <2>3
  <2> QED
    BY <2>1, <2>4, <2>5, <2>6 DEF Imported
<1>4. BudgetInv'
  <2>1. Tables'
    BY <1>1, <1>3 DEF MoneyInv, BudgetInv, Tables, Imported
  <2>2. Budgeted'
    BY <1>1 DEF MoneyInv, BudgetInv, Budgeted, Knows, AsWished, BudgetsOf
  <2> QED
    BY <2>1, <2>2 DEF BudgetInv
<1> QED
  BY <1>2, <1>4 DEF MoneyInv

\* A request for a budget remembers a row of its own key, or none.
LEMMA BeginBudgetInv ==
  ASSUME MoneyInv, NEW s \in Session, BeginBudget(s)
  PROVE  MoneyInv'
<1>1. /\ UNCHANGED <<debts, entries, calm, rows, budgets, wish, twins>>
      /\ pc[s] = "idle" /\ pc' = [pc EXCEPT ![s] = "budget"]
      /\ pc \in [Session -> {"idle", "events", "commit", "budget"}] /\ DOMAIN job = Session
  BY DEF BeginBudget, Begins, Goto, MoneyInv, DebtInv, Jobs, budgetVars
<1>2. PICK k \in Key, amount \in Amount :
        \E found \in IF Found(k) = {} THEN {None} ELSE Found(k), writes \in BOOLEAN :
          job' = [job EXCEPT ![s] = [key |-> k, amount |-> amount, found |-> found, writes |-> writes]]
  BY DEF BeginBudget
<1>3. PICK found \in IF Found(k) = {} THEN {None} ELSE Found(k), writes \in BOOLEAN :
        job' = [job EXCEPT ![s] = [key |-> k, amount |-> amount, found |-> found, writes |-> writes]]
  BY <1>2
<1>4. /\ \A r \in Session \ {s} : pc'[r] = pc[r] /\ job'[r] = job[r]
      /\ job'[s].key = k /\ job'[s].amount = amount /\ job'[s].found = found
      /\ pc'[s] = "budget" /\ DOMAIN job' = Session
      /\ pc' \in [Session -> {"idle", "events", "commit", "budget"}]
  BY <1>1, <1>3
<1>5. DebtInv'
  BY <1>1, <1>4, DebtsStay DEF MoneyInv
<1>6. /\ found \in BudgetId \cup {None}
      /\ found \in DOMAIN budgets => found \in BudgetsOf(k)
  BY <1>3, MoneyAssumption DEF Found, BudgetsOf, MoneyInv, BudgetInv, Tables
<1>7. BudgetInv'
  <2>1. Tables'
    BY <1>1, <1>4, <1>6 DEF MoneyInv, BudgetInv, Tables
  <2>2. Budgeted'
    BY <1>1, <1>4, <1>6 DEF MoneyInv, BudgetInv, Budgeted, Knows, AsWished, BudgetsOf
  <2> QED
    BY <2>1, <2>2 DEF BudgetInv
<1> QED
  BY <1>5, <1>7 DEF MoneyInv

\* A request that has nothing to write, or was refused, leaves the budgets as they are.
LEMMA RefuseBudgetInv ==
  ASSUME BudgetInv, NEW s \in Session, pc[s] = "budget", rows' = rows,
         KeepBudget(job[s]) \/ RefuseBudget(job[s]),
         \A r \in Session : pc'[r] = "budget" => pc[r] = "budget" /\ job'[r] = job[r]
  PROVE  BudgetInv'
BY BudgetsStay DEF KeepBudget, RefuseBudget

\* What else the others hold stays true if ids and keys of budgets stay, but for a
\* new id.
LEMMA HeldBudgets ==
  ASSUME BudgetInv, NEW b,
         \A r \in Session : pc'[r] = "budget" => pc[r] = "budget" /\ job'[r] = job[r],
         DOMAIN budgets' \subseteq DOMAIN budgets \cup {b},
         b \in DOMAIN budgets \/ \A r \in Session : pc[r] = "budget" => job[r].found # b,
         \A x \in DOMAIN budgets \cap DOMAIN budgets' :
           budgets'[x].category = budgets[x].category /\ budgets'[x].period = budgets[x].period
  PROVE  \A r \in Session : Knows(r)'
<1> SUFFICES ASSUME NEW r \in Session, pc'[r] = "budget", job'[r].found \in DOMAIN budgets'
             PROVE  (job[r].found \in BudgetsOf(job[r].key))'
  BY DEF Knows
<1>1. pc[r] = "budget" /\ job'[r] = job[r]
  OBVIOUS
<1>2. job[r].found \in DOMAIN budgets
  BY <1>1
<1>3. job[r].found \in BudgetsOf(job[r].key)
  BY <1>1, <1>2 DEF BudgetInv, Budgeted, Knows
<1> QED
  BY <1>1, <1>2, <1>3 DEF BudgetsOf

\* A budget that is inserted is the only one of its key, or leaves twins; nobody
\* else has found it.
LEMMA InsertBudgetInv ==
  ASSUME BudgetInv, NEW s \in Session, pc[s] = "budget", InsertBudget(job[s]), rows' = rows,
         \A r \in Session : pc'[r] = "budget" => pc[r] = "budget" /\ job'[r] = job[r]
  PROVE  BudgetInv'
<1> USE DEF BudgetInv
<1> DEFINE k == job[s].key
<1>1. /\ k \in Key /\ job[s].amount \in Amount /\ k = <<k[1], k[2]>>
  BY DEF Tables, Key
<1>2. PICK b \in FreeBudgets :
        budgets' = With(budgets, b, [category |-> k[1], period |-> k[2], amount |-> job[s].amount])
  BY DEF InsertBudget
<1>3. /\ twins' = IF BudgetsOf(k) = {} THEN twins ELSE twins \cup {k}
      /\ wish' = With(wish, k, job[s].amount)
      /\ k[2] # Default => BudgetsOf(k) = {}
  BY DEF InsertBudget
<1> HIDE DEF k
<1>4. /\ b \in BudgetId \ DOMAIN budgets
      /\ \A r \in Session : pc[r] = "budget" => job[r].found # b
  BY <1>2 DEF FreeBudgets
<1>5. /\ DOMAIN budgets' = DOMAIN budgets \cup {b} /\ \A x \in DOMAIN budgets : budgets'[x] = budgets[x]
      /\ budgets'[b].category = k[1] /\ budgets'[b].period = k[2] /\ budgets'[b].amount = job[s].amount
      /\ "amount" \in DOMAIN budgets'[b]
  BY <1>2, <1>4 DEF With
<1>6. /\ DOMAIN wish' = DOMAIN wish \cup {k} /\ wish'[k] = job[s].amount
      /\ \A x \in DOMAIN wish \ {k} : wish'[x] = wish[x]
  BY <1>3 DEF With
<1>7. \A x \in Key : BudgetsOf(x)' = IF x = k THEN BudgetsOf(x) \cup {b} ELSE BudgetsOf(x)
  <2> SUFFICES ASSUME NEW x \in Key
               PROVE  BudgetsOf(x)' = IF x = k THEN BudgetsOf(x) \cup {b} ELSE BudgetsOf(x)
    OBVIOUS
  <2> QED
    BY <1>1, <1>4, <1>5 DEF BudgetsOf
<1>8. Tables'
  <2>1. \A x \in DOMAIN budgets' : /\ x \in BudgetId
                                   /\ <<budgets'[x].category, budgets'[x].period>> \in Key
                                   /\ budgets'[x].amount \in Amount /\ "amount" \in DOMAIN budgets'[x]
    BY <1>1, <1>4, <1>5 DEF Tables
  <2>2. DOMAIN wish' \subseteq Key /\ (\A x \in DOMAIN wish' : wish'[x] \in Amount)
    BY <1>1, <1>6 DEF Tables
  <2>3. twins' \subseteq Category \X {Default}
    BY <1>1, <1>3 DEF Tables, Key
  <2> QED
    BY <2>1, <2>2, <2>3 DEF Tables
<1>9. ASSUME NEW x \in Key \ twins' PROVE AsWished(x)'
  <2>1. AsWished(x)
    BY <1>3 DEF Budgeted
  <2>2. CASE x = k
    <3>1. BudgetsOf(x)' = {b}
      BY <1>3, <1>7, <2>2
    <3> QED
      BY <1>4, <1>5, <1>6, <2>2, <3>1 DEF AsWished
  <2>3. CASE x # k
    <3>1. BudgetsOf(x)' = BudgetsOf(x) /\ BudgetsOf(x) \subseteq DOMAIN budgets
      BY <1>7, <2>3 DEF BudgetsOf
    <3> QED
      BY <1>3, <1>5, <1>6, <2>1, <2>3, <3>1 DEF AsWished
  <2> QED
    BY <2>2, <2>3
<1>10. Budgeted'
  BY <1>4, <1>5, <1>9, HeldBudgets DEF Budgeted
<1> QED
  BY <1>8, <1>10

\* A budget that is set again keeps its key, and is as it was set.
LEMMA UpdateBudgetInv ==
  ASSUME BudgetInv, NEW s \in Session, pc[s] = "budget", UpdateBudget(job[s]), rows' = rows,
         \A r \in Session : pc'[r] = "budget" => pc[r] = "budget" /\ job'[r] = job[r]
  PROVE  BudgetInv'
<1> USE DEF BudgetInv
<1> DEFINE k == job[s].key
           b == job[s].found
<1>1. k \in Key /\ job[s].amount \in Amount /\ b \in DOMAIN budgets
  BY DEF Tables, UpdateBudget
<1>2. b \in BudgetsOf(k)
  BY <1>1 DEF Budgeted, Knows
<1>3. /\ budgets' = [budgets EXCEPT ![b].amount = job[s].amount]
      /\ twins' = twins /\ wish' = With(wish, k, job[s].amount)
  BY DEF UpdateBudget
<1> HIDE DEF k, b
<1>4. /\ DOMAIN budgets' = DOMAIN budgets
      /\ \A x \in DOMAIN budgets : /\ budgets'[x].category = budgets[x].category
                                    /\ budgets'[x].period = budgets[x].period
      /\ \A x \in DOMAIN budgets \ {b} : budgets'[x] = budgets[x]
  BY <1>1, <1>3
<1>5. DOMAIN wish' = DOMAIN wish \cup {k} /\ wish'[k] = job[s].amount
      /\ \A x \in DOMAIN wish \ {k} : wish'[x] = wish[x]
  BY <1>3 DEF With
<1>6. \A x : BudgetsOf(x)' = BudgetsOf(x)
  BY <1>4 DEF BudgetsOf
<1>7. Tables'
  <2>1. \A x \in DOMAIN budgets' : /\ x \in BudgetId
                                   /\ <<budgets'[x].category, budgets'[x].period>> \in Key
                                   /\ budgets'[x].amount \in Amount
    <3>1. budgets'[b].amount = job[s].amount
      BY <1>1, <1>3 DEF Tables
    <3> QED
      BY <1>1, <1>4, <3>1 DEF Tables
  <2>2. DOMAIN wish' \subseteq Key /\ (\A x \in DOMAIN wish' : wish'[x] \in Amount)
    BY <1>1, <1>5 DEF Tables
  <2> QED
    BY <1>3, <2>1, <2>2 DEF Tables
<1>8. ASSUME NEW x \in Key \ twins' PROVE AsWished(x)'
  <2>1. AsWished(x)
    BY <1>3 DEF Budgeted
  <2>2. CASE x = k
    <3>1. BudgetsOf(x)' = {b} /\ b \in BudgetId
      BY <1>1, <1>2, <1>6, <2>1, <2>2 DEF AsWished, Tables
    <3> QED
      BY <1>1, <1>3, <1>5, <2>2, <3>1 DEF AsWished
  <2>3. CASE x # k
    <3>1. b \notin BudgetsOf(x) /\ BudgetsOf(x) \subseteq DOMAIN budgets
      BY <1>2, <2>3 DEF BudgetsOf
    <3> QED
      BY <1>3, <1>4, <1>5, <1>6, <2>1, <2>3, <3>1 DEF AsWished
  <2> QED
    BY <2>2, <2>3
<1>9. Budgeted'
  BY <1>1, <1>4, <1>8, HeldBudgets DEF Budgeted
<1> QED
  BY <1>7, <1>9

\* However a request for a budget ends.
LEMMA CommitBudgetInv ==
  ASSUME MoneyInv, NEW s \in Session, CommitBudget(s)
  PROVE  MoneyInv'
<1>1. /\ UNCHANGED <<debts, entries, calm, rows>>
      /\ pc[s] = "budget" /\ pc' = [pc EXCEPT ![s] = "idle"] /\ job' = [job EXCEPT ![s] = NoJob]
      /\ pc \in [Session -> {"idle", "events", "commit", "budget"}] /\ DOMAIN job = Session
  BY DEF CommitBudget, Goto, MoneyInv, DebtInv, Jobs
<1>2. /\ \A r \in Session \ {s} : pc'[r] = pc[r] /\ job'[r] = job[r]
      /\ pc'[s] = "idle" /\ DOMAIN job' = Session
      /\ pc' \in [Session -> {"idle", "events", "commit", "budget"}]
  BY <1>1
<1>3. DebtInv'
  BY <1>1, <1>2, DebtsStay DEF MoneyInv
<1>4. \A r \in Session : pc'[r] = "budget" => pc[r] = "budget" /\ job'[r] = job[r]
  BY <1>2
<1>5. BudgetInv'
  BY <1>1, <1>4, InsertBudgetInv, UpdateBudgetInv, RefuseBudgetInv
     DEF CommitBudget, MoneyInv
<1> QED
  BY <1>3, <1>5 DEF MoneyInv

\* A budget that is deleted is no longer wished for.
LEMMA DeleteBudgetInv ==
  ASSUME MoneyInv, NEW s \in Session, DeleteBudget(s)
  PROVE  MoneyInv'
<1> USE DEF MoneyInv, BudgetInv
<1>1. UNCHANGED <<debts, entries, job, calm, pc, rows, twins>>
  BY DEF DeleteBudget, debtVars
<1>2. DebtInv'
  BY <1>1, DebtsStay DEF DebtInv, Jobs
<1> DEFINE KeyOf(x) == <<budgets[x].category, budgets[x].period>>
<1>3. PICK b \in DOMAIN budgets :
       /\ budgets' = Restrict(budgets, DOMAIN budgets \ {b})
       /\ wish' = Restrict(wish, DOMAIN wish \ {KeyOf(b)})
  BY DEF DeleteBudget
<1> DEFINE k == KeyOf(b)
<1>4. k \in Key
  BY DEF Tables
<1>5. /\ DOMAIN budgets' = DOMAIN budgets \ {b} /\ \A x \in DOMAIN budgets' : budgets'[x] = budgets[x]
      /\ \A x : BudgetsOf(x)' = BudgetsOf(x) \ {b}
      /\ \A x : b \in BudgetsOf(x) <=> x = k
  BY <1>3 DEF Restrict, BudgetsOf
<1>6. /\ DOMAIN wish' = DOMAIN wish \ {k} /\ \A x \in DOMAIN wish' : wish'[x] = wish[x]
  BY <1>3 DEF Restrict
<1> HIDE DEF k
<1>7. Tables'
  <2>1. DOMAIN wish' \subseteq Key /\ (\A x \in DOMAIN wish' : wish'[x] \in Amount)
    BY <1>6 DEF Tables
  <2> QED
    BY <1>1, <1>5, <1>6, <2>1 DEF Tables
<1>8. ASSUME NEW x \in Key \ twins' PROVE AsWished(x)'
  <2>1. AsWished(x)
    BY <1>1 DEF Budgeted
  <2>2. CASE x = k
    <3>1. BudgetsOf(x)' = {}
      BY <1>5, <2>1, <2>2 DEF AsWished
    <3> QED
      BY <1>6, <2>2, <3>1 DEF AsWished
  <2>3. CASE x # k
    <3>1. BudgetsOf(x)' = BudgetsOf(x) /\ BudgetsOf(x) \subseteq DOMAIN budgets
      BY <1>5, <2>3 DEF BudgetsOf
    <3> QED
      BY <1>5, <1>6, <2>1, <2>3, <3>1 DEF AsWished
  <2> QED
    BY <2>2, <2>3
<1>9. Budgeted'
  BY <1>1, <1>3, <1>5, <1>8, HeldBudgets DEF Budgeted
<1> QED
  BY <1>2, <1>7, <1>9

------------------------------------------------------------------------------
(* The calendar: the days of the months of all years follow one another.    *)

YearLength(y) == IF IsLeap(y) THEN 366 ELSE 365

\* The leap years jdatetime knows are those its count of days makes longer.
LEMMA YearAfterYear ==
  ASSUME NEW y \in Nat
  PROVE  YearStart(y) \in Int /\ YearStart(y + 1) = YearStart(y) + YearLength(y)
<1> DEFINE j == y - 979
           q == j \div 33
           r == j % 33
<1>1. /\ j \in Int /\ q \in Int /\ r \in 0..32 /\ j = 33 * q + r
  OBVIOUS
<1>2. y = 33 * (q + 29) + (r + 22)
  BY <1>1
<1>3. y % 33 = IF r + 22 < 33 THEN r + 22 ELSE r - 11
  BY <1>1, <1>2
<1>4. YearStart(y) = 365 * j + 8 * q + (r + 3) \div 4
  BY DEF YearStart, FirstYear
<1>5. CASE r < 32
  <2>1. (j + 1) \div 33 = q /\ (j + 1) % 33 = r + 1
    BY <1>1, <1>5
  <2>2. YearStart(y + 1) = 365 * (j + 1) + 8 * q + (r + 4) \div 4
    BY <2>1 DEF YearStart, FirstYear
  <2> QED
    BY <1>1, <1>3, <1>4, <1>5, <2>2 DEF YearLength, IsLeap
<1>6. CASE r = 32
  <2>1. (j + 1) \div 33 = q + 1 /\ (j + 1) % 33 = 0
    BY <1>1, <1>6
  <2>2. YearStart(y + 1) = 365 * (j + 1) + 8 * (q + 1) + 0
    BY <2>1 DEF YearStart, FirstYear
  <2> QED
    BY <1>1, <1>3, <1>4, <1>6, <2>2 DEF YearLength, IsLeap
<1> QED
  BY <1>1, <1>5, <1>6

\* Later years start later.
LEMMA YearsInOrder ==
  ASSUME NEW y \in Nat, NEW z \in Nat, y < z
  PROVE  YearStart(y) + YearLength(y) <= YearStart(z)
<1>1. YearStart(y + 1) <= YearStart(z)
  <2> DEFINE j == (y + 1) - 979
             k == z - 979
             q == j \div 33
             r == j % 33
             p == k \div 33
             s == k % 33
  <2>1. /\ j \in Int /\ q \in Int /\ r \in 0..32 /\ j = 33 * q + r
        /\ k \in Int /\ p \in Int /\ s \in 0..32 /\ k = 33 * p + s
        /\ j <= k
    OBVIOUS
  <2>2. YearStart(y + 1) = 365 * j + 8 * q + (r + 3) \div 4
    BY DEF YearStart, FirstYear
  <2>3. YearStart(z) = 365 * k + 8 * p + (s + 3) \div 4
    BY DEF YearStart, FirstYear
  <2>4. (r + 3) \div 4 \in 0..8 /\ (s + 3) \div 4 \in 0..8
    BY <2>1
  <2>5. CASE q = p
    <3>1. r <= s
      BY <2>1, <2>5
    <3>2. (r + 3) \div 4 <= (s + 3) \div 4
      BY <2>1, <3>1
    <3> QED
      BY <2>1, <2>2, <2>3, <2>4, <2>5, <3>2
  <2>6. CASE q # p
    <3>1. q + 1 <= p
      BY <2>1, <2>6
    <3> QED
      BY <2>1, <2>2, <2>3, <2>4, <3>1
  <2> QED
    BY <2>5, <2>6
<1>2. YearStart(y + 1) = YearStart(y) + YearLength(y)
  BY YearAfterYear
<1> QED
  BY <1>1, <1>2

\* A month ends where the next one of its year starts, or the year ends.
LEMMA MonthsOfYear ==
  ASSUME NEW y \in Nat, NEW m \in 1..12
  PROVE  /\ MonthStart[m] \in Nat /\ MonthLength(y, m) \in 29..31
         /\ m < 12 => MonthStart[m + 1] = MonthStart[m] + MonthLength(y, m)
         /\ m = 12 => YearLength(y) = MonthStart[m] + MonthLength(y, m)
         /\ \A n \in 1..12 : m < n => MonthStart[m] + MonthLength(y, m) <= MonthStart[n]
<1>1. MonthStart[m] = IF m <= 7 THEN 31 * (m - 1) ELSE 186 + 30 * (m - 7)
  BY DEF MonthStart
<1>2. MonthLength(y, m) = IF m <= 6 THEN 31 ELSE IF m <= 11 THEN 30 ELSE IF IsLeap(y) THEN 30 ELSE 29
  BY DEF MonthLength
<1>3. YearLength(y) = IF IsLeap(y) THEN 366 ELSE 365
  BY DEF YearLength
<1>4. \A n \in 1..12 : MonthStart[n] = IF n <= 7 THEN 31 * (n - 1) ELSE 186 + 30 * (n - 7)
  BY DEF MonthStart
<1>5. /\ MonthStart[m] \in Nat /\ MonthLength(y, m) \in 29..31
      /\ m = 12 => YearLength(y) = MonthStart[m] + MonthLength(y, m)
  BY <1>1, <1>2, <1>3
<1>6. m < 12 => MonthStart[m + 1] = MonthStart[m] + MonthLength(y, m)
  BY <1>1, <1>2, <1>4
<1>7. \A n \in 1..12 : m < n => MonthStart[m] + MonthLength(y, m) <= MonthStart[n]
  BY <1>1, <1>2, <1>4
<1> QED
  BY <1>5, <1>6, <1>7

\* The number of a month tells its year and its place there.
LEMMA MonthIndexTells ==
  ASSUME NEW y \in Nat, NEW m \in 1..12
  PROVE  /\ MonthIndex(y, m) \in Nat
         /\ YearOf(MonthIndex(y, m)) = y /\ MonthOf(MonthIndex(y, m)) = m
         /\ MonthIndex(y, m) + 1 = IF m < 12 THEN MonthIndex(y, m + 1) ELSE MonthIndex(y + 1, 1)
BY DEF MonthIndex, YearOf, MonthOf

\* The range of a month is that of its days.
LEMMA MonthRangeDays ==
  ASSUME NEW y \in Nat, NEW m \in 1..12
  PROVE  /\ Ordinal(y, m, 1) \in Int
         /\ MonthRange(y, m) = Ordinal(y, m, 1)..(Ordinal(y, m, 1) + MonthLength(y, m) - 1)
<1> DEFINE next == AddMonths(y, m, 1, 1)
           first == Ordinal(y, m, 1)
           end == Ordinal(next[1], next[2], 1)
<1>0. MonthRange(y, m) = first..(end - 1)
  BY DEF MonthRange
<1>3. /\ first = YearStart(y) + MonthStart[m]
      /\ YearStart(y) \in Int /\ MonthStart[m] \in Nat /\ MonthLength(y, m) \in 29..31
  BY YearAfterYear, MonthsOfYear DEF Ordinal
<1>4. ASSUME end = first + MonthLength(y, m)
      PROVE  first \in Int /\ MonthRange(y, m) = first..(first + MonthLength(y, m) - 1)
  <2> HIDE DEF first, end
  <2> QED
    BY <1>0, <1>3, <1>4
<1>1. CASE m < 12
  <2>0. m + 1 \in 1..12
    BY <1>1
  <2>1. MonthIndex(y, m) + 1 = MonthIndex(y, m + 1)
    BY <1>1, MonthIndexTells
  <2>2. YearOf(MonthIndex(y, m) + 1) = y /\ MonthOf(MonthIndex(y, m) + 1) = m + 1
    BY <2>0, <2>1, MonthIndexTells
  <2>3. next[1] = y /\ next[2] = m + 1
    BY <2>2 DEF AddMonths
  <2>4. end = YearStart(y) + MonthStart[m + 1]
    <3>1. MonthStart[m + 1] \in Nat
      BY <2>0, MonthsOfYear
    <3>2. end = Ordinal(y, m + 1, 1)
      BY <2>3
    <3> HIDE DEF end
    <3> QED
      BY <1>3, <3>1, <3>2 DEF Ordinal
  <2>5. MonthStart[m + 1] = MonthStart[m] + MonthLength(y, m)
    BY <1>1, MonthsOfYear
  <2>6. end = first + MonthLength(y, m)
    <3> HIDE DEF end, first
    <3> QED
      BY <1>3, <2>4, <2>5
  <2> QED
    BY <1>4, <2>6
<1>2. CASE m = 12
  <2>1. MonthIndex(y, m) + 1 = MonthIndex(y + 1, 1) /\ y + 1 \in Nat /\ 1 \in 1..12
    BY <1>2, MonthIndexTells
  <2>2. YearOf(MonthIndex(y, m) + 1) = y + 1 /\ MonthOf(MonthIndex(y, m) + 1) = 1
    BY <2>1, MonthIndexTells
  <2>3. next[1] = y + 1 /\ next[2] = 1
    BY <2>2 DEF AddMonths
  <2>4. MonthStart[1] = 0
    BY DEF MonthStart
  <2>5. end = YearStart(y + 1)
    <3>1. YearStart(y + 1) \in Int
      BY <2>1, YearAfterYear
    <3>2. end = Ordinal(y + 1, 1, 1)
      BY <2>3
    <3> HIDE DEF end
    <3> QED
      BY <2>4, <3>1, <3>2 DEF Ordinal
  <2>6. YearStart(y + 1) = YearStart(y) + YearLength(y) /\ YearLength(y) = MonthStart[m] + MonthLength(y, m)
    BY <1>2, MonthsOfYear, YearAfterYear
  <2>7. end = first + MonthLength(y, m)
    <3> HIDE DEF end, first
    <3> QED
      BY <1>3, <2>5, <2>6
  <2> QED
    BY <1>4, <2>7
<1> QED
  BY <1>1, <1>2

\* A month is over before a later one starts.
LEMMA MonthsInOrder ==
  ASSUME NEW y \in Nat, NEW m \in 1..12, NEW z \in Nat, NEW n \in 1..12,
         MonthIndex(y, m) < MonthIndex(z, n)
  PROVE  Ordinal(y, m, 1) + MonthLength(y, m) <= Ordinal(z, n, 1)
<1>1. y < z \/ (y = z /\ m < n)
  BY DEF MonthIndex
<1>2. /\ YearStart(y) \in Int /\ YearStart(z) \in Int
      /\ MonthStart[m] \in Nat /\ MonthStart[n] \in Nat /\ MonthLength(y, m) \in 29..31
  BY YearAfterYear, MonthsOfYear
<1>3. CASE y < z
  <2>1. YearStart(y) + YearLength(y) <= YearStart(z)
    BY <1>3, YearsInOrder
  <2>2. MonthStart[m] + MonthLength(y, m) <= YearLength(y) /\ YearLength(y) \in Int
    <3>1. CASE m = 12
      BY <1>2, <3>1, MonthsOfYear DEF YearLength
    <3>2. CASE m < 12
      <4>1. 12 \in 1..12
        OBVIOUS
      <4>2. MonthStart[m] + MonthLength(y, m) <= MonthStart[12]
        BY <3>2, <4>1, MonthsOfYear
      <4>3. YearLength(y) = MonthStart[12] + MonthLength(y, 12) /\ MonthLength(y, 12) \in 29..31
            /\ MonthStart[12] \in Nat
        BY <4>1, MonthsOfYear
      <4> QED
        BY <1>2, <4>2, <4>3
    <3> QED
      BY <3>1, <3>2
  <2> QED
    BY <1>2, <2>1, <2>2 DEF Ordinal
<1>4. CASE y = z /\ m < n
  <2>1. MonthStart[m] + MonthLength(y, m) <= MonthStart[n]
    BY <1>4, MonthsOfYear
  <2> QED
    BY <1>2, <1>4, <2>1 DEF Ordinal
<1> QED
  BY <1>1, <1>3, <1>4

\* A place in one month is among those of another exactly if the months are the same.
LEMMA Apart ==
  ASSUME NEW first \in Int, NEW n \in 29..31, NEW start \in Int, NEW l \in 29..31,
         NEW e \in 1..31, e <= n, NEW i \in Nat, NEW k \in Nat,
         i = k => first = start /\ n = l,
         i < k => first + n <= start, k < i => start + l <= first
  PROVE  first + e - 1 \in start..(start + l - 1) <=> i = k
<1>1. CASE i = k
  BY <1>1
<1>2. CASE i < k
  BY <1>2
<1>3. CASE k < i
  BY <1>3
<1> QED
  BY <1>1, <1>2, <1>3

\* A date lies in the range of a month exactly if it is of that month.
LEMMA MonthByDays ==
  ASSUME NEW d \in Dates, NEW y \in Nat, NEW m \in 1..12
  PROVE  /\ Ordinal(d[1], d[2], d[3]) \in Int
         /\ Ordinal(d[1], d[2], d[3]) \in MonthRange(y, m) <=> MonthIndex(d[1], d[2]) = MonthIndex(y, m)
<1>1. d[1] \in Nat /\ d[2] \in 1..12 /\ d[3] \in 1..31 /\ d[3] <= MonthLength(d[1], d[2])
  BY DEF Dates
<1> DEFINE first == Ordinal(d[1], d[2], 1)
           day   == Ordinal(d[1], d[2], d[3])
           start == Ordinal(y, m, 1)
           length == MonthLength(d[1], d[2])
<1>2. first \in Int /\ start \in Int /\ MonthRange(y, m) = start..(start + MonthLength(y, m) - 1)
  BY <1>1, MonthRangeDays
<1>3. MonthLength(y, m) \in 29..31 /\ length \in 29..31
  BY <1>1, MonthsOfYear
<1>4. day = first + d[3] - 1
  <2>1. YearStart(d[1]) \in Int /\ MonthStart[d[2]] \in Nat
    BY <1>1, YearAfterYear, MonthsOfYear
  <2> QED
    BY <1>1, <2>1 DEF Ordinal
<1>5. MonthIndex(d[1], d[2]) \in Nat /\ MonthIndex(y, m) \in Nat
  BY <1>1, MonthIndexTells
<1>6. MonthIndex(d[1], d[2]) = MonthIndex(y, m) => first = start /\ length = MonthLength(y, m)
  <2>1. MonthIndex(d[1], d[2]) = MonthIndex(y, m) => d[1] = y /\ d[2] = m
    BY <1>1 DEF MonthIndex
  <2> QED
    BY <2>1
<1>7. MonthIndex(d[1], d[2]) < MonthIndex(y, m) => first + length <= start
  BY <1>1, MonthsInOrder
<1>8. MonthIndex(y, m) < MonthIndex(d[1], d[2]) => start + MonthLength(y, m) <= first
  BY <1>1, MonthsInOrder
<1>9. d[3] <= length
  BY <1>1
<1> DEFINE e == d[3]
           l == MonthLength(y, m)
           i == MonthIndex(d[1], d[2])
           k == MonthIndex(y, m)
<1>10. /\ first \in Int /\ length \in 29..31 /\ start \in Int /\ l \in 29..31
       /\ e \in 1..31 /\ e <= length /\ i \in Nat /\ k \in Nat
  BY <1>1, <1>2, <1>3, <1>5, <1>9
<1>11. (i = k => first = start /\ length = l) /\ (i < k => first + length <= start)
       /\ (k < i => start + l <= first)
  BY <1>6, <1>7, <1>8
<1>12. day = first + e - 1 /\ MonthRange(y, m) = start..(start + l - 1)
  BY <1>2, <1>4
<1> HIDE DEF first, day, start, length, e, l, i, k
<1>13. first + e - 1 \in start..(start + l - 1) <=> i = k
  BY <1>10, <1>11, Apart
<1>14. day \in Int
  BY <1>10, <1>12
<1> QED
  BY <1>12, <1>13, <1>14 DEF day, i, k

------------------------------------------------------------------------------
(* What a report sums up.                                                   *)

\* A table of rows keeps their amounts and days.
Sheet(table) ==
  DOMAIN table = Tx /\ \A t \in Tx : table[t].amount \in Int /\ table[t].day \in Dates

Value(x, way) == IF way = "out" THEN Out(x) ELSE In(x)

Moved(table, ts, way) == SumFunction([t \in ts |-> Value(table[t], way)])

\* No row counts negative, so neither does a sum, and it is zero exactly if all are.
LEMMA MovedIs ==
  ASSUME NEW table, Sheet(table), NEW ts \in SUBSET Tx, NEW way
  PROVE  /\ IsFiniteSet(ts) /\ Moved(table, ts, way) \in Nat
         /\ \A t \in ts : Value(table[t], way) \in Nat
         /\ Moved(table, ts, way) > 0 <=> \E t \in ts : Value(table[t], way) > 0
         /\ \A us \in SUBSET ts : Moved(table, us, way) <= Moved(table, ts, way)
         /\ \A us \in SUBSET ts : (\A t \in ts \ us : Value(table[t], way) = 0) =>
                                    Moved(table, us, way) = Moved(table, ts, way)
<1> DEFINE f == [t \in ts |-> Value(table[t], way)]
<1>1. IsFiniteSet(ts)
  BY MoneyAssumption, FS_Subset
<1>2. \A t \in ts : Value(table[t], way) \in Nat
  BY DEF Sheet, Value, Out, In
<1>3. DOMAIN f = ts /\ (\A t \in ts : f[t] = Value(table[t], way)) /\ Moved(table, ts, way) = SumFunction(f)
  BY DEF Moved
<1>4. ASSUME NEW us \in SUBSET ts PROVE Moved(table, us, way) = SumFunction([t \in us |-> f[t]])
  <2>1. [t \in us |-> f[t]] = [t \in us |-> Value(table[t], way)]
    OBVIOUS
  <2> QED
    BY <2>1 DEF Moved
<1> HIDE DEF f
<1>5. SumFunction(f) \in Nat /\ (\A x \in ts : f[x] <= SumFunction(f))
      /\ \A us \in SUBSET ts : SumFunction([t \in us |-> f[t]]) <= SumFunction(f)
  BY <1>1, <1>2, <1>3, SumFunctionNat
<1>6. \A us \in SUBSET ts : (\A t \in ts \ us : f[t] = 0) => SumFunction(f) = SumFunction([t \in us |-> f[t]])
  <2>1. \A t \in DOMAIN f : f[t] \in Int
    BY <1>2, <1>3
  <2> QED
    BY <1>1, <1>3, <2>1, SumFunctionZeros
<1>7. SumFunction(f) > 0 <=> \E t \in ts : Value(table[t], way) > 0
  <2>1. ASSUME NEW t \in ts, Value(table[t], way) > 0 PROVE SumFunction(f) > 0
    BY <1>2, <1>3, <1>5, <2>1
  <2>2. ASSUME \A t \in ts : ~ (Value(table[t], way) > 0) PROVE SumFunction(f) = 0
    <3>1. \A t \in DOMAIN f : f[t] = 0
      BY <1>2, <1>3, <2>2
    <3>2. SumOn(f, DOMAIN f) = 0
      BY <1>1, <1>3, <3>1, SumNothing
    <3> QED
      BY <3>2, SumIsSumOn
  <2> QED
    BY <2>1, <2>2
<1> QED
  BY <1>1, <1>2, <1>3, <1>4, <1>5, <1>6, <1>7

\* A finite domain has finitely many values.
LEMMA FiniteRange ==
  ASSUME NEW S, IsFiniteSet(S), NEW g, DOMAIN g = S
  PROVE  IsFiniteSet({g[x] : x \in S})
<1>1. [x \in S |-> g[x]] \in Surjection(S, {g[x] : x \in S})
  BY DEF Surjection
<1> QED
  BY <1>1, FS_Surjection

\* The reports' sums are such sums.
LEMMA SumIsMoved ==
  ASSUME NEW table, NEW ts
  PROVE  Sum(table, ts, Out) = Moved(table, ts, "out") /\ Sum(table, ts, In) = Moved(table, ts, "in")
<1>1. [t \in ts |-> Value(table[t], "out")] = [t \in ts |-> Out(table[t])]
  BY DEF Value
<1>2. [t \in ts |-> Value(table[t], "in")] = [t \in ts |-> In(table[t])]
  BY DEF Value
<1> QED
  BY <1>1, <1>2 DEF Sum, Moved

\* What is grouped adds up to the whole.
LEMMA MovedGroups ==
  ASSUME NEW table, Sheet(table), NEW ts \in SUBSET Tx, NEW way, NEW g, NEW K, IsFiniteSet(K),
         \A t \in ts : Value(table[t], way) > 0 => g[t] \in K,
         NEW h, DOMAIN h = K, \A k \in K : h[k] = Moved(table, {t \in ts : g[t] = k}, way)
  PROVE  SumFunction(h) = Moved(table, ts, way)
<1> DEFINE f == [t \in ts |-> Value(table[t], way)]
<1>1. /\ DOMAIN f = ts /\ Moved(table, ts, way) = SumFunction(f)
      /\ \A t \in ts : f[t] = Value(table[t], way)
  BY DEF Moved
<1>2. \A k \in K : h[k] = SumFunction([x \in {x \in DOMAIN f : g[x] = k} |-> f[x]])
  <2> SUFFICES ASSUME NEW k \in K
               PROVE h[k] = SumFunction([x \in {x \in DOMAIN f : g[x] = k} |-> f[x]])
    OBVIOUS
  <2>1. [x \in {x \in DOMAIN f : g[x] = k} |-> f[x]] = [x \in {x \in ts : g[x] = k} |-> Value(table[x], way)]
    OBVIOUS
  <2> QED
    BY <2>1 DEF Moved
<1>3. IsFiniteSet(ts) /\ \A t \in ts : Value(table[t], way) \in Nat
  BY MovedIs
<1> HIDE DEF f
<1>4. IsFiniteSet(DOMAIN f) /\ (\A x \in DOMAIN f : f[x] \in Int) /\ \A x \in DOMAIN f : f[x] # 0 => g[x] \in K
  BY <1>1, <1>3
<1>5. SumFunction(h) = SumFunction(f)
  BY <1>2, <1>4, SumFunctionGroups
<1> QED
  BY <1>1, <1>5

\* The rows of one group.
Having(table, ts, column, k) == {t \in ts : table[t][column] = k}

\* A breakdown has the groups with a positive sum, and adds up to all of them.
LEMMA BreakdownIs ==
  ASSUME NEW table, Sheet(table), NEW ts \in SUBSET Tx, NEW column, NEW way \in {"out", "in"}
  PROVE  /\ \A k : Of(Breakdown(table, ts, column, way), k)
                     = Moved(table, Having(table, ts, column, k), way)
         /\ SumFunction(Breakdown(table, ts, column, way)) = Moved(table, ts, way)
         /\ \A t \in ts : Value(table[t], way) > 0 =>
                            table[t][column] \in DOMAIN Breakdown(table, ts, column, way)
<1> DEFINE group(k) == {t \in ts : table[t][column] = k}
           keys == {table[t][column] : t \in {t \in ts : Value(table[t], way) > 0}}
           b == [k \in keys |-> Moved(table, group(k), way)]
<1>1. Breakdown(table, ts, column, way) = b
  <2>1. CASE way = "out"
    <3>1. Breakdown(table, ts, column, way) =
            [k \in {table[t][column] : t \in {t \in ts : Out(table[t]) > 0}} |-> Sum(table, group(k), Out)]
      BY <2>1 DEF Breakdown, Sum
    <3>2. keys = {table[t][column] : t \in {t \in ts : Out(table[t]) > 0}}
      BY <2>1 DEF Value
    <3>3. \A k : Sum(table, group(k), Out) = Moved(table, group(k), way)
      BY <2>1, SumIsMoved
    <3> HIDE DEF group, keys
    <3> QED
      BY <3>1, <3>2, <3>3
  <2>2. CASE way = "in"
    <3>1. Breakdown(table, ts, column, way) =
            [k \in {table[t][column] : t \in {t \in ts : In(table[t]) > 0}} |-> Sum(table, group(k), In)]
      BY <2>2 DEF Breakdown, Sum
    <3>2. keys = {table[t][column] : t \in {t \in ts : In(table[t]) > 0}}
      BY <2>2 DEF Value
    <3>3. \A k : Sum(table, group(k), In) = Moved(table, group(k), way)
      BY <2>2, SumIsMoved
    <3> HIDE DEF group, keys
    <3> QED
      BY <3>1, <3>2, <3>3
  <2> QED
    BY <2>1, <2>2
<1>2. \A k : k \notin keys => Moved(table, group(k), way) = 0
  <2> SUFFICES ASSUME NEW k, k \notin keys PROVE Moved(table, group(k), way) = 0
    OBVIOUS
  <2>1. group(k) \in SUBSET Tx /\ \A t \in group(k) : ~ (Value(table[t], way) > 0)
    OBVIOUS
  <2> HIDE DEF group
  <2>2. Moved(table, group(k), way) \in Nat /\ ~ (Moved(table, group(k), way) > 0)
    BY <2>1, MovedIs
  <2> QED
    BY <2>2
<1>3. \A k : Of(b, k) = Moved(table, group(k), way)
  <2>1. DOMAIN b = keys /\ \A k \in keys : b[k] = Moved(table, group(k), way)
    OBVIOUS
  <2> HIDE DEF b, keys, group
  <2> QED
    BY <1>2, <2>1 DEF Of
<1>4. SumFunction(b) = Moved(table, ts, way)
  <2> DEFINE g == [t \in ts |-> table[t][column]]
  <2>1. IsFiniteSet(keys)
    <3> DEFINE some == {t \in ts : Value(table[t], way) > 0}
               h == [t \in some |-> table[t][column]]
    <3>1. some \subseteq Tx /\ keys = {h[t] : t \in some} /\ DOMAIN h = some
      OBVIOUS
    <3>2. IsFiniteSet(some)
      BY <3>1, MoneyAssumption, FS_Subset
    <3> HIDE DEF some, keys, h
    <3> QED
      BY <3>1, <3>2, FiniteRange
  <2>2. \A t \in ts : Value(table[t], way) > 0 => g[t] \in keys
    OBVIOUS
  <2>3. DOMAIN b = keys /\ \A k \in keys : b[k] = Moved(table, {t \in ts : g[t] = k}, way)
    <3>1. \A k : group(k) = {t \in ts : g[t] = k}
      OBVIOUS
    <3>2. DOMAIN b = keys /\ \A k \in keys : b[k] = Moved(table, group(k), way)
      OBVIOUS
    <3> HIDE DEF b, group, keys, g
    <3> QED
      BY <3>1, <3>2
  <2> HIDE DEF b, keys, group, g
  <2> QED
    BY <2>1, <2>2, <2>3, MovedGroups
<1>5. \A t \in ts : Value(table[t], way) > 0 => table[t][column] \in DOMAIN b
  OBVIOUS
<1>6. \A k : Having(table, ts, column, k) = group(k)
  BY DEF Having
<1> HIDE DEF group, keys, b
<1> QED
  BY <1>1, <1>3, <1>4, <1>5, <1>6

------------------------------------------------------------------------------
(* The reports agree.                                                       *)

\* The days of a month, in either calendar's count, are those of its rows.
LEMMA RowsOfMonth ==
  ASSUME NEW table, Sheet(table), NEW y \in Nat, NEW m \in 1..12
  PROVE  InPeriod(table, MonthRange(y, m)) = {t \in RealRows(table) : Month(table[t]) = MonthIndex(y, m)}
<1>1. \A t \in RealRows(table) :
        Date(table[t]) \in MonthRange(y, m) <=> Month(table[t]) = MonthIndex(y, m)
  <2> SUFFICES ASSUME NEW t \in RealRows(table)
               PROVE  Date(table[t]) \in MonthRange(y, m) <=> Month(table[t]) = MonthIndex(y, m)
    OBVIOUS
  <2>1. table[t].day \in Dates
    BY DEF RealRows, Sheet
  <2> QED
    BY <2>1, MonthByDays DEF Date, Month
<1> QED
  BY <1>1 DEF InPeriod

\* Without bounds a period has every row.
LEMMA RowsOfAlways ==
  ASSUME NEW table, Sheet(table)
  PROVE  InPeriod(table, Always) = RealRows(table)
<1>1. \A t \in RealRows(table) : Date(table[t]) \in Int
  <2> SUFFICES ASSUME NEW t \in RealRows(table) PROVE Date(table[t]) \in Int
    OBVIOUS
  <2>1. table[t].day \in Dates /\ 0 \in Nat /\ 1 \in 1..12
    BY DEF RealRows, Sheet
  <2> QED
    BY <2>1, MonthByDays DEF Date
<1> QED
  BY <1>1 DEF InPeriod, Always

\* Breakdown, summary, series and budgets tell the same of a month.
LEMMA MonthTallies ==
  ASSUME NEW table, Sheet(table), NEW m \in Months
  PROVE  MonthTally(table, m)
<1>1. m[1] \in Nat /\ m[2] \in 1..12
  BY MoneyAssumption
<1> DEFINE index == MonthIndex(m[1], m[2])
           period == MonthRange(m[1], m[2])
           month == {t \in RealRows(table) : Month(table[t]) = index}
           of(c) == {t \in month : table[t]["category"] = c}
<1>2. InPeriod(table, period) = month
  BY <1>1, RowsOfMonth
<1>3. month \in SUBSET Tx
  BY DEF RealRows, Sheet
<1>4. /\ ByCategory(table, period, "out") = Breakdown(table, month, "category", "out")
      /\ ByCategory(table, period, "in") = Breakdown(table, month, "category", "in")
  BY <1>2 DEF ByCategory
<1>5. Summary(table, index).month = Totals(table, month)
  BY DEF Summary
<1>6. /\ Totals(table, month).expense = Moved(table, month, "out")
      /\ Totals(table, month).income = Moved(table, month, "in")
  BY SumIsMoved DEF Totals
<1>7. index \in DOMAIN MonthlySeries(table) => MonthlySeries(table)[index] = Totals(table, month)
  BY DEF MonthlySeries
<1>8. \A c : BudgetSpent(table, c, index) = Moved(table, of(c), "out")
  <2>1. \A c : of(c) = {t \in RealRows(table) : Month(table[t]) = index /\ table[t].category = c}
    OBVIOUS
  <2>2. \A c : BudgetSpent(table, c, index) = Sum(table, of(c), Out)
    <3> HIDE DEF of, index
    <3> QED
      BY <2>1 DEF BudgetSpent, Sum
  <2> HIDE DEF of, index
  <2> QED
    BY <2>2, SumIsMoved
<1>9. /\ SumFunction(ByCategory(table, period, "out")) = Moved(table, month, "out")
      /\ SumFunction(ByCategory(table, period, "in")) = Moved(table, month, "in")
      /\ \A c : Of(ByCategory(table, period, "out"), c) = Moved(table, of(c), "out")
  <2>1. \A c : of(c) = Having(table, month, "category", c)
    BY DEF Having
  <2> HIDE DEF month, period, of
  <2>2. \A c : Of(Breakdown(table, month, "category", "out"), c)
                 = Moved(table, Having(table, month, "category", c), "out")
    BY <1>3, BreakdownIs
  <2>3. /\ SumFunction(Breakdown(table, month, "category", "out")) = Moved(table, month, "out")
        /\ SumFunction(Breakdown(table, month, "category", "in")) = Moved(table, month, "in")
    BY <1>3, BreakdownIs
  <2> QED
    BY <1>4, <2>1, <2>2, <2>3
<1> HIDE DEF index, period, month, of
<1> QED
  BY <1>5, <1>6, <1>7, <1>8, <1>9 DEF MonthTally, index, period

\* The months make up the total.
LEMMA TotalTallies ==
  ASSUME NEW table, Sheet(table)
  PROVE  TotalTally(table)
<1> DEFINE real == RealRows(table)
           g == [t \in real |-> Month(table[t])]
           K == {g[t] : t \in real}
           series == MonthlySeries(table)
           h == [m \in DOMAIN series |-> series[m].expense]
<1>1. real \in SUBSET Tx /\ IsFiniteSet(real)
  BY MoneyAssumption, FS_Subset DEF RealRows, Sheet
<1>2. IsFiniteSet(K)
  <2>1. DOMAIN g = real
    OBVIOUS
  <2> HIDE DEF g, real
  <2> QED
    BY <1>1, <2>1, FiniteRange
<1>3. DOMAIN series = K
  BY DEF MonthlySeries
<1>4. \A k \in K : h[k] = Moved(table, {t \in real : g[t] = k}, "out")
  <2> SUFFICES ASSUME NEW k \in K PROVE h[k] = Moved(table, {t \in real : g[t] = k}, "out")
    OBVIOUS
  <2>1. {t \in real : g[t] = k} = {t \in RealRows(table) : Month(table[t]) = k}
    OBVIOUS
  <2>2. series[k] = Totals(table, {t \in RealRows(table) : Month(table[t]) = k})
    BY DEF MonthlySeries
  <2>3. h[k] = Totals(table, {t \in real : g[t] = k}).expense
    BY <1>3, <2>1, <2>2
  <2> HIDE DEF h, real, g
  <2> QED
    BY <2>3, SumIsMoved DEF Totals
<1>5. DOMAIN h = K /\ \A t \in real : g[t] \in K
  BY <1>3
<1>6. Summary(table, 0).total.expense = Moved(table, real, "out")
  BY SumIsMoved DEF Summary, Totals
<1>7. SumFunction(h) = Moved(table, real, "out")
  <2> HIDE DEF h, g, K, real
  <2> QED
    BY <1>1, <1>2, <1>4, <1>5, MovedGroups
<1> QED
  BY <1>6, <1>7 DEF TotalTally

\* Finitely many numbers have a largest.
LEMMA MaxIs ==
  ASSUME NEW S, IsFiniteSet(S), S # {}, \A x \in S : x \in Int
  PROVE  Max(S) \in S
<1> DEFINE Above(x) == {y \in S : y > x}
           F == {Above(x) : x \in S}
<1>1. PICK U \in F : \A V \in F : V \subseteq U => V = U
  <2>1. F \in SUBSET SUBSET S /\ F # {}
    OBVIOUS
  <2> HIDE DEF F
  <2> QED
    BY <2>1, LeastSet
<1>2. PICK x \in S : U = Above(x)
  OBVIOUS
<1>3. ASSUME NEW y \in S, y > x PROVE FALSE
  <2>1. Above(y) \subseteq Above(x) /\ y \in Above(x) /\ y \notin Above(y)
    BY <1>3
  <2>2. Above(y) \in F
    OBVIOUS
  <2> HIDE DEF Above, F
  <2> QED
    BY <1>1, <1>2, <2>1, <2>2
<1>4. \A y \in S : x >= y
  BY <1>3
<1> QED
  BY <1>4 DEF Max

\* The months that are compared are those of the series with spending.
LEMMA SpendingSame ==
  ASSUME NEW table, Sheet(table)
  PROVE  {m \in DOMAIN MonthlySeries(table) : MonthlySeries(table)[m].expense > 0} = SpendingMonths(table)
<1> DEFINE of(m) == {t \in RealRows(table) : Month(table[t]) = m}
           series == MonthlySeries(table)
<1>1. DOMAIN series = {Month(table[t]) : t \in RealRows(table)}
  BY DEF MonthlySeries
<1>2. \A m \in DOMAIN series : series[m].expense = Moved(table, of(m), "out")
  <2> SUFFICES ASSUME NEW m \in DOMAIN series PROVE series[m].expense = Moved(table, of(m), "out")
    OBVIOUS
  <2>1. series[m] = Totals(table, of(m))
    BY DEF MonthlySeries
  <2> HIDE DEF of, series
  <2> QED
    BY <2>1, SumIsMoved DEF Totals
<1>3. \A m : of(m) \in SUBSET Tx
  BY DEF RealRows, Sheet
<1>4. \A m : Moved(table, of(m), "out") > 0 <=> \E t \in of(m) : Out(table[t]) > 0
  <2> SUFFICES ASSUME NEW m
               PROVE Moved(table, of(m), "out") > 0 <=> \E t \in of(m) : Out(table[t]) > 0
    OBVIOUS
  <2>1. Moved(table, of(m), "out") > 0 <=> \E t \in of(m) : Value(table[t], "out") > 0
    <3>1. of(m) \in SUBSET Tx
      BY <1>3
    <3> HIDE DEF of
    <3> QED
      BY <3>1, MovedIs
  <2>2. \A t : Value(table[t], "out") = Out(table[t])
    BY DEF Value
  <2> HIDE DEF of
  <2> QED
    BY <2>1, <2>2
<1>5. \A m \in DOMAIN series : series[m].expense > 0 <=> \E t \in of(m) : Out(table[t]) > 0
  <2> HIDE DEF of, series
  <2> QED
    BY <1>2, <1>4
<1>6. \A m \in DOMAIN series : (\E t \in of(m) : Out(table[t]) > 0) <=> m \in SpendingMonths(table)
  BY DEF SpendingMonths
<1>7. SpendingMonths(table) \subseteq DOMAIN series
  BY <1>1 DEF SpendingMonths
<1> HIDE DEF of, series
<1>8. {m \in DOMAIN series : series[m].expense > 0} = SpendingMonths(table)
  BY <1>5, <1>6, <1>7
<1> QED
  BY <1>8 DEF series

\* The last month that has spending is compared by what its breakdown has.
LEMMA ComparedTallies ==
  ASSUME NEW table, Sheet(table)
  PROVE  ComparedTally(table)
<1> DEFINE spent == SpendingMonths(table)
           index == Max(spent)
           insight == MonthOverMonth(table, Lookback, Factor)
           period == MonthRange(YearOf(index), MonthOf(index))
           month == {t \in RealRows(table) : Month(table[t]) = index}
<1>1. SUFFICES ASSUME spent # {}, NEW c \in DOMAIN insight
               PROVE  insight[c].current = Of(ByCategory(table, period, "out"), c)
  <2> HIDE DEF period, insight
  <2> QED
    BY SpendingSame DEF ComparedTally, insight, period
<1>2. PICK t \in RealRows(table) : index = Month(table[t])
  <2> DEFINE real == {t \in RealRows(table) : Out(table[t]) > 0}
             g == [t \in real |-> Month(table[t])]
  <2>1. spent = {g[t] : t \in real} /\ DOMAIN g = real /\ real \subseteq Tx
    BY DEF SpendingMonths, RealRows, Sheet
  <2>2. IsFiniteSet(spent)
    <3>1. IsFiniteSet(real)
      BY <2>1, MoneyAssumption, FS_Subset
    <3> HIDE DEF g, real, spent
    <3> QED
      BY <2>1, <3>1, FiniteRange
  <2>3. \A m \in spent : m \in Int
    <3> SUFFICES ASSUME NEW u \in RealRows(table) PROVE Month(table[u]) \in Int
      BY DEF SpendingMonths
    <3>1. table[u].day \in Dates
      BY DEF RealRows, Sheet
    <3>2. table[u].day[1] \in Int /\ table[u].day[2] \in Int
      BY <3>1 DEF Dates
    <3> QED
      BY <3>2 DEF Month, MonthIndex
  <2>4. index \in spent
    <3> HIDE DEF spent
    <3> QED
      BY <1>1, <2>2, <2>3, MaxIs
  <2> HIDE DEF index
  <2> QED
    BY <2>4 DEF SpendingMonths
<1>3. YearOf(index) \in Nat /\ MonthOf(index) \in 1..12 /\ MonthIndex(YearOf(index), MonthOf(index)) = index
  <2>1. table[t].day[1] \in Nat /\ table[t].day[2] \in 1..12
    BY DEF RealRows, Sheet, Dates
  <2>2. index = MonthIndex(table[t].day[1], table[t].day[2])
    BY <1>2 DEF Month
  <2> HIDE DEF index
  <2> QED
    BY <2>1, <2>2, MonthIndexTells
<1>4. InPeriod(table, period) = month
  <2> HIDE DEF index
  <2> QED
    BY <1>3, RowsOfMonth
<1>5. month \in SUBSET Tx
  BY DEF RealRows, Sheet
<1>6. Of(ByCategory(table, period, "out"), c) = Moved(table, Having(table, month, "category", c), "out")
  <2>1. ByCategory(table, period, "out") = Breakdown(table, month, "category", "out")
    BY <1>4 DEF ByCategory
  <2> HIDE DEF month, period
  <2>2. \A k : Of(Breakdown(table, month, "category", "out"), k)
                 = Moved(table, Having(table, month, "category", k), "out")
    BY <1>5, BreakdownIs
  <2> QED
    BY <2>1, <2>2
<1>7. insight[c].current = SpentIn(table, index, c)
  BY DEF MonthOverMonth
<1>8. SpentIn(table, index, c) = Moved(table, Having(table, month, "category", c), "out")
  <2>1. Having(table, month, "category", c)
          = {u \in RealRows(table) : Month(table[u]) = index /\ table[u].category = c}
    BY DEF Having
  <2>2. SpentIn(table, index, c) = Sum(table, Having(table, month, "category", c), Out)
    <3> HIDE DEF month, index
    <3> QED
      BY <2>1 DEF SpentIn, Sum
  <2> HIDE DEF month, index
  <2> QED
    BY <2>2, SumIsMoved
<1> HIDE DEF insight, period, month, index
<1> QED
  BY <1>6, <1>7, <1>8

\* A contact's recurring payments are what was paid to him.
LEMMA RecurringTallies ==
  ASSUME NEW table, Sheet(table)
  PROVE  RecurringTally(table)
<1> DEFINE recurring == Recurring(table, MinOccurrences)
           outs == {t \in RealRows(table) : table[t].amount < 0}
           group(g) == {t \in outs : Signature(table[t]) = g}
           known == {t \in RealRows(table) : table[t].contact # None}
<1>1. SUFFICES ASSUME NEW g \in DOMAIN recurring, g[1] = "contact"
               PROVE  recurring[g].paid = TopContacts(table, Always)[g[2]]
  <2> HIDE DEF recurring
  <2> QED
    BY DEF RecurringTally, recurring
<1>2. recurring[g].paid = Sum(table, group(g), Out) /\ g \in {Signature(table[t]) : t \in outs}
  BY DEF Recurring
<1>3. PICK t \in outs : g = Signature(table[t])
  BY <1>2
<1>4. table[t].contact # None /\ g[2] = table[t].contact /\ g = <<"contact", table[t].contact>>
  BY <1>1, <1>3 DEF Signature
<1>5. TopContacts(table, Always) = Breakdown(table, known, "contact", "out")
  <2>1. InPeriod(table, Always) = RealRows(table)
    BY RowsOfAlways
  <2> QED
    BY <2>1 DEF TopContacts
<1>6. known \in SUBSET Tx
  BY DEF RealRows, Sheet
<1> DEFINE his == Having(table, known, "contact", g[2])
<1>7. g[2] \in DOMAIN Breakdown(table, known, "contact", "out")
  <2>1. t \in known /\ Value(table[t], "out") > 0 /\ g[2] = table[t]["contact"]
    BY <1>3, <1>4 DEF Value, Out, RealRows, Sheet
  <2> HIDE DEF known
  <2>2. \A u \in known : Value(table[u], "out") > 0 =>
          table[u]["contact"] \in DOMAIN Breakdown(table, known, "contact", "out")
    BY <1>6, BreakdownIs
  <2> QED
    BY <2>1, <2>2
<1>8. TopContacts(table, Always)[g[2]] = Moved(table, his, "out")
  <2> HIDE DEF known
  <2>1. \A k : Of(Breakdown(table, known, "contact", "out"), k)
                 = Moved(table, Having(table, known, "contact", k), "out")
    BY <1>6, BreakdownIs
  <2> QED
    BY <1>5, <1>7, <2>1 DEF Of
<1>9. group(g) \in SUBSET his /\ his \in SUBSET Tx
      /\ \A u \in his \ group(g) : Value(table[u], "out") = 0
  <2>1. his = {u \in known : table[u].contact = g[2]}
    BY DEF Having
  <2>2. his \in SUBSET Tx
    BY <1>6, <2>1
  <2>3. \A u \in RealRows(table) : Signature(table[u]) = g <=> table[u].contact # None /\ table[u].contact = g[2]
    BY <1>4 DEF Signature
  <2>4. \A u \in his \ group(g) : table[u].amount \in Int /\ ~ (table[u].amount < 0)
    <3>1. \A u \in his : u \in RealRows(table) /\ u \in Tx
      BY <2>1, <2>2
    <3> HIDE DEF his
    <3> QED
      BY <2>1, <2>3, <3>1 DEF Sheet
  <2>5. group(g) \in SUBSET his
    <3> HIDE DEF his
    <3> QED
      BY <2>1, <2>3
  <2> HIDE DEF group, his
  <2> QED
    BY <2>2, <2>4, <2>5 DEF Value, Out
<1>10. Moved(table, group(g), "out") = Moved(table, his, "out")
  <2> HIDE DEF group, his
  <2> QED
    BY <1>9, MovedIs
<1>11. recurring[g].paid = Moved(table, group(g), "out")
  <2> HIDE DEF group, recurring
  <2> QED
    BY <1>2, SumIsMoved
<1> QED
  BY <1>8, <1>10, <1>11

\* Small sums by category are all of the small sums, and those a part of the whole.
LEMMA MicroTallies ==
  ASSUME NEW table, Sheet(table)
  PROVE  MicroTally(table)
<1> DEFINE small == {t \in RealRows(table) : Out(table[t]) \in 1..Threshold}
           micro == MicroSpend(table, Threshold)
<1>1. small \in SUBSET RealRows(table) /\ RealRows(table) \in SUBSET Tx /\ small \in SUBSET Tx
  BY DEF RealRows, Sheet
<1>2. /\ micro.total = Sum(table, small, Out)
      /\ micro.categories = Breakdown(table, small, "category", "out")
  BY DEF MicroSpend
<1>3. Summary(table, 0).total.expense = Moved(table, RealRows(table), "out")
  BY SumIsMoved DEF Summary, Totals
<1> HIDE DEF small, micro
<1>4. micro.total = Moved(table, small, "out")
  BY <1>2, SumIsMoved
<1>5. SumFunction(micro.categories) = Moved(table, small, "out")
  <2>1. SumFunction(Breakdown(table, small, "category", "out")) = Moved(table, small, "out")
    BY <1>1, BreakdownIs
  <2> QED
    BY <1>2, <2>1
<1>6. Moved(table, small, "out") <= Moved(table, RealRows(table), "out")
  BY <1>1, MovedIs
<1> QED
  BY <1>3, <1>4, <1>5, <1>6 DEF MicroTally, micro

------------------------------------------------------------------------------
(* The invariant holds, and with it what the reader of a report relies on.   *)

\* At first there are no debts, no events and no budgets.
LEMMA InitInv ==
  ASSUME Init
  PROVE  MoneyInv
<1>1. DebtInv
  BY FS_EmptySet DEF Init, DebtsInit, DebtInv, DebtsTypeOK, Jobs, Finite, Informed, Marked, Changing
<1>2. BudgetInv
  BY MoneyAssumption DEF Init, DebtsInit, BudgetInv, Tables, Budgeted, Knows, AsWished, BudgetsOf, Imported
<1> QED
  BY <1>1, <1>2 DEF MoneyInv

\* Every step of a session keeps the invariant.
LEMMA StepInv ==
  ASSUME MoneyInv, [Next]_vars
  PROVE  MoneyInv'
<1>1. CASE UNCHANGED vars
  <2>1. UNCHANGED <<debts, entries, job, calm, pc, rows, budgetVars>>
    BY <1>1 DEF vars, debtVars
  <2>2. DebtInv'
    BY <2>1, DebtsStay DEF MoneyInv, DebtInv, Jobs
  <2> QED
    BY <2>1, <2>2, BudgetsStay DEF MoneyInv
<1>2. CASE Next
  BY <1>2, DebtsNextInv, ChangeRowInv, BeginBudgetInv, CommitBudgetInv, DeleteBudgetInv DEF Next
<1> QED
  BY <1>1, <1>2

\* In every reachable state the marks of calm debts and the budgets are right, and
\* requests hold what they have read.
THEOREM MoneyInvariant == Spec => []MoneyInv
<1>1. Init => MoneyInv
  BY InitInv
<1>2. MoneyInv /\ [Next]_vars => MoneyInv'
  BY StepInv
<1> QED
  BY <1>1, <1>2, PTL DEF Spec

\* The tables keep their types: every event belongs to a debt that exists, and
\* every budget to a category and a period.
THEOREM Types == Spec => []TypeOK
<1>1. MoneyInv => TypeOK
  BY DEF MoneyInv, DebtInv, BudgetInv, Tables, TypeOK
<1> QED
  BY <1>1, MoneyInvariant, PTL

\* The sums owed are exact, whatever number of requests have changed the book.
LEMMA MarkedOwedExact ==
  ASSUME MoneyInv
  PROVE  OwedExact
<1>1. SUFFICES ASSUME NEW way \in Way, {d \in DOMAIN debts : debts[d].way = way} \subseteq calm
               PROVE  Owed(way) = SumFunction([d \in {d \in DOMAIN debts : debts[d].way = way} |->
                                    IF Outstanding(d) > 0 THEN Outstanding(d) ELSE 0])
  BY DEF OwedExact
<1> DEFINE D == {d \in DOMAIN debts : debts[d].way = way}
           S == {d \in DOMAIN debts : debts[d].way = way /\ debts[d].status = "open"}
           f == [d \in D |-> IF Outstanding(d) > 0 THEN Outstanding(d) ELSE 0]
<1>2. \A d \in D : Outstanding(d) \in Int /\ (IF debts[d].status = "open" THEN Outstanding(d) >= 0
                                                             ELSE Outstanding(d) <= 0)
  <2>1. SUFFICES ASSUME NEW d \in D
                 PROVE  Outstanding(d) \in Int /\ (IF debts[d].status = "open" THEN Outstanding(d) >= 0
                                                             ELSE Outstanding(d) <= 0)
    OBVIOUS
  <2>2. Repaid(entries, d) \in Int
    BY RepaidType DEF MoneyInv, DebtInv, Finite, DebtsTypeOK
  <2>3. debts[d].principal \in Int
    <3>1. \A t \in Tx : Size(t) \in Int
      BY DebtsAssumption DEF Size
    <3>2. debts[d].principal \in Sums \cup {Size(t) : t \in Tx}
      BY DEF MoneyInv, DebtInv, DebtsTypeOK, Debt
    <3>3. \A v \in Sums : v \in Int
      BY DebtsAssumption
    <3> QED
      BY <3>1, <3>2, <3>3
  <2>4. Fits(d, Repaid(entries, d))
    BY <1>1 DEF MoneyInv, DebtInv, Marked
  <2> QED
    BY <2>2, <2>3, <2>4 DEF Outstanding, Fits, RefreshStatus
<1>3. DOMAIN f = D /\ IsFiniteSet(D) /\ S \in SUBSET D
  BY FS_Subset DEF MoneyInv, DebtInv, Finite
<1>4. /\ \A d \in D : f[d] \in Int
      /\ \A d \in D \ S : f[d] = 0
      /\ \A d \in S : f[d] = Outstanding(d)
  BY <1>2
<1>5. SumFunction(f) = SumFunction([d \in S |-> f[d]])
  <2> HIDE DEF D, S, f
  <2> QED
    BY <1>3, <1>4, SumFunctionZeros
<1>6. [d \in S |-> f[d]] = [d \in S |-> Outstanding(d)]
  <2> HIDE DEF D, S, f
  <2> QED
    BY <1>4
<1> QED
  BY <1>5, <1>6 DEF Owed

\* OwedExact: the summary, which goes by the settled marks, owes what the events
\* leave unpaid, of every debt whose last change no other one overlapped.
THEOREM OwedIsExact == Spec => []OwedExact
BY MoneyInvariant, MarkedOwedExact, PTL

\* BudgetShown: the status judges a month by the amount the user set last for it, or
\* else for all months, unless lookup and insert ever left two budgets for all months
\* or the last setting wrote nothing and missed a change.
THEOREM BudgetIsShown == Spec => []BudgetShown
<1>1. ASSUME MoneyInv PROVE BudgetShown
  <2>1. SUFFICES ASSUME NEW c \in Category, NEW m \in Period \ {Default}, NEW k,
                        k = IF <<c, m>> \in DOMAIN wish THEN <<c, m>> ELSE <<c, Default>>,
                        k \notin twins
        PROVE  {status.amount : status \in BudgetStatus(rows, budgets, c, m)}
                 = IF k \in DOMAIN wish THEN {wish[k]} ELSE {}
    BY DEF BudgetShown
  <2>2. /\ <<c, m>> \in Key /\ <<c, Default>> \in Key /\ <<c, m>> \notin twins
    BY <1>1 DEF Key, Period, MoneyInv, BudgetInv, Tables
  <2>3. {status.amount : status \in BudgetStatus(rows, budgets, c, m)}
          = {budgets[b].amount : b \in BudgetsFor(budgets, c, m)}
    <3> DEFINE status(b) == [amount |-> budgets[b].amount, spent |-> BudgetSpent(rows, c, m),
                             over |-> BudgetSpent(rows, c, m) > budgets[b].amount]
    <3>1. \A b : status(b).amount = budgets[b].amount
      OBVIOUS
    <3>2. BudgetStatus(rows, budgets, c, m) = {status(b) : b \in BudgetsFor(budgets, c, m)}
      BY DEF BudgetStatus
    <3> HIDE DEF status
    <3> QED
      BY <3>1, <3>2
  <2>4. BudgetsFor(budgets, c, m) = IF BudgetsOf(<<c, m>>) # {} THEN BudgetsOf(<<c, m>>)
                                    ELSE BudgetsOf(<<c, Default>>)
    BY DEF BudgetsFor, BudgetsOf
  <2>5. AsWished(<<c, m>>) /\ AsWished(k)
    BY <1>1, <2>1, <2>2 DEF MoneyInv, BudgetInv, Budgeted
  <2>6. CASE <<c, m>> \in DOMAIN wish
    BY <2>1, <2>3, <2>4, <2>5, <2>6 DEF AsWished
  <2>7. CASE <<c, m>> \notin DOMAIN wish
    <3>1. BudgetsOf(<<c, m>>) = {} /\ k = <<c, Default>>
      BY <2>1, <2>5, <2>7 DEF AsWished
    <3> QED
      BY <2>1, <2>3, <2>4, <2>5, <3>1 DEF AsWished
  <2> QED
    BY <2>6, <2>7
<1> QED
  BY <1>1, MoneyInvariant, PTL

\* What a step makes of the rows keeps their amounts and days.
LEMMA StepSheet ==
  ASSUME MoneyInv, [Next]_vars
  PROVE  Sheet(rows')
<1>1. MoneyInv'
  BY StepInv
<1>2. DOMAIN rows' = Tx /\ \A t \in Tx : rows'[t].amount = Worth[t] /\ rows'[t].day = Day[t]
  BY <1>1 DEF MoneyInv, BudgetInv, Tables
<1> QED
  BY <1>2, DebtsAssumption, MoneyAssumption DEF Sheet

\* MonthsAgree: breakdowns, which ask for the days of a month, add up to what summary,
\* series and budgets find by its number, for every calendar of days and amounts.
THEOREM MonthsDoAgree == Spec => MonthsAgree
<1>1. ASSUME MoneyInv, [Next]_vars
      PROVE  \A table \in {rows'} : (\A m \in Months : MonthTally(table, m)) /\ TotalTally(table)
  <2>1. Sheet(rows')
    BY <1>1, StepSheet
  <2> QED
    BY <2>1, MonthTallies, TotalTallies
<1>2. MoneyInv /\ [Next]_vars =>
        [rows' # rows => \A table \in {rows'} :
           (\A m \in Months : MonthTally(table, m)) /\ TotalTally(table)]_vars
  BY <1>1
<1> QED
  BY <1>2, MoneyInvariant, PTL DEF Spec, MonthsAgree

\* InsightsAgree: the month compared, a contact's recurring payments and the small
\* sums are what the breakdowns make of the same rows.
THEOREM InsightsDoAgree == Spec => InsightsAgree
<1>1. ASSUME MoneyInv, [Next]_vars
      PROVE  \A table \in {rows'} : ComparedTally(table) /\ RecurringTally(table) /\ MicroTally(table)
  <2>1. Sheet(rows')
    BY <1>1, StepSheet
  <2> QED
    BY <2>1, ComparedTallies, RecurringTallies, MicroTallies
<1>2. MoneyInv /\ [Next]_vars =>
        [rows' # rows => \A table \in {rows'} :
           ComparedTally(table) /\ RecurringTally(table) /\ MicroTally(table)]_vars
  BY <1>1
<1> QED
  BY <1>2, MoneyInvariant, PTL DEF Spec, InsightsAgree
==============================================================================
