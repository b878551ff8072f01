--------------------------------- MODULE Debts ---------------------------------
(***************************************************************************)
(* The debt book of api/routes/debts.py: money lent to a person or         *)
(* borrowed, with the events of each debt and the mark "settled" that the  *)
(* summary goes by.                                                        *)
(*                                                                         *)
(* A request that changes the events of a debt inserts or deletes one,     *)
(* reads the debt again, then its events, and at the commit writes the     *)
(* mark if it differs from the one read: other requests run in between.    *)
(* What it inserted or deleted is seen by nobody until then, and whoever   *)
(* deletes the debt or the same event waits for it.                        *)
(***************************************************************************)
EXTENDS Integers, Functions

CONSTANTS
  Session,     \* worker threads of the server
  DebtId,      \* ids of debts, a bound on their number
  EntryId,     \* ids of events, a bound on their number
  Sums,        \* sums the user types
  Tx,          \* bank rows
  Worth,       \* their signed amounts
  Lent,        \* the rows the user takes for the money of a debt
  MaxRequests  \* bound on the number of requests of a run

ASSUME DebtsAssumption ==
  /\ Sums \subseteq Nat \ {0} /\ Worth \in [Tx -> Int]
  /\ Lent \subseteq Tx /\ MaxRequests \in Nat

VARIABLES
  debts,    \* table debt
  entries,  \* table debt_entry
  pc,       \* where each session is in its request
  job,      \* what it is to insert or delete and what it has read
  calm,     \* history: debts whose last change no other one overlapped
  requests  \* history: requests so far

debtVars == <<debts, entries, job, calm>>

NoTx    == "no transaction"
Way     == {"lent", "borrowed"}
Size(t) == IF Worth[t] < 0 THEN -Worth[t] ELSE Worth[t]

Debt  == [way : Way, principal : Sums \cup {Size(t) : t \in Tx}, status : {"open", "settled"}]
Entry == [debt : DebtId, kind : {"principal", "repayment"},
          amount : Sums \cup {Size(t) : t \in Tx}, tx : Tx \cup {NoTx}]

NoJob == [op |-> "none"]

DebtsInit ==
  /\ debts = [d \in {} |-> NoJob] /\ entries = [e \in {} |-> NoJob]
  /\ pc = [s \in Session |-> "idle"] /\ job = [s \in Session |-> NoJob]
  /\ calm = DebtId
  /\ requests = 0

Begins(s) == pc[s] = "idle" /\ requests < MaxRequests /\ requests' = requests + 1

Goto(s, where) == pc' = [pc EXCEPT ![s] = where]

With(f, k, v) == [x \in DOMAIN f \cup {k} |-> IF x = k THEN v ELSE f[x]]

------------------------------------------------------------------------------
\* POST /debts
CreateDebt(s) ==
  /\ Begins(s)
  /\ \E d \in DebtId \ DOMAIN debts, way \in Way, principal \in Sums :
       debts' = With(debts, d, [way |-> way, principal |-> principal, status |-> "open"])
  /\ UNCHANGED <<entries, pc, job, calm>>

\* The sessions in the middle of such a request.
Changing == {s \in Session : pc[s] \in {"events", "commit"}}

\* Ids are a sequence of the database: two sessions never get the same one.
FreeEntries == EntryId \ (DOMAIN entries \cup {job[s].entry : s \in Changing})

\* POST /debts/from-transaction, for a new debt.
DebtFromTransaction(s) ==
  /\ Begins(s)
  /\ \E d \in DebtId \ DOMAIN debts, e \in FreeEntries, way \in Way, t \in Lent :
       /\ debts' = With(debts, d, [way |-> way, principal |-> Size(t), status |-> "open"])
       /\ entries' = With(entries, e,
            [debt |-> d, kind |-> "principal", amount |-> Size(t), tx |-> t])
  /\ UNCHANGED <<pc, job, calm>>

Busy(d) == \E s \in Changing : job[s].row.debt = d

\* Mutant: the events stay.
DeleteDebtAlone(s) ==
  /\ Begins(s)
  /\ \E d \in DOMAIN debts :
       /\ ~Busy(d)
       /\ debts' = Restrict(debts, DOMAIN debts \ {d})
       /\ calm' = calm \cup {d}
  /\ UNCHANGED <<entries, pc, job>>

\* DELETE /debts/{id}: the events go with it.
DeleteDebt(s) ==
  /\ Begins(s)
  /\ \E d \in DOMAIN debts :
       /\ ~Busy(d)
       /\ debts' = Restrict(debts, DOMAIN debts \ {d})
       /\ entries' = Restrict(entries, {e \in DOMAIN entries : entries[e].debt # d})
       /\ calm' = calm \cup {d}
  /\ UNCHANGED <<pc, job>>

\* The event is inserted or deleted, and the debt read again.
Begin(s, op, e, row) ==
  /\ job' = [job EXCEPT ![s] = [op |-> op, entry |-> e, row |-> row, repaid |-> 0,
                                status |-> debts[row.debt].status, alone |-> TRUE]]
  /\ Goto(s, "events")
  /\ UNCHANGED <<debts, entries, calm>>

\* POST /debts/{id}/entries, and POST /debts/from-transaction for an open debt.
BeginAdd(s) ==
  /\ Begins(s)
  /\ \E d \in DOMAIN debts, e \in FreeEntries :
       \/ \E kind \in {"principal", "repayment"}, amount \in Sums, t \in Lent \cup {NoTx} :
            Begin(s, "add", e, [debt |-> d, kind |-> kind, amount |-> amount, tx |-> t])
       \/ \E t \in Lent :
            Begin(s, "add", e, [debt |-> d, kind |-> "repayment", amount |-> Size(t), tx |-> t])

\* DELETE /debts/entries/{id}.  A second deletion of the event would wait for this one
\* and delete nothing: none begins here meanwhile.
BeginDelete(s) ==
  /\ Begins(s)
  /\ \E e \in DOMAIN entries :
       /\ \A r \in Changing : job[r].entry # e
       /\ Begin(s, "delete", e, entries[e])

\* The table as the session sees it.
Seen(s) ==
  IF job[s].op = "add" THEN With(entries, job[s].entry, job[s].row)
                       ELSE Restrict(entries, DOMAIN entries \ {job[s].entry})

Repaid(es, d) ==
  SumFunction([e \in {e \in DOMAIN es : es[e].debt = d /\ es[e].kind = "repayment"} |->
                 es[e].amount])

ReadEvents(s) ==
  /\ pc[s] = "events" /\ Goto(s, "commit")
  /\ job' = [job EXCEPT ![s].repaid = Repaid(Seen(s), job[s].row.debt)]
  /\ UNCHANGED <<debts, entries, calm, requests>>

\* Mutant: a settled debt is never opened again.
RefreshStatusSticky(d, repaid) ==
  IF debts[d].status = "settled" \/ debts[d].principal - repaid <= 0 THEN "settled" ELSE "open"

\* _refresh_status
RefreshStatus(d, repaid) == IF debts[d].principal - repaid <= 0 THEN "settled" ELSE "open"

CommitEntry(s) ==
  /\ pc[s] = "commit" /\ Goto(s, "idle")
  /\ LET d    == job[s].row.debt
         mark == RefreshStatus(d, job[s].repaid)
     IN  /\ entries' = Seen(s)
         /\ debts' = IF mark # job[s].status THEN [debts EXCEPT ![d].status = mark] ELSE debts
         /\ calm' = IF job[s].alone THEN calm \cup {d} ELSE calm \ {d}
         /\ job' = [r \in Session |->
              IF r = s THEN NoJob
              ELSE IF r \in Changing /\ job[r].row.debt = d
                   THEN [job[r] EXCEPT !.alone = FALSE] ELSE job[r]]
  /\ UNCHANGED requests

DebtsNext(s) ==
  \/ CreateDebt(s) \/ DebtFromTransaction(s) \/ DeleteDebt(s)
  \/ BeginAdd(s) \/ BeginDelete(s) \/ ReadEvents(s) \/ CommitEntry(s)

------------------------------------------------------------------------------
Outstanding(d) == debts[d].principal - Repaid(entries, d)

\* GET /debts/summary: how much is owed to me, or by me.
Owed(way) ==
  SumFunction([d \in {d \in DOMAIN debts : debts[d].way = way /\ debts[d].status = "open"} |->
                 Outstanding(d)])

\* Types; an event belongs to a debt that exists.
DebtsTypeOK ==
  /\ DOMAIN debts \subseteq DebtId /\ debts \in [DOMAIN debts -> Debt]
  /\ DOMAIN entries \subseteq EntryId /\ entries \in [DOMAIN entries -> Entry]
  /\ \A e \in DOMAIN entries : entries[e].debt \in DOMAIN debts
  /\ \A s \in Changing : job[s].row \in Entry /\ job[s].row.debt \in DOMAIN debts

\* The sum owed each way is what people have not paid back, debt by debt, unless
\* two changes of one debt overlapped and nothing has changed it since: a debt
\* paid back is closed, opened again when a repayment is deleted, and money paid
\* back in excess is not set off against another's debt.
OwedExact ==
  \A way \in Way :
    {d \in DOMAIN debts : debts[d].way = way} \subseteq calm =>
      Owed(way) = SumFunction([d \in {d \in DOMAIN debts : debts[d].way = way} |->
                                 IF Outstanding(d) > 0 THEN Outstanding(d) ELSE 0])
=============================================================================
