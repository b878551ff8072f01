--------------------------------- MODULE Money ---------------------------------
(***************************************************************************)
(* Where the user's money went: the debt book, the budgets and the reports *)
(* over the bank rows.  Labels, links and answers that change the rows are *)
(* modelled elsewhere; here a row's columns just change.                   *)
(*                                                                         *)
(* Setting a budget looks for the row to update and, in a later statement, *)
(* updates it or inserts one: two requests overlap in between.  The unique *)
(* key binds the budgets of a month and not the defaults, whose year and   *)
(* month are null.                                                         *)
(***************************************************************************)
EXTENDS Debts, Reports

CONSTANTS
  Opened,      \* the rows other components change
  Day,         \* the day <<year, month, day>> of each row
  Payee,       \* the identifier each row is known by
  Contact,     \* contacts rows are given
  KnownAs,     \* the contact each row has at the start, or None
  Category,    \* categories with a budget
  Months,      \* months <<year, month>> the user looks at
  BudgetId,    \* ids of budgets, a bound on their number
  Threshold,   \* setting micro_spend_threshold_rial
  Lookback, Factor, MinOccurrences  \* parameters of the insights

ASSUME MoneyAssumption ==
  /\ IsFiniteSet(Tx) /\ Tx # {} /\ Opened \subseteq Tx
  /\ Day \in [Tx -> Dates] /\ Months \subseteq Nat \X (1..12)
  /\ DOMAIN Payee = Tx /\ KnownAs \in [Tx -> Contact \cup {None}]
  /\ None \notin Category \cup Contact \cup BudgetId
  /\ {Threshold, Lookback, MinOccurrences} \subseteq Nat

VARIABLES
  rows,     \* table "transaction"
  budgets,  \* table budget
  wish,     \* history: <<category, period>> -> the amount last set, until it is deleted
  twins     \* history: keys that ever had two budgets

budgetVars == <<budgets, wish, twins>>
vars == <<debtVars, pc, requests, rows, budgetVars>>

Period == {MonthIndex(m[1], m[2]) : m \in Months} \cup {Default}
Key    == Category \X Period
Amount == Sums \cup {0}

\* The columns reports read.  A row is imported with its category unknown.
Imported(t) ==
  [amount |-> Worth[t], day |-> Day[t], payee |-> Payee[t], category |-> None,
   contact |-> KnownAs[t], own |-> FALSE, reversed |-> FALSE, income |-> "open", review |-> TRUE]

Init ==
  /\ DebtsInit
  /\ rows = [t \in Tx |-> Imported(t)]
  /\ budgets = [b \in {} |-> NoJob]
  /\ wish = [k \in {} |-> 0] /\ twins = {}

------------------------------------------------------------------------------
(* What other components do to a row.                                       *)
ChangeRow(s) ==
  /\ Begins(s)
  /\ \E t \in Opened :
       \/ \E c \in Category : rows' = [rows EXCEPT ![t].category = c, ![t].review = FALSE]
       \/ \E c \in Contact \cup {None} : rows' = [rows EXCEPT ![t].contact = c]
       \/ \E b \in BOOLEAN : rows' = [rows EXCEPT ![t].own = b]
       \/ \E b \in BOOLEAN : rows' = [rows EXCEPT ![t].reversed = b]
       \/ \E answer \in {"yes", "no"} : rows' = [rows EXCEPT ![t].income = answer]
  /\ UNCHANGED <<debtVars, pc, budgetVars>>

------------------------------------------------------------------------------
(* Budgets                                                                  *)

BudgetsOf(k) == {b \in DOMAIN budgets : <<budgets[b].category, budgets[b].period>> = k}

\* Mutant: the category's budget of whatever period is taken.
FoundForAnyPeriod(k) == {b \in DOMAIN budgets : budgets[b].category = k[1]}

\* One of the rows found, if there is one.
Found(k) == BudgetsOf(k)

\* POST /budgets, up to its look at the table.  A row that is found has something
\* to be written to it only if its amount as loaded is another.
BeginBudget(s) ==
  /\ Begins(s)
  /\ \E k \in Key, amount \in Amount :
       \E found \in IF Found(k) = {} THEN {None} ELSE Found(k) :
         job' = [job EXCEPT ![s] =
           [key |-> k, amount |-> amount, found |-> found,
            writes |-> found = None \/ budgets[found].amount # amount]]
  /\ Goto(s, "budget")
  /\ UNCHANGED <<debts, entries, calm, rows, budgetVars>>

\* Ids are a sequence of the database: none that a session still holds is given again.
FreeBudgets == BudgetId \ (DOMAIN budgets \cup {job[s].found : s \in {r \in Session : pc[r] = "budget"}})

\* There was none, and of a month there is none yet: the unique key.
InsertBudget(j) ==
  /\ j.found = None
  /\ j.key[2] # Default => BudgetsOf(j.key) = {}
  /\ \E b \in FreeBudgets :
       budgets' = With(budgets, b, [category |-> j.key[1], period |-> j.key[2], amount |-> j.amount])
  /\ twins' = IF BudgetsOf(j.key) = {} THEN twins ELSE twins \cup {j.key}
  /\ wish' = With(wish, j.key, j.amount)

\* The row found gets its new amount.
UpdateBudget(j) ==
  /\ j.found # None /\ j.writes /\ j.found \in DOMAIN budgets
  /\ budgets' = [budgets EXCEPT ![j.found].amount = j.amount]
  /\ wish' = With(wish, j.key, j.amount)
  /\ UNCHANGED twins

\* Nothing to write: the request is answered like an update, whatever became of the
\* row since it looked.
KeepBudget(j) ==
  /\ j.found # None /\ ~j.writes
  /\ UNCHANGED budgetVars

\* The row to be written is gone, or the key of its month has been taken.
RefuseBudget(j) ==
  /\ j.writes
  /\ IF j.found # None THEN j.found \notin DOMAIN budgets
     ELSE j.key[2] # Default /\ BudgetsOf(j.key) # {}
  /\ UNCHANGED budgetVars

CommitBudget(s) ==
  /\ pc[s] = "budget" /\ Goto(s, "idle")
  /\ job' = [job EXCEPT ![s] = NoJob]
  /\ \/ InsertBudget(job[s]) \/ UpdateBudget(job[s])
     \/ KeepBudget(job[s]) \/ RefuseBudget(job[s])
  /\ UNCHANGED <<debts, entries, calm, requests, rows>>

\* DELETE /budgets/{id}
DeleteBudget(s) ==
  /\ Begins(s)
  /\ \E b \in DOMAIN budgets : LET k == <<budgets[b].category, budgets[b].period>> IN
       /\ budgets' = Restrict(budgets, DOMAIN budgets \ {b})
       /\ wish' = Restrict(wish, DOMAIN wish \ {k})
  /\ UNCHANGED <<debtVars, pc, rows, twins>>

------------------------------------------------------------------------------
Next == \E s \in Session :
  \/ DebtsNext(s) /\ UNCHANGED <<rows, budgetVars>>
  \/ ChangeRow(s)
  \/ BeginBudget(s) \/ CommitBudget(s) \/ DeleteBudget(s)

Spec == Init /\ [][Next]_vars

------------------------------------------------------------------------------
(* Properties                                                               *)

Of(f, k) == IF k \in DOMAIN f THEN f[k] ELSE 0

\* Types of the tables here, and of the debt book's.
TypeOK ==
  /\ DebtsTypeOK
  /\ \A s \in Session : pc[s] = "budget" => job[s].key \in Key /\ job[s].found \in BudgetId \cup {None}
  /\ \A t \in Tx : rows[t].category \in Category \cup {None} /\ rows[t].contact \in Contact \cup {None}
  /\ DOMAIN budgets \subseteq BudgetId
  /\ \A b \in DOMAIN budgets : <<budgets[b].category, budgets[b].period>> \in Key /\ budgets[b].amount \in Amount
  /\ DOMAIN wish \subseteq Key /\ (\A k \in DOMAIN wish : wish[k] \in Amount)
  /\ twins \subseteq Category \X {Default}

MonthTally(table, m) ==
  LET index == MonthIndex(m[1], m[2])
      spent == ByCategory(table, MonthRange(m[1], m[2]), "out")
      got   == ByCategory(table, MonthRange(m[1], m[2]), "in")
      month == Summary(table, index).month
  IN  /\ SumFunction(spent) = month.expense /\ SumFunction(got) = month.income
      /\ index \in DOMAIN MonthlySeries(table) => MonthlySeries(table)[index] = month
      /\ \A c \in Category : BudgetSpent(table, c, index) = Of(spent, c)

TotalTally(table) ==
  LET series == MonthlySeries(table)
  IN  SumFunction([m \in DOMAIN series |-> series[m].expense]) = Summary(table, 0).total.expense

\* Whatever changes in a row, the breakdown of a month by category, which asks for
\* days of the other calendar, adds up to the month's spending and income in the
\* summary, the series and the budgets, which go by the month's number; the months
\* add up to the total.
MonthsAgree ==
  [][rows' # rows => \A table \in {rows'} :
       (\A m \in Months : MonthTally(table, m)) /\ TotalTally(table)]_vars

ComparedTally(table) ==
  LET insight == MonthOverMonth(table, Lookback, Factor)
      series  == MonthlySeries(table)
      spent   == {m \in DOMAIN series : series[m].expense > 0}
      index   == Max(spent)
  IN  spent # {} =>
        \A c \in DOMAIN insight :
          insight[c].current = Of(ByCategory(table, MonthRange(YearOf(index), MonthOf(index)), "out"), c)

RecurringTally(table) ==
  LET recurring == Recurring(table, MinOccurrences)
  IN  \A g \in DOMAIN recurring :
        g[1] = "contact" => recurring[g].paid = TopContacts(table, Always)[g[2]]

MicroTally(table) ==
  LET micro == MicroSpend(table, Threshold)
  IN  SumFunction(micro.categories) = micro.total /\ micro.total <= Summary(table, 0).total.expense

\* The insights tell of the same money as the breakdowns, whatever changes in a row:
\* the month that is compared is the breakdown of the last month that has spending,
\* a contact's recurring payments are all that was ever paid to him, and small sums
\* are part of the whole.
InsightsAgree ==
  [][rows' # rows => \A table \in {rows'} :
       ComparedTally(table) /\ RecurringTally(table) /\ MicroTally(table)]_vars

\* The amount a category is judged by in a month is the last one the user set for
\* that month, 0 included, or else for all months, and deleting it brings back the
\* other.  A setting counts when it commits, one that found its amount there already
\* and writes nothing when it looked.  Where two requests for all months overlapped
\* and left two budgets nothing is said.
BudgetShown ==
  \A c \in Category, m \in Period \ {Default} :
    LET k == IF <<c, m>> \in DOMAIN wish THEN <<c, m>> ELSE <<c, Default>>
    IN  k \notin twins =>
          {status.amount : status \in BudgetStatus(rows, budgets, c, m)}
            = IF k \in DOMAIN wish THEN {wish[k]} ELSE {}

\* Money entered as a debt's principal is not counted as spending.
DebtNotSpending ==
  Summary(rows, 0).total.expense =
    Sum(rows, {t \in RealRows(rows) : \A e \in DOMAIN entries :
                 entries[e].kind = "principal" => entries[e].tx # t}, Out)
=============================================================================
