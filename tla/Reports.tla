-------------------------------- MODULE Reports --------------------------------
(***************************************************************************)
(* The reports of services/analytics.py, as operators on the rows of table *)
(* "transaction": each a sum over the real rows, grouped in its own way.   *)
(* Every real division is left as a comparison of products.                *)
(***************************************************************************)
EXTENDS Jalali, Sequences, SequencesExt

None == "none"

\* A row: its day, the identifier recurring payments are known by, and the
\* columns other components write.
Real(x) == ~x.own /\ ~x.reversed

Out(x)       == IF x.amount < 0 THEN -x.amount ELSE 0
In(x)        == IF x.income = "yes" /\ x.amount > 0 THEN x.amount ELSE 0
PendingIn(x) == IF x.income = "open" /\ x.amount > 0 THEN x.amount ELSE 0

Date(x)  == Ordinal(x.day[1], x.day[2], x.day[3])
Month(x) == MonthIndex(x.day[1], x.day[2])

RealRows(rows) == {t \in DOMAIN rows : Real(rows[t])}

Sum(rows, ts, worth(_)) == SumFunction([t \in ts |-> worth(rows[t])])

Totals(rows, ts) ==
  [income |-> Sum(rows, ts, In), expense |-> Sum(rows, ts, Out), count |-> Cardinality(ts)]

\* The months with real rows and what each brought: all of them.
MonthlySeries(rows) ==
  [m \in {Month(rows[t]) : t \in RealRows(rows)} |->
     Totals(rows, {t \in RealRows(rows) : Month(rows[t]) = m})]

Summary(rows, m) ==
  [month   |-> Totals(rows, {t \in RealRows(rows) : Month(rows[t]) = m}),
   total   |-> Totals(rows, RealRows(rows)),
   selfOut |-> Sum(rows, {t \in DOMAIN rows : rows[t].own}, Out),
   review  |-> Cardinality({t \in RealRows(rows) : rows[t].review}),
   pending |-> Sum(rows, RealRows(rows), PendingIn)]

------------------------------------------------------------------------------
(* Breakdowns: a GROUP BY over a period, of the groups with a positive sum.  *)

\* A period is a set of days, that of no bounds every day.
Always == Int

InPeriod(rows, period) == {t \in RealRows(rows) : Date(rows[t]) \in period}

Breakdown(rows, ts, column, way) ==
  LET worth(x) == IF way = "out" THEN Out(x) ELSE In(x)
      group(k) == {t \in ts : rows[t][column] = k}
      keys     == {rows[t][column] : t \in {t \in ts : worth(rows[t]) > 0}}
  IN  [k \in keys |-> Sum(rows, group(k), worth)]

\* Rows without a category are a group of their own.
ByCategory(rows, period, way) == Breakdown(rows, InPeriod(rows, period), "category", way)

\* All contacts: the limit is left out.
TopContacts(rows, period) ==
  Breakdown(rows, {t \in InPeriod(rows, period) : rows[t].contact # None}, "contact", "out")

MicroSpend(rows, threshold) ==
  LET small == {t \in RealRows(rows) : Out(rows[t]) \in 1..threshold}
  IN  [count |-> Cardinality(small), total |-> Sum(rows, small, Out),
       categories |-> Breakdown(rows, small, "category", "out")]

------------------------------------------------------------------------------
(* month_over_month, with the factor as a fraction <<over, under>>.           *)

SpentIn(rows, m, c) ==
  Sum(rows, {t \in RealRows(rows) : Month(rows[t]) = m /\ rows[t].category = c}, Out)

\* Mutant: a month that has only deposits counts as well.
SpendingMonthsAll(rows) == {Month(rows[t]) : t \in RealRows(rows)}

SpendingMonths(rows) == {Month(rows[t]) : t \in {t \in RealRows(rows) : Out(rows[t]) > 0}}

\* The last month that has spending is compared with those before it that have.
MonthOverMonth(rows, lookback, factor) ==
  LET months    == SpendingMonths(rows)
      last      == Max(months)
      previous  == {m \in months \ {last} : Cardinality({k \in months : k > m}) <= lookback}
      before(c) == SumFunction([m \in previous |-> SpentIn(rows, m, c)])
      now(c)    == SpentIn(rows, last, c)
      spending  == {rows[t].category : t \in {t \in RealRows(rows) : Out(rows[t]) > 0}}
  IN  [c \in spending |->
        [current |-> now(c), before |-> before(c), months |-> Cardinality(previous),
         spike   |-> /\ before(c) > 0
                     /\ now(c) * Cardinality(previous) * factor[2] > before(c) * factor[1]]]

------------------------------------------------------------------------------
(* recurring                                                                *)

Signature(x) == IF x.contact # None THEN <<"contact", x.contact>> ELSE <<"payee", x.payee>>

\* (name, low, high, times a year); a median of two gaps is their mean, so gaps
\* are counted in half days.
Patterns == << <<"weekly", 6, 8, 52>>, <<"fortnightly", 12, 16, 26>>, <<"monthly", 25, 36, 12>>,
               <<"bimonthly", 55, 66, 6>>, <<"quarterly", 85, 96, 4>>, <<"yearly", 350, 380, 1>> >>

Gaps(rows, ts) ==
  LET dates == SortSeq(SetToSeq({<<t, Date(rows[t])>> : t \in ts}), LAMBDA a, b : a[2] < b[2])
      gaps  == [k \in 1..(Len(dates) - 1) |-> dates[k + 1][2] - dates[k][2]]
  IN  SortSeq(SelectSeq(gaps, LAMBDA g : g > 0), <)

TwiceMedian(s) == s[(Len(s) + 1) \div 2] + s[Len(s) \div 2 + 1]

\* The standard deviation of the amounts is at most 0.35 of their mean.
Steady(rows, ts) ==
  LET n == Cardinality(ts)
      total == Sum(rows, ts, Out)
      squares == Sum(rows, ts, LAMBDA x : Out(x) * Out(x))
  IN  10000 * (n * squares - total * total) <= 1225 * total * total

Cadences(rows, ts) ==
  {k \in DOMAIN Patterns : /\ 2 * Patterns[k][2] <= TwiceMedian(Gaps(rows, ts))
                           /\ TwiceMedian(Gaps(rows, ts)) <= 2 * Patterns[k][3]}

Recurring(rows, min) ==
  LET outs      == {t \in RealRows(rows) : rows[t].amount < 0}
      group(g)  == {t \in outs : Signature(rows[t]) = g}
      regular(g) == /\ Cardinality(group(g)) >= min /\ Gaps(rows, group(g)) # <<>>
                    /\ Cadences(rows, group(g)) # {} /\ Steady(rows, group(g))
      perYear(g) == Patterns[CHOOSE k \in Cadences(rows, group(g)) : TRUE][4]
  IN  [g \in {h \in {Signature(rows[t]) : t \in outs} : regular(h)} |->
        [paid |-> Sum(rows, group(g), Out), times |-> Cardinality(group(g)),
         annual |-> (Sum(rows, group(g), Out) * perYear(g)) \div Cardinality(group(g))]]

------------------------------------------------------------------------------
(* Budgets                                                                  *)

Default == 0  \* the period of a budget without year and month

\* The budgets a category may be judged by in a month: the month's own, or else
\* one of the defaults, of several whichever the query returns first.
BudgetsFor(budgets, c, m) ==
  LET of(period) == {b \in DOMAIN budgets : budgets[b].category = c /\ budgets[b].period = period}
  IN  IF of(m) # {} THEN of(m) ELSE of(Default)

\* Mutant: own transfers and reversed rows are spending as well.
BudgetSpentAll(rows, c, m) ==
  Sum(rows, {t \in DOMAIN rows : Month(rows[t]) = m /\ rows[t].category = c}, Out)

BudgetSpent(rows, c, m) ==
  Sum(rows, {t \in RealRows(rows) : Month(rows[t]) = m /\ rows[t].category = c}, Out)

BudgetStatus(rows, budgets, c, m) ==
  {[amount |-> budgets[b].amount, spent |-> BudgetSpent(rows, c, m),
    over |-> BudgetSpent(rows, c, m) > budgets[b].amount] : b \in BudgetsFor(budgets, c, m)}
=============================================================================
