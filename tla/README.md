# PersonalAccounting: models, checks and proofs

PersonalAccounting imports the spreadsheets of Iranian banks, categorises their
rows, links rows that belong together, and keeps loans, debts, a wish list,
market prices and budgets next to them. It is a FastAPI server
(`src/backend/app`) over one PostgreSQL database and a React interface
(`src/frontend`). This directory holds TLA+ modules of the parts whose
correctness depends on the order of several steps, the TLC instances that check
them, and proofs that TLAPS checks.

    tlc -workers 2 -config MCTxLinks.cfg MCTxLinks      a run
    tlapm MarketProofs.tla                              a proof module

## How the server runs

Everything below rests on four facts of the code.

* Nearly all route handlers are plain functions: FastAPI runs each request on a
  thread of a pool, with a database session of its own (`db.py:16-21`). Requests
  interleave at every commit. Three handlers are coroutines (import, its
  preview, receipt upload): they run on the event loop of the one server process
  (`entrypoint.sh:8`), so two imports never interleave and no request starts
  while one runs, but those already on threads go on. `Statements` (imports are
  single steps) and `Labels` (one import at a time) rest on that. Otherwise the
  models are more liberal: any session may serve any request at any time, and
  what holds there holds of one process, and of several.
* A session is made with `autoflush=False, expire_on_commit=False` (`db.py:9`).
  It goes on using the objects it has loaded, also after its own commit; a query
  does not see its own unflushed changes; a commit writes a column only when the
  new value differs from the one that was loaded.
* A request may commit more than once (an import commits its rows, then the
  links, then their effect). A crash or an exception between two commits leaves
  the earlier ones in force.
* There are no background tasks, queues or timers in the server. Nothing is
  retried. All work is done in requests, and the user need not make any.

The models therefore consist of requests that load in one step and commit in
another. Where a request decides nothing from what it read it is a single step.
Unique keys and vanished rows are what the database makes of them: the commit
is not enabled and the request can only end without one (`Fail`, `RollBack`,
`GiveUp`).

## Inventory

| Component | State | Operations | Interacts with | Hard behaviours | What makes it correct | Modules |
|---|---|---|---|---|---|---|
| transaction links (`services/links.py`) | `tx_link`, `is_reversed`, `is_self_transfer` | detect, apply, confirm, reject | import and re-categorisation write the same flags | three commits per request, stale rows, greedy pairing | flags say what the links in force say; pairing is disjoint, complete, nearest | LinkRules, TxLinks |
| loans (`services/loans.py`) | `loan`, `loan_installment` | create, edit, delete, pay, unpay, autolink, overdue marks on every read | bank transactions; receipts | read requests write; edits rebuild the schedule while others pay | schedule complete, marks agree with payments | Loans |
| file store (`services/filestore.py`) | `stored_file` | put, delete, import of the old folders at start | receipts of loans, pictures of wish items, statements | equal contents share a row; the last user deletes it | what is shown is stored; nothing is stored for nobody | FileStore |
| wish list (`routes/wishlist.py`) | `wish_item` | create, edit, picture, delete | file store | picture drop decided before commit | see file store | FileStore |
| market (`services/market`) | `api_call_log`, `price_point`, `market_item`, `price_alert`, `asset_holding` | refresh, backfill, seed, alerts, holdings | settings choose the provider; external services | check, log and call are three steps; answers come late | quota kept; calls counted first; alerts told | Market |
| bank importers (`importers/`) | none | parse a file, fill in balances, validate | ingest | skipped lines, banks without totals | a file that validates is complete | Statements |
| statement ingest (`services/ingest.py`) | `transaction`, `account`, `statement_import` | preview, import | links, categoriser, aliases | repeated rows and overlapping periods; accounts known by iban or number; aliases of the header | each bank row once; account found or made once | BankBook, Statements; Labels, TxLinks |
| categorisation (`services/categorize.py`) | category, contact, `needs_review`, `is_income`, `is_self_transfer` | apply to a row, re-categorise all, contact to matching rows | rules, contacts, aliases, links | two commits per request; two ways of labelling a row | what the user decided stays; both ways agree | CategoryRules, Labels |
| review and income queue (`routes/review.py`) | the same columns | label a group, dismiss, decide income | categorisation | the label goes to rows that change meanwhile | a label reaches all its rows; income only if told | Labels |
| contacts, rules, aliases | their tables | edits, each followed by labelling or re-categorisation | categorisation | deletion while a label is under way | matching follows the edit | Labels |
| transactions (`routes/transactions.py`) | `transaction` | patch, bulk edit, list | links, categorisation | edits by hand against labels under way | manual rows stay | Labels, TxLinks |
| debts (`routes/debts.py`) | `debt`, `debt_entry` | create, add and delete events, from a transaction, summary | transactions | settled mark computed from what was loaded | the sum owed is what was not paid back | Debts, Money |
| budgets (`routes/budgets.py`) | `budget` | set for a month or all months, delete, status | analytics | looked up, then inserted; null months escape the unique key | a month is judged by what was set for it | Money, Reports |
| analytics (`services/analytics.py`) | none | sums and insights over rows | all that writes rows | two calendars, flags that leave rows out | the reports agree with one another | Reports, Money |
| jalali calendar (`services/jalali.py`) | none | month lengths, adding months, ranges | reports, loans | month and leap-year ends | ranges and month numbers agree | Jalali |
| backup (`services/backup.py`) | folders on disk | create, list, prune, delete | PostgreSQL tools | names per second, failures and stops half way | what is listed is whole; the last ones stay | Backup |
| settings (`routes/settings_api.py`) | `app_setting`, `owner_alias` | edits | market, categorisation, backup | read anew at each step of a request | | Market, Labels |
| accounts (`routes/accounts.py`) | `account` | list | ingest writes it | no route edits one | | Statements |
| categories | `category` | create, edit, delete | all | deletion sets references to null | | not modelled |
| password and sessions (`auth.py`) | `app_setting`, failure counter in memory | set-up, login, change | guards every route, shares no data | first set-up race; lock doubling | | not modelled |
| seeds, migrations, web interface | | run before or outside the server | | | | not modelled |

`PROJECT.json` lists every component with its sources and how far it is
modelled, every hazard with its line, and what code each definition translates.

## Modules

### LinkRules, TxLinks, MCTxLinks: transaction links

`LinkRules` has the pairing rules as operators: windows, confidences and the
three kinds of links. What a rule reads from texts (an account number in a
description, the word for "returned", a digit run) is a constant relation
between transactions, accounts and keys: `PointsTo`, `ReversalText`, `FeeText`,
`Keys`. Times are minutes and confidences per cent.

`TxLinks` has the requests. Its variables are the columns concerned as sets of
transactions (`present`, `manual`, `own` for `is_self_transfer`, `reversed`),
`tx_link` as three sets (`links`, `confirmed`, `rejected`), and for each session
a program counter, what it has loaded (`view`), and the loop of
`detect_links` (`found`, `todo`): one withdrawal per step. `BeginApply` and
`WriteFlags` are `apply_links`; `BeginRecategorize` and `WriteCategories` are
`recategorize_all`. `Fail` is a crash, an exception or a lost conflict.

What a session holds matters: after `detect_links` it still has the rows it
loaded before its loop, and `apply_links` in the same request compares with
those, not with what is committed. `view.rows` says for which rows that is so.
After an import the session holds the last inserted row, in the loop variable of
`import_statement`; the others are not referred to any more and are read again.
A session that has refused a link goes on holding it as refused (`refused`).

Abstractions: one owner alias; the several SELECTs at the start of detection
are one read; confirm and reject read and commit one row in a step, and so does
the import with its known hashes; a bulk edit is several patches; categories,
contacts and `needs_review` are not tracked. Rows of `transaction` and `tx_link`
are never deleted by the code.

History variables, used by properties only: `fresh[s]` (no other commit since
the session read), `sound` (the last application of links was fresh and none
was lost to a failure since), `lastRun`, `requests`.

| Property | Says |
|---|---|
| `ReversedExact` | with no application pending, lost or stale, `is_reversed` is exactly what the reversal links in force say |
| `ApplyRepairs` | a fresh application makes both flags right from any state |
| `RunPairsDisjoint`, `RunComplete`, `NearestWins` | the greedy loop pairs nothing twice, overlooks nothing, and takes the nearest deposit it can |
| `LinksAreWhatTheySay` | each link on file satisfies the rule of its kind, whoever filed it |
| `DetectIdempotent` | a docstring's promise that the code breaks (below) |

The instance is a small bank of eight transactions on two accounts that meets
each rule at its edge: a transfer exactly five minutes apart, a return exactly
at the hour and one just past six hours, a nearer deposit that is no return, a
fee row. Two sessions, three requests, crashes allowed. Three requests suffice
for an import, and two conflicting requests after it; every interleaving hazard
listed is between two requests.

### Loans, MCLoans: loans and instalments

`loan` and `row` are the tables, by id. `ask[s]` is the request a session
serves and `view[s]` the rows it has loaded; `Flush` is the unit of work (write
what differs from what was loaded), `Saved` fails if a row to be written is
gone. `Reschedule` throws away what the session believes unpaid, keeps the rest
and makes the missing numbers. `MarkUnpaid` keeps a detail of `autoflush=False`:
the refresh inside it does not see the instalment it has just set to unpaid.
Every reading request is an action too (`BeginRefresh`, `RefreshStatuses`),
because reading writes overdue marks.

Abstractions: days are numbers and the Jalali month is `Month` days (the
calendar is a component of its own); the columns `paid_jalali`, `paid_date`
and `paid_amount_rial` are one Boolean; interest rate, title and notes are left out; the
bank's transactions do not change. A PATCH may give a loan any status, since
nothing looks at the string: `LoanStatus` is what the program sets and what the
patches give.

`sound` means that every change so far was computed from current rows.
`ScheduleComplete`, `PaidExact` and `SettledExact` are stated under it, since
the code takes no locks and overlapping requests do break them (hazards);
`TypeOK` holds regardless.

The instance has one loan of two instalments, edits to one and to three with
another first day, a withdrawal with the loan's reference and one of the very
amount, two days, five requests on two sessions.

### FileStore, MCFileStore: stored files, receipts, pictures

`files` is the content-addressed table: equal contents have one row. Receipts
and pictures refer to it by name. Requests decide (is the name there? is it
used by another?) and commit later. `Restart` imports the old folders again.
`RescheduleLoan` is the part of a loan edit that takes receipts of unpaid
instalments with it. `spilled` remembers names on receipts that went with their
loan, whose files the code leaves behind.

`ReceiptsServed`, `ImagesServed`, `NoOrphanImage` and `NoOrphanReceipt` hold
while no request acts on stale data, for contents that are used as one kind
only; contents used as both kinds are the subject of a finding.

The instance has a scan, a picture, a screenshot that may be either, one file of an old folder, one loan, two items, six requests. Whether a
receipt is of an unpaid instalment is chosen once, with its upload. Statements
are stored too, but only ever added; they are left out.

### Market, MCMarket: quota, prices, alerts

One request of the price service is a chain: seed the items of the active
provider, check the quota (`Guard`), read the provider again (`Choose`), log
(`LogCall`), call (`Call`), receive and look up stored prices (`Answer`), commit
(`StorePrices`), check alerts (`BeginCheck`, `TellAlerts`). Each step is a read
or a commit of its own. `SwitchProvider` and `SetKey` are the settings;
`NewDay` moves the windows, a month's end moves all of them.

`made` counts what the services received in their window; `carried` and `late`
account for calls logged before a window began and made in it; `steady` says
that the provider was never switched while a request was under way.

| Property | Says |
|---|---|
| `CallsCounted` | while steady, the log has every call but the late ones |
| `QuotaKept` | while steady, the calls of a window pass the usable part of the quota (quota less reserve) by fewer than there are threads, and at most one call a thread comes over from the window before |
| `AsksOwnItems` | a refresh asks a provider for its own items |
| `AlertsTold` | when no check is under way, lost or overtaken, each alert that is hit bears the latest price |

So a quota may be passed by at most twice the threads, less the reserve and one:
never if that is not positive (`QuotaIsNeverPassed`). The defaults (50 of 1500 and
10 of 120, `config.py:54-58`) are on the safe side for up to 25 and 5 refreshes at
once; the pool has forty threads, so the code as configured does not exclude it.

The instance has two providers with an item each, one daily and one monthly, with
a quota of four and a reserve of three, two prices, one alert, two days, four
requests. One call is usable and two sessions can make it two; four requests are
enough to make more if the check let them. Answers are of today or a former day.
An alert is written only if its price differs from the one it bore, and not if
another request has deleted one. Holdings, statistics and the parsing of answers
are left out.

### CategoryRules, Labels, MCLabels: what the user teaches

`CategoryRules` is the pipeline as operators. `Pipeline` is `Categorizer.apply`
without its first test, `Apply` is all of it, and `Teach` is the short way of
`apply_contact_to_matching`, which does not run the pipeline. What is concluded
from texts is constant: the identifiers of a row, the most precise first
(`Idents`), whose name it carries (`NameOf`), which rules and which alias match.

`Labels` has the requests. `row` is the part of `transaction` that
categorisation and the user write; a row exists once a statement brought it.
`book` is the tables a `Categorizer` loads. A session has a place in its request
(`pc`), what is left of the request (`job`) and the rows it holds (`view`).
Requests that teach commit `book` first and then, identifier by identifier, load
the matching rows (`LoadMatching`) and commit them (`WriteMatching`); those of
rules and aliases re-categorise everything (`LoadAll`, `WriteAll`); an import
holds its new alias until it commits. `Flush` is the unit of work: a column is
written only where it differs from the value that was loaded. `held` is a row
the session goes on holding with its former values (from-transaction).

History: `fresh[s]` (nobody committed since the session loaded), `sound` (no row
was ever written from stale values), `hand` (the category last set by hand),
`told` (rows called income by the user, himself or through the contact).

| Property | Says | Conditions |
|---|---|---|
| `ManualKept` | a category set by hand stays until it is set again or redone with force | `sound`: a request that had loaded the row before the edit may overwrite it, a hazard of the code |
| `IncomeOnlyIfTold` | no deposit is income that nobody called income | none |
| `LearnedAsPipeline` | the rows a label reaches get what re-categorising would give them, in all columns but the mark of own transfers and the income answer, which stay; and what the next re-categorisation makes of those two | the row is not set by hand and not own, the label's identifier is its most precise known one, its contact has a category for the direction that no other request changed |
| `RecategorizeLikeImport` | teaching first and importing later equals importing first | not where the first matching rule sets no category: the row then keeps its former one |
| `LabelReaches` | every row of a label's identifiers gets the contact, or was set by hand, or the contact is deleted, or the request fails | fairness (below) |
| `RejectedNeverCounts` | a test's promise that the code breaks (below) | |

The two ways of labelling do differ, and the property says where: the short way
(`categorize.py:250-255`) leaves `is_income` and `is_self_transfer` alone, the
pipeline (lines 134 and 161-162) writes both. A deposit of a contact with a
receiving category therefore waits in the income queue until the next
re-categorisation, which counts it as income without being asked.

Abstractions: the book is read in one step; `is_transfer`, a rule's own contact,
edits of a rule's category and new names of contacts are left out; so is
`is_reversed`, by which the review queue leaves rows out of its list. Withdrawals
take part in the income queue as the code lets them.

The instance: a wage that came in with the first statement, known by a card and
an iban and bearing its sender's name; a payment by the same card, on the next
statement, which the alias matches; a rule for bank fees that matches both; two
contacts, two sessions, three requests. With one row known by two identifiers
and one identifier on two rows every order of precision occurs; three requests
are a teaching one, one that overlaps it, and one after. `MayFail` is FALSE
there: a request that stops between its commits leaves what a request that has
not yet gone on leaves, and the states in between are all visited. In
`labels_live` requests may fail.

### BankBook, Statements, MCStatements: statement files

`BankBook` is the promise: of each account the program has a book, holding only
entries the bank made, never losing one, counting each once. `Statements` is the
code. `ledger` is the bank's side, `accounts`, `stored` and `imports` are the
tables. A file is the entries of a period as the bank knows them today, its
header, and the lines whose date is spoiled (`lost`: the parsers pass over
them). `OpeningBalance`, `ClosingBalance` and `Total` are what Saman prints and
what Melli's parser derives from the lines it could read; `Valid` is
`BankImporter.validate`; `FindAccount` and `ResolveAccount` go by iban, then by
bank and number. Preview and import are coroutines without an await between
reading and committing, so each is one step.

`Books == INSTANCE BankBook WITH ...` maps an account of the bank to the program's
accounts that are identified by iban, and the entries to what tells them apart
(day, amount, balance: the dedup hash). `BooksKept` is `Books!Spec`: an import is
an `Enter` or a stutter, whatever overlapping, repeated or spoiled files come in
whatever order. Accounts made from files without a readable header are outside
of it: each such file makes another account (finding).

`ValidMeansComplete` says what a file that passes validation is worth: with
totals, all lines of the period have a row each; without totals, the lines lost
between readable ones even out. `PreviewExact`: the preview foretells the number
of new rows and a new account, unless the file repeats a line.

Left out: swaps of the balances of entries of one moment (`local_breaks`, which
only warn), unreadable amounts, encodings and layouts; storing the file.

The instance: Saman and Melli, headers that tell all or nothing, amounts of plus
and minus five, two days, three entries, two imports, at most two lost lines.
Three entries are the fewest that give a lost line between two readable ones,
two that even out, and two of one identity; two imports the fewest that overlap.

### Jalali, Reports, Debts, Money, MCMoney: debts, budgets, reports

`Jalali` is the calendar's arithmetic: leap years and the number of a day are
jdatetime's, whose closed formula counts from the year 979; a period is the set of
its days. `Dates` are those `parse_jalali` lets in. `Reports` has the reports as operators on rows: summary
and series, breakdowns by category and contact, small sums, comparison of
months, recurring payments, budget status. `Debts` is the debt book, `Money`
composes it with budgets and reports over rows that other components change
(`ChangeRow`).

A change of a debt's events inserts or deletes one (`BeginAdd`, `BeginDelete`),
reads the events (`ReadEvents`) and commits with the mark it computed
(`CommitEntry`), which it writes only if it differs from what it loaded. Setting
a budget looks for the row in one step (`BeginBudget`) and commits in another
(`CommitBudget`): it inserts, updates if the amount differs from the one it loaded,
fails if the row to be written is gone or the key is taken, and otherwise writes
nothing and answers like an update, even if another request has changed or deleted
the row meanwhile (`KeepBudget`). Two defaults of one category are possible, two budgets
of one month are not: the unique key does not bind nulls. The database takes ids
from a sequence; the model gives one again only when nobody remembers it
(`FreeEntries`, `FreeBudgets`).

History: `calm` (debts whose last change no other overlapped), `wish` (the amount
last set for each category and period; a setting counts when it commits, and one
that writes nothing when it looked, as it changes nothing else), `twins` (two
budgets of one key once existed).

| Property | Says | Conditions |
|---|---|---|
| `OwedExact` | the sums of the summary are what was not paid back, debt by debt | the debts of that way are `calm` |
| `BudgetShown` | a month is judged by the amount last set for it, or else for all months | no `twins` |
| `MonthsAgree` | breakdowns, which ask for days, agree with series, summary and budgets, which ask for month numbers | none |
| `InsightsAgree` | the insights tell of the same money as the breakdowns | none |
| `DebtNotSpending` | a docstring's promise that the code breaks (below) | |

Left out: `by_counterparty` (`top_contacts` by another key), limits and shares,
names, suggestions, the commitment mark, a second deletion of an event that is
being deleted (it waits, deletes nothing and computes the mark again), budgets of a year without month or of a
month without year, deadlocks of row locks, categories that come and go.

The instance: a rent paid three times over the end of 1404, which is no leap
year, to the landlord; a fee without a contact; a gift that may be entered as a
debt. Two rows change; two sessions, three requests, two debts, three events,
three budgets. Three requests on a debt are its creation, a repayment and
another change that overlaps it.

### Backup, MCBackup: backups

`folders` is the directory: each name is a second, with a dump that is not yet
there, half written or whole. `task` is what each worker thread is doing. A request makes its folder, runs `pg_dump`, opens,
writes and closes the file, lists, and prunes one folder after another; every
step can fail as the code lets it, `ServerStops` leaves everything as it is.
Two requests of one second share a folder (`exist_ok`), and a folder may be
removed under one that is writing to it (`cut`).

`trouble` remembers a stop of the server, an overlap of requests, or a shared
folder; `overdue` that a prune was cut short. `ListedIsWhole` holds without stops
and shared folders, `NoPileUp` whenever the server rests and no prune is overdue
(it bounds the folders by the largest number any request may keep). `KeepsLast`: a
whole backup is pruned only when as many newer whole ones stay as the pruning
request was to keep; only for requests one at a time, since the code counts
folders, not backups, and any of the three troubles can cost a whole one
(findings).

The instance has two workers, four seconds, `keep` of one or two, five
requests: the fourth folder makes a prune remove two. `rmtree` is one step;
what `pg_dump` writes is external.

## Runs

| Run | Shows | Instance |
|---|---|---|
| `tx_links` | the properties of links, with crashes and overlaps | eight rows, two sessions, three requests |
| `detect_idempotent` | a second detection on the same rows files further links | the same |
| `loans` | the properties of loans under overlapping requests | one loan, two sessions, five requests |
| `filestore` | shared files stay while used and go after | four contents, two sessions, six requests |
| `market` | counting, quota, items and alerts | two providers, two sessions, four requests, two days |
| `labels` | what the user decided stays, and both ways of labelling agree | two rows, two contacts, two sessions, three requests |
| `labels_live` | a label reaches its rows | the same with failures, two requests, no categories |
| `rejected_never_counts` | a re-categorisation makes income of a deposit that was refused | that of `labels` |
| `statements` | the import implements the abstract book; validation and preview | two banks, three entries, two imports |
| `money` | debts, budgets and reports | five rows, two sessions, three requests |
| `debt_not_spending` | money lent stays in the month's expense | the same, two requests |
| `backup` | which folders are there and what they hold | two workers, four seconds, five requests |

All runs set `CHECK_DEADLOCK FALSE`: the number of requests is bounded, and a
server that nobody uses stops. Sessions are symmetric. Safety runs use that
symmetry: their properties are invariants and action properties, for which it is
sound; the run of `LabelReaches` does not.

*Fairness.* Only `Labels` assumes any: `WF_vars(Server(s))` for each session, that
is, a request once begun is carried on by its thread, until it ends or fails. A
thread is never blocked for good there: what it waits for is another request's
commit. The user owes nothing, so no action of `User` is fair, and the server has
no task of its own. The other modules state what holds when no request is under
way.

*Findings.* The runs that end in a counterexample state what a docstring, a
comment or a test of the repository says; `PROJECT.json` quotes it. The further
findings there have no run: they are disagreements read off the code while
translating it, or conditions of the properties (each of `sound`, `steady`,
`trouble` and `twins` stands for an overlap or a stop the code does not guard
against).

Beside every property stands a mutant: an altered definition (a dropped guard,
a missing reset, an off-by-one) with which the run finds the property violated.
They are the operators whose comment begins with "Mutant".

## Proofs

Every theorem holds for all values of the constants that meet the assumptions:
any number of sessions, rows, requests and days.

| Theorem | Module | Property |
|---|---|---|
| `TypeCorrect`, `ReversedIsExact`, `ApplicationRepairs` | TxLinksProofs | `TypeOK`, `ReversedExact`, `ApplyRepairs` |
| `PairsAreDisjoint`, `PairingIsComplete`, `PairingIsNearest` | TxLinksProofs | `RunPairsDisjoint`, `RunComplete`, `NearestWins` |
| `LinksAreJustified` | TxLinksProofs | `LinksAreWhatTheySay` |
| `Types`, `ScheduleIsComplete`, `PaidIsExact`, `SettledIsExact` | LoansProofs | `TypeOK`, `ScheduleComplete`, `PaidExact`, `SettledExact` |
| `Types`, `ReceiptsAreServed`, `ImagesAreServed`, `ImagesAreShown`, `ReceiptsAreAttached` | StorageProofs | `TypeOK`, `ReceiptsServed`, `ImagesServed`, `NoOrphanImage`, `NoOrphanReceipt` |
| `Types`, `CallsAreCounted`, `QuotaIsKept`, `AlertsAreTold`, `AsksForItsOwn` | MarketProofs | `TypeOK`, `CallsCounted`, `QuotaKept`, `AlertsTold`, `AsksOwnItems` |
| `QuotaIsNeverPassed` | MarketProofs | no more calls than the quota, if the reserve suffices for the threads |
| `Types`, `ManualIsKept`, `IncomeIsTold`, `LearnsAsPipeline`, `RecategorizesLikeImport` | LabelsProofs | `TypeOK`, `ManualKept`, `IncomeOnlyIfTold`, `LearnedAsPipeline`, `RecategorizeLikeImport` |
| `Types`, `ImplementsBankBook`, `PreviewIsExact`, `ValidIsComplete` | StatementsProofs | `TypeOK`, `BooksKept`, `PreviewExact`, `ValidMeansComplete` |
| `BackupTypes`, `ListIsWhole`, `FoldersAreFew`, `LastAreKept` | StorageProofs | `BackupTypeOK`, `ListedIsWhole`, `NoPileUp`, `KeepsLast` |
| `Types`, `OwedIsExact`, `BudgetIsShown` | MoneyProofs | `TypeOK`, `OwedExact`, `BudgetShown` |
| `MonthsDoAgree`, `InsightsDoAgree` | MoneyProofs | `MonthsAgree`, `InsightsAgree` |
| `SumFunctionParts`, `SumFunctionGroups`, `SumFunctionSigned` | SumTheorems | sums, which statements and money rest on |

*Assumptions* are the types of the constants, and of the code:

* `FileStoreAssumption`: the old folders hold files of the three kinds there are.
* `RequestAssumption`: the terms and the patches of a loan have the fields of the
  request bodies, with whole numbers where those have them. That counts and
  amounts are positive is no assumption: the routes check it, and so do the
  actions.
* `MarketAssumption`: threads are finitely many, and each reserve is below its
  quota (the defaults of `config.py:54-58` are 50 of 1500 and 10 of 120).
* `DebtsAssumption`: the sums a user types are positive; the routes refuse others
  (`api/routes/debts.py:104` and `159`). Bank rows may have any amount: a debt made
  from a row of none is the one whose mark may lag behind (`Fits`).
* `BackupAssumption`: a request asks for at least one backup to be kept, which its
  route checks (`api/routes/settings_api.py:110`), and there is a number it may ask
  for.
* `MoneyAssumption`: the table has finitely many rows, the day of each is one that
  `parse_jalali` lets in, and the months asked for are months of a year.
* `StatementsAssumption`: beside types, no entry of a bank is of zero. That is the
  bank's side, which the code cannot check.
* `LabelsAssumption`, `CategoryAssumption`, `RulesAssumption`, `LinksAssumption`:
  types only.

Hardly any invariant of the runs is inductive by itself. What is missing is
always the same thing: what sessions hold between their steps. Each module
therefore has an invariant with a part on the tables and a part on each session.
TLC checked these invariants on the instances before they were proved.

*Links.* That flags stay on committed rows needs that what a session holds is
about committed rows and links (`HeldRows`), since its writes come from there.
`ReversedExact` needs to know what a fresh view is worth: `SnapshotInv` says that
while `fresh[s]` holds, the parts of the view the writes are computed from equal
the tables, so that clearing what was flagged and setting what the links say
leaves exactly the latter; any other commit in between ends `fresh[s]`. Between
an import and its detection the same is said of the one row the session holds
(`Partly`).

*Detection.* `DetectionInv` speaks of each session's loop between two turns:
what is found consists of pairs of loaded rows that the rules allow (`Loop`),
withdrawals dealt with have no free candidate left (`Complete`), found pairs
share no end (`Disjoint`), and no free deposit is nearer than the one taken
(`NearestTaken`). A deposit only ever goes from free to taken, so what held of a
withdrawal when it was dealt with goes on holding.

*Loans.* `LoansInv` says of the tables that ids lie below the last one given,
numbers of a loan are distinct (`Numbered`) and the three properties hold, and of
each session (`Holds`) that it has a sane copy of them, which is the tables
themselves while it is fresh, and a request about rows in that copy. Stale
writes are harmless to the types because `Saved` refuses to write a row that is
gone and ids are never given twice; they end `sound`, and with it the three
properties' claim. For the schedule the proof goes through what `reschedule`
keeps, discards and makes, number by number.

*File store.* `FileInv` has what each request decided (`Decided`): whether a name
was there, which names nobody else uses. While the request is fresh that is what
it would decide now, so a commit adds only what is missing and deletes only what
nobody needs. `KindsKept` adds that a name only receipts have is stored as one.

*Backups.* `BackupInv` says of each request what it knows of its folder: unless two
began in one second it is the request's own, is not whole before its `close`, and
once removed stays away (`OwnFolders`); so what nobody is filling is whole
(`ListedIsWhole`). For `NoPileUp` one counts the folders nobody is filling
(`Settled`): while no prune is overdue they are few, or few without those an
undisturbed prune has yet to remove, or somebody is about to list them (`Bounded`).
A new folder is not settled before its request lists, and whoever lists leaves
`keep` of what it found. `KeepsLast` needs that a prune without `trouble` runs
alone (`OneAtATime`) and has still to remove only what is older than the `keep`
that stay (`NewestStay`). What a list leaves is the lemma `NewestOnes`: the names
with at least `keep` newer ones are older than all the others, and the others are
`keep`, if there are that many. It is proved without the sorted list, from the
greatest of what goes and the least of what stays.

*Market, quota.* `QuotaInv` counts sessions. Of those past the check and not yet
at the log (`Passed`), however many, there are no more than sessions, and the
check lets one through only below the reserve: logged calls and passed sessions
together stay below usable calls plus threads (`Checked`). Calls made and calls to
be made are at most those logged and those late (`Counted`), and late calls and
those still carried are no more than threads (`Carries`). Together they give
`QuotaKept`, and bound the calls by quota, less reserve, plus twice the threads,
less one: `QuotaIsNeverPassed`.

*Market, prices and items.* `MarketInv` says that what a session has seen is still
there (`HeldFits`: items and prices are never deleted) and that an answered check
holds the alerts the latest prices hit (`Hits`) and writes those to which the price
is news (`News`), as long as it is fresh. `TrackingInv` says
that while the provider was never switched during a request, a session past the
seeding finds exactly its provider's items tracked; a seeding that has loaded
older flags writes the same ones in the end, since all seedings aim at the same
provider.

*Labels.* `LabelsInv` has the two invariants among the tables' part, and that
whoever's deposits count as income was called so (`ToldBy`), which the pipeline
uses. Of a session (`Request`) it says that the rows it holds are the table's
while it is fresh, and that no row it holds and no contact of the book it works
from is income without having been called so; the latter holds of stale views
too, since nothing once told is untold, and that is why `IncomeOnlyIfTold` needs
no condition. The two action properties follow from lemmas about the operators:
what `Pipeline` and `Teach` put into the columns of a label, and that the
pipeline's outcome does not depend on what the row had before, but for a rule
without a category.

*Statements.* `StatementsInv` says that no iban and no number names two accounts of
one bank (`NamesOne`): a file finds one account or makes one, since it is looked up
by both. `BooksKept` is proved step by step: `Init` is that of `BankBook`; the
bank's step is its `Post`, because an entry's identity (day, amount and balance) is
settled when it is made (`IdentityStays`); an import into an account known by iban
is its `Enter`, with what was not there yet (`BooksEnter`), into a fresh one with
everything; any other import is a stutter. `ValidIsComplete` needs besides that the
entries are in the order of days (`Chronological`), so that the lines lost before
the oldest and after the newest line that was read drop out of the balances; with
totals, amounts of one sign that sum up to nothing are none (`SumFunctionSigned`).
The check of repeated keys gives one row to each line.

*Debts and budgets.* `DebtInv` says that a session that changes events holds one
nobody else holds (`Jobs`), and that one which no other has overlapped knows the
debt's mark and what its commit will leave repaid (`Informed`); then the marks of
calm debts are right (`Marked`), and a sum that goes by the mark leaves out debts
that owe nothing. `BudgetInv` says that without `twins` a key has no budget or the
one last set (`AsWished`); so a setting that finds its amount there and writes
nothing is no exception. It needs that the id a session has found is not given to another
budget meanwhile (`FreeBudgets`; the database's ids come from a sequence). Its part on the
rows is that nothing other components do to one changes its amount or its day.

*Reports.* With amounts and days fixed, both action properties follow from what the
operators compute from any table (`Sheet`). First the calendar: the formula for the
start of a year grows by the length the leap rule gives that year (`YearAfterYear`;
the rule and the formula are written down separately in jdatetime), months follow
one another without gap or overlap (`MonthRangeDays`, `MonthsInOrder`), so a date
lies among the days of a month exactly if it bears its number (`MonthByDays`), for
all years. Then the sums: a breakdown has for each group what its rows sum up to,
zero where it has no entry, and adds up to the whole (`BreakdownIs`, from
`SumFunctionGroups`); a sum of outlays is positive exactly if one of them is
(`MovedIs`), which makes the months with spending those of the series.

*Sums.* The provers cannot use an induction scheme, and the community module's
folds are recursive functions. `SumTheorems` gets around both: where one would use
induction, a least counterexample leads to a contradiction, by the library's
well-foundedness of the natural numbers (`LeastNumber`, `LeastSet`); so it is
proved that the recursion behind `SumFunction` has a solution, that any summand
may be taken first, and from there the sum of parts, of groups, of zeros, and of
one sign.

*Only model-checked.*

* `LabelReaches`: liveness under fairness is beyond the provers.
* What `Recurring`, `Steady` and `Gaps` make of the days between payments: no
  property is about it but the sums. They sort, and sorting is a recursion.

## Not modelled

* Password and sessions: they decide who may send a request and share no data
  with the rest. Every modelled request is one that was let in.
* Categories that are created, renamed or deleted: the models have the set of
  categories constant, and None where a deletion would set null.
* Holdings and observations of the market, titles and prices of wishes, notes and
  wordings everywhere: single columns nothing else is computed from.
* Reading of cells, encodings and texts, and everything the web interface shows.
* Seeds and migrations, which end before requests begin.

## Plan

1. Labels and links on one table, with both flags; a category that is deleted
   while a request labels with it; payments counted by counterparty.
