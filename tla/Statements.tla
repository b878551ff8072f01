------------------------------ MODULE Statements ------------------------------
(***************************************************************************)
(* Statement files: what a bank's file says of its account, how it is      *)
(* parsed and validated (importers/base.py, melli.py, saman.py), what the  *)
(* preview foretells and what the import stores (services/ingest.py).      *)
(*                                                                         *)
(* Preview and import are coroutines of one event loop that never wait     *)
(* between reading and committing, so each is one step.  Texts are left    *)
(* out: a line is its moment, its amount and the balance printed beside    *)
(* it.  A line whose date cannot be read is skipped by the parser.         *)
(***************************************************************************)
EXTENDS Integers, Sequences, FiniteSets, Functions

CONSTANTS
  Bank,           \* the banks, one account of the owner at each
  TotalsInHeader, \* banks that print totals and balances in the header
  Headers,        \* what of the account's identity a header may tell
  Amounts,        \* signed amounts of the bank's entries
  Opening,        \* the balance of a new account
  LastDay,        \* bound on the days
  MaxEntries,     \* bound on the entries of all accounts
  MaxLost,        \* bound on the unreadable lines of a file
  MaxImports      \* bound on the imports

ASSUME StatementsAssumption ==
  /\ TotalsInHeader \subseteq Bank
  /\ Headers \subseteq SUBSET {"iban", "number"}
  /\ Amounts \subseteq Int \ {0} /\ Opening \in Int
  /\ {LastDay, MaxEntries, MaxLost, MaxImports} \subseteq Nat

VARIABLES
  ledger,    \* external: the entries each bank has made, in order
  accounts,  \* table account
  stored,    \* the keys of each account's transactions
  imports    \* table statement_import: of each upload its account and its file

vars == <<ledger, accounts, stored, imports>>

------------------------------------------------------------------------------
(* The bank's side.                                                         *)

Entry == [day : 1..LastDay, amount : Amounts]

SumOf(ns, b) == SumFunction([n \in ns |-> ledger[b][n].amount])
Balance(b, n) == Opening + SumOf(1..n, b)

\* What tells an entry from the others: two of one moment and amount can share
\* even the balance, when something between them evens out.
Identity(b, n) == [day |-> ledger[b][n].day, amount |-> ledger[b][n].amount,
                   balance |-> Balance(b, n)]

Made(b) == {Identity(b, n) : n \in DOMAIN ledger[b]}

\* A file as the bank gives it today: the entries of a period so far, some lines
\* with a spoiled date.  Periods come in any order.
Between(b, from, to) == {n \in DOMAIN ledger[b] : ledger[b][n].day \in from..to}

File(b, from, to) ==
  [bank : {b}, from : {from}, to : {to}, header : Headers, made : {Between(b, from, to)},
   lost : {ns \in SUBSET Between(b, from, to) : Cardinality(ns) <= MaxLost}]

Period == {p \in (1..LastDay) \X (1..LastDay) : p[1] <= p[2]}

Files == UNION {File(b, p[1], p[2]) : b \in Bank, p \in Period}

------------------------------------------------------------------------------
(* Parsing and validating a file.                                           *)

Lines(f) == f.made \ f.lost

\* RawTxn.dedup_hash
Key(b, n) == [day |-> ledger[b][n].day, amount |-> ledger[b][n].amount,
              balance |-> Balance(b, n)]

Keys(f) == {Key(f.bank, n) : n \in Lines(f)}

Deposits(f, ns)    == SumOf({n \in ns : ledger[f.bank][n].amount > 0}, f.bank)
Withdrawals(f, ns) == -SumOf({n \in ns : ledger[f.bank][n].amount < 0}, f.bank)

Before(f) == Cardinality({n \in DOMAIN ledger[f.bank] : ledger[f.bank][n].day < f.from})

\* What a file says of itself, as a set with at most one number.  Saman's header
\* is the bank's own; Melli has none, so _fill_balances takes the opening balance
\* from the oldest line and the closing balance from the newest.
OpeningBalance(f) ==
  IF f.bank \in TotalsInHeader THEN {Balance(f.bank, Before(f))}
  ELSE {Balance(f.bank, n - 1) : n \in {m \in Lines(f) : \A k \in Lines(f) : m <= k}}

ClosingBalance(f) ==
  IF f.bank \in TotalsInHeader
  THEN {Balance(f.bank, Before(f) + Cardinality(f.made))}
  ELSE {Balance(f.bank, n) : n \in {m \in Lines(f) : \A k \in Lines(f) : k <= m}}

Total(f, sum) == IF f.bank \in TotalsInHeader THEN {sum} ELSE {}

LastBalance(f) == {Balance(f.bank, n) : n \in {m \in Lines(f) : \A k \in Lines(f) : k <= m}}

\* A check is skipped when the file does not say what to expect.
Check(expected, actual) == expected = {} \/ expected = actual

KeysUnique(f) == Cardinality(Keys(f)) = Cardinality(Lines(f))

\* Mutant: the sums are not compared with the header's.
ValidNoTotals(f) ==
  /\ OpeningBalance(f) # {} =>
       Check(ClosingBalance(f),
             {o + Deposits(f, Lines(f)) - Withdrawals(f, Lines(f)) : o \in OpeningBalance(f)})
  /\ Check(ClosingBalance(f), LastBalance(f))
  /\ KeysUnique(f)

\* BankImporter.validate: no check says mismatch.
Valid(f) ==
  /\ Check(Total(f, Deposits(f, f.made)), {Deposits(f, Lines(f))})
  /\ Check(Total(f, Withdrawals(f, f.made)), {Withdrawals(f, Lines(f))})
  /\ OpeningBalance(f) # {} =>
       Check(ClosingBalance(f),
             {o + Deposits(f, Lines(f)) - Withdrawals(f, Lines(f)) : o \in OpeningBalance(f)})
  /\ Check(ClosingBalance(f), LastBalance(f))
  /\ KeysUnique(f)

------------------------------------------------------------------------------
(* The account of a file.                                                   *)

\* Mutant: an account is recognised by its number at whatever bank.
FindAccountAnyBank(f) ==
  {k \in DOMAIN accounts : "number" \in f.header \cap accounts[k].known}

\* By the iban of the header, which is of one bank only, else by the bank and the
\* number.
FindAccount(f) ==
  LET same(what) == {k \in DOMAIN accounts : /\ what \in f.header \cap accounts[k].known
                                             /\ accounts[k].bank = f.bank}
  IN  IF same("iban") # {} THEN same("iban") ELSE same("number")

\* Mutant: the account is not looked for.
ResolveAccountNew(f) == {Len(accounts) + 1}

\* resolve_account: the account found, or a new one.
ResolveAccount(f) ==
  IF FindAccount(f) # {} THEN FindAccount(f) ELSE {Len(accounts) + 1}

StoredIn(k) == IF k \in DOMAIN stored THEN stored[k] ELSE {}

\* A header that could not be read tells no period either.
PeriodsOverlap(a, b) ==
  a.header # {} /\ b.header # {} /\ a.from <= b.to /\ b.from <= a.to

------------------------------------------------------------------------------
Init ==
  /\ ledger = [b \in Bank |-> <<>>]
  /\ accounts = <<>> /\ stored = <<>> /\ imports = <<>>

\* The bank makes an entry, today or on a later day.
Post(b) ==
  /\ SumFunction([c \in Bank |-> Len(ledger[c])]) < MaxEntries
  /\ \E e \in Entry :
       /\ ledger[b] # <<>> => e.day >= ledger[b][Len(ledger[b])].day
       /\ ledger' = [ledger EXCEPT ![b] = Append(@, e)]
  /\ UNCHANGED <<accounts, stored, imports>>

\* Mutant: the keys of every account are looked up.
PreviewEverywhere(f) ==
  [creates  |-> FindAccount(f) = {},
   new      |-> Cardinality({n \in Lines(f) :
                   \A k \in DOMAIN stored : Key(f.bank, n) \notin stored[k]}),
   overlaps |-> \E i \in DOMAIN imports :
                  imports[i].account \in FindAccount(f) /\ PeriodsOverlap(f, imports[i].file)]

\* POST /imports/preview writes nothing: what it answers as things are now.  Lines
\* that repeat within the file are not looked for.
Preview(f) ==
  [creates  |-> FindAccount(f) = {},
   new      |-> Cardinality({n \in Lines(f) :
                   \A k \in FindAccount(f) : Key(f.bank, n) \notin stored[k]}),
   overlaps |-> \E i \in DOMAIN imports :
                  imports[i].account \in FindAccount(f) /\ PeriodsOverlap(f, imports[i].file)]

\* POST /imports, up to its commit: the lines not seen yet are stored.
ImportStatement(f) ==
  /\ Len(imports) < MaxImports
  /\ \E k \in ResolveAccount(f) :
       /\ accounts' = IF k \in DOMAIN accounts THEN accounts
                      ELSE Append(accounts, [bank |-> f.bank, known |-> f.header])
       /\ stored' = IF k \in DOMAIN stored THEN [stored EXCEPT ![k] = @ \cup Keys(f)]
                    ELSE Append(stored, Keys(f))
       /\ imports' = Append(imports, [account |-> k, file |-> f])
  /\ UNCHANGED ledger

Next ==
  \/ \E b \in Bank : Post(b)
  \/ \E f \in Files : ImportStatement(f)

Spec == Init /\ [][Next]_vars

------------------------------------------------------------------------------
(* Properties                                                               *)

\* Types; rows only under accounts that exist; an iban names one account.
TypeOK ==
  /\ ledger \in [Bank -> Seq(Entry)]
  /\ accounts \in Seq([bank : Bank, known : Headers])
  /\ DOMAIN stored = DOMAIN accounts
  /\ \A k \in DOMAIN stored : \A r \in stored[k] : r.day \in 1..LastDay /\ r.amount \in Amounts
  /\ \A i \in DOMAIN imports : imports[i].account \in DOMAIN accounts
  /\ \A j, k \in DOMAIN accounts :
       accounts[j].bank = accounts[k].bank
         /\ "iban" \in accounts[j].known \cap accounts[k].known => j = k

\* The accounts the program knows to be the one at the bank.
Identified(b) == {k \in DOMAIN accounts : accounts[k].bank = b /\ "iban" \in accounts[k].known}

Books == INSTANCE BankBook WITH
  made  <- [b \in Bank |-> Made(b)],
  book  <- [b \in Bank |-> UNION {stored[k] : k \in Identified(b)}],
  total <- [b \in Bank |-> SumFunction([k \in Identified(b) |->
              SumFunction([r \in stored[k] |-> r.amount])])]

\* Importing keeps a book of every account that its files identify: each entry of
\* the bank once, whatever overlapping, repeated or spoiled files come, in any order.
BooksKept == Books!Spec

\* What an import did: the file and the account of the row it left.
Imports(P(_, _)) ==
  imports' # imports =>
    LET i == imports'[Len(imports')] IN P(i.file, i.account)

\* A file that is imported with every check passed is complete: if the bank prints
\* totals, every line of the period has a row of its own; if it does not, the lines
\* lost between the oldest and the newest readable one even out.
ValidMeansComplete ==
  [][Imports(LAMBDA f, k : Valid(f) =>
       LET entries == {Identity(f.bank, n) : n \in f.made}
       IN  IF f.bank \in TotalsInHeader
           THEN entries \subseteq stored'[k] /\ Cardinality(entries) = Cardinality(f.made)
           ELSE SumOf({n \in f.lost : \E o, y \in Lines(f) : o < n /\ n < y}, f.bank) = 0)]_vars

\* The number of new rows the preview foretold is the number the import adds,
\* unless the file repeats a line, and then its validation says mismatch.
PreviewExact ==
  [][Imports(LAMBDA f, k : Valid(f) =>
       /\ Cardinality(stored'[k] \ StoredIn(k)) = Preview(f).new
       /\ Preview(f).creates <=> k \notin DOMAIN accounts)]_vars
=============================================================================
