--------------------------- MODULE StatementsProofs ---------------------------
(***************************************************************************)
(* Statement files, proved for any banks, entries, headers and order of    *)
(* files: what is stored implements the book of BankBook, a file with all  *)
(* checks passed is complete, and the preview foretells the import.        *)
(***************************************************************************)
EXTENDS Statements, SumTheorems, SequenceTheorems

\* A row of an account, a file, and what is kept of an upload.
Row == [day : 1..LastDay, amount : Amounts, balance : Int]

Statement == [bank : Bank, from : 1..LastDay, to : 1..LastDay, header : Headers,
              made : SUBSET Nat, lost : SUBSET Nat]

Upload == [account : Nat, file : Statement]

\* Neither an iban nor a number names two accounts of one bank.
NamesOne ==
  \A what \in {"iban", "number"}, j, k \in DOMAIN accounts :
    accounts[j].bank = accounts[k].bank /\ what \in accounts[j].known \cap accounts[k].known
    => j = k

StatementsInv ==
  /\ ledger \in [Bank -> Seq(Entry)]
  /\ accounts \in Seq([bank : Bank, known : Headers])
  /\ stored \in Seq(SUBSET Row) /\ Len(stored) = Len(accounts)
  /\ \A k \in DOMAIN stored : IsFiniteSet(stored[k])
  /\ imports \in Seq(Upload)
  /\ \A i \in DOMAIN imports : imports[i].account \in DOMAIN accounts
  /\ NamesOne

------------------------------------------------------------------------------
\* Entries are numbers.
LEMMA EntryTypes ==
  ASSUME ledger \in [Bank -> Seq(Entry)], NEW b \in Bank, NEW n \in DOMAIN ledger[b]
  PROVE  /\ ledger[b][n] \in Entry
         /\ ledger[b][n].day \in 1..LastDay /\ ledger[b][n].amount \in Amounts
         /\ ledger[b][n].amount \in Int /\ ledger[b][n].amount # 0
<1>1. ledger[b] \in Seq(Entry)
  OBVIOUS
<1>2. ledger[b][n] \in Entry
  BY <1>1
<1> QED
  BY <1>2, StatementsAssumption DEF Entry

\* The entries of a ledger are finitely many.
LEMMA LedgerFinite ==
  ASSUME ledger \in [Bank -> Seq(Entry)], NEW b \in Bank, NEW ns \in SUBSET DOMAIN ledger[b]
  PROVE  IsFiniteSet(ns) /\ ns \subseteq Nat \ {0}
<1>1. DOMAIN ledger[b] = 1..Len(ledger[b]) /\ Len(ledger[b]) \in Nat
  BY LenProperties
<1>2. IsFiniteSet(1..Len(ledger[b]))
  BY <1>1, FS_Interval
<1> QED
  BY <1>1, <1>2, FS_Subset

\* So sums of entries are numbers.
LEMMA SumOfType ==
  ASSUME ledger \in [Bank -> Seq(Entry)], NEW b \in Bank, NEW ns \in SUBSET DOMAIN ledger[b]
  PROVE  SumOf(ns, b) \in Int /\ (ns = {} => SumOf(ns, b) = 0)
<1> DEFINE g == [n \in ns |-> ledger[b][n].amount]
<1>1. DOMAIN g = ns /\ IsFiniteSet(ns) /\ \A n \in ns : g[n] \in Int
  BY EntryTypes, LedgerFinite
<1>2. SumOf(ns, b) = SumFunction(g)
  BY DEF SumOf
<1> HIDE DEF g
<1> QED
  BY <1>1, <1>2, SumFunctionType

\* And so are balances.
LEMMA BalanceType ==
  ASSUME ledger \in [Bank -> Seq(Entry)], NEW b \in Bank, NEW n \in Int, n <= Len(ledger[b])
  PROVE  Balance(b, n) \in Int
<1>1. 1..n \in SUBSET DOMAIN ledger[b]
  BY LenProperties
<1> QED
  BY <1>1, SumOfType, StatementsAssumption DEF Balance

\* A key says of an entry what identifies it.
LEMMA KeyType ==
  ASSUME ledger \in [Bank -> Seq(Entry)], NEW b \in Bank, NEW n \in DOMAIN ledger[b]
  PROVE  Key(b, n) \in Row /\ Key(b, n) = Identity(b, n)
<1>1. n \in Int /\ n <= Len(ledger[b])
  BY LenProperties
<1> QED
  BY <1>1, EntryTypes, BalanceType DEF Key, Identity, Row

\* A file is about entries its bank has made.
LEMMA FileTypes ==
  ASSUME ledger \in [Bank -> Seq(Entry)], NEW f \in Files
  PROVE  /\ f \in Statement
         /\ f.made \subseteq DOMAIN ledger[f.bank] /\ f.lost \subseteq f.made
         /\ Lines(f) \subseteq DOMAIN ledger[f.bank]
<1>1. PICK b \in Bank, p \in Period : f \in File(b, p[1], p[2])
  BY DEF Files
<1>2. /\ f = [bank |-> f.bank, from |-> f.from, to |-> f.to, header |-> f.header,
              made |-> f.made, lost |-> f.lost]
      /\ f.bank = b /\ f.from = p[1] /\ f.to = p[2] /\ f.header \in Headers
      /\ f.made = Between(b, p[1], p[2]) /\ f.lost \in SUBSET f.made
  BY <1>1 DEF File
<1>3. p[1] \in 1..LastDay /\ p[2] \in 1..LastDay
  BY DEF Period
<1>4. f.made \subseteq DOMAIN ledger[b] /\ f.made \subseteq Nat
  BY <1>2, LedgerFinite DEF Between
<1> QED
  BY <1>2, <1>3, <1>4 DEF Statement, Lines

\* The rows of a file are finitely many, each of an entry of the bank.
LEMMA KeysType ==
  ASSUME ledger \in [Bank -> Seq(Entry)], NEW f \in Files
  PROVE  /\ Keys(f) \subseteq Row /\ IsFiniteSet(Keys(f))
         /\ Keys(f) \subseteq Made(f.bank)
<1>1. f.bank \in Bank /\ Lines(f) \subseteq DOMAIN ledger[f.bank] /\ IsFiniteSet(Lines(f))
  BY FileTypes, LedgerFinite DEF Statement
<1>2. \A n \in Lines(f) : Key(f.bank, n) \in Row /\ Key(f.bank, n) = Identity(f.bank, n)
  BY <1>1, KeyType
<1> DEFINE g == [n \in Lines(f) |-> Key(f.bank, n)]
<1>3. g \in Surjection(Lines(f), Keys(f))
  BY DEF Surjection, Keys
<1>4. IsFiniteSet(Keys(f))
  BY <1>1, <1>3, FS_Surjection
<1> QED
  BY <1>1, <1>2, <1>4 DEF Keys, Made

------------------------------------------------------------------------------
\* A header finds no more than one account, and one of its bank.
LEMMA OneAccount ==
  ASSUME StatementsInv, NEW f \in Files
  PROVE  /\ FindAccount(f) \subseteq DOMAIN accounts
         /\ \A k \in FindAccount(f) : accounts[k].bank = f.bank
         /\ \A j, k \in FindAccount(f) : j = k
BY DEF FindAccount, StatementsInv, NamesOne

\* A bank's account that shares something with a header is found by it.
LEMMA FoundByHeader ==
  ASSUME NEW f, FindAccount(f) = {}, NEW k \in DOMAIN accounts, accounts[k].bank = f.bank
  PROVE  f.header \cap accounts[k].known \cap {"iban", "number"} = {}
BY DEF FindAccount

\* What an import does to the tables, into one account or another.
IntoOld(f, k) ==
  /\ k \in FindAccount(f) /\ accounts' = accounts
  /\ stored' = [stored EXCEPT ![k] = @ \cup Keys(f)]

IntoNew(f, k) ==
  /\ FindAccount(f) = {} /\ k = Len(accounts) + 1
  /\ accounts' = Append(accounts, [bank |-> f.bank, known |-> f.header])
  /\ stored' = Append(stored, Keys(f))

\* An import does one or the other.
LEMMA ImportsInto ==
  ASSUME StatementsInv, NEW f \in Files, ImportStatement(f)
  PROVE  \E k : /\ IntoOld(f, k) \/ IntoNew(f, k)
                /\ imports' = Append(imports, [account |-> k, file |-> f])
                /\ ledger' = ledger
<1>1. PICK k \in ResolveAccount(f) :
        /\ accounts' = IF k \in DOMAIN accounts THEN accounts
                       ELSE Append(accounts, [bank |-> f.bank, known |-> f.header])
        /\ stored' = IF k \in DOMAIN stored THEN [stored EXCEPT ![k] = @ \cup Keys(f)]
                     ELSE Append(stored, Keys(f))
        /\ imports' = Append(imports, [account |-> k, file |-> f])
  BY DEF ImportStatement
<1>2. DOMAIN stored = DOMAIN accounts /\ DOMAIN accounts = 1..Len(accounts) /\ Len(accounts) \in Nat
  BY LenProperties DEF StatementsInv
<1>3. ledger' = ledger
  BY DEF ImportStatement
<1>4. CASE FindAccount(f) # {}
  <2>1. k \in FindAccount(f) /\ k \in DOMAIN accounts
    BY <1>4, OneAccount DEF ResolveAccount
  <2> QED
    BY <1>1, <1>2, <1>3, <2>1 DEF IntoOld
<1>5. CASE FindAccount(f) = {}
  <2>1. k = Len(accounts) + 1 /\ k \notin DOMAIN accounts
    BY <1>2, <1>5 DEF ResolveAccount
  <2> QED
    BY <1>1, <1>2, <1>3, <1>5, <2>1 DEF IntoNew
<1> QED
  BY <1>4, <1>5

\* An old account takes the rows.
LEMMA OldAccount ==
  ASSUME StatementsInv, NEW f \in Files, NEW k, IntoOld(f, k)
  PROVE  /\ k \in DOMAIN accounts /\ DOMAIN accounts' = DOMAIN accounts
         /\ accounts' \in Seq([bank : Bank, known : Headers])
         /\ stored' \in Seq(SUBSET Row) /\ Len(stored') = Len(accounts')
         /\ stored'[k] = stored[k] \cup Keys(f)
         /\ \A j \in DOMAIN stored \ {k} : stored'[j] = stored[j]
<1>1. k \in DOMAIN accounts /\ accounts' = accounts
  BY OneAccount DEF IntoOld
<1>2. /\ stored \in Seq(SUBSET Row) /\ Len(stored) = Len(accounts)
      /\ DOMAIN stored = DOMAIN accounts /\ stored' = [stored EXCEPT ![k] = @ \cup Keys(f)]
  BY LenProperties DEF StatementsInv, IntoOld
<1>3. stored[k] \cup Keys(f) \in SUBSET Row
  BY <1>1, <1>2, KeysType, ElementOfSeq, LenProperties DEF StatementsInv
<1>4. stored' \in Seq(SUBSET Row) /\ Len(stored') = Len(stored)
  BY <1>1, <1>2, <1>3, ExceptSeq
<1> QED
  BY <1>1, <1>2, <1>4 DEF StatementsInv

\* A new one has the rows of its first file.
LEMMA NewAccount ==
  ASSUME StatementsInv, NEW f \in Files, NEW k, IntoNew(f, k)
  PROVE  /\ k = Len(accounts) + 1 /\ k \notin DOMAIN accounts
         /\ DOMAIN accounts' = DOMAIN accounts \cup {k}
         /\ accounts' \in Seq([bank : Bank, known : Headers])
         /\ accounts'[k].bank = f.bank /\ accounts'[k].known = f.header
         /\ \A j \in DOMAIN accounts : accounts'[j] = accounts[j]
         /\ stored' \in Seq(SUBSET Row) /\ Len(stored') = Len(accounts')
         /\ DOMAIN stored' = DOMAIN stored \cup {k} /\ stored'[k] = Keys(f)
         /\ \A j \in DOMAIN stored : stored'[j] = stored[j]
<1> DEFINE account == [bank |-> f.bank, known |-> f.header]
<1>1. account \in [bank : Bank, known : Headers]
  BY FileTypes DEF Statement, StatementsInv
<1>2. Keys(f) \in SUBSET Row
  BY KeysType DEF StatementsInv
<1>3. /\ accounts \in Seq([bank : Bank, known : Headers]) /\ stored \in Seq(SUBSET Row)
      /\ Len(stored) = Len(accounts) /\ Len(accounts) \in Nat
      /\ DOMAIN accounts = 1..Len(accounts) /\ DOMAIN stored = 1..Len(stored)
  BY LenProperties DEF StatementsInv
<1>4. accounts' = Append(accounts, account) /\ stored' = Append(stored, Keys(f))
      /\ k = Len(accounts) + 1
  BY DEF IntoNew
<1>5. account.bank = f.bank /\ account.known = f.header
  OBVIOUS
<1> HIDE DEF account
<1>6. /\ accounts' \in Seq([bank : Bank, known : Headers]) /\ Len(accounts') = Len(accounts) + 1
      /\ accounts'[k] = account /\ \A j \in DOMAIN accounts : accounts'[j] = accounts[j]
  BY <1>1, <1>3, <1>4, AppendProperties
<1>7. /\ stored' \in Seq(SUBSET Row) /\ Len(stored') = Len(stored) + 1
      /\ stored'[k] = Keys(f) /\ \A j \in DOMAIN stored : stored'[j] = stored[j]
  BY <1>2, <1>3, <1>4, AppendProperties
<1>8. DOMAIN accounts' = 1..Len(accounts')
  BY <1>6, LenProperties
<1>9. DOMAIN accounts' = DOMAIN accounts \cup {k} /\ k \notin DOMAIN accounts
  BY <1>3, <1>4, <1>6, <1>8
<1>10. DOMAIN stored' = DOMAIN stored \cup {k}
  <2>1. DOMAIN stored' = 1..Len(stored')
    BY <1>7, LenProperties
  <2> QED
    BY <1>3, <1>4, <1>7, <2>1
<1> QED
  BY <1>3, <1>4, <1>5, <1>6, <1>7, <1>9, <1>10

\* The bank's step adds one entry at the end of one ledger.
LEMMA PostFacts ==
  ASSUME StatementsInv, NEW b \in Bank, Post(b)
  PROVE  /\ ledger' \in [Bank -> Seq(Entry)]
         /\ Len(ledger'[b]) = Len(ledger[b]) + 1
         /\ \A n \in DOMAIN ledger[b] : ledger'[b][n] = ledger[b][n]
         /\ \A c \in Bank \ {b} : ledger'[c] = ledger[c]
         /\ accounts' = accounts /\ stored' = stored /\ imports' = imports
<1>1. PICK e \in Entry : ledger' = [ledger EXCEPT ![b] = Append(@, e)]
  BY DEF Post
<1>2. ledger[b] \in Seq(Entry) /\ DOMAIN ledger[b] = 1..Len(ledger[b])
  BY LenProperties DEF StatementsInv
<1> DEFINE longer == Append(ledger[b], e)
<1>3. /\ longer \in Seq(Entry) /\ Len(longer) = Len(ledger[b]) + 1
      /\ \A n \in DOMAIN ledger[b] : longer[n] = ledger[b][n]
  BY <1>2, AppendProperties
<1>4. ledger' = [ledger EXCEPT ![b] = longer]
  BY <1>1
<1> HIDE DEF longer
<1> QED
  BY <1>3, <1>4 DEF StatementsInv, Post

\* At the start there are no accounts.
LEMMA InitStatements == Init => StatementsInv
<1> SUFFICES ASSUME Init PROVE StatementsInv
  OBVIOUS
<1>1. /\ accounts \in Seq([bank : Bank, known : Headers]) /\ Len(accounts) = 0
      /\ stored \in Seq(SUBSET Row) /\ Len(stored) = 0 /\ imports \in Seq(Upload)
      /\ DOMAIN accounts = {} /\ DOMAIN stored = {} /\ DOMAIN imports = {}
  BY DEF Init
<1>2. ledger \in [Bank -> Seq(Entry)]
  BY DEF Init
<1> QED
  BY <1>1, <1>2 DEF StatementsInv, NamesOne

\* An import leaves a row about an account that is there.
LEMMA ImportRow ==
  ASSUME StatementsInv, NEW f \in Files, NEW k \in Nat,
         imports' = Append(imports, [account |-> k, file |-> f])
  PROVE  /\ imports' \in Seq(Upload) /\ Len(imports') = Len(imports) + 1
         /\ DOMAIN imports' = DOMAIN imports \cup {Len(imports')}
         /\ imports'[Len(imports')].account = k /\ imports'[Len(imports')].file = f
         /\ \A i \in DOMAIN imports : imports'[i] = imports[i]
         /\ imports' # imports
<1> DEFINE upload == [account |-> k, file |-> f]
<1>1. upload \in Upload /\ upload.account = k /\ upload.file = f
  BY FileTypes DEF Upload, StatementsInv
<1>2. imports \in Seq(Upload) /\ DOMAIN imports = 1..Len(imports) /\ Len(imports) \in Nat
  BY LenProperties DEF StatementsInv
<1>3. imports' = Append(imports, upload)
  OBVIOUS
<1> HIDE DEF upload
<1>4. /\ imports' \in Seq(Upload) /\ Len(imports') = Len(imports) + 1
      /\ imports'[Len(imports')] = upload
      /\ \A i \in DOMAIN imports : imports'[i] = imports[i]
  BY <1>1, <1>2, <1>3, AppendProperties
<1>5. DOMAIN imports' = DOMAIN imports \cup {Len(imports')}
  <2>1. DOMAIN imports' = 1..Len(imports')
    BY <1>4, LenProperties
  <2> QED
    BY <1>2, <1>4, <2>1
<1>6. imports' # imports
  <2>1. Len(imports) \in Nat /\ Len(imports') = Len(imports) + 1
    BY <1>2, <1>4
  <2>2. Len(imports') # Len(imports)
    BY ONLY <2>1
  <2> QED
    BY ONLY <2>2
<1> QED
  BY <1>1, <1>4, <1>5, <1>6

\* Every step keeps the invariant.
LEMMA NextStatements == StatementsInv /\ [Next]_vars => StatementsInv'
<1> SUFFICES ASSUME StatementsInv, [Next]_vars PROVE StatementsInv'
  OBVIOUS
<1>1. CASE UNCHANGED vars
  BY <1>1 DEF vars, StatementsInv, NamesOne
<1>2. ASSUME NEW b \in Bank, Post(b) PROVE StatementsInv'
  BY <1>2, PostFacts DEF StatementsInv, NamesOne
<1>3. ASSUME NEW f \in Files, ImportStatement(f) PROVE StatementsInv'
  <2>1. PICK k : /\ IntoOld(f, k) \/ IntoNew(f, k)
                 /\ imports' = Append(imports, [account |-> k, file |-> f])
                 /\ ledger' = ledger
    BY <1>3, ImportsInto
  <2>2. DOMAIN accounts = 1..Len(accounts) /\ Len(accounts) \in Nat /\ DOMAIN stored = DOMAIN accounts
    BY LenProperties DEF StatementsInv
  <2>3. k \in DOMAIN accounts' /\ DOMAIN accounts \subseteq DOMAIN accounts' /\ k \in Nat
    <3>1. CASE IntoOld(f, k)
      BY <2>2, <3>1, OldAccount
    <3>2. CASE IntoNew(f, k)
      <4>1. k = Len(accounts) + 1 /\ DOMAIN accounts' = DOMAIN accounts \cup {k}
        BY <3>2, NewAccount
      <4> QED
        BY ONLY <2>2, <4>1
    <3> QED
      BY <2>1, <3>1, <3>2
  <2>4. imports' \in Seq(Upload) /\ \A i \in DOMAIN imports' : imports'[i].account \in DOMAIN accounts'
    BY <2>1, <2>3, ImportRow DEF StatementsInv
  <2>5. IsFiniteSet(Keys(f))
    BY KeysType DEF StatementsInv
  <2>6. CASE IntoOld(f, k)
    <3>1. \A j \in DOMAIN stored' : IsFiniteSet(stored'[j])
      <4>1. DOMAIN stored' = DOMAIN stored
        BY <2>6 DEF IntoOld
      <4>2. IsFiniteSet(stored[k] \cup Keys(f))
        BY <2>2, <2>5, <2>6, OldAccount, FS_Union DEF StatementsInv
      <4> QED
        BY <2>6, <4>1, <4>2, OldAccount DEF StatementsInv
    <3>2. NamesOne'
      BY <2>6 DEF IntoOld, NamesOne, StatementsInv
    <3> QED
      BY <2>1, <2>4, <2>6, <3>1, <3>2, OldAccount DEF StatementsInv
  <2>7. CASE IntoNew(f, k)
    <3>1. \A j \in DOMAIN stored' : IsFiniteSet(stored'[j])
      <4>1. /\ DOMAIN stored' = DOMAIN stored \cup {k} /\ stored'[k] = Keys(f)
            /\ \A j \in DOMAIN stored : stored'[j] = stored[j]
        BY <2>7, NewAccount
      <4> QED
        BY <2>5, <4>1 DEF StatementsInv
    <3>2. NamesOne'
      <4> SUFFICES ASSUME NEW what \in {"iban", "number"},
                          NEW i \in DOMAIN accounts', NEW j \in DOMAIN accounts',
                          accounts'[i].bank = accounts'[j].bank,
                          what \in accounts'[i].known \cap accounts'[j].known
                   PROVE  i = j
        BY DEF NamesOne
      <4>1. i \in DOMAIN accounts \cup {k} /\ j \in DOMAIN accounts \cup {k}
        BY <2>7, NewAccount
      <4>2. ASSUME NEW l \in DOMAIN accounts, accounts[l].bank = f.bank PROVE what \notin f.header \cap accounts[l].known
        BY <2>7, <4>2, FoundByHeader DEF IntoNew
      <4>3. /\ accounts'[k].bank = f.bank /\ accounts'[k].known = f.header
            /\ \A l \in DOMAIN accounts : accounts'[l] = accounts[l]
        BY <2>7, NewAccount
      <4>4. CASE i \in DOMAIN accounts /\ j \in DOMAIN accounts
        BY <4>3, <4>4 DEF StatementsInv, NamesOne
      <4>5. CASE i = k /\ j \in DOMAIN accounts
        BY <4>2, <4>3, <4>5
      <4>6. CASE j = k /\ i \in DOMAIN accounts
        BY <4>2, <4>3, <4>6
      <4> QED
        BY <4>1, <4>4, <4>5, <4>6
    <3> QED
      BY <2>1, <2>4, <2>7, <3>1, <3>2, NewAccount DEF StatementsInv
  <2> QED
    BY <2>1, <2>6, <2>7
<1> QED
  BY <1>1, <1>2, <1>3 DEF Next

\* The invariant holds in every state of every behaviour.
LEMMA StatementsInvariant == Spec => []StatementsInv
BY InitStatements, NextStatements, PTL DEF Spec

\* TypeOK: rows are only under accounts that exist, and an iban names one account,
\* whatever headers the files of a bank have and in whatever order they come.
THEOREM Types == Spec => []TypeOK
<1>1. ASSUME StatementsInv PROVE TypeOK
  <2>1. DOMAIN stored = DOMAIN accounts
    BY <1>1, LenProperties DEF StatementsInv
  <2>2. \A k \in DOMAIN stored : \A r \in stored[k] : r.day \in 1..LastDay /\ r.amount \in Amounts
    <3>1. \A k \in DOMAIN stored : stored[k] \in SUBSET Row
      BY <1>1, LenProperties DEF StatementsInv
    <3> QED
      BY <3>1 DEF Row
  <2> QED
    BY <1>1, <2>1, <2>2 DEF StatementsInv, NamesOne, TypeOK
<1> QED
  BY <1>1, StatementsInvariant, PTL

------------------------------------------------------------------------------
(* The book of each bank's account.                                         *)

BookOf(b)   == UNION {stored[k] : k \in Identified(b)}
WorthOf(rs) == SumFunction([r \in rs |-> r.amount])
TotalOf(b)  == SumFunction([k \in Identified(b) |-> WorthOf(stored[k])])

\* At most one account is known to be the one at the bank, and it has the book.
LEMMA OneIdentified ==
  ASSUME StatementsInv, NEW b \in Bank, NEW k \in Identified(b)
  PROVE  Identified(b) = {k} /\ k \in DOMAIN accounts /\ k \in DOMAIN stored /\ accounts[k].bank = b
<1>1. k \in DOMAIN accounts /\ accounts[k].bank = b /\ "iban" \in accounts[k].known
  BY DEF Identified
<1>2. DOMAIN stored = DOMAIN accounts
  BY LenProperties DEF StatementsInv
<1>3. ASSUME NEW j \in Identified(b) PROVE j = k
  BY <1>1 DEF Identified, StatementsInv, NamesOne
<1> QED
  BY <1>1, <1>2, <1>3

\* What rows are worth is a number.
LEMMA WorthType ==
  ASSUME NEW rs \in SUBSET Row, IsFiniteSet(rs)
  PROVE  WorthOf(rs) \in Int /\ (rs = {} => WorthOf(rs) = 0)
<1> DEFINE g == [r \in rs |-> r.amount]
<1>1. DOMAIN g = rs /\ \A r \in rs : g[r] \in Int
  BY StatementsAssumption DEF Row
<1>2. WorthOf(rs) = SumFunction(g)
  BY DEF WorthOf
<1> HIDE DEF g
<1> QED
  BY <1>1, <1>2, SumFunctionType

\* Rows that are added are worth what is new among them.
LEMMA WorthAdds ==
  ASSUME NEW rs \in SUBSET Row, IsFiniteSet(rs), NEW new \in SUBSET Row, IsFiniteSet(new)
  PROVE  WorthOf(rs \cup new) = WorthOf(rs) + WorthOf(new \ rs)
<1> DEFINE g == [r \in rs \cup new |-> r.amount]
<1>1. DOMAIN g = rs \cup new /\ (\A r \in rs \cup new : g[r] \in Int) /\ IsFiniteSet(rs \cup new)
  BY StatementsAssumption, FS_Union DEF Row
<1>2. /\ WorthOf(rs \cup new) = SumFunction(g)
      /\ WorthOf(rs) = SumFunction([r \in rs |-> g[r]])
  <2>1. [r \in rs |-> g[r]] = [r \in rs |-> r.amount]
    OBVIOUS
  <2> QED
    BY <2>1 DEF WorthOf
<1>3. WorthOf(new \ rs) = SumFunction([r \in DOMAIN g \ rs |-> g[r]])
  <2>1. DOMAIN g \ rs = new \ rs /\ [r \in new \ rs |-> g[r]] = [r \in new \ rs |-> r.amount]
    OBVIOUS
  <2> QED
    BY <2>1 DEF WorthOf
<1> HIDE DEF g
<1>4. IsFiniteSet(DOMAIN g) /\ (\A r \in DOMAIN g : g[r] \in Int) /\ rs \in SUBSET DOMAIN g
  BY <1>1
<1>5. SumFunction(g) = SumFunction([r \in rs |-> g[r]])
                       + SumFunction([r \in DOMAIN g \ rs |-> g[r]])
  BY <1>4, SumFunctionParts
<1> QED
  BY <1>2, <1>3, <1>5

\* The book of the bank is that of its account.
LEMMA BookIs ==
  ASSUME StatementsInv, NEW b \in Bank, NEW k \in Identified(b)
  PROVE  BookOf(b) = stored[k] /\ TotalOf(b) = WorthOf(stored[k])
<1>1. Identified(b) = {k} /\ stored[k] \in SUBSET Row /\ IsFiniteSet(stored[k])
  BY OneIdentified, LenProperties, ElementOfSeq DEF StatementsInv
<1>2. [j \in Identified(b) |-> WorthOf(stored[j])] = [j \in {k} |-> WorthOf(stored[k])]
  BY <1>1
<1>3. WorthOf(stored[k]) \in Int
  BY <1>1, WorthType
<1>4. TotalOf(b) = WorthOf(stored[k])
  BY <1>2, <1>3, SumFunctionOne DEF TotalOf
<1> QED
  BY <1>1, <1>4 DEF BookOf

\* A bank without such an account has an empty book.
LEMMA NoBook ==
  ASSUME NEW b, Identified(b) = {}
  PROVE  BookOf(b) = {} /\ TotalOf(b) = 0
<1> DEFINE g == [k \in Identified(b) |-> WorthOf(stored[k])]
<1>1. DOMAIN g = {} /\ IsFiniteSet({}) /\ \A k \in DOMAIN g : g[k] \in Int
  BY FS_EmptySet
<1>2. TotalOf(b) = SumFunction(g)
  BY DEF TotalOf
<1> HIDE DEF g
<1>3. TotalOf(b) = 0
  BY <1>1, <1>2, SumFunctionType
<1> QED
  BY <1>3 DEF BookOf

\* At the start the bank has made nothing and the books are empty.
LEMMA BooksInit ==
  ASSUME \A b \in Bank : Made(b) = {} /\ BookOf(b) = {} /\ TotalOf(b) = 0
  PROVE  Books!Init
BY DEF Books!Init, BookOf, TotalOf, WorthOf

\* The bank's step adds one entry to what it has made.
LEMMA BooksPost ==
  ASSUME NEW b \in Bank, NEW entry, Made(b)' = Made(b) \cup {entry},
         \A c \in Bank \ {b} : Made(c)' = Made(c),
         \A c \in Bank : BookOf(c)' = BookOf(c) /\ TotalOf(c)' = TotalOf(c)
  PROVE  Books!Post(b)
<1>1. [c \in Bank |-> Made(c)'] = [[c \in Bank |-> Made(c)] EXCEPT ![b] = @ \cup {entry}]
  OBVIOUS
<1>2. entry \in [c \in Bank |-> Made(c)'][b]
  OBVIOUS
<1>3. /\ [c \in Bank |-> BookOf(c)'] = [c \in Bank |-> BookOf(c)]
      /\ [c \in Bank |-> TotalOf(c)'] = [c \in Bank |-> TotalOf(c)]
  OBVIOUS
<1> QED
  BY <1>1, <1>2, <1>3 DEF Books!Post, BookOf, TotalOf, WorthOf

\* An import into an identified account enters some of them.
LEMMA BooksEnter ==
  ASSUME NEW b \in Bank, NEW file \in SUBSET Made(b),
         \A c \in Bank : Made(c)' = Made(c),
         BookOf(b)' = BookOf(b) \cup file,
         TotalOf(b)' = TotalOf(b) + WorthOf(file \ BookOf(b)),
         \A c \in Bank \ {b} : BookOf(c)' = BookOf(c) /\ TotalOf(c)' = TotalOf(c)
  PROVE  Books!Enter(b)
<1>1. [c \in Bank |-> Made(c)'] = [c \in Bank |-> Made(c)]
  OBVIOUS
<1>2. [c \in Bank |-> BookOf(c)'] = [[c \in Bank |-> BookOf(c)] EXCEPT ![b] = @ \cup file]
  OBVIOUS
<1>3. [c \in Bank |-> TotalOf(c)'] =
        [[c \in Bank |-> TotalOf(c)] EXCEPT ![b] = @ + Books!Worth(file \ [c \in Bank |-> BookOf(c)][b])]
  <2>1. Books!Worth(file \ BookOf(b)) = WorthOf(file \ BookOf(b))
    BY DEF Books!Worth, Books!SumFunction, Books!SumFunctionOnSet, Books!FoldFunctionOnSet,
           Books!MapThenFoldSet, WorthOf, SumFunction, SumFunctionOnSet, FoldFunctionOnSet,
           MapThenFoldSet
  <2>2. [c \in Bank |-> BookOf(c)][b] = BookOf(b)
    OBVIOUS
  <2> QED
    BY <2>1, <2>2
<1>4. file \in SUBSET [c \in Bank |-> Made(c)][b]
  OBVIOUS
<1>5. /\ \E new \in SUBSET [c \in Bank |-> Made(c)][b] :
           /\ [c \in Bank |-> BookOf(c)'] = [[c \in Bank |-> BookOf(c)] EXCEPT ![b] = @ \cup new]
           /\ [c \in Bank |-> TotalOf(c)'] =
                [[c \in Bank |-> TotalOf(c)] EXCEPT ![b] = @ + Books!Worth(new \ [c \in Bank |-> BookOf(c)][b])]
      /\ [c \in Bank |-> Made(c)'] = [c \in Bank |-> Made(c)]
  BY <1>1, <1>2, <1>3, <1>4
<1> QED
  BY <1>5 DEF Books!Enter, BookOf, TotalOf, WorthOf

\* Any other import leaves the books as they are.
LEMMA BooksStay ==
  ASSUME \A c \in Bank : Made(c)' = Made(c) /\ BookOf(c)' = BookOf(c) /\ TotalOf(c)' = TotalOf(c)
  PROVE  UNCHANGED <<[c \in Bank |-> Made(c)], [c \in Bank |-> BookOf(c)], [c \in Bank |-> TotalOf(c)]>>
<1>1. [c \in Bank |-> Made(c)'] = [c \in Bank |-> Made(c)]
  OBVIOUS
<1>2. [c \in Bank |-> BookOf(c)'] = [c \in Bank |-> BookOf(c)]
  OBVIOUS
<1>3. [c \in Bank |-> TotalOf(c)'] = [c \in Bank |-> TotalOf(c)]
  OBVIOUS
<1> QED
  BY <1>1, <1>2, <1>3

\* What an entry is known by never changes.
LEMMA IdentityStays ==
  ASSUME StatementsInv, NEW b \in Bank, Post(b), NEW c \in Bank, NEW n \in DOMAIN ledger[c]
  PROVE  Identity(c, n)' = Identity(c, n)
<1>1. DOMAIN ledger[c] = 1..Len(ledger[c]) /\ Len(ledger[c]) \in Nat
  BY LenProperties DEF StatementsInv
<1>2. \A m \in DOMAIN ledger[c] : ledger'[c][m] = ledger[c][m]
  BY PostFacts
<1>3. \A m \in 1..n : ledger'[c][m].amount = ledger[c][m].amount
  BY <1>1, <1>2
<1>4. SumOf(1..n, c)' = SumOf(1..n, c)
  <2>1. [m \in 1..n |-> ledger'[c][m].amount] = [m \in 1..n |-> ledger[c][m].amount]
    BY <1>3
  <2> QED
    BY <2>1 DEF SumOf
<1> QED
  BY <1>2, <1>4 DEF Identity, Balance

\* An account that an import does not touch keeps its book.
LEMMA BookStays ==
  ASSUME NEW c, Identified(c)' = Identified(c), \A j \in Identified(c) : stored'[j] = stored[j]
  PROVE  BookOf(c)' = BookOf(c) /\ TotalOf(c)' = TotalOf(c)
<1>1. \A j \in Identified(c) : WorthOf(stored[j])' = WorthOf(stored[j])
  BY DEF WorthOf
<1>2. [j \in Identified(c)' |-> WorthOf(stored[j])'] = [j \in Identified(c) |-> WorthOf(stored[j])]
  BY <1>1
<1>3. TotalOf(c)' = TotalOf(c)
  BY <1>2 DEF TotalOf
<1> QED
  BY <1>3 DEF BookOf

\* The bank's step is BankBook's.
LEMMA PostBooks ==
  ASSUME StatementsInv, NEW b \in Bank, Post(b)
  PROVE  Books!Next
<1>1. \A c \in Bank : \A n \in DOMAIN ledger[c] : Identity(c, n)' = Identity(c, n)
  BY IdentityStays
<1>2. DOMAIN ledger'[b] = DOMAIN ledger[b] \cup {Len(ledger'[b])}
  <2>1. DOMAIN ledger'[b] = 1..Len(ledger'[b]) /\ DOMAIN ledger[b] = 1..Len(ledger[b])
    BY PostFacts, LenProperties DEF StatementsInv
  <2>2. Len(ledger'[b]) = Len(ledger[b]) + 1 /\ Len(ledger[b]) \in Nat
    BY PostFacts, LenProperties DEF StatementsInv
  <2> QED
    BY ONLY <2>1, <2>2
<1> DEFINE entry == Identity(b, Len(ledger[b]))'
<1>3. Made(b)' = Made(b) \cup {entry}
  BY <1>1, <1>2 DEF Made
<1>4. \A c \in Bank \ {b} : Made(c)' = Made(c)
  <2>1. \A c \in Bank \ {b} : DOMAIN ledger'[c] = DOMAIN ledger[c]
    BY PostFacts
  <2> QED
    BY <1>1, <2>1 DEF Made
<1>5. \A c \in Bank : BookOf(c)' = BookOf(c) /\ TotalOf(c)' = TotalOf(c)
  BY PostFacts, BookStays DEF Identified
<1>6. Books!Post(b)
  <2> HIDE DEF entry
  <2> QED
    BY <1>3, <1>4, <1>5, BooksPost
<1> QED
  BY <1>6 DEF Books!Next

\* The books are those of the accounts, before a step and after it.
BooksOfAccounts ==
  \A b \in Bank : \A k \in Identified(b) :
    BookOf(b) = stored[k] /\ TotalOf(b) = WorthOf(stored[k])

\* They are in every state of the invariant.
LEMMA BooksAre == StatementsInv => BooksOfAccounts
BY BookIs DEF BooksOfAccounts

\* So they are after a step that keeps it.
LEMMA BooksWillBe == StatementsInv' => BooksOfAccounts'
BY BooksAre, PTL

\* An import is BankBook's, or concerns no account that the program has identified.
LEMMA ImportBooks ==
  ASSUME StatementsInv, StatementsInv', NEW f \in Files, ImportStatement(f)
  PROVE  \/ Books!Next
         \/ UNCHANGED <<[c \in Bank |-> Made(c)], [c \in Bank |-> BookOf(c)], [c \in Bank |-> TotalOf(c)]>>
<1> DEFINE b == f.bank
<1>1. PICK k : /\ IntoOld(f, k) \/ IntoNew(f, k)
               /\ ledger' = ledger
  BY ImportsInto
<1>2. b \in Bank /\ Keys(f) \in SUBSET Made(b) /\ Keys(f) \in SUBSET Row /\ IsFiniteSet(Keys(f))
  BY FileTypes, KeysType DEF StatementsInv, Statement
<1>3. \A c \in Bank : Made(c)' = Made(c)
  BY <1>1 DEF Made, Identity, Balance, SumOf
<1>4. DOMAIN stored = DOMAIN accounts
  BY LenProperties DEF StatementsInv
<1>5. CASE IntoOld(f, k)
  <2>1. /\ k \in DOMAIN accounts /\ accounts[k].bank = b /\ accounts' = accounts
        /\ stored'[k] = stored[k] \cup Keys(f)
        /\ \A j \in DOMAIN stored \ {k} : stored'[j] = stored[j]
    BY <1>5, OldAccount, OneAccount DEF IntoOld
  <2>2. \A c \in Bank : Identified(c)' = Identified(c) /\ Identified(c) \subseteq DOMAIN accounts
    BY <2>1 DEF Identified
  <2>3. \A c \in Bank : k \notin Identified(c) => BookOf(c)' = BookOf(c) /\ TotalOf(c)' = TotalOf(c)
    <3> SUFFICES ASSUME NEW c \in Bank, k \notin Identified(c)
                 PROVE  BookOf(c)' = BookOf(c) /\ TotalOf(c)' = TotalOf(c)
      OBVIOUS
    <3>1. Identified(c)' = Identified(c) /\ \A j \in Identified(c) : stored'[j] = stored[j]
      BY <1>4, <2>1, <2>2
    <3> QED
      BY <3>1, BookStays
  <2>4. \A c \in Bank \ {b} : k \notin Identified(c)
    BY <2>1 DEF Identified
  <2>5. CASE k \in Identified(b)
    <3>1. BookOf(b) = stored[k] /\ TotalOf(b) = WorthOf(stored[k])
      BY <1>2, <2>5, BookIs
    <3>2. BookOf(b)' = stored[k] \cup Keys(f)
          /\ TotalOf(b)' = WorthOf(stored[k] \cup Keys(f))
      <4>1. BookOf(b)' = stored'[k] /\ TotalOf(b)' = WorthOf(stored[k])'
        BY <1>2, <2>2, <2>5, BooksWillBe DEF BooksOfAccounts
      <4>2. WorthOf(stored[k])' = WorthOf(stored[k] \cup Keys(f))
        BY <2>1 DEF WorthOf
      <4> QED
        BY <2>1, <4>1, <4>2
    <3>3. stored[k] \in SUBSET Row /\ IsFiniteSet(stored[k])
      BY <1>4, <2>1, LenProperties, ElementOfSeq DEF StatementsInv
    <3>4. WorthOf(stored[k] \cup Keys(f)) = WorthOf(stored[k]) + WorthOf(Keys(f) \ stored[k])
      BY <1>2, <3>3, WorthAdds
    <3>5. Books!Enter(b)
      <4> HIDE DEF b
      <4> QED
        BY <1>2, <1>3, <2>3, <2>4, <3>1, <3>2, <3>4, BooksEnter
    <3> QED
      BY <1>2, <3>5 DEF Books!Next
  <2>6. CASE k \notin Identified(b)
    <3>1. \A c \in Bank : Made(c)' = Made(c) /\ BookOf(c)' = BookOf(c) /\ TotalOf(c)' = TotalOf(c)
      BY <1>3, <2>3, <2>4, <2>6
    <3> QED
      BY <3>1, BooksStay
  <2> QED
    BY <2>5, <2>6
<1>6. CASE IntoNew(f, k)
  <2>1. /\ k \notin DOMAIN accounts /\ DOMAIN accounts' = DOMAIN accounts \cup {k}
        /\ accounts'[k].bank = b /\ accounts'[k].known = f.header
        /\ \A j \in DOMAIN accounts : accounts'[j] = accounts[j]
        /\ stored'[k] = Keys(f) /\ \A j \in DOMAIN stored : stored'[j] = stored[j]
    BY <1>6, NewAccount
  <2>2. \A c \in Bank : Identified(c) \subseteq DOMAIN accounts
    BY DEF Identified
  <2>3. ASSUME NEW c \in Bank, c # b \/ "iban" \notin f.header
        PROVE  BookOf(c)' = BookOf(c) /\ TotalOf(c)' = TotalOf(c)
    <3>1. Identified(c)' = Identified(c)
      BY <2>1, <2>3 DEF Identified
    <3>2. \A j \in Identified(c) : stored'[j] = stored[j]
      BY <1>4, <2>1, <2>2
    <3> QED
      BY <3>1, <3>2, BookStays
  <2>4. CASE "iban" \in f.header
    <3>1. Identified(b) = {}
      BY <1>6, <2>4, FoundByHeader DEF IntoNew, Identified
    <3>2. BookOf(b) = {} /\ TotalOf(b) = 0
      BY <3>1, NoBook
    <3>3. BookOf(b)' = Keys(f) /\ TotalOf(b)' = WorthOf(Keys(f))
      <4>1. (k \in Identified(b))'
        BY <2>1, <2>4 DEF Identified
      <4>2. BookOf(b)' = stored'[k] /\ TotalOf(b)' = WorthOf(stored[k])'
        BY <1>2, <4>1, BooksWillBe DEF BooksOfAccounts
      <4>3. WorthOf(stored[k])' = WorthOf(Keys(f))
        BY <2>1 DEF WorthOf
      <4> QED
        BY <2>1, <4>2, <4>3
    <3>4. /\ BookOf(b)' = BookOf(b) \cup Keys(f)
          /\ TotalOf(b)' = TotalOf(b) + WorthOf(Keys(f) \ BookOf(b))
      <4>1. WorthOf(Keys(f)) \in Int /\ Keys(f) \ {} = Keys(f) /\ {} \cup Keys(f) = Keys(f)
        BY <1>2, WorthType
      <4> QED
        BY <3>2, <3>3, <4>1
    <3>5. Books!Enter(b)
      <4> HIDE DEF b
      <4> QED
        BY <1>2, <1>3, <2>3, <3>4, BooksEnter
    <3> QED
      BY <1>2, <3>5 DEF Books!Next
  <2>5. CASE "iban" \notin f.header
    BY <1>3, <2>3, <2>5, BooksStay
  <2> QED
    BY <2>4, <2>5
<1> QED
  BY <1>1, <1>5, <1>6

\* BooksKept: whatever files come, the program's books are those of BankBook.
THEOREM ImplementsBankBook == Spec => BooksKept
<1>1. Init => Books!Init
  <2> SUFFICES ASSUME Init PROVE Books!Init
    OBVIOUS
  <2>1. \A b \in Bank : Made(b) = {} /\ Identified(b) = {}
    BY DEF Init, Made, Identified
  <2> QED
    BY <2>1, NoBook, BooksInit
<1>2. StatementsInv /\ StatementsInv' /\ [Next]_vars =>
        [Books!Next]_<<[b \in Bank |-> Made(b)],
                       [b \in Bank |-> UNION {stored[k] : k \in Identified(b)}],
                       [b \in Bank |-> SumFunction([k \in Identified(b) |->
                                         SumFunction([r \in stored[k] |-> r.amount])])]>>
  <2> SUFFICES ASSUME StatementsInv, StatementsInv', [Next]_vars
               PROVE  \/ Books!Next
                      \/ UNCHANGED <<[c \in Bank |-> Made(c)], [c \in Bank |-> BookOf(c)],
                                     [c \in Bank |-> TotalOf(c)]>>
    BY DEF BookOf, TotalOf, WorthOf
  <2>1. CASE UNCHANGED vars
    <3>1. \A c \in Bank : Made(c)' = Made(c) /\ BookOf(c)' = BookOf(c) /\ TotalOf(c)' = TotalOf(c)
      BY <2>1 DEF vars, Made, Identity, Balance, SumOf, BookOf, TotalOf, WorthOf, Identified
    <3> QED
      BY <3>1, BooksStay
  <2>2. ASSUME NEW b \in Bank, Post(b) PROVE Books!Next
    BY <2>2, PostBooks
  <2> QED
    BY <2>1, <2>2, ImportBooks DEF Next
<1> QED
  BY <1>1, <1>2, StatementsInvariant, PTL DEF Spec, BooksKept, Books!Spec

------------------------------------------------------------------------------
(* What an import adds, and what the preview foretells of it.               *)

\* The lines whose row is not among some old ones are as many as the rows.
LEMMA NewRows ==
  ASSUME StatementsInv, NEW f \in Files, KeysUnique(f), NEW old
  PROVE  Cardinality({n \in Lines(f) : Key(f.bank, n) \notin old}) = Cardinality(Keys(f) \ old)
<1> DEFINE g == [n \in Lines(f) |-> Key(f.bank, n)]
           N == {n \in Lines(f) : Key(f.bank, n) \notin old}
           h == [n \in N |-> Key(f.bank, n)]
<1>1. IsFiniteSet(Lines(f)) /\ IsFiniteSet(N)
  BY FileTypes, LedgerFinite DEF StatementsInv, Statement
<1>2. g \in Surjection(Lines(f), Keys(f))
  BY DEF Surjection, Keys
<1>3. g \in Injection(Lines(f), Keys(f))
  BY <1>1, <1>2, FS_Surjection DEF KeysUnique
<1>4. h \in Surjection(N, Keys(f) \ old)
  BY DEF Surjection, Keys
<1>5. h \in Injection(N, Keys(f) \ old)
  <2>1. \A m, n \in Lines(f) : Key(f.bank, m) = Key(f.bank, n) => m = n
    BY <1>3 DEF Injection, IsInjective
  <2> QED
    BY <1>4, <2>1 DEF Injection, IsInjective, Surjection
<1> HIDE DEF g, h, N
<1>6. Cardinality(Keys(f) \ old) = Cardinality(N)
  BY <1>1, <1>4, <1>5, FS_Surjection
<1> QED
  BY <1>6 DEF N

\* An import into either kind of account adds the rows the preview counted.
LEMMA AddsForetold ==
  ASSUME StatementsInv, NEW f \in Files, KeysUnique(f), NEW k,
         IntoOld(f, k) \/ IntoNew(f, k)
  PROVE  /\ Cardinality(stored'[k] \ StoredIn(k)) = Preview(f).new
         /\ Preview(f).creates <=> k \notin DOMAIN accounts
<1>1. DOMAIN stored = DOMAIN accounts
  BY LenProperties DEF StatementsInv
<1>2. /\ Preview(f).new = Cardinality({n \in Lines(f) :
                            \A j \in FindAccount(f) : Key(f.bank, n) \notin stored[j]})
      /\ Preview(f).creates <=> FindAccount(f) = {}
  BY DEF Preview
<1>3. CASE IntoOld(f, k)
  <2>1. k \in FindAccount(f) /\ (\A j \in FindAccount(f) : j = k) /\ k \in DOMAIN accounts
    BY <1>3, OneAccount DEF IntoOld
  <2>2. stored'[k] \ StoredIn(k) = Keys(f) \ stored[k]
    BY <1>1, <1>3, <2>1, OldAccount DEF StoredIn
  <2>3. {n \in Lines(f) : \A j \in FindAccount(f) : Key(f.bank, n) \notin stored[j]}
          = {n \in Lines(f) : Key(f.bank, n) \notin stored[k]}
    BY <2>1
  <2> QED
    BY <1>2, <2>1, <2>2, <2>3, NewRows
<1>4. CASE IntoNew(f, k)
  <2>1. FindAccount(f) = {} /\ k \notin DOMAIN accounts
    BY <1>4, NewAccount DEF IntoNew
  <2>2. stored'[k] \ StoredIn(k) = Keys(f) \ {}
    BY <1>1, <1>4, <2>1, NewAccount DEF StoredIn
  <2>3. {n \in Lines(f) : \A j \in FindAccount(f) : Key(f.bank, n) \notin stored[j]}
          = {n \in Lines(f) : Key(f.bank, n) \notin {}}
    BY <2>1
  <2> QED
    BY <1>2, <2>1, <2>2, <2>3, NewRows
<1> QED
  BY <1>3, <1>4

\* The last row of the imports is that of the import.
LEMMA ImportsTell ==
  ASSUME StatementsInv, [Next]_vars, imports' # imports
  PROVE  \E f, k : /\ f \in Files
                   /\ IntoOld(f, k) \/ IntoNew(f, k)
                   /\ imports'[Len(imports')].file = f
                   /\ imports'[Len(imports')].account = k
<1>1. PICK f \in Files : ImportStatement(f)
  BY DEF Next, Post, vars
<1>2. PICK k : /\ IntoOld(f, k) \/ IntoNew(f, k)
               /\ imports' = Append(imports, [account |-> k, file |-> f])
  BY <1>1, ImportsInto
<1>3. k \in Nat
  <2>1. DOMAIN accounts = 1..Len(accounts) /\ Len(accounts) \in Nat
    BY LenProperties DEF StatementsInv
  <2>2. k \in DOMAIN accounts \/ k = Len(accounts) + 1
    BY <1>2, OldAccount DEF IntoNew
  <2> QED
    BY ONLY <2>1, <2>2
<1> QED
  BY <1>2, <1>3, ImportRow

\* PreviewExact: if no check fails, the import stores as many rows as the preview
\* counted as new, and makes an account if and only if that was foretold.
THEOREM PreviewIsExact == Spec => PreviewExact
<1>1. ASSUME StatementsInv, [Next]_vars
      PROVE  Imports(LAMBDA f, k : Valid(f) =>
               /\ Cardinality(stored'[k] \ StoredIn(k)) = Preview(f).new
               /\ Preview(f).creates <=> k \notin DOMAIN accounts)
  <2> SUFFICES ASSUME imports' # imports
               PROVE  LET i == imports'[Len(imports')]
                      IN  Valid(i.file) =>
                            /\ Cardinality(stored'[i.account] \ StoredIn(i.account)) = Preview(i.file).new
                            /\ Preview(i.file).creates <=> i.account \notin DOMAIN accounts
    BY DEF Imports
  <2>1. PICK f, k : /\ f \in Files
                    /\ IntoOld(f, k) \/ IntoNew(f, k)
                    /\ imports'[Len(imports')].file = f
                    /\ imports'[Len(imports')].account = k
    BY <1>1, ImportsTell
  <2>2. Valid(f) => /\ Cardinality(stored'[k] \ StoredIn(k)) = Preview(f).new
                    /\ Preview(f).creates <=> k \notin DOMAIN accounts
    BY <1>1, <2>1, AddsForetold DEF Valid
  <2> QED
    BY <2>1, <2>2
<1> QED
  BY <1>1, StatementsInvariant, PTL DEF Spec, PreviewExact

------------------------------------------------------------------------------
(* A file whose checks all pass is complete.                                *)

\* The bank makes its entries in the order of their days.
Chronological ==
  \A b \in Bank : \A m, n \in DOMAIN ledger[b] :
    m <= n => ledger[b][m].day <= ledger[b][n].day

\* A new entry is of no earlier day than the last one.
LEMMA NextChronological == StatementsInv /\ Chronological /\ [Next]_vars => Chronological'
<1> SUFFICES ASSUME StatementsInv, Chronological, [Next]_vars PROVE Chronological'
  OBVIOUS
<1>1. CASE ledger' = ledger
  BY <1>1 DEF Chronological
<1>2. ASSUME NEW b \in Bank, Post(b) PROVE Chronological'
  <2>1. PICK e \in Entry :
          /\ ledger[b] # <<>> => e.day >= ledger[b][Len(ledger[b])].day
          /\ ledger' = [ledger EXCEPT ![b] = Append(@, e)]
    BY <1>2 DEF Post
  <2> DEFINE old == ledger[b]
             l   == Len(old)
             new == Append(old, e)
  <2>2. old \in Seq(Entry) /\ l \in Nat /\ DOMAIN old = 1..l
    BY LenProperties DEF StatementsInv
  <2>3. /\ new \in Seq(Entry) /\ Len(new) = l + 1 /\ new[l + 1] = e
        /\ \A n \in 1..l : new[n] = old[n]
    BY <2>2, AppendProperties
  <2>4. DOMAIN new = 1..(l + 1)
    BY <2>3, LenProperties
  <2>5. ledger'[b] = new /\ \A c \in Bank \ {b} : ledger'[c] = ledger[c]
    BY <2>1 DEF StatementsInv
  <2>6. \A m, n \in 1..l : m <= n => old[m].day <= old[n].day
    BY <2>2 DEF Chronological
  <2>7. e.day \in Int /\ \A n \in 1..l : old[n].day \in Int
    <3>1. \A n \in 1..l : old[n] \in Entry
      BY <2>2, ElementOfSeq
    <3>2. \A x \in Entry : x.day \in Int
      BY DEF Entry
    <3> HIDE DEF old, l
    <3> QED
      BY <3>1, <3>2
  <2>8. l > 0 => old[l].day <= e.day
    <3>1. l > 0 => old # <<>>
      BY <2>2
    <3> QED
      BY <2>1, <2>2, <2>7, <3>1
  <2> HIDE DEF old, l, new
  <2>9. \A n \in 1..l : old[n].day <= e.day
    <3> SUFFICES ASSUME NEW n \in 1..l PROVE old[n].day <= e.day
      OBVIOUS
    <3>1. l \in 1..l /\ n <= l /\ l > 0
      BY <2>2
    <3> QED
      BY <2>6, <2>7, <2>8, <3>1
  <2>10. \A m, n \in 1..(l + 1) : m <= n => new[m].day <= new[n].day
    <3> SUFFICES ASSUME NEW m \in 1..(l + 1), NEW n \in 1..(l + 1), m <= n
                 PROVE  new[m].day <= new[n].day
      OBVIOUS
    <3>1. CASE n \in 1..l
      <4>1. m \in 1..l
        BY <2>2, <3>1
      <4> QED
        BY <2>3, <2>6, <3>1, <4>1
    <3>2. CASE n = l + 1 /\ m \in 1..l
      BY <2>3, <2>9, <3>2
    <3>3. CASE n = l + 1 /\ m = l + 1
      BY <2>3, <2>7, <3>3
    <3> QED
      BY <2>2, <3>1, <3>2, <3>3
  <2> QED
    BY <2>4, <2>5, <2>10 DEF Chronological
<1> QED
  BY <1>1, <1>2 DEF Next, ImportStatement, vars

\* So they always are.
LEMMA AlwaysChronological == Spec => []Chronological
<1>1. Init => Chronological
  BY DEF Init, Chronological
<1> QED
  BY <1>1, NextChronological, StatementsInvariant, PTL DEF Spec

\* Sums of entries apart.
LEMMA SumOfParts ==
  ASSUME StatementsInv, NEW b \in Bank, NEW ns \in SUBSET DOMAIN ledger[b], NEW ms \in SUBSET ns
  PROVE  SumOf(ns, b) = SumOf(ms, b) + SumOf(ns \ ms, b)
<1> DEFINE g == [n \in ns |-> ledger[b][n].amount]
<1>1. DOMAIN g = ns /\ IsFiniteSet(DOMAIN g) /\ (\A n \in DOMAIN g : g[n] \in Int)
  BY EntryTypes, LedgerFinite DEF StatementsInv
<1>2. SumOf(ns, b) = SumFunction(g)
  BY DEF SumOf
<1>3. SumOf(ms, b) = SumFunction([n \in ms |-> g[n]])
  <2>1. [n \in ms |-> g[n]] = [n \in ms |-> ledger[b][n].amount]
    OBVIOUS
  <2> QED
    BY <2>1 DEF SumOf
<1>4. SumOf(ns \ ms, b) = SumFunction([n \in DOMAIN g \ ms |-> g[n]])
  <2>1. DOMAIN g \ ms = ns \ ms
        /\ [n \in ns \ ms |-> g[n]] = [n \in ns \ ms |-> ledger[b][n].amount]
    OBVIOUS
  <2> QED
    BY <2>1 DEF SumOf
<1> HIDE DEF g
<1>5. SumFunction(g) = SumFunction([n \in ms |-> g[n]])
                       + SumFunction([n \in DOMAIN g \ ms |-> g[n]])
  BY <1>1, SumFunctionParts
<1> QED
  BY <1>2, <1>3, <1>4, <1>5

\* Entries of one sign that sum up to nothing are none.
LEMMA NoneOfOneSign ==
  ASSUME StatementsInv, NEW b \in Bank, NEW ns \in SUBSET DOMAIN ledger[b], SumOf(ns, b) = 0,
         \/ \A n \in ns : ledger[b][n].amount > 0
         \/ \A n \in ns : ledger[b][n].amount < 0
  PROVE  ns = {}
<1> DEFINE g == [n \in ns |-> ledger[b][n].amount]
<1>1. DOMAIN g = ns /\ IsFiniteSet(DOMAIN g) /\ (\A n \in DOMAIN g : g[n] \in Int)
  BY EntryTypes, LedgerFinite DEF StatementsInv
<1>2. SumFunction(g) = 0
  BY DEF SumOf
<1>3. \/ \A n \in DOMAIN g : g[n] > 0
      \/ \A n \in DOMAIN g : g[n] < 0
  OBVIOUS
<1> HIDE DEF g
<1>4. DOMAIN g = {}
  BY <1>1, <1>2, <1>3, SumFunctionSigned
<1> QED
  BY <1>1, <1>4

\* The two checks against a header's totals leave no room for a lost line.
LEMMA TotalsFindLost ==
  ASSUME StatementsInv, NEW f \in Files, Valid(f), f.bank \in TotalsInHeader
  PROVE  f.lost = {} /\ Lines(f) = f.made
<1> DEFINE b      == f.bank
           pos(N) == {n \in N : ledger[b][n].amount > 0}
           neg(N) == {n \in N : ledger[b][n].amount < 0}
<1>1. b \in Bank /\ f.made \subseteq DOMAIN ledger[b] /\ f.lost \subseteq f.made
  BY FileTypes DEF StatementsInv, Statement
<1>2. Deposits(f, f.made) = Deposits(f, Lines(f)) /\ Withdrawals(f, f.made) = Withdrawals(f, Lines(f))
  BY DEF Valid, Check, Total
<1>3. SumOf(pos(f.made), b) = SumOf(pos(Lines(f)), b)
  BY <1>2 DEF Deposits
<1>4. SumOf(neg(f.made), b) = SumOf(neg(Lines(f)), b)
  <2>1. -SumOf(neg(f.made), b) = -SumOf(neg(Lines(f)), b)
    BY <1>2 DEF Withdrawals
  <2>2. SumOf(neg(f.made), b) \in Int /\ SumOf(neg(Lines(f)), b) \in Int
    BY <1>1, SumOfType DEF Lines, StatementsInv
  <2> HIDE DEF neg
  <2> QED
    BY ONLY <2>1, <2>2
<1>5. /\ pos(f.made) \subseteq DOMAIN ledger[b] /\ pos(Lines(f)) \subseteq pos(f.made)
      /\ pos(f.made) \ pos(Lines(f)) = pos(f.lost)
      /\ neg(f.made) \subseteq DOMAIN ledger[b] /\ neg(Lines(f)) \subseteq neg(f.made)
      /\ neg(f.made) \ neg(Lines(f)) = neg(f.lost)
  BY <1>1 DEF Lines
<1>6. /\ pos(f.lost) \subseteq DOMAIN ledger[b] /\ neg(f.lost) \subseteq DOMAIN ledger[b]
      /\ \A n \in pos(f.lost) : ledger[b][n].amount > 0
      /\ \A n \in neg(f.lost) : ledger[b][n].amount < 0
  BY <1>1
<1>7. f.lost = pos(f.lost) \cup neg(f.lost)
  <2>1. \A n \in f.lost : ledger[b][n].amount \in Int /\ ledger[b][n].amount # 0
    BY <1>1, EntryTypes DEF StatementsInv
  <2> QED
    BY <2>1
<1> HIDE DEF b, pos, neg
<1>8. pos(f.lost) = {}
  <2>1. SumOf(pos(f.made), b) = SumOf(pos(Lines(f)), b) + SumOf(pos(f.lost), b)
    BY <1>1, <1>5, SumOfParts
  <2>2. SumOf(pos(Lines(f)), b) \in Int /\ SumOf(pos(f.lost), b) \in Int
    BY <1>1, <1>5, <1>6, SumOfType DEF StatementsInv
  <2>3. SumOf(pos(f.lost), b) = 0
    BY ONLY <1>3, <2>1, <2>2
  <2> QED
    BY <1>1, <1>6, <2>3, NoneOfOneSign
<1>9. neg(f.lost) = {}
  <2>1. SumOf(neg(f.made), b) = SumOf(neg(Lines(f)), b) + SumOf(neg(f.lost), b)
    BY <1>1, <1>5, SumOfParts
  <2>2. SumOf(neg(Lines(f)), b) \in Int /\ SumOf(neg(f.lost), b) \in Int
    BY <1>1, <1>5, <1>6, SumOfType DEF StatementsInv
  <2>3. SumOf(neg(f.lost), b) = 0
    BY ONLY <1>4, <2>1, <2>2
  <2> QED
    BY <1>1, <1>6, <2>3, NoneOfOneSign
<1> QED
  BY <1>7, <1>8, <1>9 DEF Lines

\* Of some numbers up to a bound there is a greatest.
LEMMA GreatestNumber ==
  ASSUME NEW l \in Nat, NEW N \in SUBSET (1..l), N # {}
  PROVE  \E n \in N : \A m \in N : m <= n
<1> DEFINE T == {l - n : n \in N}
<1>0. \A n \in N : n \in Int /\ n <= l
  OBVIOUS
<1>1. T \in SUBSET Nat /\ T # {}
  <2>1. \A n \in N : l - n \in Nat
    BY <1>0
  <2> QED
    BY <2>1
<1>2. PICK t \in T : \A u \in T : t <= u
  <2> HIDE DEF T
  <2> QED
    BY <1>1, LeastNumber
<1>3. PICK n \in N : t = l - n
  OBVIOUS
<1>4. ASSUME NEW m \in N PROVE m <= n
  <2>1. l - m \in T
    OBVIOUS
  <2>2. t <= l - m
    BY <1>2, <2>1
  <2>3. m \in Int /\ n \in Int
    BY <1>0
  <2> QED
    BY ONLY <1>3, <2>2, <2>3, l \in Nat
<1> QED
  BY <1>4

\* What lies between two lines of a file is in its period.
LEMMA BetweenLines ==
  ASSUME StatementsInv, Chronological, NEW f \in Files,
         NEW o \in f.made, NEW y \in f.made, NEW n \in o..y
  PROVE  n \in f.made
<1>1. PICK b \in Bank, p \in Period : f \in File(b, p[1], p[2])
  BY DEF Files
<1>2. f.made = Between(b, p[1], p[2])
  BY <1>1 DEF File
<1>3. DOMAIN ledger[b] = 1..Len(ledger[b]) /\ Len(ledger[b]) \in Nat
  BY LenProperties DEF StatementsInv
<1>4. o \in DOMAIN ledger[b] /\ y \in DOMAIN ledger[b]
      /\ ledger[b][o].day \in p[1]..p[2] /\ ledger[b][y].day \in p[1]..p[2]
  BY <1>2 DEF Between
<1>5. n \in DOMAIN ledger[b] /\ o <= n /\ n <= y
  BY <1>3, <1>4
<1>6. ledger[b][o].day <= ledger[b][n].day /\ ledger[b][n].day <= ledger[b][y].day
  BY <1>4, <1>5 DEF Chronological
<1>7. ledger[b][n].day \in Int /\ p[1] \in Int /\ p[2] \in Int
  BY <1>5, EntryTypes DEF StatementsInv, Period
<1>8. ledger[b][n].day \in p[1]..p[2]
  BY <1>4, <1>6, <1>7
<1> QED
  BY <1>2, <1>5, <1>8 DEF Between

\* The lost lines between the oldest and the newest that were read.
Gaps(f) == {n \in f.lost : \E o, y \in Lines(f) : o < n /\ n < y}

\* The check of the closing balance finds what they are worth.
LEMMA BalancesFindLost ==
  ASSUME StatementsInv, Chronological, NEW f \in Files, Valid(f), f.bank \notin TotalsInHeader
  PROVE  SumOf(Gaps(f), f.bank) = 0
<1> DEFINE b == f.bank
           N == Lines(f)
           l == Len(ledger[b])
<1>1. /\ b \in Bank /\ f.made \subseteq DOMAIN ledger[b] /\ f.lost \subseteq f.made
      /\ N = f.made \ f.lost /\ N \subseteq DOMAIN ledger[b]
  BY FileTypes DEF StatementsInv, Statement, Lines
<1>2. DOMAIN ledger[b] = 1..l /\ l \in Nat
  BY <1>1, LenProperties DEF StatementsInv
<1>3. CASE N = {}
  <2>1. Gaps(f) = {}
    BY <1>3 DEF Gaps
  <2> QED
    BY <1>1, <2>1, SumOfType DEF StatementsInv
<1>4. CASE N # {}
  <2>1. PICK first \in N : \A n \in N : first <= n
    <3>1. N \in SUBSET Nat
      BY <1>1, <1>2
    <3> QED
      BY <1>4, <3>1, LeastNumber
  <2>2. PICK last \in N : \A n \in N : n <= last
    <3>1. N \in SUBSET (1..l)
      BY <1>1, <1>2
    <3> HIDE DEF l, N
    <3> QED
      BY <1>2, <1>4, <3>1, GreatestNumber
  <2>3. \A n \in N : n \in Int
    BY <1>1, <1>2
  <2>4. OpeningBalance(f) = {Balance(b, first - 1)}
    <3>1. {m \in N : \A k \in N : m <= k} = {first}
      BY <2>1, <2>3
    <3> QED
      BY <3>1 DEF OpeningBalance
  <2>5. ClosingBalance(f) = {Balance(b, last)}
    <3>1. {m \in N : \A k \in N : k <= m} = {last}
      BY <2>2, <2>3
    <3> QED
      BY <3>1 DEF ClosingBalance
  <2>6. Balance(b, last) = Balance(b, first - 1) + Deposits(f, N) - Withdrawals(f, N)
    BY <2>4, <2>5 DEF Valid, Check
  <2> DEFINE pos == {n \in N : ledger[b][n].amount > 0}
             neg == {n \in N : ledger[b][n].amount < 0}
  <2>7. SumOf(N, b) = Deposits(f, N) - Withdrawals(f, N)
    <3>1. \A n \in N : ledger[b][n].amount \in Int /\ ledger[b][n].amount # 0
      BY <1>1, EntryTypes DEF StatementsInv
    <3>2. pos \in SUBSET N /\ N \ pos = neg
      BY <3>1
    <3>3. SumOf(N, b) = SumOf(pos, b) + SumOf(N \ pos, b)
      BY <1>1, <3>2, SumOfParts
    <3>4. Deposits(f, N) = SumOf(pos, b) /\ Withdrawals(f, N) = -SumOf(neg, b)
      BY DEF Deposits, Withdrawals
    <3>5. SumOf(pos, b) \in Int /\ SumOf(neg, b) \in Int
      <4>1. pos \in SUBSET DOMAIN ledger[b] /\ neg \in SUBSET DOMAIN ledger[b]
        BY <1>1
      <4> QED
        BY <1>1, <4>1, SumOfType DEF StatementsInv
    <3>6. SumOf(N, b) = SumOf(pos, b) + SumOf(neg, b)
      BY <3>2, <3>3
    <3> QED
      BY ONLY <3>4, <3>5, <3>6
  <2>8. first \in Nat \ {0} /\ last \in 1..l /\ first <= last
    BY <1>1, <1>2, <2>1
  <2>9. SumOf(1..last, b) = SumOf(1..(first - 1), b) + SumOf(first..last, b)
    <3>1. 1..last \in SUBSET DOMAIN ledger[b] /\ 1..(first - 1) \in SUBSET (1..last)
          /\ (1..last) \ (1..(first - 1)) = first..last
      BY <1>2, <2>8
    <3>2. SumOf(1..last, b) = SumOf(1..(first - 1), b) + SumOf((1..last) \ (1..(first - 1)), b)
      <4> HIDE DEF b, l, N
      <4> QED
        BY <1>1, <3>1, SumOfParts
    <3> QED
      BY <3>1, <3>2
  <2>10. SumOf(first..last, b) = SumOf(N, b) + SumOf(Gaps(f), b)
    <3>1. first..last \in SUBSET DOMAIN ledger[b] /\ N \in SUBSET (first..last)
      BY <1>1, <1>2, <2>1, <2>2, <2>3, <2>8
    <3>2. \A n \in first..last : n \in f.made
      BY <1>1, <2>1, <2>2, BetweenLines
    <3>3. (first..last) \ N = Gaps(f)
      <4>1. ASSUME NEW n \in (first..last) \ N PROVE n \in Gaps(f)
        <5>1. n \in f.lost /\ first < n /\ n < last
          BY <1>1, <2>8, <3>2, <4>1
        <5> QED
          BY <2>1, <2>2, <5>1 DEF Gaps
      <4>2. ASSUME NEW n \in Gaps(f) PROVE n \in (first..last) \ N
        <5>1. PICK o \in N, y \in N : o < n /\ n < y
          BY <4>2 DEF Gaps
        <5>2. n \in f.lost /\ n \in Int
          BY <1>1, <1>2, <4>2 DEF Gaps
        <5>3. first <= o /\ y <= last /\ o \in Int /\ y \in Int
          BY <2>1, <2>2, <2>3
        <5>4. n \notin N
          BY <1>1, <5>2
        <5>5. n \in first..last
          BY ONLY <2>8, <5>1, <5>2, <5>3
        <5> QED
          BY <5>4, <5>5
      <4> QED
        BY <4>1, <4>2
    <3>4. SumOf(first..last, b) = SumOf(N, b) + SumOf((first..last) \ N, b)
      <4> HIDE DEF N, b
      <4> QED
        BY <1>1, <3>1, SumOfParts
    <3> QED
      BY <3>3, <3>4
  <2>11. /\ SumOf(1..(first - 1), b) \in Int /\ SumOf(first..last, b) \in Int
         /\ SumOf(N, b) \in Int /\ SumOf(Gaps(f), b) \in Int
    <3>1. 1..(first - 1) \in SUBSET DOMAIN ledger[b] /\ first..last \in SUBSET DOMAIN ledger[b]
      BY <1>2, <2>8
    <3>2. Gaps(f) \in SUBSET DOMAIN ledger[b] /\ N \in SUBSET DOMAIN ledger[b]
      BY <1>1 DEF Gaps
    <3> QED
      BY <1>1, <3>1, <3>2, SumOfType DEF StatementsInv
  <2>12. /\ Balance(b, last) = Opening + SumOf(1..last, b)
         /\ Balance(b, first - 1) = Opening + SumOf(1..(first - 1), b)
         /\ Opening \in Int
    BY StatementsAssumption DEF Balance
  <2>13. Balance(b, last) = Balance(b, first - 1) + SumOf(N, b)
    <3>1. Deposits(f, N) \in Int /\ Withdrawals(f, N) \in Int
      <4>1. pos \in SUBSET DOMAIN ledger[b] /\ neg \in SUBSET DOMAIN ledger[b]
        BY <1>1
      <4>2. SumOf(pos, b) \in Int /\ SumOf(neg, b) \in Int
        BY <1>1, <4>1, SumOfType DEF StatementsInv
      <4> QED
        BY <4>2 DEF Deposits, Withdrawals
    <3>2. Balance(b, first - 1) \in Int
      BY <2>11, <2>12
    <3> QED
      BY ONLY <2>6, <2>7, <3>1, <3>2
  <2> QED
    BY ONLY <2>9, <2>10, <2>11, <2>12, <2>13
<1> QED
  BY <1>3, <1>4

\* A file with every check passed that has been imported.
LEMMA ValidComplete ==
  ASSUME StatementsInv, Chronological, NEW f \in Files, NEW k, Valid(f),
         IntoOld(f, k) \/ IntoNew(f, k)
  PROVE  LET entries == {Identity(f.bank, n) : n \in f.made}
         IN  IF f.bank \in TotalsInHeader
             THEN entries \subseteq stored'[k] /\ Cardinality(entries) = Cardinality(f.made)
             ELSE SumOf(Gaps(f), f.bank) = 0
<1>1. CASE f.bank \in TotalsInHeader
  <2>1. Lines(f) = f.made
    BY <1>1, TotalsFindLost
  <2>2. {Identity(f.bank, n) : n \in f.made} = Keys(f)
    BY <2>1 DEF Keys, Key, Identity
  <2>3. Keys(f) \subseteq stored'[k]
    BY OldAccount, NewAccount
  <2>4. Cardinality(Keys(f)) = Cardinality(f.made)
    BY <2>1 DEF Valid, KeysUnique
  <2> QED
    BY <1>1, <2>2, <2>3, <2>4
<1>2. CASE f.bank \notin TotalsInHeader
  BY <1>2, BalancesFindLost
<1> QED
  BY <1>1, <1>2

\* ValidMeansComplete: for any banks, entries and files, a file that no check
\* objects to has lost no line, or, without totals, only lines that even out.
THEOREM ValidIsComplete == Spec => ValidMeansComplete
<1>1. ASSUME StatementsInv, Chronological, [Next]_vars
      PROVE  Imports(LAMBDA f, k : Valid(f) =>
               LET entries == {Identity(f.bank, n) : n \in f.made}
               IN  IF f.bank \in TotalsInHeader
                   THEN entries \subseteq stored'[k] /\ Cardinality(entries) = Cardinality(f.made)
                   ELSE SumOf({n \in f.lost : \E o, y \in Lines(f) : o < n /\ n < y}, f.bank) = 0)
  <2> SUFFICES ASSUME imports' # imports, Valid(imports'[Len(imports')].file)
               PROVE  LET i == imports'[Len(imports')]
                          entries == {Identity(i.file.bank, n) : n \in i.file.made}
                      IN  IF i.file.bank \in TotalsInHeader
                          THEN entries \subseteq stored'[i.account]
                               /\ Cardinality(entries) = Cardinality(i.file.made)
                          ELSE SumOf(Gaps(i.file), i.file.bank) = 0
    BY DEF Imports, Gaps
  <2>1. PICK f, k : /\ f \in Files
                    /\ IntoOld(f, k) \/ IntoNew(f, k)
                    /\ imports'[Len(imports')].file = f
                    /\ imports'[Len(imports')].account = k
    BY <1>1, ImportsTell
  <2>2. Valid(f)
    BY <2>1
  <2> QED
    BY <1>1, <2>1, <2>2, ValidComplete
<1> QED
  BY <1>1, StatementsInvariant, AlwaysChronological, PTL DEF Spec, ValidMeansComplete
==============================================================================
