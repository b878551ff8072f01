------------------------------- MODULE BankBook -------------------------------
(***************************************************************************)
(* What importing statements promises of the owner's bank accounts: the    *)
(* program's book of an account holds only entries the bank really made,   *)
(* never loses one again, and counts each once, however the files overlap  *)
(* and in whatever order they come.                                        *)
(***************************************************************************)
EXTENDS Integers, Functions

CONSTANT Bank  \* the banks, one account at each

VARIABLES
  made,   \* the entries each bank has made, each with its amount
  book,   \* those the program has
  total   \* the sum of what the program counts for each account

Worth(entries) == SumFunction([e \in entries |-> e.amount])

Init == /\ made = [b \in Bank |-> {}] /\ book = [b \in Bank |-> {}]
        /\ total = [b \in Bank |-> 0]

\* The bank makes an entry; at times nothing tells it from an earlier one.
Post(b) ==
  /\ \E entry \in made'[b] : made' = [made EXCEPT ![b] = @ \cup {entry}]
  /\ UNCHANGED <<book, total>>

\* A file brings entries; those that are new count.
Enter(b) ==
  /\ \E file \in SUBSET made[b] :
       /\ book' = [book EXCEPT ![b] = @ \cup file]
       /\ total' = [total EXCEPT ![b] = @ + Worth(file \ book[b])]
  /\ UNCHANGED made

Next == \E b \in Bank : Post(b) \/ Enter(b)

Spec == Init /\ [][Next]_<<made, book, total>>
=============================================================================
