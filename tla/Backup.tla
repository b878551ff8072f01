------------------------------- MODULE Backup -------------------------------
(***************************************************************************)
(* Backups (services/backup.py): a folder per backup, named by the second  *)
(* it was begun in, with one file that pg_dump's output is packed into.    *)
(* The folders are all the state there is: a request that makes a backup,  *)
(* removes what is too old or deletes one finds the others' half made      *)
(* folders there, and those a stopped server left.                         *)
(***************************************************************************)
EXTENDS Integers, FiniteSets

CONSTANTS
  Worker,      \* worker threads
  Keep,        \* what `keep` may be asked for
  LastSecond,  \* bound on the clock
  MaxCalls     \* bound

ASSUME BackupAssumption ==
  /\ Keep \subseteq Nat \ {0} /\ Keep # {}
  /\ LastSecond \in Nat /\ MaxCalls \in Nat

VARIABLES
  now,       \* the clock, in seconds
  folders,   \* name -> what database.sql.gz holds: "none", "part" or "whole"
  task,      \* the request each worker is serving
  trouble,   \* history: "stop", "overlap" of two requests, one folder "shared"
  overdue,   \* history: a prune was cut short, and no later one has ended
  calls      \* history: requests so far

history    == <<trouble, overdue, calls>>
backupVars == <<now, folders, task, history>>

Second == 0..LastSecond
NoTask == [op |-> "idle"]

BackupInit ==
  /\ now = 0 /\ folders = <<>>
  /\ task = [s \in Worker |-> NoTask]
  /\ trouble = {} /\ overdue = FALSE /\ calls = 0

Become(s, request) == task' = [task EXCEPT ![s] = request]

FoldersWithout(names) == [n \in DOMAIN folders \ names |-> folders[n]]

\* Mutant: a folder that was made is taken to be there still.
PresentOnce(n) == TRUE

Present(n) == n \in DOMAIN folders

\* A file being written to when its folder is removed has no name any more.
Cut(n) ==
  [r \in Worker |-> IF task[r].op = "write" /\ task[r].at = n
                    THEN [task[r] EXCEPT !.cut = TRUE] ELSE task[r]]

Busy(n) == \E s \in Worker : task[s].op \in {"dump", "write"} /\ task[s].at = n

Overlap == IF \A s \in Worker : task[s] = NoTask THEN {} ELSE {"overlap"}

\* Time passes; a second may well see several steps.
Tick ==
  /\ now < LastSecond /\ now' = now + 1
  /\ UNCHANGED <<folders, task, history>>

------------------------------------------------------------------------------
\* POST /settings/backups: mkdir(exist_ok), whatever is there already.
BeginBackup(s) ==
  /\ task[s] = NoTask
  /\ calls < MaxCalls /\ calls' = calls + 1
  /\ folders' = [n \in DOMAIN folders \cup {now} |-> IF n \in DOMAIN folders THEN folders[n] ELSE "none"]
  /\ \E keep \in Keep : Become(s, [op |-> "dump", at |-> now, keep |-> keep])
  /\ trouble' = trouble \cup Overlap \cup
       (IF now \in DOMAIN folders \/ Busy(now) THEN {"shared"} ELSE {})
  /\ UNCHANGED <<now, overdue>>

\* Mutant: a failed backup leaves what it has made so far.
GiveUpOnly(s, n) == Become(s, NoTask) /\ UNCHANGED folders

\* The except clause: the folder goes, and the request fails.
GiveUp(s, n) ==
  /\ folders' = FoldersWithout({n})
  /\ task' = [Cut(n) EXCEPT ![s] = NoTask]

\* pg_dump fails or takes too long.
DumpFails(s) ==
  /\ task[s].op = "dump" /\ GiveUp(s, task[s].at)
  /\ UNCHANGED <<now, history>>

\* pg_dump is done; the file is opened and emptied, unless its folder is gone.
\* Another request may be writing to the same file: then both are `mixed`.
OpenFile(s) ==
  LET n == task[s].at
      others == {r \in Worker \ {s} : task[r].op = "write" /\ task[r].at = n /\ ~task[r].cut}
  IN
  /\ task[s].op = "dump" /\ Present(n)
  /\ folders' = [folders EXCEPT ![n] = "part"]
  /\ task' = [r \in Worker |->
       IF r = s
       THEN [op |-> "write", at |-> n, keep |-> task[s].keep, cut |-> FALSE,
             mixed |-> others # {}]
       ELSE IF r \in others THEN [task[r] EXCEPT !.mixed = TRUE] ELSE task[r]]
  /\ UNCHANGED <<now, history>>

\* The folder is gone, or the disk is full.
WriteFails(s) ==
  /\ \/ task[s].op = "dump" /\ ~Present(task[s].at)
     \/ task[s].op = "write"
  /\ GiveUp(s, task[s].at)
  /\ UNCHANGED <<now, history>>

\* The file is closed: whole, unless two requests wrote to it, and then what
\* it holds depends on whose bytes came last.  The folder is described, which
\* fails if it is gone.
CloseFile(s) ==
  LET n == task[s].at IN
  /\ task[s].op = "write"
  /\ IF task[s].cut THEN UNCHANGED folders
     ELSE \E out \in IF task[s].mixed THEN {"part", "whole"} ELSE {"whole"} :
            folders' = [folders EXCEPT ![n] = out]
  /\ Become(s, IF Present(n) THEN [op |-> "list", keep |-> task[s].keep] ELSE NoTask)
  /\ UNCHANGED <<now, history>>

------------------------------------------------------------------------------
\* Mutant: the list is not reversed.
TooOldAscending(k) ==
  {n \in DOMAIN folders : Cardinality({q \in DOMAIN folders : q < n}) >= k}

\* Mutant: one more than asked for stays.
TooOldOffByOne(k) ==
  {n \in DOMAIN folders : Cardinality({q \in DOMAIN folders : q > n}) > k}

\* list_backups()[keep:]: all but the `keep` highest names, whatever is in them.
TooOld(k) ==
  {n \in DOMAIN folders : Cardinality({q \in DOMAIN folders : q > n}) >= k}

BeginPrune(s) ==
  /\ task[s].op = "list"
  /\ Become(s, [op |-> "prune", keep |-> task[s].keep, left |-> TooOld(task[s].keep),
                latest |-> TRUE])
  /\ UNCHANGED <<now, folders, history>>

\* One entry of the list, highest name first; one that is gone is passed over.
PruneOne(s) ==
  /\ task[s].op = "prune" /\ task[s].left # {}
  /\ LET n == CHOOSE n \in task[s].left : \A q \in task[s].left : q <= n
     IN  /\ folders' = FoldersWithout({n})
         /\ task' = [Cut(n) EXCEPT ![s].left = @ \ {n}]
  /\ UNCHANGED <<now, history>>

EndPrune(s) ==
  /\ task[s].op = "prune" /\ task[s].left = {}
  /\ Become(s, NoTask)
  /\ overdue' = (overdue /\ ~task[s].latest)
  /\ UNCHANGED <<now, folders, trouble, calls>>

\* Listing or removing a folder that another request removes at the same time
\* is an error, and the request ends there.
Stumble(s) ==
  /\ task[s].op \in {"list", "prune"}
  /\ \E r \in Worker \ {s} : task[r] # NoTask
  /\ task' = [r \in Worker |->
       IF r = s THEN NoTask
       ELSE IF task[r].op = "prune" THEN [task[r] EXCEPT !.latest = FALSE] ELSE task[r]]
  /\ overdue' = TRUE
  /\ UNCHANGED <<now, folders, trouble, calls>>

\* DELETE /settings/backups/{name}
DeleteBackup(s) ==
  /\ task[s] = NoTask
  /\ calls < MaxCalls /\ calls' = calls + 1
  /\ \E n \in DOMAIN folders :
       folders' = FoldersWithout({n}) /\ task' = Cut(n)
  /\ trouble' = trouble \cup Overlap
  /\ UNCHANGED <<now, overdue>>

\* The server stops: what requests were making stays as it is.
ServerStops ==
  /\ \E s \in Worker : task[s] # NoTask
  /\ task' = [s \in Worker |-> NoTask]
  /\ trouble' = trouble \cup {"stop"} /\ overdue' = TRUE
  /\ UNCHANGED <<now, folders, calls>>

BackupNext ==
  \/ Tick \/ ServerStops
  \/ \E s \in Worker :
       \/ BeginBackup(s) \/ DumpFails(s) \/ OpenFile(s) \/ WriteFails(s) \/ CloseFile(s)
       \/ BeginPrune(s) \/ PruneOne(s) \/ EndPrune(s) \/ Stumble(s) \/ DeleteBackup(s)

BackupSpec == BackupInit /\ [][BackupNext]_backupVars

------------------------------------------------------------------------------
(* Properties                                                               *)

BackupTypeOK ==
  /\ now \in Second /\ DOMAIN folders \subseteq 0..now
  /\ \A n \in DOMAIN folders : folders[n] \in {"none", "part", "whole"}
  /\ trouble \subseteq {"stop", "overlap", "shared"} /\ overdue \in BOOLEAN
  /\ calls \in 0..MaxCalls
  /\ \A s \in Worker :
       /\ task[s].op \in {"idle", "dump", "write", "list", "prune"}
       /\ task[s].op = "prune" => task[s].left \subseteq 0..now
       /\ task[s].op = "write" /\ ~task[s].cut => task[s].at \in DOMAIN folders

\* What the list shows can be restored: unless the server stopped or two
\* backups were begun in one second, every folder that no request is filling
\* holds a whole dump, whichever backups failed, ran side by side or were
\* pruned or deleted under way.
ListedIsWhole ==
  trouble \cap {"stop", "shared"} = {} =>
    \A n \in DOMAIN folders : folders[n] = "whole" \/ Busy(n)

\* The disk does not fill up: whenever the server rests, at most `keep` folders
\* are there, whichever requests ran side by side, and what a stopped server or
\* an interrupted prune left over goes with the next backup that is made.
NoPileUp ==
  (\A s \in Worker : task[s] = NoTask) /\ ~overdue =>
    \E keep \in Keep : Cardinality(DOMAIN folders) <= keep

\* Requests that come one at a time, seconds apart, never lose one of the last
\* backups while the server runs on: a whole one goes only on deletion or by the
\* prune of a request, and then as many newer whole ones stay as that request was
\* to keep.
KeepsLast ==
  [][trouble = {} /\ calls' = calls =>
       \A n \in DOMAIN folders \ DOMAIN folders' : folders[n] = "whole" =>
         \E s \in Worker :
           /\ task[s].op = "prune"
           /\ Cardinality({q \in DOMAIN folders' : q > n /\ folders'[q] = "whole"})
                >= task[s].keep]_backupVars
=============================================================================
