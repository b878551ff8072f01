------------------------------- MODULE TxLinks -------------------------------
(***************************************************************************)
(* Links between bank transactions and the two flags that keep money that  *)
(* only moved out of income and expense: is_reversed and is_self_transfer. *)
(*                                                                         *)
(* Every request runs on a worker thread of its own with its own database  *)
(* session.  A request reads, computes in memory and commits; the steps    *)
(* here are those reads and commits, so requests interleave between them.  *)
(* Sessions keep what they loaded (expire_on_commit=False): a write is     *)
(* issued only for a flag whose new value differs from the value loaded.   *)
(***************************************************************************)
EXTENDS LinkRules, FiniteSets

CONSTANTS
  Session,     \* worker threads of the server
  Statement,   \* the sets of transactions a statement file brings
  Naming,      \* those whose header tells the owner's alias
  Declared,    \* transactions the bank itself declares as own transfers
  AliasMatch,  \* transactions the owner's alias matches
  Patchable,   \* transactions the user edits by hand
  MayFail,     \* may a request die half way?
  MaxRequests  \* bound on the number of requests of a run

ASSUME LinksAssumption ==
  /\ Statement \subseteq SUBSET Tx /\ Naming \subseteq Statement
  /\ Declared \subseteq Tx /\ AliasMatch \subseteq Tx /\ Patchable \subseteq Tx
  /\ MayFail \in BOOLEAN /\ MaxRequests \in Nat

VARIABLES
  present,    \* committed transactions
  manual,     \* those with categorized_by = "manual"
  own,        \* those with is_self_transfer
  reversed,   \* those with is_reversed
  alias,      \* is the owner's alias registered?
  links, confirmed, rejected,  \* rows of tx_link and their two flags
  pc,         \* where each session is: "idle" between requests
  view,       \* what the session has loaded
  found,      \* pair links a detection run has found and not yet committed
  todo,       \* withdrawals it has still to look at
  fresh,      \* history: nobody else committed since the session read
  sound,      \* history: no flag was lost to a crash or a stale write
  lastRun,    \* history: what the last undisturbed detection run read
  requests    \* history: requests so far

db      == <<present, manual, own, reversed, alias, links, confirmed, rejected>>
session == <<pc, view, found, todo>>
history == <<fresh, sound, lastRun, requests>>
vars    == <<db, session, history>>

------------------------------------------------------------------------------
\* Links that take effect: not rejected, and certain enough or confirmed.
Applied(ls, conf, rej) ==
  {l \in ls \ rej : Confidence(l) >= AUTO_APPLY \/ l \in conf}

Touched(kind, ls) == UNION {Ends(l) : l \in {k \in ls : k.kind = kind}}

NowApplied == Applied(links, confirmed, rejected)

\* What Categorizer.is_self_transfer says of each row, with the alias as it is.
OwnText == Declared \cup (IF alias THEN AliasMatch ELSE {})

Nothing == [rows |-> {}, own |-> {}, reversed |-> {}, links |-> {}, refused |-> {},
            manual |-> {}, ownText |-> {}, cleared |-> {}, applied |-> {}]

\* The session has loaded no transaction.
HoldsNone(s) == view[s].rows = {} /\ view[s].own = {} /\ view[s].reversed = {}

NoRun == <<{}, {}>>

Init ==
  /\ present = {} /\ manual = {} /\ own = {} /\ reversed = {}
  /\ alias = FALSE
  /\ links = {} /\ confirmed = {} /\ rejected = {}
  /\ pc = [s \in Session |-> "idle"]
  /\ view = [s \in Session |-> Nothing]
  /\ found = [s \in Session |-> {}]
  /\ todo = [s \in Session |-> {}]
  /\ fresh = [s \in Session |-> TRUE]
  /\ sound = TRUE
  /\ lastRun = NoRun
  /\ requests = 0

\* A new request starts on an idle thread.
Begins(s) ==
  /\ pc[s] = "idle" /\ requests < MaxRequests
  /\ requests' = requests + 1

\* A commit makes stale whatever the other sessions have read.
Committed(s) == fresh' = [r \in Session |-> r = s /\ fresh[s]]

Goto(s, where) == pc' = [pc EXCEPT ![s] = where]

------------------------------------------------------------------------------
(* Requests.  Each of these commits once and goes on to a second part.      *)

\* POST /imports: the aliases of the file's header, its new rows, categorised
\* with them, then detect_links if there are any.  Of the rows inserted the session
\* keeps the last, which its loop variable holds, as it was inserted.
ImportStatement(s) ==
  /\ Begins(s)
  /\ \E file \in Statement :
       LET new == file \ present
       IN  /\ alias' = (alias \/ file \in Naming)
           /\ present' = present \cup new
           /\ own' = own \cup (new \cap OwnText')
           /\ \/ new = {} /\ Goto(s, "idle") /\ UNCHANGED view
              \/ /\ Goto(s, "detect")
                 /\ \E last \in new :
                      view' = [view EXCEPT ![s] =
                        [Nothing EXCEPT !.rows = {last}, !.own = {last} \cap OwnText']]
  /\ fresh' = [r \in Session |-> r = s]
  /\ UNCHANGED <<manual, reversed, links, confirmed, rejected, found, todo, sound, lastRun>>

\* POST /links/detect
DetectAgain(s) ==
  /\ Begins(s) /\ Goto(s, "detect")
  /\ UNCHANGED <<db, view, found, todo, fresh, sound, lastRun>>

\* POST /links/{id}/confirm
ConfirmLink(s) ==
  /\ Begins(s)
  /\ \E l \in links : /\ confirmed' = confirmed \cup {l}
                      /\ rejected' = rejected \ {l}
  /\ Goto(s, "apply") /\ Committed(s)
  /\ UNCHANGED <<present, manual, own, reversed, alias, links,
                 view, found, todo, sound, lastRun>>

\* POST /links/{id}/reject.  The session goes on holding the link as refused.
RejectLink(s) ==
  /\ Begins(s)
  /\ \E l \in links : /\ rejected' = rejected \cup {l}
                      /\ confirmed' = confirmed \ {l}
                      /\ view' = [view EXCEPT ![s] = [Nothing EXCEPT !.refused = {l}]]
  /\ Goto(s, "apply") /\ Committed(s)
  /\ UNCHANGED <<present, manual, own, reversed, alias, links,
                 found, todo, sound, lastRun>>

\* POST and DELETE /settings/owner-aliases, then recategorize_all.
ChangeAlias(s) ==
  /\ Begins(s)
  /\ alias' = ~alias
  /\ Goto(s, "recategorize") /\ Committed(s)
  /\ UNCHANGED <<present, manual, own, reversed, links, confirmed, rejected,
                 view, found, todo, sound, lastRun>>

\* POST /settings/recategorize, with or without force.
Recategorize(s) ==
  /\ Begins(s)
  /\ \E part \in {"recategorize", "recategorize_force"} : Goto(s, part)
  /\ UNCHANGED <<db, view, found, todo, fresh, sound, lastRun>>

\* Mutant: the row's existence is not checked.
PatchUnchecked(s) ==
  /\ Begins(s)
  /\ \E t \in Patchable : own' \in {own \cup {t}, own \ {t}}
  /\ Committed(s)
  /\ UNCHANGED <<present, manual, reversed, alias, links, confirmed, rejected,
                 session, sound, lastRun>>

\* PATCH /transactions/{id}: a category makes the row manual; the flag is set
\* as asked.  One commit and no second part.
PatchTransaction(s) ==
  /\ Begins(s)
  /\ \E t \in Patchable \cap present :
       /\ manual' \in {manual, manual \cup {t}}
       /\ own' \in {own, own \cup {t}, own \ {t}}
  /\ Committed(s)
  /\ UNCHANGED <<present, reversed, alias, links, confirmed, rejected,
                 session, sound, lastRun>>

------------------------------------------------------------------------------
(* detect_links                                                             *)

Withdrawals(rows) == {t \in rows : Amount[t] < 0}
LinkedIn(ls)      == UNION {Ends(l) : l \in ls}

\* Loads every transaction, but for a row it holds already, and the keys of every
\* existing link.
BeginDetect(s) ==
  /\ pc[s] = "detect" /\ Goto(s, "pair")
  /\ view' = [view EXCEPT ![s] = [Nothing EXCEPT
       !.rows     = present,
       !.own      = view[s].own \cup (own \ view[s].rows),
       !.reversed = view[s].reversed \cup (reversed \ view[s].rows),
       !.links    = links]]
  /\ todo' = [todo EXCEPT ![s] = Withdrawals(present)]
  /\ found' = [found EXCEPT ![s] = {}]
  /\ fresh' = [fresh EXCEPT ![s] = HoldsNone(s) \/ @]
  /\ UNCHANGED <<db, sound, lastRun, requests>>

\* Mutant: deposits taken earlier in the run are not excluded.
CandidatesTaken(s, out) ==
  {in \in view[s].rows :
     Pairs(out, in, view[s].own) /\ PairLink(out, in) \notin view[s].links}

\* Mutant: the amounts and directions are not compared.
CandidatesAnyAmount(s, out) ==
  {in \in view[s].rows \ LinkedIn(found[s]) :
     /\ IsReversal(out, in) \/ IsCrossAccount(out, in, view[s].own)
     /\ PairLink(out, in) \notin view[s].links}

\* Mutant: only the nearest deposit of the amount is looked at.
CandidatesOnlyNearest(s, out) ==
  {in \in view[s].rows \ LinkedIn(found[s]) :
     /\ Pairs(out, in, view[s].own) /\ PairLink(out, in) \notin view[s].links
     /\ \A other \in view[s].rows : Opposite(out, other) => Gap(out, in) <= Gap(out, other)}

\* Deposits this run may still give to the withdrawal: a candidate whose link
\* exists already is passed over (add() returns False), not taken.
Candidates(s, out) ==
  {in \in view[s].rows \ LinkedIn(found[s]) :
     Pairs(out, in, view[s].own) /\ PairLink(out, in) \notin view[s].links}

\* Mutant: the first deposit in time order.
FirstInTime(out, ins) ==
  {in \in ins : \A other \in ins : OccurredAt[in] <= OccurredAt[other]}

Nearest(out, ins) ==
  {in \in ins : \A other \in ins :
     \/ Gap(out, in) < Gap(out, other)
     \/ Gap(out, in) = Gap(out, other) /\ OccurredAt[in] <= OccurredAt[other]}

Earliest(rows) == {t \in rows : \A u \in rows : OccurredAt[t] <= OccurredAt[u]}

\* One turn of the loop over withdrawals, in time order.
PairNext(s) ==
  /\ pc[s] = "pair"
  /\ \E out \in Earliest(todo[s]) :
       /\ todo' = [todo EXCEPT ![s] = @ \ {out}]
       /\ \/ /\ Candidates(s, out) = {}
             /\ UNCHANGED found
          \/ \E in \in Nearest(out, Candidates(s, out)) :
               found' = [found EXCEPT ![s] = @ \cup {PairLink(out, in)}]
  /\ UNCHANGED <<db, pc, view, history>>

\* After the pairs, the fee loop; then all new links are committed together.
FeeRows(rows) == {f \in rows : FirstParents(f, rows) # {}}

CommitLinks(s) ==
  /\ pc[s] = "pair" /\ todo[s] = {}
  /\ \E parent \in [FeeRows(view[s].rows) -> view[s].rows] :
       /\ \A f \in DOMAIN parent : parent[f] \in FirstParents(f, view[s].rows)
       /\ LET fees == {FeeLink(f, parent[f]) : f \in DOMAIN parent}
              new  == found[s] \cup (fees \ view[s].links)
          IN  \/ /\ new \cap links = {}
                 /\ links' = links \cup new
                 /\ Goto(s, "apply") /\ Committed(s)
                 /\ lastRun' = IF fresh[s] THEN <<view[s].rows, view[s].own>> ELSE NoRun
                 /\ UNCHANGED view
              \/ \* uq_tx_link: another run committed one of them; all are rolled back
                 /\ new \cap links # {}
                 /\ Goto(s, "idle")
                 /\ view' = [view EXCEPT ![s] = Nothing]
                 /\ UNCHANGED <<links, fresh, lastRun>>
  /\ found' = [found EXCEPT ![s] = {}]
  /\ UNCHANGED <<present, manual, own, reversed, alias, confirmed, rejected,
                 todo, sound, requests>>

------------------------------------------------------------------------------
(* apply_links                                                              *)

\* Mutant: a confirmation does not count.
BeginApplyUnconfirmed(s) ==
  /\ pc[s] = "apply" /\ Goto(s, "write")
  /\ view' = [view EXCEPT ![s].reversed = @ \cup (reversed \ view[s].rows),
                          ![s].own      = @ \cup (own \ view[s].rows),
                          ![s].cleared  = reversed,
                          ![s].applied  = Applied(links, {}, rejected)]
  /\ fresh' = [fresh EXCEPT ![s] =
       (HoldsNone(s) \/ @) /\ view[s].refused \cap confirmed = {}]
  /\ UNCHANGED <<db, found, todo, sound, lastRun, requests>>

\* Loads the rows flagged is_reversed and the links in force.  A session that
\* has just run detect_links still holds every row as it was loaded then, and
\* those values, not the committed ones, are what its writes are compared with;
\* and one that has just refused a link does not see that another confirmed it.
BeginApply(s) ==
  /\ pc[s] = "apply" /\ Goto(s, "write")
  /\ view' = [view EXCEPT ![s] = [view[s] EXCEPT
       !.reversed = view[s].reversed \cup (reversed \ view[s].rows),
       !.own      = view[s].own \cup (own \ view[s].rows),
       !.cleared  = reversed,
       !.applied  = Applied(links, confirmed \ view[s].refused, rejected)]]
  /\ fresh' = [fresh EXCEPT ![s] =
       (HoldsNone(s) \/ @) /\ view[s].refused \cap confirmed = {}]
  /\ UNCHANGED <<db, found, todo, sound, lastRun, requests>>

\* Mutant: the flags of links no longer in force are not cleared first.
WriteFlagsNoClear(s) ==
  /\ pc[s] = "write" /\ Goto(s, "idle")
  /\ reversed' = reversed \cup Touched("reversal", view[s].applied)
  /\ own' = own \cup Touched("cross_account", view[s].applied)
  /\ view' = [view EXCEPT ![s] = Nothing]
  /\ sound' = fresh[s]
  /\ Committed(s)
  /\ UNCHANGED <<present, manual, alias, links, confirmed, rejected,
                 found, todo, lastRun, requests>>

\* Clears is_reversed where it was set, sets it on both ends of each applied
\* reversal and is_self_transfer on both ends of each applied transfer; only
\* values that differ from the loaded ones reach the database.
WriteFlags(s) ==
  /\ pc[s] = "write" /\ Goto(s, "idle")
  /\ LET v      == view[s]
         undone == Touched("reversal", v.applied)
         moved  == Touched("cross_account", v.applied)
     IN  /\ reversed' = (reversed \ ((v.cleared \ undone) \cap v.reversed))
                           \cup (undone \ v.reversed)
         /\ own' = own \cup (moved \ v.own)
  /\ view' = [view EXCEPT ![s] = Nothing]
  /\ sound' = fresh[s]
  /\ Committed(s)
  /\ UNCHANGED <<present, manual, alias, links, confirmed, rejected,
                 found, todo, lastRun, requests>>

------------------------------------------------------------------------------
(* recategorize_all                                                         *)

BeginRecategorize(s) ==
  /\ \/ pc[s] = "recategorize" /\ Goto(s, "rewrite")
     \/ pc[s] = "recategorize_force" /\ Goto(s, "rewrite_force")
  /\ view' = [view EXCEPT ![s] = [Nothing EXCEPT !.rows = present, !.own = own,
                                    !.manual = manual, !.ownText = OwnText]]
  /\ fresh' = [fresh EXCEPT ![s] = TRUE]
  /\ UNCHANGED <<db, found, todo, sound, lastRun, requests>>

\* Categorizer.apply on every loaded row: a manual one is left alone unless
\* forced; on the others is_self_transfer becomes what the row's texts say.
\* A mark `manual` that another session has set since the load may go.
WriteCategories(s) ==
  /\ pc[s] \in {"rewrite", "rewrite_force"}
  /\ LET v    == view[s]
         rows == IF pc[s] = "rewrite" THEN v.rows \ v.manual ELSE v.rows
         mine == rows \cap v.ownText
     IN  /\ own' = (own \ ((rows \cap v.own) \ v.ownText)) \cup (mine \ v.own)
         /\ \E unseen \in SUBSET ((manual \cap rows) \ v.manual) :
              manual' = manual \ (unseen \cup (rows \cap v.manual))
  /\ view' = [view EXCEPT ![s] = Nothing]
  /\ Goto(s, "idle") /\ Committed(s)
  /\ UNCHANGED <<present, reversed, alias, links, confirmed, rejected,
                 found, todo, sound, lastRun, requests>>

------------------------------------------------------------------------------
\* The server stops, or the request fails, before the next commit: what was
\* not committed is gone and what was committed stays.
Fail(s) ==
  /\ MayFail /\ pc[s] # "idle"
  /\ Goto(s, "idle")
  /\ view' = [view EXCEPT ![s] = Nothing]
  /\ found' = [found EXCEPT ![s] = {}]
  /\ todo' = [todo EXCEPT ![s] = {}]
  /\ sound' = (sound /\ pc[s] \notin {"apply", "write"})
  /\ UNCHANGED <<db, fresh, lastRun, requests>>

Next ==
  \E s \in Session :
    \/ ImportStatement(s) \/ DetectAgain(s) \/ ConfirmLink(s) \/ RejectLink(s)
    \/ ChangeAlias(s) \/ Recategorize(s) \/ PatchTransaction(s)
    \/ BeginDetect(s) \/ PairNext(s) \/ CommitLinks(s)
    \/ BeginApply(s) \/ WriteFlags(s)
    \/ BeginRecategorize(s) \/ WriteCategories(s)
    \/ Fail(s)

Spec == Init /\ [][Next]_vars

------------------------------------------------------------------------------
(* Properties                                                               *)

PC == {"idle", "detect", "pair", "apply", "write",
       "recategorize", "recategorize_force", "rewrite", "rewrite_force"}

View == [rows : SUBSET Tx, own : SUBSET Tx, reversed : SUBSET Tx,
         links : SUBSET Link, refused : SUBSET Link, manual : SUBSET Tx, ownText : SUBSET Tx,
         cleared : SUBSET Tx, applied : SUBSET Link]

\* Every variable holds a value of its kind, flags and links are about
\* committed rows, and only existing links carry a decision.
TypeOK ==
  /\ present \subseteq Tx
  /\ manual \subseteq present /\ own \subseteq present /\ reversed \subseteq present
  /\ alias \in BOOLEAN
  /\ links \subseteq Link /\ LinkedIn(links) \subseteq present
  /\ confirmed \subseteq links /\ rejected \subseteq links
  /\ pc \in [Session -> PC]
  /\ view \in [Session -> View]
  /\ found \in [Session -> SUBSET Link]
  /\ todo \in [Session -> SUBSET Tx]
  /\ fresh \in [Session -> BOOLEAN]
  /\ sound \in BOOLEAN
  /\ requests \in Nat

\* apply_links exists so that the statistics count a returned transfer neither
\* as expense nor as income.  Once no request is on its way to apply_links, and
\* unless the last application was lost or computed from data another request
\* had already changed, a transaction is flagged is_reversed exactly when a
\* reversal link in force says so: whatever the order of imports, detections,
\* decisions, edits and re-categorisations that led there.
Settled ==
  sound /\ \A s \in Session : pc[s] \notin {"apply", "write"}

ReversedExact ==
  Settled => reversed = Touched("reversal", NowApplied)

\* An application of the links that no other commit overlapped leaves both
\* flags right, however wrong an earlier crash or overlap had left them.
ApplyRepairs ==
  [][\A s \in Session : WriteFlags(s) /\ fresh[s] =>
       /\ reversed' = Touched("reversal", NowApplied)
       /\ Touched("cross_account", NowApplied) \subseteq own']_vars

\* Within one run of detect_links no transaction ends up in two pairs.
RunPairsDisjoint ==
  \A s \in Session : \A k, l \in found[s] : Ends(k) \cap Ends(l) # {} => k = l

\* What the loop owes a withdrawal it has dealt with: if it could have been
\* paired with some deposit by a link not yet on file, then it was, or the
\* deposit went to another withdrawal of the run.
RunComplete ==
  \A s \in Session : pc[s] = "pair" =>
    \A out \in Withdrawals(view[s].rows) \ todo[s], in \in view[s].rows :
      /\ Pairs(out, in, view[s].own)
      /\ PairLink(out, in) \notin view[s].links
      => {out, in} \cap LinkedIn(found[s]) # {}

\* "The nearest candidate in time, not the first": no deposit the run leaves
\* over, and could have given to a withdrawal, is nearer than the one it gave.
NearestWins ==
  \A s \in Session : \A l \in found[s], in \in view[s].rows \ LinkedIn(found[s]) :
    /\ Pairs(l.primary, in, view[s].own)
    /\ PairLink(l.primary, in) \notin view[s].links
    => Gap(l.primary, l.secondary) <= Gap(l.primary, in)

\* A link on file joins what its kind says: opposite amounts and the window of
\* the kind, whatever interleaving of runs, edits and imports filed it.
LinksAreWhatTheySay ==
  \A l \in links :
    CASE l.kind = "fee"      -> IsFeeOf(l.secondary, l.primary)
      [] l.kind = "reversal" -> /\ Opposite(l.primary, l.secondary)
                                /\ IsReversal(l.primary, l.secondary)
      [] OTHER               -> /\ Opposite(l.primary, l.secondary)
                                /\ IsCrossAccount(l.primary, l.secondary, Tx)

\* Promised by the code and not kept: detect_links says of itself that it is
\* idempotent, so run again on the same transactions it files no further link.
DetectIdempotent ==
  [][\A s \in Session :
       CommitLinks(s) /\ fresh[s] /\ lastRun = <<view[s].rows, view[s].own>>
         => links' = links]_vars
=============================================================================
