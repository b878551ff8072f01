---------------------------- MODULE TxLinksProofs ----------------------------
(***************************************************************************)
(* The safety properties of TxLinks, proved for every bank, every number   *)
(* of sessions and every sequence of requests: the flags and links, the    *)
(* applying of links, and the run of the detection.                        *)
(***************************************************************************)
EXTENDS TxLinks, TLAPS

\* What the sessions hold is about committed rows: rows are never deleted.
HeldRows ==
  \A s \in Session :
    /\ view[s].rows \subseteq present
    /\ LinkedIn(view[s].applied) \subseteq present
    /\ LinkedIn(found[s]) \subseteq view[s].rows
    /\ todo[s] \subseteq view[s].rows
    /\ pc[s] # "pair" => found[s] = {} /\ todo[s] = {}

TypeInv == TypeOK /\ HeldRows

------------------------------------------------------------------------------
(* Links and the transactions they touch.                                   *)

\* A link of some kind touches only ends of links.
LEMMA TouchedLinked ==
  ASSUME NEW kind, NEW ls
  PROVE  Touched(kind, ls) \subseteq LinkedIn(ls)
BY DEF Touched, LinkedIn

\* Links in force are links on file.
LEMMA AppliedLinks ==
  ASSUME NEW ls, NEW conf, NEW rej
  PROVE  /\ Applied(ls, conf, rej) \subseteq ls
         /\ LinkedIn(Applied(ls, conf, rej)) \subseteq LinkedIn(ls)
BY DEF Applied, LinkedIn

\* The loop over withdrawals files links between transactions it has loaded.
LEMMA PairLinkEnds ==
  ASSUME NEW out \in Tx, NEW in \in Tx
  PROVE  PairLink(out, in) \in Link /\ Ends(PairLink(out, in)) = {out, in}
BY DEF PairLink, Link, LinkKind, Ends

\* And so does the fee loop.
LEMMA FeeLinkEnds ==
  ASSUME NEW fee \in Tx, NEW parent \in Tx
  PROVE  FeeLink(fee, parent) \in Link /\ Ends(FeeLink(fee, parent)) = {fee, parent}
BY DEF FeeLink, Link, LinkKind, Ends

\* The ends of a larger set of links.
LEMMA LinkedUnion ==
  ASSUME NEW ls, NEW ks
  PROVE  LinkedIn(ls \cup ks) = LinkedIn(ls) \cup LinkedIn(ks)
BY DEF LinkedIn

\* The ends of a set of links with one more.
LEMMA LinkedMore ==
  ASSUME NEW ls, NEW l
  PROVE  LinkedIn(ls \cup {l}) = LinkedIn(ls) \cup Ends(l)
BY DEF LinkedIn

\* A deposit chosen for a withdrawal is one the session has loaded and not
\* given away before.
LEMMA ChosenLoaded ==
  ASSUME NEW s, NEW out, NEW in \in Nearest(out, Candidates(s, out))
  PROVE  /\ in \in view[s].rows \ LinkedIn(found[s])
         /\ Pairs(out, in, view[s].own)
         /\ PairLink(out, in) \notin view[s].links
BY DEF Nearest, Candidates

------------------------------------------------------------------------------
(* Type correctness.                                                        *)

\* Without links nothing is an end.
LEMMA NoLinkNoEnd == LinkedIn({}) = {}
BY DEF LinkedIn

\* The view of a session that has loaded nothing is a view.
LEMMA NothingIsView ==
  Nothing \in View /\ Nothing.rows = {} /\ Nothing.applied = {}
BY DEF Nothing, View

\* What a session that refuses a link holds.
Refusing(l) == [Nothing EXCEPT !.refused = {l}]

\* It is a view that holds no transaction.
LEMMA RefusingIsView ==
  ASSUME NEW l \in Link
  PROVE  /\ Refusing(l) \in View
         /\ Refusing(l).rows = {} /\ Refusing(l).applied = {}
         /\ Refusing(l).own = {} /\ Refusing(l).reversed = {}
BY DEF Refusing, Nothing, View

\* What a session that has imported holds: the last row.
Holding(t) == [Nothing EXCEPT !.rows = {t}, !.own = {t} \cap OwnText']

\* It is a view of that row, not yet reversed.
LEMMA HoldingIsView ==
  ASSUME NEW t \in Tx
  PROVE  /\ Holding(t) \in View
         /\ Holding(t).rows = {t} /\ Holding(t).applied = {}
         /\ Holding(t).own = {t} \cap OwnText' /\ Holding(t).reversed = {}
BY DEF Holding, Nothing, View

\* What BeginDetect makes of a view.
Loaded(rows, mine, back, ls) ==
  [Nothing EXCEPT !.rows = rows, !.own = mine, !.reversed = back, !.links = ls]

\* It is a view with those fields, and no link to apply.
LEMMA LoadedIsView ==
  ASSUME NEW rows \in SUBSET Tx, NEW mine \in SUBSET Tx, NEW back \in SUBSET Tx,
         NEW ls \in SUBSET Link
  PROVE  /\ Loaded(rows, mine, back, ls) \in View
         /\ Loaded(rows, mine, back, ls).rows = rows /\ Loaded(rows, mine, back, ls).applied = {}
         /\ Loaded(rows, mine, back, ls).own = mine /\ Loaded(rows, mine, back, ls).reversed = back
BY DEF Loaded, Nothing, View

\* BeginDetect keeps of a row it holds what it knows of it.
LEMMA DetectLoads ==
  ASSUME TypeOK, NEW s \in Session, BeginDetect(s)
  PROVE  /\ view'[s] \in View /\ view'[s].rows = present /\ view'[s].applied = {}
         /\ view'[s].own = view[s].own \cup (own \ view[s].rows)
         /\ view'[s].reversed = view[s].reversed \cup (reversed \ view[s].rows)
<1> DEFINE mine == view[s].own \cup (own \ view[s].rows)
           back == view[s].reversed \cup (reversed \ view[s].rows)
<1>1. view' = [view EXCEPT ![s] = Loaded(present, mine, back, links)]
  BY DEF BeginDetect, Loaded
<1>2. /\ view \in [Session -> View] /\ links \in SUBSET Link /\ present \in SUBSET Tx
      /\ mine \in SUBSET Tx /\ back \in SUBSET Tx
  BY DEF TypeOK, View
<1> HIDE DEF mine, back
<1>3. /\ view'[s] \in View /\ view'[s].rows = present /\ view'[s].applied = {}
      /\ view'[s].own = mine /\ view'[s].reversed = back
  BY <1>1, <1>2, LoadedIsView
<1> QED
  BY <1>3 DEF mine, back

\* What BeginApply makes of a view.
Extended(r, a, b, c, d) ==
  [r EXCEPT !.reversed = a, !.own = b, !.cleared = c, !.applied = d]

\* Changing four fields of a view gives a view with those fields.
LEMMA ViewExtended ==
  ASSUME NEW r \in View, NEW a \in SUBSET Tx, NEW b \in SUBSET Tx, NEW c \in SUBSET Tx,
         NEW d \in SUBSET Link
  PROVE  /\ Extended(r, a, b, c, d) \in View
         /\ Extended(r, a, b, c, d).rows = r.rows
         /\ Extended(r, a, b, c, d).reversed = a
         /\ Extended(r, a, b, c, d).own = b
         /\ Extended(r, a, b, c, d).cleared = c
         /\ Extended(r, a, b, c, d).applied = d
<1>1. /\ Extended(r, a, b, c, d).rows = r.rows
      /\ Extended(r, a, b, c, d).reversed = a
      /\ Extended(r, a, b, c, d).own = b
  BY DEF View, Extended
<1>2. /\ Extended(r, a, b, c, d).cleared = c
      /\ Extended(r, a, b, c, d).applied = d
  BY DEF View, Extended
<1>3. Extended(r, a, b, c, d) \in View
  BY DEF View, Extended
<1> QED BY <1>1, <1>2, <1>3

\* The empty database satisfies the inductive invariant.
LEMMA InitTypeInv == Init => TypeInv
<1> SUFFICES ASSUME Init PROVE TypeInv
  OBVIOUS
<1>1. TypeOK
  BY NothingIsView, NoLinkNoEnd DEF Init, TypeOK, PC
<1>2. HeldRows
  BY NothingIsView, NoLinkNoEnd DEF Init, HeldRows
<1> QED BY <1>1, <1>2 DEF TypeInv

\* No step of any session disturbs it.
LEMMA NextTypeInv == TypeInv /\ [Next]_vars => TypeInv'
<1> SUFFICES ASSUME TypeInv, [Next]_vars PROVE TypeInv'
  OBVIOUS
<1> USE LinksAssumption DEF TypeInv
<1>1. ASSUME NEW s \in Session, ImportStatement(s) PROVE TypeInv'
  <2>1. PICK file \in Statement :
          /\ alias' = (alias \/ file \in Naming)
          /\ present' = present \cup (file \ present)
          /\ own' = own \cup ((file \ present) \cap OwnText')
          /\ \/ Goto(s, "idle") /\ UNCHANGED view
             \/ /\ Goto(s, "detect")
                /\ \E last \in file \ present : view' = [view EXCEPT ![s] = Holding(last)]
    BY <1>1 DEF ImportStatement, Holding
  <2>2. /\ \E p \in {"idle", "detect"} : Goto(s, p)
        /\ view' \in [Session -> View] /\ \A r \in Session \ {s} : view'[r] = view[r]
        /\ view'[s] = view[s] \/ (view'[s].rows \subseteq present' /\ view'[s].applied = {})
    <3>1. view \in [Session -> View] /\ Statement \subseteq SUBSET Tx
      BY DEF TypeOK
    <3>2. CASE Goto(s, "idle") /\ UNCHANGED view
      BY <3>1, <3>2
    <3>3. CASE /\ Goto(s, "detect")
               /\ \E last \in file \ present : view' = [view EXCEPT ![s] = Holding(last)]
      <4>1. PICK last \in file \ present : view' = [view EXCEPT ![s] = Holding(last)]
        BY <3>3
      <4>2. last \in Tx /\ last \in present'
        BY <2>1, <3>1
      <4>3. Holding(last) \in View /\ Holding(last).rows = {last} /\ Holding(last).applied = {}
        BY <4>2, HoldingIsView
      <4> QED
        BY <3>1, <3>3, <4>1, <4>2, <4>3
    <3> QED
      BY <2>1, <3>2, <3>3
  <2>3. /\ pc[s] = "idle" /\ pc' \in [Session -> PC] /\ pc'[s] \in {"idle", "detect"}
        /\ \A r \in Session \ {s} : pc'[r] = pc[r]
        /\ fresh' \in [Session -> BOOLEAN] /\ requests' \in Nat
        /\ UNCHANGED <<manual, reversed, links, confirmed, rejected, found, todo, sound>>
    <3>1. /\ pc[s] = "idle" /\ requests' = requests + 1 /\ fresh' = [r \in Session |-> r = s]
          /\ UNCHANGED <<manual, reversed, links, confirmed, rejected, found, todo, sound>>
      BY <1>1 DEF ImportStatement, Begins
    <3>2. pc \in [Session -> PC] /\ requests \in Nat /\ {"idle", "detect"} \subseteq PC
      BY DEF TypeOK, PC
    <3>3. PICK p \in {"idle", "detect"} : pc' = [pc EXCEPT ![s] = p]
      BY <2>2 DEF Goto
    <3> QED
      BY <3>1, <3>2, <3>3
  <2>4. TypeOK'
    BY <2>1, <2>2, <2>3 DEF TypeOK, LinkedIn
  <2>5. HeldRows'
    <3> SUFFICES ASSUME NEW r \in Session
                 PROVE  /\ view'[r].rows \subseteq present'
                        /\ LinkedIn(view'[r].applied) \subseteq present'
                        /\ LinkedIn(found[r]) \subseteq view'[r].rows
                        /\ todo[r] \subseteq view'[r].rows
                        /\ pc'[r] # "pair" => found[r] = {} /\ todo[r] = {}
      BY <2>3 DEF HeldRows, LinkedIn
    <3>1. CASE r # s
      BY <2>1, <2>2, <2>3, <3>1 DEF HeldRows
    <3>2. CASE r = s
      BY <2>1, <2>2, <2>3, <3>2, NoLinkNoEnd DEF HeldRows
    <3> QED BY <3>1, <3>2
  <2> QED BY <2>4, <2>5
<1>2. ASSUME NEW s \in Session, DetectAgain(s) PROVE TypeInv'
  BY <1>2 DEF DetectAgain, Begins, Goto, TypeOK, PC, HeldRows, db
<1>3. ASSUME NEW s \in Session, ConfirmLink(s) \/ RejectLink(s) PROVE TypeInv'
  <2>1. confirmed' \subseteq links /\ rejected' \subseteq links /\ UNCHANGED links
    BY <1>3 DEF ConfirmLink, RejectLink, TypeOK
  <2>2. /\ UNCHANGED <<present, manual, own, reversed, alias, found, todo, sound>>
        /\ requests' = requests + 1 /\ pc[s] = "idle"
        /\ Goto(s, "apply") /\ Committed(s)
        /\ view' = view \/ \E l \in links : view' = [view EXCEPT ![s] = Refusing(l)]
    BY <1>3 DEF ConfirmLink, RejectLink, Begins, Refusing
  <2>3. TypeOK'
    BY <2>1, <2>2, RefusingIsView DEF Goto, Committed, TypeOK, PC
  <2>4. HeldRows'
    BY <2>2, RefusingIsView, NoLinkNoEnd DEF Goto, TypeOK, HeldRows
  <2> QED BY <2>3, <2>4
<1>4. ASSUME NEW s \in Session, ChangeAlias(s) PROVE TypeInv'
  BY <1>4 DEF ChangeAlias, Begins, Goto, Committed, TypeOK, PC, HeldRows
<1>5. ASSUME NEW s \in Session, Recategorize(s) PROVE TypeInv'
  BY <1>5 DEF Recategorize, Begins, Goto, TypeOK, PC, HeldRows, db
<1>6. ASSUME NEW s \in Session, PatchTransaction(s) PROVE TypeInv'
  BY <1>6 DEF PatchTransaction, Begins, Committed, TypeOK, HeldRows, session
<1>7. ASSUME NEW s \in Session, BeginDetect(s) PROVE TypeInv'
  <2>1. view'[s].rows = present /\ view'[s].applied = {} /\ view'[s] \in View
    BY <1>7, DetectLoads
  <2>2. Withdrawals(present) \subseteq present
    BY DEF Withdrawals
  <2>3. TypeOK'
    BY <1>7, <2>1, <2>2 DEF BeginDetect, Goto, TypeOK, PC, db
  <2>4. HeldRows'
    BY <1>7, <2>1, <2>2, NoLinkNoEnd DEF BeginDetect, Goto, TypeOK, HeldRows, db
  <2> QED BY <2>3, <2>4
<1>8. ASSUME NEW s \in Session, PairNext(s) PROVE TypeInv'
  <2>1. PICK out \in Earliest(todo[s]) :
          /\ todo' = [todo EXCEPT ![s] = @ \ {out}]
          /\ \/ UNCHANGED found
             \/ \E in \in Nearest(out, Candidates(s, out)) :
                  found' = [found EXCEPT ![s] = @ \cup {PairLink(out, in)}]
    BY <1>8 DEF PairNext
  <2>2. out \in todo[s] /\ out \in view[s].rows /\ out \in Tx
    BY DEF Earliest, TypeOK, HeldRows
  <2>3. found'[s] \subseteq Link /\ LinkedIn(found'[s]) \subseteq view[s].rows
    <3>1. CASE UNCHANGED found
      BY <3>1 DEF TypeOK, HeldRows
    <3>2. ASSUME NEW in \in Nearest(out, Candidates(s, out)),
                 found' = [found EXCEPT ![s] = @ \cup {PairLink(out, in)}]
          PROVE  found'[s] \subseteq Link /\ LinkedIn(found'[s]) \subseteq view[s].rows
      <4>1. in \in view[s].rows /\ in \in Tx
        BY ChosenLoaded DEF TypeOK, HeldRows
      <4>2. found'[s] = found[s] \cup {PairLink(out, in)}
        BY <3>2 DEF TypeOK
      <4>3. PairLink(out, in) \in Link /\ Ends(PairLink(out, in)) = {out, in}
        BY <2>2, <4>1, PairLinkEnds
      <4>4. LinkedIn(found'[s]) = LinkedIn(found[s]) \cup {out, in}
        BY <4>2, <4>3, LinkedMore
      <4>5. found[s] \subseteq Link /\ LinkedIn(found[s]) \subseteq view[s].rows
        BY DEF TypeOK, HeldRows
      <4> QED BY <2>2, <4>1, <4>2, <4>3, <4>4, <4>5
    <3> QED BY <2>1, <3>1, <3>2
  <2>4. found' \in [Session -> SUBSET Link] /\ \A r \in Session \ {s} : found'[r] = found[r]
    BY <2>1, <2>3 DEF TypeOK
  <2>5. TypeOK'
    BY <1>8, <2>1, <2>4 DEF PairNext, TypeOK, db, history
  <2>6. HeldRows'
    BY <1>8, <2>1, <2>3, <2>4 DEF PairNext, TypeOK, HeldRows, db, history
  <2> QED BY <2>5, <2>6
<1>9. ASSUME NEW s \in Session, CommitLinks(s) PROVE TypeInv'
  <2>1. PICK parent \in [FeeRows(view[s].rows) -> view[s].rows] :
          /\ \A f \in DOMAIN parent : parent[f] \in FirstParents(f, view[s].rows)
          /\ LET fees == {FeeLink(f, parent[f]) : f \in DOMAIN parent}
                 new  == found[s] \cup (fees \ view[s].links)
             IN  \/ /\ links' = links \cup new
                    /\ Goto(s, "apply") /\ Committed(s)
                    /\ UNCHANGED view
                 \/ /\ Goto(s, "idle")
                    /\ view' = [view EXCEPT ![s] = Nothing]
                    /\ UNCHANGED <<links, fresh, lastRun>>
    BY <1>9 DEF CommitLinks
  <2> DEFINE fees == {FeeLink(f, parent[f]) : f \in DOMAIN parent}
             new  == found[s] \cup (fees \ view[s].links)
  <2>2. /\ fees \subseteq Link
        /\ LinkedIn(fees) \subseteq view[s].rows
    <3> SUFFICES ASSUME NEW f \in DOMAIN parent
                 PROVE  /\ FeeLink(f, parent[f]) \in Link
                        /\ Ends(FeeLink(f, parent[f])) \subseteq view[s].rows
      BY DEF LinkedIn
    <3>1. f \in view[s].rows /\ parent[f] \in view[s].rows
      BY <2>1 DEF FeeRows
    <3>2. f \in Tx /\ parent[f] \in Tx
      BY <3>1 DEF TypeOK, HeldRows
    <3> QED BY <3>1, <3>2, FeeLinkEnds
  <2>3. new \subseteq Link /\ LinkedIn(new) \subseteq present
    BY <2>2 DEF TypeOK, HeldRows, LinkedIn
  <2>4. UNCHANGED <<present, manual, own, reversed, alias, confirmed, rejected, todo, sound, requests>>
        /\ found' = [found EXCEPT ![s] = {}] /\ todo[s] = {}
    BY <1>9 DEF CommitLinks
  <2>5. LinkedIn(links \cup new) = LinkedIn(links) \cup LinkedIn(new)
    BY LinkedUnion
  <2>6. CASE links' = links \cup new /\ Goto(s, "apply") /\ Committed(s) /\ UNCHANGED view
    <3>1. TypeOK'
      BY <2>3, <2>4, <2>5, <2>6 DEF Goto, Committed, TypeOK, PC
    <3>2. HeldRows'
      BY <2>4, <2>6, NoLinkNoEnd DEF Goto, TypeOK, HeldRows
    <3> QED BY <3>1, <3>2
  <2>7. CASE /\ Goto(s, "idle") /\ view' = [view EXCEPT ![s] = Nothing]
             /\ UNCHANGED <<links, fresh>>
    <3>1. TypeOK'
      BY <2>4, <2>7, NothingIsView DEF Goto, TypeOK, PC
    <3>2. HeldRows'
      BY <2>4, <2>7, NothingIsView, NoLinkNoEnd DEF Goto, TypeOK, HeldRows
    <3> QED BY <3>1, <3>2
  <2> QED BY <2>1, <2>6, <2>7
<1>10. ASSUME NEW s \in Session, BeginApply(s) PROVE TypeInv'
  <2> DEFINE a == view[s].reversed \cup (reversed \ view[s].rows)
             b == view[s].own \cup (own \ view[s].rows)
             seen == Applied(links, confirmed \ view[s].refused, rejected)
  <2>1. LinkedIn(seen) \subseteq present /\ seen \subseteq Link
    BY AppliedLinks DEF TypeOK
  <2>2. /\ view' = [view EXCEPT ![s] = view'[s]]
        /\ view'[s] = Extended(view[s], a, b, reversed, seen)
    BY <1>10 DEF BeginApply, TypeOK, Extended
  <2>3. /\ view[s] \in View /\ reversed \in SUBSET Tx /\ seen \in SUBSET Link
        /\ a \in SUBSET Tx /\ b \in SUBSET Tx
    BY <2>1 DEF TypeOK, View
  <2> HIDE DEF a, b, seen
  <2>4. /\ view'[s] \in View
        /\ view'[s].rows = view[s].rows /\ view'[s].applied = seen
    BY <2>2, <2>3, ViewExtended
  <2>5. fresh' \in [Session -> BOOLEAN]
    BY <1>10 DEF BeginApply, TypeOK
  <2>6. TypeOK'
    BY <1>10, <2>2, <2>4, <2>5 DEF BeginApply, Goto, TypeOK, PC, db
  <2>7. HeldRows'
    BY <1>10, <2>1, <2>2, <2>4 DEF BeginApply, Goto, TypeOK, HeldRows, db
  <2> QED BY <2>6, <2>7
<1>11. ASSUME NEW s \in Session, WriteFlags(s) PROVE TypeInv'
  <2>1. /\ Touched("reversal", view[s].applied) \subseteq present
        /\ Touched("cross_account", view[s].applied) \subseteq present
    BY TouchedLinked DEF HeldRows
  <2>2. reversed' \subseteq present /\ own' \subseteq present
    BY <1>11, <2>1 DEF WriteFlags, TypeOK
  <2>3. TypeOK'
    BY <1>11, <2>2, NothingIsView DEF WriteFlags, Goto, Committed, TypeOK, PC
  <2>4. HeldRows'
    BY <1>11, NothingIsView, NoLinkNoEnd DEF WriteFlags, Goto, TypeOK, HeldRows
  <2> QED BY <2>3, <2>4
<1>12. ASSUME NEW s \in Session, BeginRecategorize(s) PROVE TypeInv'
  <2>1. /\ view' = [view EXCEPT ![s] = view'[s]]
        /\ view'[s] \in View
        /\ view'[s].rows = present /\ view'[s].applied = {}
    BY <1>12 DEF BeginRecategorize, TypeOK, Nothing, View, OwnText
  <2>2. \E where \in {"rewrite", "rewrite_force"} : Goto(s, where) /\ pc[s] # "pair"
    BY <1>12 DEF BeginRecategorize
  <2>3. TypeOK'
    BY <1>12, <2>1, <2>2 DEF BeginRecategorize, Goto, TypeOK, PC, db
  <2>4. HeldRows'
    BY <1>12, <2>1, <2>2, NoLinkNoEnd DEF BeginRecategorize, Goto, TypeOK, HeldRows, db
  <2> QED BY <2>3, <2>4
<1>13. ASSUME NEW s \in Session, WriteCategories(s) PROVE TypeInv'
  <2>1. own' \subseteq present /\ manual' \subseteq present
    BY <1>13 DEF WriteCategories, TypeOK, HeldRows
  <2>2. TypeOK'
    BY <1>13, <2>1, NothingIsView DEF WriteCategories, Goto, Committed, TypeOK, PC
  <2>3. HeldRows'
    BY <1>13, NothingIsView, NoLinkNoEnd DEF WriteCategories, Goto, TypeOK, HeldRows
  <2> QED BY <2>2, <2>3
<1>14. ASSUME NEW s \in Session, Fail(s) PROVE TypeInv'
  <2>1. TypeOK'
    BY <1>14, NothingIsView DEF Fail, Goto, TypeOK, PC, db
  <2>2. HeldRows'
    BY <1>14, NothingIsView, NoLinkNoEnd DEF Fail, Goto, TypeOK, HeldRows, db
  <2> QED BY <2>1, <2>2
<1>15. CASE UNCHANGED vars
  BY <1>15 DEF vars, db, session, history, TypeOK, HeldRows
<1> QED
  BY <1>1, <1>2, <1>3, <1>4, <1>5, <1>6, <1>7, <1>8, <1>9, <1>10, <1>11, <1>12, <1>13,
     <1>14, <1>15 DEF Next

\* Whatever requests are served, in whatever interleaving, flags and links are
\* about rows that exist, and only links that exist carry a decision.
THEOREM TypeCorrect == Spec => []TypeOK
<1>1. TypeInv => TypeOK
  BY DEF TypeInv
<1> QED BY <1>1, InitTypeInv, NextTypeInv, PTL DEF Spec

------------------------------------------------------------------------------
(* What a session that has loaded the tables, and has not been overlapped   *)
(* by another's commit, knows.                                              *)

Current(s) == view[s].reversed = reversed /\ view[s].own = own

\* What it knows of the rows it holds is so.
Partly(s) ==
  view[s].reversed = reversed \cap view[s].rows /\ view[s].own = own \cap view[s].rows

Snapshot(s) ==
  /\ pc[s] \in {"idle", "recategorize", "recategorize_force"} => view[s] = Nothing
  /\ pc[s] = "detect" /\ fresh[s] => HoldsNone(s) \/ Partly(s)
  /\ pc[s] = "pair" /\ fresh[s] => Current(s)
  /\ pc[s] = "apply" /\ fresh[s] => HoldsNone(s) \/ Current(s)
  /\ pc[s] = "write" /\ fresh[s] =>
       Current(s) /\ view[s].cleared = reversed /\ view[s].applied = NowApplied

SnapshotInv == \A s \in Session : Snapshot(s)

\* A session is left alone by a step that changes nothing it has, and either
\* commits nothing or makes the session stale.
LeftAlone(r) ==
  /\ pc'[r] = pc[r] /\ view'[r] = view[r]
  /\ fresh'[r] => /\ fresh[r]
                  /\ UNCHANGED <<own, reversed, links, confirmed, rejected>>

\* A session that is left alone keeps what it knows.
LEMMA LeftAloneKeeps ==
  ASSUME NEW r, Snapshot(r), LeftAlone(r)
  PROVE  Snapshot(r)'
BY DEF Snapshot, LeftAlone, Current, Partly, HoldsNone, NowApplied, Applied

\* A step of one session leaves the others alone.
LEMMA OthersLeftAlone ==
  ASSUME TypeInv, NEW s \in Session, NEW r \in Session, r # s,
         \/ ImportStatement(s) \/ DetectAgain(s) \/ ConfirmLink(s) \/ RejectLink(s)
         \/ ChangeAlias(s) \/ Recategorize(s) \/ PatchTransaction(s)
         \/ BeginDetect(s) \/ PairNext(s) \/ CommitLinks(s)
         \/ BeginApply(s) \/ WriteFlags(s)
         \/ BeginRecategorize(s) \/ WriteCategories(s)
         \/ Fail(s)
  PROVE  LeftAlone(r)
<1> USE DEF TypeInv, TypeOK, LeftAlone, Goto, Committed
<1>1. CASE ImportStatement(s) \/ ChangeAlias(s)
  BY <1>1 DEF ImportStatement, ChangeAlias
<1>2. CASE DetectAgain(s) \/ Recategorize(s)
  BY <1>2 DEF DetectAgain, Recategorize, db
<1>3. CASE ConfirmLink(s)
  BY <1>3 DEF ConfirmLink
<1>4. CASE RejectLink(s)
  BY <1>4 DEF RejectLink
<1>5. CASE PatchTransaction(s)
  BY <1>5 DEF PatchTransaction, session
<1>6. CASE BeginDetect(s)
  BY <1>6 DEF BeginDetect, db
<1>7. CASE PairNext(s)
  BY <1>7 DEF PairNext, db, history
<1>8. CASE CommitLinks(s)
  <2>1. /\ UNCHANGED <<own, reversed, confirmed, rejected>>
        /\ \/ Goto(s, "apply") /\ Committed(s) /\ UNCHANGED view
           \/ Goto(s, "idle") /\ view' = [view EXCEPT ![s] = Nothing] /\ UNCHANGED <<links, fresh>>
    BY <1>8 DEF CommitLinks
  <2> QED BY <2>1
<1>9. CASE BeginApply(s)
  BY <1>9 DEF BeginApply, db
<1>10. CASE WriteFlags(s)
  BY <1>10 DEF WriteFlags
<1>11. CASE BeginRecategorize(s)
  BY <1>11 DEF BeginRecategorize, db
<1>12. CASE WriteCategories(s)
  BY <1>12 DEF WriteCategories
<1>13. CASE Fail(s)
  BY <1>13 DEF Fail, db
<1> QED BY <1>1, <1>2, <1>3, <1>4, <1>5, <1>6, <1>7, <1>8, <1>9, <1>10, <1>11, <1>12, <1>13

\* A session's own steps load what is current; the others make it stale.
LEMMA NextSnapshotInv == TypeInv /\ SnapshotInv /\ [Next]_vars => SnapshotInv'
<1> SUFFICES ASSUME TypeInv, SnapshotInv, [Next]_vars, NEW r \in Session PROVE Snapshot(r)'
  BY DEF SnapshotInv
<1>1. CASE UNCHANGED vars
  BY <1>1 DEF SnapshotInv, Snapshot, Current, Partly, HoldsNone, NowApplied, Applied, vars, db, session, history
<1>2. ASSUME NEW s \in Session, s # r,
         \/ ImportStatement(s) \/ DetectAgain(s) \/ ConfirmLink(s) \/ RejectLink(s)
         \/ ChangeAlias(s) \/ Recategorize(s) \/ PatchTransaction(s)
         \/ BeginDetect(s) \/ PairNext(s) \/ CommitLinks(s)
         \/ BeginApply(s) \/ WriteFlags(s)
         \/ BeginRecategorize(s) \/ WriteCategories(s)
         \/ Fail(s)
      PROVE Snapshot(r)'
  BY <1>2, OthersLeftAlone, LeftAloneKeeps DEF SnapshotInv
<1>3. CASE DetectAgain(r) \/ ChangeAlias(r) \/ Recategorize(r)
  <2>1. /\ pc[r] = "idle" /\ view' = view
        /\ \E where \in {"idle", "detect", "recategorize", "recategorize_force"} : Goto(r, where)
    BY <1>3 DEF DetectAgain, ChangeAlias, Recategorize, Begins
  <2>2. view'[r] = Nothing /\ HoldsNone(r)'
    BY <2>1 DEF SnapshotInv, Snapshot, HoldsNone, Nothing
  <2> QED BY <2>1, <2>2 DEF Snapshot, Goto, TypeInv, TypeOK
<1>12. CASE ImportStatement(r)
  <2>1. PICK file \in Statement :
          /\ present' = present \cup (file \ present)
          /\ own' = own \cup ((file \ present) \cap OwnText') /\ reversed' = reversed
          /\ pc[r] = "idle"
          /\ \/ Goto(r, "idle") /\ UNCHANGED view
             \/ /\ Goto(r, "detect")
                /\ \E last \in file \ present : view' = [view EXCEPT ![r] = Holding(last)]
    BY <1>12 DEF ImportStatement, Begins, Holding
  <2>2. CASE Goto(r, "idle") /\ UNCHANGED view
    BY <2>1, <2>2 DEF SnapshotInv, Snapshot, Goto, TypeInv, TypeOK
  <2>3. ASSUME NEW last \in file \ present, Goto(r, "detect"),
               view' = [view EXCEPT ![r] = Holding(last)]
        PROVE  Snapshot(r)'
    <3>1. /\ last \in Tx /\ view'[r] = Holding(last) /\ pc'[r] = "detect"
          /\ last \notin own /\ last \notin reversed
      BY <2>3, LinksAssumption DEF TypeInv, TypeOK, Goto
    <3>2. view'[r].rows = {last} /\ view'[r].own = {last} \cap OwnText' /\ view'[r].reversed = {}
      BY <3>1, HoldingIsView
    <3>3. Partly(r)'
      BY <2>1, <2>3, <3>1, <3>2 DEF Partly
    <3> QED
      BY <3>1, <3>3 DEF Snapshot
  <2> QED BY <2>1, <2>2, <2>3
<1>4. CASE ConfirmLink(r) \/ RejectLink(r)
  <2>1. /\ pc[r] = "idle" /\ Goto(r, "apply")
        /\ view' = view \/ \E l \in links : view' = [view EXCEPT ![r] = Refusing(l)]
    BY <1>4 DEF ConfirmLink, RejectLink, Begins, Refusing
  <2>2. view[r] = Nothing
    BY <2>1 DEF SnapshotInv, Snapshot
  <2>3. HoldsNone(r)'
    <3>1. CASE view' = view
      BY <2>2, <3>1 DEF HoldsNone, Nothing
    <3>2. ASSUME NEW l \in links, view' = [view EXCEPT ![r] = Refusing(l)]
          PROVE  HoldsNone(r)'
      BY <3>2, RefusingIsView DEF HoldsNone, TypeInv, TypeOK
    <3> QED BY <2>1, <3>1, <3>2
  <2> QED BY <2>1, <2>3 DEF Snapshot, Goto, TypeInv, TypeOK
<1>5. CASE PatchTransaction(r)
  BY <1>5 DEF PatchTransaction, Begins, session, SnapshotInv, Snapshot
<1>6. CASE BeginDetect(r)
  <2>1. /\ pc[r] = "detect" /\ pc'[r] = "pair" /\ UNCHANGED <<own, reversed>>
        /\ fresh'[r] => HoldsNone(r) \/ fresh[r]
    BY <1>6 DEF BeginDetect, Goto, TypeInv, TypeOK, db
  <2>2. /\ view'[r].own = view[r].own \cup (own \ view[r].rows)
        /\ view'[r].reversed = view[r].reversed \cup (reversed \ view[r].rows)
    BY <1>6, DetectLoads DEF TypeInv
  <2>3. fresh'[r] => Current(r)'
    BY <2>1, <2>2 DEF SnapshotInv, Snapshot, Partly, HoldsNone, Current
  <2> QED BY <2>1, <2>3 DEF Snapshot
<1>7. CASE PairNext(r)
  <2>1. UNCHANGED <<pc, view, fresh, own, reversed>> /\ pc[r] = "pair"
    BY <1>7 DEF PairNext, db, history
  <2> QED BY <2>1 DEF SnapshotInv, Snapshot, Current
<1>8. CASE CommitLinks(r)
  <2>1. /\ pc[r] = "pair" /\ UNCHANGED <<own, reversed>>
        /\ \/ Goto(r, "apply") /\ Committed(r) /\ UNCHANGED view
           \/ Goto(r, "idle") /\ view' = [view EXCEPT ![r] = Nothing]
    BY <1>8 DEF CommitLinks
  <2>2. CASE Goto(r, "apply") /\ Committed(r) /\ UNCHANGED view
    BY <2>1, <2>2 DEF SnapshotInv, Snapshot, Current, Goto, Committed, TypeInv, TypeOK
  <2>3. CASE Goto(r, "idle") /\ view' = [view EXCEPT ![r] = Nothing]
    BY <2>3 DEF Snapshot, Goto, TypeInv, TypeOK
  <2> QED BY <2>1, <2>2, <2>3
<1>9. CASE BeginApply(r)
  <2> DEFINE a == view[r].reversed \cup (reversed \ view[r].rows)
             b == view[r].own \cup (own \ view[r].rows)
             seen == Applied(links, confirmed \ view[r].refused, rejected)
  <2>1. /\ pc[r] = "apply" /\ Goto(r, "write")
        /\ view'[r] = Extended(view[r], a, b, reversed, seen)
        /\ fresh'[r] => /\ HoldsNone(r) \/ fresh[r]
                        /\ view[r].refused \cap confirmed = {}
        /\ UNCHANGED <<own, reversed, links, confirmed, rejected>>
    BY <1>9 DEF BeginApply, Extended, TypeInv, TypeOK, db
  <2>2. /\ view[r] \in View /\ reversed \in SUBSET Tx /\ seen \in SUBSET Link
        /\ a \in SUBSET Tx /\ b \in SUBSET Tx
    BY AppliedLinks DEF TypeInv, TypeOK, View
  <2>3. fresh'[r] => a = reversed /\ b = own
    <3>1. CASE HoldsNone(r)
      BY <3>1 DEF HoldsNone
    <3>2. CASE ~HoldsNone(r)
      BY <2>1, <3>2 DEF SnapshotInv, Snapshot, Current
    <3> QED BY <3>1, <3>2
  <2>4. fresh'[r] => seen = NowApplied
    <3> SUFFICES ASSUME view[r].refused \cap confirmed = {} PROVE seen = NowApplied
      BY <2>1
    <3>1. confirmed \ view[r].refused = confirmed
      OBVIOUS
    <3> QED BY <3>1 DEF NowApplied
  <2> HIDE DEF a, b, seen
  <2>5. /\ view'[r].reversed = a /\ view'[r].own = b
        /\ view'[r].cleared = reversed /\ view'[r].applied = seen
    BY <2>1, <2>2, ViewExtended
  <2>6. pc'[r] = "write" /\ NowApplied' = NowApplied
    BY <2>1 DEF Goto, TypeInv, TypeOK, NowApplied, Applied
  <2> QED BY <2>1, <2>3, <2>4, <2>5, <2>6 DEF Snapshot, Current
<1>10. CASE WriteFlags(r) \/ WriteCategories(r) \/ Fail(r)
  BY <1>10 DEF WriteFlags, WriteCategories, Fail, Snapshot, Goto, TypeInv, TypeOK
<1>11. CASE BeginRecategorize(r)
  <2>1. \E where \in {"rewrite", "rewrite_force"} : Goto(r, where)
    BY <1>11 DEF BeginRecategorize
  <2> QED BY <2>1 DEF Snapshot, Goto, TypeInv, TypeOK
<1> QED BY <1>1, <1>2, <1>3, <1>4, <1>5, <1>6, <1>7, <1>8, <1>9, <1>10, <1>11, <1>12 DEF Next

\* At first no session has loaded anything.
LEMMA InitSnapshotInv == Init => SnapshotInv
BY DEF Init, SnapshotInv, Snapshot

------------------------------------------------------------------------------
(* Applying the links.                                                      *)

\* What the flags become when the session's knowledge is current: exactly
\* what the links in force say.
LEMMA FreshWrite ==
  ASSUME TypeInv, SnapshotInv, NEW s \in Session, WriteFlags(s), fresh[s]
  PROVE  /\ reversed' = Touched("reversal", NowApplied)
         /\ Touched("cross_account", NowApplied) \subseteq own'
<1>1. /\ view[s].reversed = reversed /\ view[s].own = own
      /\ view[s].cleared = reversed /\ view[s].applied = NowApplied
  BY DEF SnapshotInv, Snapshot, Current, WriteFlags
<1> DEFINE undone == Touched("reversal", NowApplied)
           moved  == Touched("cross_account", NowApplied)
<1>2. /\ reversed' = (reversed \ ((reversed \ undone) \cap reversed)) \cup (undone \ reversed)
      /\ own' = own \cup (moved \ own)
  BY <1>1 DEF WriteFlags
<1> HIDE DEF undone, moved
<1>3. reversed' = undone /\ moved \subseteq own'
  BY <1>2
<1> QED BY <1>3 DEF undone, moved

\* The flag and the links agree whenever nothing is under way or lost.
LEMMA NextReversedExact ==
  TypeInv /\ SnapshotInv /\ ReversedExact /\ [Next]_vars => ReversedExact'
<1> SUFFICES ASSUME TypeInv, SnapshotInv, ReversedExact, [Next]_vars, Settled'
             PROVE  reversed' = Touched("reversal", NowApplied')
  BY DEF ReversedExact, Touched
<1>1. ASSUME UNCHANGED <<reversed, links, confirmed, rejected>>, Settled
      PROVE  reversed' = Touched("reversal", NowApplied')
  BY <1>1 DEF ReversedExact, NowApplied, Applied
<1>2. CASE UNCHANGED vars
  BY <1>1, <1>2 DEF vars, db, session, history, Settled
<1>3. ASSUME NEW s \in Session,
             \/ ImportStatement(s) \/ DetectAgain(s) \/ ChangeAlias(s) \/ Recategorize(s)
             \/ PatchTransaction(s) \/ BeginDetect(s) \/ PairNext(s)
             \/ BeginRecategorize(s) \/ WriteCategories(s)
      PROVE  reversed' = Touched("reversal", NowApplied')
  <2>1. UNCHANGED <<reversed, links, confirmed, rejected, sound>>
    BY <1>3 DEF ImportStatement, DetectAgain, ChangeAlias, Recategorize, PatchTransaction,
                BeginDetect, PairNext, BeginRecategorize, WriteCategories, db, history
  <2>2. pc[s] \notin {"apply", "write"} /\ \A r \in Session \ {s} : pc'[r] = pc[r]
    BY <1>3 DEF ImportStatement, DetectAgain, ChangeAlias, Recategorize, PatchTransaction,
                BeginDetect, PairNext, BeginRecategorize, WriteCategories, Begins, Goto,
                session, TypeInv, TypeOK
  <2>3. Settled
    BY <2>1, <2>2 DEF Settled
  <2> QED BY <1>1, <2>1, <2>3
<1>4. ASSUME NEW s \in Session, ConfirmLink(s) \/ RejectLink(s) \/ BeginApply(s)
      PROVE  FALSE
  <2>1. Goto(s, "apply") \/ Goto(s, "write")
    BY <1>4 DEF ConfirmLink, RejectLink, BeginApply
  <2> QED BY <2>1 DEF Goto, Settled, TypeInv, TypeOK
<1>5. ASSUME NEW s \in Session, CommitLinks(s)
      PROVE  reversed' = Touched("reversal", NowApplied')
  <2>1. /\ pc[s] = "pair" /\ UNCHANGED <<reversed, confirmed, rejected, sound>>
        /\ Goto(s, "apply") \/ (Goto(s, "idle") /\ UNCHANGED links)
    BY <1>5 DEF CommitLinks
  <2>2. CASE Goto(s, "apply")
    BY <2>2 DEF Goto, Settled, TypeInv, TypeOK
  <2>3. CASE Goto(s, "idle") /\ UNCHANGED links
    <3>1. Settled
      BY <2>1, <2>3 DEF Goto, Settled, TypeInv, TypeOK
    <3> QED BY <1>1, <2>1, <2>3, <3>1
  <2> QED BY <2>1, <2>2, <2>3
<1>6. ASSUME NEW s \in Session, WriteFlags(s)
      PROVE  reversed' = Touched("reversal", NowApplied')
  <2>1. /\ UNCHANGED <<links, confirmed, rejected>> /\ sound' = fresh[s]
    BY <1>6 DEF WriteFlags
  <2>2. fresh[s] /\ NowApplied' = NowApplied
    BY <2>1 DEF Settled, NowApplied, Applied
  <2> QED BY <1>6, <2>2, FreshWrite
<1>7. ASSUME NEW s \in Session, Fail(s)
      PROVE  reversed' = Touched("reversal", NowApplied')
  <2>1. UNCHANGED <<reversed, links, confirmed, rejected>>
    BY <1>7 DEF Fail, db
  <2>2. Settled
    BY <1>7 DEF Fail, Goto, Settled, TypeInv, TypeOK
  <2> QED BY <1>1, <2>1, <2>2
<1> QED BY <1>2, <1>3, <1>4, <1>5, <1>6, <1>7 DEF Next

\* In an empty database no row is flagged and no link is in force.
LEMMA InitReversedExact == Init => ReversedExact
BY DEF Init, ReversedExact, Settled, NowApplied, Applied, Touched

\* The statistics may trust is_reversed: after any history of imports,
\* detections, confirmations, rejections, edits and re-categorisations, on any
\* number of threads, it marks exactly the ends of the reversals in force, as
\* soon as nothing is under way to apply_links and the last application was
\* neither lost nor made of data another request had already changed.
THEOREM ReversedIsExact == Spec => []ReversedExact
<1> QED BY InitTypeInv, NextTypeInv, InitSnapshotInv, NextSnapshotInv,
           InitReversedExact, NextReversedExact, PTL DEF Spec

\* One undisturbed application repairs both flags, whatever state the crashes
\* and overlaps before it had left them in.
THEOREM ApplicationRepairs == Spec => ApplyRepairs
<1>1. TypeInv /\ SnapshotInv /\ [Next]_vars =>
        [\A s \in Session : WriteFlags(s) /\ fresh[s] =>
           /\ reversed' = Touched("reversal", NowApplied)
           /\ Touched("cross_account", NowApplied) \subseteq own']_vars
  BY FreshWrite
<1> QED BY <1>1, InitTypeInv, NextTypeInv, InitSnapshotInv, NextSnapshotInv, PTL
        DEF Spec, ApplyRepairs

------------------------------------------------------------------------------
(* What one run of detect_links owes the rows it has loaded: the greedy    *)
(* loop pairs nothing twice, overlooks nothing and takes the nearest; and  *)
(* every link on file is what its kind says.                               *)

\* The loop takes withdrawals from "todo" and remembers in "found" the links of
\* those it has dealt with.
Loop(s) ==
  /\ todo[s] \subseteq Withdrawals(view[s].rows)
  /\ \A l \in found[s] :
       /\ l = PairLink(l.primary, l.secondary)
       /\ l.primary \in view[s].rows \ todo[s]
       /\ Pairs(l.primary, l.secondary, view[s].own)

LoopInv == \A s \in Session : Loop(s)

Complete(s) ==
  pc[s] = "pair" =>
    \A out \in Withdrawals(view[s].rows) \ todo[s], in \in view[s].rows :
      /\ Pairs(out, in, view[s].own)
      /\ PairLink(out, in) \notin view[s].links
      => {out, in} \cap LinkedIn(found[s]) # {}

Disjoint(s) == \A k, l \in found[s] : Ends(k) \cap Ends(l) # {} => k = l

NearestTaken(s) ==
  \A l \in found[s], in \in view[s].rows \ LinkedIn(found[s]) :
    /\ Pairs(l.primary, in, view[s].own)
    /\ PairLink(l.primary, in) \notin view[s].links
    => Gap(l.primary, l.secondary) <= Gap(l.primary, in)

\* What a session's part of the invariant is about.
Good(s) == Loop(s) /\ Complete(s) /\ Disjoint(s) /\ NearestTaken(s)

DetectionInv == \A s \in Session : Good(s)

------------------------------------------------------------------------------
\* Time differences are numbers.
LEMMA GapType ==
  ASSUME NEW a \in Tx, NEW b \in Tx
  PROVE  Gap(a, b) \in Int
BY RulesAssumption DEF Gap

\* A step does not concern a session's loop if it leaves the loop's variables
\* alone, or the session is not in the loop afterwards.
Aside(s) ==
  \/ /\ found'[s] = found[s] /\ todo'[s] = todo[s] /\ view'[s] = view[s]
     /\ pc'[s] = "pair" => pc[s] = "pair"
  \/ found'[s] = {} /\ todo'[s] = {} /\ pc'[s] # "pair"

\* A step that does not concern the loop of a session keeps what it knows.
LEMMA AsideKeeps ==
  ASSUME NEW s, Good(s), Aside(s)
  PROVE  Good(s)'
BY DEF Good, Aside, Loop, Complete, Disjoint, NearestTaken

\* Only the load and the turns of its own loop concern it.
LEMMA OnlyTheLoop ==
  ASSUME TypeInv, [Next]_vars, NEW r \in Session
  PROVE  Aside(r) \/ BeginDetect(r) \/ PairNext(r)
<1> USE DEF TypeInv, TypeOK, HeldRows, Aside, Goto
<1>1. CASE UNCHANGED vars
  BY <1>1 DEF vars, session
<1>2. ASSUME NEW s \in Session,
             \/ ImportStatement(s) \/ DetectAgain(s) \/ ConfirmLink(s) \/ RejectLink(s)
             \/ ChangeAlias(s) \/ Recategorize(s)
      PROVE  Aside(r)
  <2>1. /\ UNCHANGED <<found, todo>> /\ pc[s] = "idle" /\ (s = r \/ view'[r] = view[r])
        /\ \E where \in {"idle", "detect", "apply", "recategorize", "recategorize_force"} : Goto(s, where)
    BY <1>2 DEF ImportStatement, DetectAgain, ConfirmLink, RejectLink, ChangeAlias, Recategorize, Begins
  <2> QED BY <2>1
<1>3. ASSUME NEW s \in Session, PatchTransaction(s) PROVE Aside(r)
  BY <1>3 DEF PatchTransaction, session
<1>4. ASSUME NEW s \in Session, BeginDetect(s) PROVE Aside(r) \/ BeginDetect(r)
  BY <1>4 DEF BeginDetect
<1>5. ASSUME NEW s \in Session, PairNext(s) PROVE Aside(r) \/ PairNext(r)
  <2>1. CASE s = r
    BY <1>5, <2>1
  <2>2. CASE s # r
    BY <1>5, <2>2 DEF PairNext
  <2> QED BY <2>1, <2>2
<1>6. ASSUME NEW s \in Session, CommitLinks(s) PROVE Aside(r)
  <2>1. /\ UNCHANGED todo /\ todo[s] = {} /\ found' = [found EXCEPT ![s] = {}]
        /\ \/ Goto(s, "apply") /\ UNCHANGED view
           \/ Goto(s, "idle") /\ view' = [view EXCEPT ![s] = Nothing]
    BY <1>6 DEF CommitLinks
  <2> QED BY <2>1
<1>7. ASSUME NEW s \in Session, BeginApply(s) \/ WriteFlags(s) \/ BeginRecategorize(s)
                                \/ WriteCategories(s)
      PROVE  Aside(r)
  <2>1. /\ UNCHANGED <<found, todo>> /\ pc[s] # "pair"
        /\ \E where \in {"write", "idle", "rewrite", "rewrite_force"} : Goto(s, where)
        /\ view'[r] = view[r] \/ r = s
    BY <1>7 DEF BeginApply, WriteFlags, BeginRecategorize, WriteCategories
  <2> QED BY <2>1
<1>8. ASSUME NEW s \in Session, Fail(s) PROVE Aside(r)
  BY <1>8 DEF Fail
<1> QED BY <1>1, <1>2, <1>3, <1>4, <1>5, <1>6, <1>7, <1>8 DEF Next

------------------------------------------------------------------------------
(* One turn of the loop.                                                    *)

\* A turn deals with one withdrawal and files at most one link for it.
LEMMA PairNextFacts ==
  ASSUME TypeInv, NEW s \in Session, PairNext(s)
  PROVE  \E out \in todo[s] :
           /\ todo'[s] = todo[s] \ {out} /\ UNCHANGED <<pc, view>> /\ pc[s] = "pair"
           /\ \/ Candidates(s, out) = {} /\ found'[s] = found[s]
              \/ \E in \in Nearest(out, Candidates(s, out)) :
                   found'[s] = found[s] \cup {PairLink(out, in)}
BY DEF PairNext, Earliest, TypeInv, TypeOK

\* The turn in which the withdrawal gets a deposit.
LEMMA TurnPairs ==
  ASSUME TypeInv, NEW s \in Session, Good(s), NEW out \in todo[s],
         NEW in \in Nearest(out, Candidates(s, out)),
         todo'[s] = todo[s] \ {out}, UNCHANGED <<pc, view>>, pc[s] = "pair",
         found'[s] = found[s] \cup {PairLink(out, in)}
  PROVE  Good(s)'
<1> DEFINE link == PairLink(out, in)
<1>1. /\ out \in view[s].rows /\ out \in Tx /\ Amount[out] < 0
      /\ in \in view[s].rows \ LinkedIn(found[s]) /\ in \in Tx
      /\ Pairs(out, in, view[s].own) /\ link \notin view[s].links
  BY ChosenLoaded DEF Good, Loop, Withdrawals, TypeInv, TypeOK, HeldRows
<1>2. /\ Ends(link) = {out, in} /\ link.primary = out /\ link.secondary = in
      /\ LinkedIn(found'[s]) = LinkedIn(found[s]) \cup {out, in}
  BY <1>1, PairLinkEnds, LinkedMore DEF PairLink
<1>3. Amount \in [Tx -> Int] /\ Amount[in] = -Amount[out]
  BY <1>1, RulesAssumption DEF Pairs, Opposite
<1>4. out \notin LinkedIn(found[s])
  <2> SUFFICES ASSUME NEW l \in found[s], out \in Ends(l) PROVE FALSE
    BY DEF LinkedIn
  <2>1. l.primary \notin todo[s] /\ Pairs(l.primary, l.secondary, view[s].own)
        /\ l.primary \in Tx /\ l.secondary \in Tx
    BY DEF Good, Loop, TypeInv, TypeOK, Link
  <2>2. Amount[l.secondary] = -Amount[l.primary] /\ Amount[l.primary] < 0
    BY <2>1 DEF Pairs, Opposite
  <2> QED BY <1>1, <1>3, <2>1, <2>2 DEF Ends
<1> HIDE DEF link
<1>5. Loop(s)'
  BY <1>1, <1>2 DEF Good, Loop, Withdrawals, link
<1>6. Complete(s)'
  <2> SUFFICES ASSUME NEW o \in Withdrawals(view[s].rows), o \notin todo[s] \/ o = out,
                      NEW i \in view[s].rows,
                      Pairs(o, i, view[s].own), PairLink(o, i) \notin view[s].links
               PROVE  {o, i} \cap LinkedIn(found'[s]) # {}
    BY DEF Complete
  <2>1. CASE o = out
    BY <1>2, <2>1
  <2>2. CASE o \notin todo[s]
    <3>1. {o, i} \cap LinkedIn(found[s]) # {}
      BY <2>2 DEF Good, Complete
    <3>2. LinkedIn(found[s]) \subseteq LinkedIn(found'[s])
      BY <1>2
    <3> QED BY <3>1, <3>2
  <2> QED BY <2>1, <2>2
<1>7. Disjoint(s)'
  <2> SUFFICES ASSUME NEW k \in found[s] \cup {link}, NEW l \in found[s] \cup {link},
                      Ends(k) \cap Ends(l) # {}
               PROVE  k = l
    BY DEF Disjoint, link
  <2>1. \A m \in found[s] : Ends(m) \cap Ends(link) = {}
    BY <1>1, <1>2, <1>4 DEF LinkedIn
  <2> QED BY <2>1 DEF Good, Disjoint
<1>8. NearestTaken(s)'
  <2> SUFFICES ASSUME NEW l \in found[s] \cup {link},
                      NEW i \in view[s].rows \ (LinkedIn(found[s]) \cup {out, in}),
                      Pairs(l.primary, i, view[s].own),
                      PairLink(l.primary, i) \notin view[s].links
               PROVE  Gap(l.primary, l.secondary) <= Gap(l.primary, i)
    BY <1>2 DEF NearestTaken, link
  <2>1. CASE l \in found[s]
    BY <2>1 DEF Good, NearestTaken
  <2>2. CASE l = link
    <3>1. i \in Candidates(s, out) /\ i \in Tx
      BY <1>2, <2>2 DEF Candidates, TypeInv, TypeOK, HeldRows
    <3>2. \/ Gap(out, in) < Gap(out, i)
          \/ Gap(out, in) = Gap(out, i)
      BY <3>1 DEF Nearest
    <3> QED BY <1>1, <1>2, <2>2, <3>1, <3>2, GapType
  <2> QED BY <2>1, <2>2
<1> QED BY <1>5, <1>6, <1>7, <1>8 DEF Good

\* The turn in which no deposit is left for it.
LEMMA TurnPasses ==
  ASSUME TypeInv, NEW s \in Session, Good(s), NEW out \in todo[s],
         todo'[s] = todo[s] \ {out}, UNCHANGED <<pc, view>>, pc[s] = "pair",
         Candidates(s, out) = {}, found'[s] = found[s]
  PROVE  Good(s)'
<1>1. Loop(s)'
  BY DEF Good, Loop
<1>2. Complete(s)'
  <2> SUFFICES ASSUME NEW o \in Withdrawals(view[s].rows), o \notin todo[s] \/ o = out,
                      NEW i \in view[s].rows,
                      Pairs(o, i, view[s].own), PairLink(o, i) \notin view[s].links
               PROVE  {o, i} \cap LinkedIn(found[s]) # {}
    BY DEF Complete
  <2>1. CASE o = out
    BY <2>1 DEF Candidates
  <2>2. CASE o \notin todo[s]
    BY <2>2 DEF Good, Complete
  <2> QED BY <2>1, <2>2
<1>3. Disjoint(s)' /\ NearestTaken(s)'
  BY DEF Good, Disjoint, NearestTaken
<1> QED BY <1>1, <1>2, <1>3 DEF Good

\* Every step keeps what the loops of all sessions promise.
LEMMA NextDetectionInv == TypeInv /\ DetectionInv /\ [Next]_vars => DetectionInv'
<1> SUFFICES ASSUME TypeInv, DetectionInv, [Next]_vars, NEW s \in Session PROVE Good(s)'
  BY DEF DetectionInv
<1>1. Good(s)
  BY DEF DetectionInv
<1>2. CASE Aside(s)
  BY <1>1, <1>2, AsideKeeps
<1>3. CASE BeginDetect(s)
  <2>1. /\ found'[s] = {} /\ view'[s].rows = present /\ todo'[s] = Withdrawals(present)
    BY <1>3, DetectLoads DEF BeginDetect, TypeInv, TypeOK
  <2> QED BY <2>1 DEF Good, Loop, Complete, Disjoint, NearestTaken
<1>4. CASE PairNext(s)
  <2>1. PICK out \in todo[s] :
           /\ todo'[s] = todo[s] \ {out} /\ UNCHANGED <<pc, view>> /\ pc[s] = "pair"
           /\ \/ Candidates(s, out) = {} /\ found'[s] = found[s]
              \/ \E in \in Nearest(out, Candidates(s, out)) :
                   found'[s] = found[s] \cup {PairLink(out, in)}
    BY <1>4, PairNextFacts
  <2>2. CASE Candidates(s, out) = {} /\ found'[s] = found[s]
    BY <1>1, <2>1, <2>2, TurnPasses
  <2>3. CASE \E in \in Nearest(out, Candidates(s, out)) :
               found'[s] = found[s] \cup {PairLink(out, in)}
    BY <1>1, <2>1, <2>3, TurnPairs
  <2> QED BY <2>1, <2>2, <2>3
<1> QED BY <1>2, <1>3, <1>4, OnlyTheLoop

\* At first no session is in the loop.
LEMMA InitDetectionInv == Init => DetectionInv
BY DEF Init, DetectionInv, Good, Loop, Complete, Disjoint, NearestTaken

------------------------------------------------------------------------------
(* What is filed.                                                           *)

\* Two rows flagged as own transfers are rows.
LEMMA OwnPairs ==
  ASSUME NEW out \in Tx, NEW in \in Tx, NEW mine \in SUBSET Tx, Pairs(out, in, mine)
  PROVE  Pairs(out, in, Tx)
BY DEF Pairs, IsCrossAccount

\* What a link on file has to be, by its kind.
SaysTrue(l) ==
  CASE l.kind = "fee"      -> IsFeeOf(l.secondary, l.primary)
    [] l.kind = "reversal" -> /\ Opposite(l.primary, l.secondary)
                              /\ IsReversal(l.primary, l.secondary)
    [] OTHER               -> /\ Opposite(l.primary, l.secondary)
                              /\ IsCrossAccount(l.primary, l.secondary, Tx)

\* A pair the loop may file is what its kind says.
LEMMA PairSaysTrue ==
  ASSUME NEW out \in Tx, NEW in \in Tx, NEW mine \in SUBSET Tx, Pairs(out, in, mine)
  PROVE  SaysTrue(PairLink(out, in))
<1>1. Opposite(out, in) /\ (IsReversal(out, in) \/ IsCrossAccount(out, in, Tx))
  BY OwnPairs DEF Pairs
<1>2. PairLink(out, in).primary = out /\ PairLink(out, in).secondary = in
  BY DEF PairLink
<1>3. CASE AccountOf[out] = AccountOf[in]
  <2>1. PairLink(out, in).kind = "reversal"
    BY <1>3 DEF PairLink
  <2>2. IsReversal(out, in)
    BY <1>1, <1>3 DEF IsCrossAccount
  <2> QED BY <1>1, <1>2, <2>1, <2>2 DEF SaysTrue
<1>4. CASE AccountOf[out] # AccountOf[in]
  <2>1. PairLink(out, in).kind = "cross_account"
    BY <1>4 DEF PairLink
  <2>2. IsCrossAccount(out, in, Tx)
    BY <1>1, <1>4 DEF IsReversal
  <2> QED BY <1>1, <1>2, <2>1, <2>2 DEF SaysTrue
<1> QED BY <1>3, <1>4

\* So is a fee link.
LEMMA FeeSaysTrue ==
  ASSUME NEW fee, NEW parent, IsFeeOf(fee, parent)
  PROVE  SaysTrue(FeeLink(fee, parent))
BY DEF FeeLink, SaysTrue

\* Only a commit of detect_links adds links, and it adds justified ones.
LEMMA NextLinksAreWhatTheySay ==
  TypeInv /\ DetectionInv /\ LinksAreWhatTheySay /\ [Next]_vars => LinksAreWhatTheySay'
<1> SUFFICES ASSUME TypeInv, DetectionInv, \A l \in links : SaysTrue(l), [Next]_vars,
                    NEW l \in links'
             PROVE  SaysTrue(l)
  BY DEF LinksAreWhatTheySay, SaysTrue
<1>1. CASE UNCHANGED links
  BY <1>1
<1>2. ASSUME NEW s \in Session, CommitLinks(s) PROVE SaysTrue(l)
  <2>1. PICK parent \in [FeeRows(view[s].rows) -> view[s].rows] :
          /\ \A f \in DOMAIN parent : parent[f] \in FirstParents(f, view[s].rows)
          /\ LET fees == {FeeLink(f, parent[f]) : f \in DOMAIN parent}
                 new  == found[s] \cup (fees \ view[s].links)
             IN  links' = links \cup new \/ links' = links
    BY <1>2 DEF CommitLinks
  <2>2. CASE l \in links
    BY <2>2
  <2>3. CASE l \in found[s]
    <3>1. /\ l = PairLink(l.primary, l.secondary)
          /\ Pairs(l.primary, l.secondary, view[s].own)
      BY <2>3 DEF DetectionInv, Good, Loop
    <3>2. l.primary \in Tx /\ l.secondary \in Tx /\ view[s].own \in SUBSET Tx
      BY <2>3 DEF TypeInv, TypeOK, Link, View
    <3>3. SaysTrue(PairLink(l.primary, l.secondary))
      BY <3>1, <3>2, PairSaysTrue
    <3> QED BY <3>1, <3>3
  <2>4. ASSUME NEW f \in DOMAIN parent, l = FeeLink(f, parent[f]) PROVE SaysTrue(l)
    BY <2>1, <2>4, FeeSaysTrue DEF FirstParents
  <2> QED BY <2>1, <2>2, <2>3, <2>4
<1>3. ASSUME NEW s \in Session,
             \/ ImportStatement(s) \/ DetectAgain(s) \/ ConfirmLink(s) \/ RejectLink(s)
             \/ ChangeAlias(s) \/ Recategorize(s) \/ PatchTransaction(s)
             \/ BeginDetect(s) \/ PairNext(s) \/ BeginApply(s) \/ WriteFlags(s)
             \/ BeginRecategorize(s) \/ WriteCategories(s) \/ Fail(s)
      PROVE  UNCHANGED links
  BY <1>3 DEF ImportStatement, DetectAgain, ConfirmLink, RejectLink, ChangeAlias,
              Recategorize, PatchTransaction, BeginDetect, PairNext, BeginApply,
              WriteFlags, BeginRecategorize, WriteCategories, Fail, db
<1>4. CASE UNCHANGED vars
  BY <1>1, <1>4 DEF vars, db
<1> QED BY <1>1, <1>2, <1>3, <1>4 DEF Next

\* There are no links at first.
LEMMA InitLinksAreWhatTheySay == Init => LinksAreWhatTheySay
BY DEF Init, LinksAreWhatTheySay

------------------------------------------------------------------------------
\* The inductive invariant of detection holds in every reachable state.
LEMMA Detections == Spec => [](TypeInv /\ DetectionInv)
<1> QED BY InitTypeInv, NextTypeInv, InitDetectionInv, NextDetectionInv, PTL DEF Spec

\* Nothing is counted twice: in one run a transaction is in at most one pair,
\* so no deposit cancels two withdrawals and no withdrawal is its own transfer.
THEOREM PairsAreDisjoint == Spec => []RunPairsDisjoint
<1>1. DetectionInv => RunPairsDisjoint
  BY DEF DetectionInv, Good, Disjoint, RunPairsDisjoint
<1> QED BY <1>1, Detections, PTL

\* The greedy loop overlooks nothing: a withdrawal it has passed has no
\* pairable deposit left, unless one of the two is in another pair.
THEOREM PairingIsComplete == Spec => []RunComplete
<1>1. DetectionInv => RunComplete
  BY DEF DetectionInv, Good, Complete, RunComplete
<1> QED BY <1>1, Detections, PTL

\* And what it gives a withdrawal is no farther off in time than what it leaves.
THEOREM PairingIsNearest == Spec => []NearestWins
<1>1. DetectionInv => NearestWins
  BY DEF DetectionInv, Good, NearestTaken, NearestWins
<1> QED BY <1>1, Detections, PTL

\* A link never outlives its justification: amounts, accounts, times and texts
\* of its ends are what its kind requires, whoever filed it and when.
THEOREM LinksAreJustified == Spec => []LinksAreWhatTheySay
<1> QED BY Detections, InitLinksAreWhatTheySay, NextLinksAreWhatTheySay, PTL DEF Spec
=============================================================================
