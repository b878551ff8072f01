---------------------------- MODULE MarketProofs ----------------------------
(***************************************************************************)
(* The price service, proved for any providers, quotas, items, alerts and  *)
(* number of worker threads.  First the quota: the log never falls behind  *)
(* the calls made, and the reserve covers what slips through between the   *)
(* check and the log.  Then the prices, the alerts and the tracked items.  *)
(***************************************************************************)
EXTENDS Market, FiniteSetTheorems, TLAPS

\* Requests that have passed the check of a provider and not yet logged a call,
\* those with a logged call still to be made, and those that carry one over
\* from an earlier window.
Passed(p)  == {s \in Session : pc[s] \in {"guarded", "chosen"} /\ call[s] = p}
Pending(p) == {s \in Session \ carried : pc[s] = "logged" /\ call[s] = p}
Carrying(p) == {s \in carried : call[s] = p}

\* What the quota's variables hold.
QuotaTypes ==
  /\ provider \in Provider
  /\ used \in [Provider -> Nat] /\ made \in [Provider -> Nat] /\ late \in [Provider -> Nat]
  /\ pc \in [Session -> PC] /\ call \in [Session -> Provider]
  /\ carried \subseteq {s \in Session : pc[s] = "logged"}
  /\ steady \in BOOLEAN

\* A request that is past the check is about the provider now active.
Aims == \A s \in Session : pc[s] \in {"guarded", "chosen"} => call[s] = provider

Checked == \A p \in Provider :
  used[p] + Cardinality(Passed(p)) <= Limit[p] - Reserve[p] - 1 + Cardinality(Session)

Counted == \A p \in Provider :
  made[p] + Cardinality(Pending(p)) <= used[p] + late[p]

Carries == \A p \in Provider :
  late[p] + Cardinality(Carrying(p)) <= Cardinality(Session)

QuotaInv ==
  /\ QuotaTypes
  /\ steady => Aims /\ Checked /\ Counted
  /\ Carries

------------------------------------------------------------------------------
\* The sets of sessions that the invariant counts are finite and no larger than
\* the number of sessions.
LEMMA SomeSessions ==
  ASSUME NEW T \in SUBSET Session
  PROVE  /\ IsFiniteSet(T) /\ Cardinality(T) \in Nat /\ Cardinality(Session) \in Nat
         /\ Cardinality(T) <= Cardinality(Session)
BY FS_Subset, FS_CardinalityType, MarketAssumption

\* And a part of such a set is no larger than the whole.
LEMMA FewerSessions ==
  ASSUME NEW T \in SUBSET Session, NEW U \in SUBSET T
  PROVE  Cardinality(U) <= Cardinality(T)
BY FS_Subset, FS_CardinalityType, MarketAssumption

\* At the start nothing is counted.
LEMMA InitQuota == Init => QuotaInv
<1> SUFFICES ASSUME Init PROVE QuotaInv
  OBVIOUS
<1>1. QuotaTypes /\ Aims
  BY MarketAssumption DEF Init, QuotaTypes, Aims, PC
<1>2. ASSUME NEW p \in Provider
      PROVE  Passed(p) = {} /\ Pending(p) = {} /\ Carrying(p) = {}
  BY DEF Init, Passed, Pending, Carrying
<1>3. Cardinality({}) = 0 /\ Cardinality(Session) \in Nat
  BY FS_EmptySet, SomeSessions
<1>4. \A p \in Provider : Limit[p] \in Nat /\ Reserve[p] \in Nat /\ Reserve[p] < Limit[p]
  BY MarketAssumption
<1>5. \A p \in Provider : used[p] = 0 /\ made[p] = 0 /\ late[p] = 0
  BY DEF Init
<1>6. \A p \in Provider : /\ Cardinality(Passed(p)) = 0 /\ Cardinality(Pending(p)) = 0
                          /\ Cardinality(Carrying(p)) = 0
  BY <1>2, <1>3
<1>7. Checked /\ Counted /\ Carries
  BY <1>3, <1>4, <1>5, <1>6 DEF Checked, Counted, Carries
<1> QED
  BY <1>1, <1>7 DEF QuotaInv

\* A step that leaves the counters alone keeps the invariant, if it brings no
\* session past the check, none to a pending call and none over midnight.
LEMMA QuietStep ==
  ASSUME QuotaInv, QuotaTypes',
         used' = used, made' = made, late' = late,
         steady' => steady,
         steady' => Aims',
         \A p \in Provider : Passed(p)' \subseteq Passed(p),
         \A p \in Provider : Pending(p)' \subseteq Pending(p),
         \A p \in Provider : Carrying(p)' \subseteq Carrying(p)
  PROVE  QuotaInv'
<1> USE DEF QuotaInv
<1>1. ASSUME NEW p \in Provider
      PROVE  /\ Passed(p) \subseteq Session /\ Pending(p) \subseteq Session
             /\ Carrying(p) \subseteq Session
  BY DEF QuotaTypes, Passed, Pending, Carrying
<1>2. ASSUME NEW p \in Provider
      PROVE  /\ Cardinality(Passed(p)') <= Cardinality(Passed(p))
             /\ Cardinality(Pending(p)') <= Cardinality(Pending(p))
             /\ Cardinality(Carrying(p)') <= Cardinality(Carrying(p))
  BY <1>1, FewerSessions
<1>3. ASSUME NEW p \in Provider
      PROVE  /\ Cardinality(Passed(p)) \in Nat /\ Cardinality(Passed(p)') \in Nat
             /\ Cardinality(Pending(p)) \in Nat /\ Cardinality(Pending(p)') \in Nat
             /\ Cardinality(Carrying(p)) \in Nat /\ Cardinality(Carrying(p)') \in Nat
  <2>1. /\ Passed(p)' \in SUBSET Session /\ Pending(p)' \in SUBSET Session
        /\ Carrying(p)' \in SUBSET Session
    BY <1>1
  <2> QED
    BY <1>1, <2>1, SomeSessions
<1>4. \A p \in Provider : used[p] \in Nat /\ made[p] \in Nat /\ late[p] \in Nat
                          /\ Limit[p] \in Nat /\ Reserve[p] \in Nat
  BY MarketAssumption DEF QuotaTypes
<1>5. Cardinality(Session) \in Nat
  BY SomeSessions
<1>6. steady' => Checked'
  BY <1>2, <1>3, <1>4, <1>5 DEF Checked
<1>7. steady' => Counted'
  BY <1>2, <1>3, <1>4 DEF Counted
<1>8. Carries'
  BY <1>2, <1>3, <1>4, <1>5 DEF Carries
<1> QED
  BY <1>6, <1>7, <1>8

------------------------------------------------------------------------------
\* The types of the quota's variables survive every step.
LEMMA NextTypes ==
  ASSUME QuotaTypes, [Next]_vars
  PROVE  QuotaTypes'
<1> USE MarketAssumption DEF QuotaTypes, PC, settings, items, store, session, quota, history
<1>1. CASE NewDay
  BY <1>1 DEF NewDay
<1>2. ASSUME NEW s \in Session, SwitchProvider(s) \/ SetKey(s) \/ CreateAlert(s) \/ DeleteAlert(s)
      PROVE  QuotaTypes'
  BY <1>2 DEF SwitchProvider, SetKey, CreateAlert, DeleteAlert, Begins, Goto
<1>3. ASSUME NEW s \in Session, BeginSeed(s) \/ SeedItems(s)
      PROVE  QuotaTypes'
  BY <1>3 DEF BeginSeed, SeedItems, Begins, Goto
<1>4. ASSUME NEW s \in Session, Guard(s) \/ Choose(s) \/ LogCall(s)
      PROVE  QuotaTypes'
  BY <1>4 DEF Guard, Choose, LogCall, Goto
<1>5. ASSUME NEW s \in Session, Call(s)
      PROVE  QuotaTypes'
  BY <1>5 DEF Call, Goto
<1>6. ASSUME NEW s \in Session, Answer(s) \/ StorePrices(s) \/ BeginCheck(s) \/ TellAlerts(s)
      PROVE  QuotaTypes'
  BY <1>6 DEF Answer, StorePrices, BeginCheck, TellAlerts, Goto
<1>7. ASSUME NEW s \in Session, GiveUp(s)
      PROVE  QuotaTypes'
  BY <1>7 DEF GiveUp, Goto
<1>8. CASE UNCHANGED vars
  BY <1>8 DEF vars
<1> QED
  BY <1>1, <1>2, <1>3, <1>4, <1>5, <1>6, <1>7, <1>8 DEF Next

\* Steps that move no session past the check, and none to or from a call.
LEMMA ElsewhereStep ==
  ASSUME QuotaInv, QuotaTypes', NEW s \in Session,
         \/ SetKey(s) \/ CreateAlert(s) \/ DeleteAlert(s) \/ BeginSeed(s) \/ SeedItems(s)
         \/ Answer(s) \/ StorePrices(s) \/ BeginCheck(s) \/ TellAlerts(s) \/ GiveUp(s)
  PROVE  QuotaInv'
<1> USE DEF Begins, Goto, settings, items, store, session, quota, history
<1>1. /\ UNCHANGED <<provider, used, made, late, steady>>
      /\ carried' \in {carried, carried \ {s}}
      /\ \A r \in Session : r # s => pc'[r] = pc[r] /\ call'[r] = call[r]
      /\ \/ pc'[s] = pc[s] /\ call'[s] = call[s] /\ carried' = carried
         \/ pc'[s] \notin {"guarded", "chosen", "logged"} /\ s \notin carried'
  <2> USE DEF QuotaInv, QuotaTypes, PC
  <2>1. CASE SetKey(s) \/ CreateAlert(s) \/ DeleteAlert(s)
    BY <2>1 DEF SetKey, CreateAlert, DeleteAlert
  <2>2. CASE BeginSeed(s) \/ SeedItems(s)
    BY <2>2 DEF BeginSeed, SeedItems
  <2>3. CASE Answer(s) \/ StorePrices(s)
    BY <2>3 DEF Answer, StorePrices
  <2>4. CASE BeginCheck(s) \/ TellAlerts(s)
    BY <2>4 DEF BeginCheck, TellAlerts
  <2>5. CASE GiveUp(s)
    BY <2>5 DEF GiveUp
  <2> QED
    BY <2>1, <2>2, <2>3, <2>4, <2>5
<1>2. ASSUME NEW p \in Provider
      PROVE  /\ Passed(p)' \subseteq Passed(p) /\ Pending(p)' \subseteq Pending(p)
             /\ Carrying(p)' \subseteq Carrying(p)
  BY <1>1 DEF Passed, Pending, Carrying, QuotaInv, QuotaTypes
<1>3. steady' => Aims'
  BY <1>1 DEF Aims, QuotaInv
<1> QED
  BY <1>1, <1>2, <1>3, QuietStep

\* A switch while every thread is idle leaves nothing past the check; one during
\* a request ends the condition of the invariant.
LEMMA SwitchStep ==
  ASSUME QuotaInv, QuotaTypes', NEW s \in Session, SwitchProvider(s)
  PROVE  QuotaInv'
<1> USE DEF SwitchProvider, items, store, session, quota, history
<1>1. /\ UNCHANGED <<used, made, late, carried, pc, call>>
      /\ steady' => steady /\ \A r \in Session : pc[r] = "idle"
  BY DEF QuotaInv, QuotaTypes
<1>2. steady' => Aims'
  BY <1>1 DEF Aims
<1>3. ASSUME NEW p \in Provider
      PROVE  /\ Passed(p)' \subseteq Passed(p) /\ Pending(p)' \subseteq Pending(p)
             /\ Carrying(p)' \subseteq Carrying(p)
  BY <1>1 DEF Passed, Pending, Carrying
<1> QED
  BY <1>1, <1>2, <1>3, QuietStep

\* The numbers of the invariant are numbers.
LEMMA Numbers ==
  ASSUME QuotaTypes, NEW p \in Provider
  PROVE  /\ used[p] \in Nat /\ made[p] \in Nat /\ late[p] \in Nat
         /\ Limit[p] \in Nat /\ Reserve[p] \in Nat /\ Reserve[p] < Limit[p]
         /\ Cardinality(Passed(p)) \in Nat /\ Cardinality(Pending(p)) \in Nat
         /\ Cardinality(Carrying(p)) \in Nat /\ Cardinality(Session) \in Nat
         /\ Cardinality(Passed(p)) <= Cardinality(Session)
         /\ Cardinality(Carrying(p)) <= Cardinality(Session)
         /\ IsFiniteSet(Passed(p)) /\ IsFiniteSet(Pending(p)) /\ IsFiniteSet(Carrying(p))
<1>1. /\ Passed(p) \in SUBSET Session /\ Pending(p) \in SUBSET Session
      /\ Carrying(p) \in SUBSET Session
  BY DEF QuotaTypes, Passed, Pending, Carrying
<1>2. /\ used[p] \in Nat /\ made[p] \in Nat /\ late[p] \in Nat
      /\ Limit[p] \in Nat /\ Reserve[p] \in Nat /\ Reserve[p] < Limit[p]
  BY MarketAssumption DEF QuotaTypes
<1> QED
  BY <1>1, <1>2, SomeSessions

\* The check lets a session pass only below the reserve, and however many have
\* passed already, they are no more than there are sessions.
LEMMA GuardStep ==
  ASSUME QuotaInv, QuotaTypes', NEW s \in Session, Guard(s)
  PROVE  QuotaInv'
<1> USE DEF Guard, Goto, settings, items, store, quota, history
<1>1. /\ UNCHANGED <<provider, used, made, late, carried, steady>>
      /\ pc[s] = "guard" /\ pc' = [pc EXCEPT ![s] = "guarded"]
      /\ call' = [call EXCEPT ![s] = provider]
      /\ Usable(provider) > 0
  OBVIOUS
<1>2. steady' => Aims'
  BY <1>1 DEF Aims, QuotaInv, QuotaTypes
<1>3. ASSUME NEW p \in Provider
      PROVE  Pending(p)' = Pending(p) /\ Carrying(p)' = Carrying(p)
  BY <1>1 DEF Pending, Carrying, QuotaInv, QuotaTypes
<1>4. ASSUME NEW p \in Provider, p # provider
      PROVE  Passed(p)' = Passed(p)
  BY <1>1, <1>4 DEF Passed, QuotaInv, QuotaTypes
<1>5. ASSUME steady', NEW p \in Provider
      PROVE  used'[p] + Cardinality(Passed(p)') <= Limit[p] - Reserve[p] - 1 + Cardinality(Session)
  <2>1. CASE p = provider
    <3>1. Cardinality(Passed(p)') <= Cardinality(Session) /\ Cardinality(Passed(p)') \in Nat
      <4>1. Passed(p)' \in SUBSET Session
        BY DEF Passed
      <4> QED
        BY <4>1, SomeSessions
    <3>2. used[p] <= Limit[p] - Reserve[p] - 1
      BY <1>1, <2>1, Numbers DEF Usable, QuotaInv
    <3> QED
      BY <1>1, <3>1, <3>2, Numbers DEF QuotaInv
  <2>2. CASE p # provider
    BY <1>1, <1>4, <1>5, <2>2 DEF QuotaInv, Checked
  <2> QED
    BY <2>1, <2>2
<1>6. steady' => Checked'
  BY <1>5 DEF Checked
<1>7. (steady' => Counted') /\ Carries'
  BY <1>1, <1>3 DEF QuotaInv, Counted, Carries
<1> QED
  BY <1>2, <1>6, <1>7 DEF QuotaInv

\* Reading the provider again changes nothing, unless it was switched.
LEMMA ChooseStep ==
  ASSUME QuotaInv, QuotaTypes', NEW s \in Session, Choose(s)
  PROVE  QuotaInv'
<1> USE DEF Choose, Goto, settings, items, store, quota, history
<1>1. /\ UNCHANGED <<provider, used, made, late, carried, steady>>
      /\ pc[s] = "guarded" /\ pc' = [pc EXCEPT ![s] = "chosen"]
      /\ call' = [call EXCEPT ![s] = provider]
  OBVIOUS
<1>2. ASSUME NEW p \in Provider
      PROVE  Pending(p)' = Pending(p) /\ Carrying(p)' = Carrying(p)
  BY <1>1 DEF Pending, Carrying, QuotaInv, QuotaTypes
<1>3. CASE ~steady
  BY <1>1, <1>2, <1>3 DEF QuotaInv, Carries
<1>4. CASE steady
  <2>1. call' = call
    BY <1>1, <1>4 DEF QuotaInv, QuotaTypes, Aims
  <2>2. ASSUME NEW p \in Provider PROVE Passed(p)' \subseteq Passed(p)
    BY <1>1, <2>1 DEF Passed, QuotaInv, QuotaTypes
  <2>3. Aims'
    BY <1>1, <1>4, <2>1 DEF Aims, QuotaInv, QuotaTypes
  <2> QED
    BY <1>1, <1>2, <2>2, <2>3, QuietStep
<1> QED
  BY <1>3, <1>4 DEF QuotaInv, QuotaTypes

\* The log takes over from the check: one session less is past it, one call more
\* is counted, and one more is to be made.
LEMMA LogStep ==
  ASSUME QuotaInv, QuotaTypes', NEW s \in Session, LogCall(s)
  PROVE  QuotaInv'
<1> USE DEF LogCall, Goto, settings, items, store, history
<1>1. /\ UNCHANGED <<provider, call, made, late, carried, steady>>
      /\ pc[s] = "chosen" /\ pc' = [pc EXCEPT ![s] = "logged"]
      /\ used' = [used EXCEPT ![provider] = @ + 1]
      /\ s \notin carried
  BY DEF QuotaInv, QuotaTypes
<1>2. Carries'
  BY <1>1 DEF QuotaInv, Carries, Carrying
<1>3. CASE ~steady
  BY <1>1, <1>2, <1>3 DEF QuotaInv
<1>4. CASE steady
  <2> PICK q \in Provider : q = provider
    BY DEF QuotaInv, QuotaTypes
  <2>1. call[s] = q /\ Aims'
    BY <1>1, <1>4 DEF Aims, QuotaInv, QuotaTypes
  <2>2. ASSUME NEW p \in Provider, p # q
        PROVE  /\ Passed(p)' = Passed(p) /\ Pending(p)' = Pending(p) /\ used'[p] = used[p]
    BY <1>1, <2>1, <2>2 DEF Passed, Pending, QuotaInv, QuotaTypes
  <2>3. /\ Passed(q)' = Passed(q) \ {s} /\ s \in Passed(q)
        /\ Pending(q)' = Pending(q) \cup {s} /\ s \notin Pending(q)
        /\ used'[q] = used[q] + 1
    BY <1>1, <2>1 DEF Passed, Pending, QuotaInv, QuotaTypes
  <2>4. /\ Cardinality(Passed(q)') = Cardinality(Passed(q)) - 1
        /\ Cardinality(Pending(q)') = Cardinality(Pending(q)) + 1
    <3>1. IsFiniteSet(Passed(q)) /\ IsFiniteSet(Pending(q))
      BY Numbers DEF QuotaInv, QuotaTypes
    <3>2. Cardinality(Passed(q) \ {s}) = Cardinality(Passed(q)) - 1
      BY <2>3, <3>1, FS_RemoveElement
    <3>3. Cardinality(Pending(q) \cup {s}) = Cardinality(Pending(q)) + 1
      BY <2>3, <3>1, FS_AddElement
    <3> QED
      BY <2>3, <3>2, <3>3
  <2>5. /\ used'[q] + Cardinality(Passed(q)') <= Limit[q] - Reserve[q] - 1 + Cardinality(Session)
        /\ made[q] + Cardinality(Pending(q)') <= used'[q] + late[q]
    <3>1. /\ used[q] + Cardinality(Passed(q)) <= Limit[q] - Reserve[q] - 1 + Cardinality(Session)
          /\ made[q] + Cardinality(Pending(q)) <= used[q] + late[q]
      BY <1>4 DEF QuotaInv, Checked, Counted
    <3>2. /\ used[q] \in Nat /\ made[q] \in Nat /\ late[q] \in Nat
          /\ Cardinality(Passed(q)) \in Nat /\ Cardinality(Pending(q)) \in Nat
          /\ Limit[q] \in Nat /\ Reserve[q] \in Nat /\ Cardinality(Session) \in Nat
      BY Numbers DEF QuotaInv
    <3>3. used'[q] = used[q] + 1
      BY <2>3
    <3> HIDE DEF LogCall, Goto, settings, items, store, history
    <3> QED
      BY <2>4, <3>1, <3>2, <3>3
  <2>6. Checked' /\ Counted'
    <3>1. ASSUME NEW p \in Provider
          PROVE  /\ used'[p] + Cardinality(Passed(p)')
                       <= Limit[p] - Reserve[p] - 1 + Cardinality(Session)
                 /\ made[p] + Cardinality(Pending(p)') <= used'[p] + late[p]
      <4>1. CASE p = q
        BY <2>5, <4>1 DEF Passed, Pending
      <4>2. CASE p # q
        BY <1>4, <2>2, <4>2 DEF QuotaInv, Checked, Counted
      <4> QED
        BY <4>1, <4>2
    <3> QED
      BY <1>1, <3>1 DEF Checked, Counted
  <2> QED
    BY <1>2, <2>1, <2>6 DEF QuotaInv
<1> QED
  BY <1>3, <1>4 DEF QuotaInv, QuotaTypes

\* A call made was either to be made in this window, or it is one that was
\* carried into it and now counts as late.
LEMMA CallStep ==
  ASSUME QuotaInv, QuotaTypes', NEW s \in Session, Call(s)
  PROVE  QuotaInv'
<1> DEFINE q == call[s]
<1>1. /\ UNCHANGED <<provider, call, used, steady>>
      /\ pc[s] = "logged" /\ pc' = [pc EXCEPT ![s] = "calling"]
      /\ made' = [made EXCEPT ![q] = @ + 1]
      /\ late' = [late EXCEPT ![q] = @ + (IF s \in carried THEN 1 ELSE 0)]
      /\ carried' = carried \ {s}
      /\ q \in Provider
  BY DEF Call, Goto, settings, items, store, history, QuotaInv, QuotaTypes
<1>2. ASSUME NEW p \in Provider
      PROVE  Passed(p)' = Passed(p)
  BY <1>1 DEF Passed, QuotaInv, QuotaTypes
<1>3. ASSUME NEW p \in Provider, p # q
      PROVE  /\ Pending(p)' = Pending(p) /\ Carrying(p)' = Carrying(p)
             /\ made'[p] = made[p] /\ late'[p] = late[p]
  BY <1>1, <1>3 DEF Pending, Carrying, QuotaInv, QuotaTypes
<1>4. ASSUME NEW p \in Provider, p = q
      PROVE  /\ late'[p] + Cardinality(Carrying(p)') <= Cardinality(Session)
             /\ steady => made'[p] + Cardinality(Pending(p)') <= used[p] + late'[p]
  <2>1. /\ used[p] \in Nat /\ made[p] \in Nat /\ late[p] \in Nat
        /\ Cardinality(Pending(p)) \in Nat /\ Cardinality(Carrying(p)) \in Nat
        /\ IsFiniteSet(Pending(p)) /\ IsFiniteSet(Carrying(p)) /\ Cardinality(Session) \in Nat
    BY Numbers DEF QuotaInv
  <2>2. /\ late[p] + Cardinality(Carrying(p)) <= Cardinality(Session)
        /\ steady => made[p] + Cardinality(Pending(p)) <= used[p] + late[p]
    BY DEF QuotaInv, Counted, Carries
  <2>3. made'[p] = made[p] + 1
    BY <1>1, <1>4 DEF QuotaInv, QuotaTypes
  <2>4. CASE s \in carried
    <3>1. late'[p] = late[p] + 1
      BY <1>1, <1>4, <2>4 DEF QuotaInv, QuotaTypes
    <3>2. /\ Carrying(p)' = Carrying(p) \ {s} /\ s \in Carrying(p)
          /\ Pending(p)' = Pending(p)
      BY <1>1, <1>4, <2>4 DEF Pending, Carrying, QuotaInv, QuotaTypes
    <3>3. Cardinality(Carrying(p) \ {s}) = Cardinality(Carrying(p)) - 1
      BY <2>1, <3>2, FS_RemoveElement
    <3> HIDE DEF q
    <3> QED
      BY <2>1, <2>2, <2>3, <3>1, <3>2, <3>3
  <2>5. CASE s \notin carried
    <3>1. late'[p] = late[p]
      BY <1>1, <1>4, <2>1, <2>5 DEF QuotaInv, QuotaTypes
    <3>2. /\ Pending(p)' = Pending(p) \ {s} /\ s \in Pending(p)
          /\ Carrying(p)' = Carrying(p)
      BY <1>1, <1>4, <2>5 DEF Pending, Carrying, QuotaInv, QuotaTypes
    <3>3. Cardinality(Pending(p) \ {s}) = Cardinality(Pending(p)) - 1
      BY <2>1, <3>2, FS_RemoveElement
    <3> HIDE DEF q
    <3> QED
      BY <2>1, <2>2, <2>3, <3>1, <3>2, <3>3
  <2> QED
    BY <2>4, <2>5
<1>5. steady' => Aims'
  BY <1>1 DEF Aims, QuotaInv, QuotaTypes
<1>6. steady' => Checked'
  BY <1>1, <1>2 DEF Checked, QuotaInv
<1>7. (steady' => Counted') /\ Carries'
  BY <1>1, <1>3, <1>4 DEF QuotaInv, Counted, Carries
<1> QED
  BY <1>5, <1>6, <1>7 DEF QuotaInv

\* A new window starts with nothing logged and nothing called; the pending calls
\* of its providers are carried into it.
LEMMA NewDayStep ==
  ASSUME QuotaInv, QuotaTypes', NewDay
  PROVE  QuotaInv'
<1>1. PICK over \in {Daily, Provider} :
        /\ used' = [p \in Provider |-> IF p \in over THEN 0 ELSE used[p]]
        /\ made' = [p \in Provider |-> IF p \in over THEN 0 ELSE made[p]]
        /\ late' = [p \in Provider |-> IF p \in over THEN 0 ELSE late[p]]
        /\ carried' = carried \cup {s \in Session : pc[s] = "logged" /\ call[s] \in over}
  BY DEF NewDay
<1>2. UNCHANGED <<provider, pc, call, steady>>
  BY DEF NewDay, settings, session, history
<1>3. steady' => Aims'
  BY <1>2 DEF Aims, QuotaInv
<1>4. ASSUME NEW p \in Provider
      PROVE  Passed(p)' = Passed(p)
  BY <1>2 DEF Passed
<1>5. ASSUME NEW p \in Provider, p \in over
      PROVE  /\ used'[p] = 0 /\ made'[p] = 0 /\ late'[p] = 0
             /\ Cardinality(Pending(p)') = 0
             /\ Cardinality(Carrying(p)') <= Cardinality(Session)
             /\ Cardinality(Carrying(p)') \in Nat
  <2>1. used'[p] = 0 /\ made'[p] = 0 /\ late'[p] = 0
    BY <1>1, <1>5
  <2>2. Pending(p)' = {}
    BY <1>1, <1>2, <1>5 DEF Pending
  <2>3. Carrying(p)' \in SUBSET Session
    BY <1>1, <1>2 DEF Carrying, QuotaInv, QuotaTypes
  <2> QED
    BY <2>1, <2>2, <2>3, FS_EmptySet, SomeSessions
<1>6. ASSUME NEW p \in Provider, p \notin over
      PROVE  /\ used'[p] = used[p] /\ made'[p] = made[p] /\ late'[p] = late[p]
             /\ Pending(p)' = Pending(p) /\ Carrying(p)' = Carrying(p)
  <2>1. used'[p] = used[p] /\ made'[p] = made[p] /\ late'[p] = late[p]
    BY <1>1, <1>6
  <2>2. Pending(p)' = Pending(p) /\ Carrying(p)' = Carrying(p)
    BY <1>1, <1>2, <1>6 DEF Pending, Carrying, QuotaInv, QuotaTypes
  <2> QED
    BY <2>1, <2>2
<1>7. ASSUME steady, NEW p \in Provider
      PROVE  /\ used'[p] + Cardinality(Passed(p)')
                   <= Limit[p] - Reserve[p] - 1 + Cardinality(Session)
             /\ made'[p] + Cardinality(Pending(p)') <= used'[p] + late'[p]
  <2>1. CASE p \in over
    <3>1. /\ Limit[p] \in Nat /\ Reserve[p] \in Nat /\ Reserve[p] < Limit[p]
          /\ Cardinality(Passed(p)) \in Nat /\ Cardinality(Session) \in Nat
          /\ Cardinality(Passed(p)) <= Cardinality(Session)
      BY Numbers DEF QuotaInv
    <3> QED
      BY <1>4, <1>5, <2>1, <3>1
  <2>2. CASE p \notin over
    BY <1>4, <1>6, <1>7, <2>2 DEF QuotaInv, Checked, Counted
  <2> QED
    BY <2>1, <2>2
<1>8. steady' => Checked' /\ Counted'
  BY <1>2, <1>7 DEF Checked, Counted
<1>9. ASSUME NEW p \in Provider
      PROVE  late'[p] + Cardinality(Carrying(p)') <= Cardinality(Session)
  <2>1. CASE p \in over
    BY <1>5, <2>1
  <2>2. CASE p \notin over
    BY <1>6, <2>2 DEF QuotaInv, Carries
  <2> QED
    BY <2>1, <2>2
<1>10. Carries'
  BY <1>9 DEF Carries
<1> QED
  BY <1>3, <1>8, <1>10 DEF QuotaInv

\* Every step keeps the invariant.
LEMMA NextQuota ==
  ASSUME QuotaInv, [Next]_vars
  PROVE  QuotaInv'
<1>1. QuotaTypes'
  BY NextTypes DEF QuotaInv
<1>2. CASE NewDay
  BY <1>1, <1>2, NewDayStep
<1>3. ASSUME NEW s \in Session, SwitchProvider(s)
      PROVE  QuotaInv'
  BY <1>1, <1>3, SwitchStep
<1>4. ASSUME NEW s \in Session, Guard(s) \/ Choose(s) \/ LogCall(s) \/ Call(s)
      PROVE  QuotaInv'
  BY <1>1, <1>4, GuardStep, ChooseStep, LogStep, CallStep
<1>5. ASSUME NEW s \in Session,
             \/ SetKey(s) \/ CreateAlert(s) \/ DeleteAlert(s) \/ BeginSeed(s) \/ SeedItems(s)
             \/ Answer(s) \/ StorePrices(s) \/ BeginCheck(s) \/ TellAlerts(s) \/ GiveUp(s)
      PROVE  QuotaInv'
  BY <1>1, <1>5, ElsewhereStep
<1>6. CASE UNCHANGED vars
  BY <1>6 DEF vars, settings, session, quota, history, QuotaInv, QuotaTypes, Aims, Checked,
              Counted, Carries, Passed, Pending, Carrying
<1> QED
  BY <1>2, <1>3, <1>4, <1>5, <1>6 DEF Next

\* The invariant holds in every state of every behaviour.
LEMMA QuotaInvariant == Spec => []QuotaInv
<1>1. Init => QuotaInv
  BY InitQuota
<1>2. QuotaInv /\ [Next]_vars => QuotaInv'
  BY NextQuota
<1> QED
  BY <1>1, <1>2, PTL DEF Spec

\* CallsCounted: for any providers and threads, the log of the window has all of
\* its calls but those logged before it began.
THEOREM CallsAreCounted == Spec => []CallsCounted
<1>1. QuotaInv => CallsCounted
  <2> SUFFICES ASSUME QuotaInv, steady, NEW p \in Provider
               PROVE  made[p] <= used[p] + late[p]
    BY DEF CallsCounted
  <2> QED
    BY Numbers DEF QuotaInv, Counted
<1> QED
  BY <1>1, QuotaInvariant, PTL

\* QuotaKept: whatever overlaps, the calls of a window pass the usable part of the
\* quota by fewer than there are threads, and one a thread comes from the window
\* before.
THEOREM QuotaIsKept == Spec => []QuotaKept
<1>1. QuotaInv => QuotaKept
  <2> SUFFICES ASSUME QuotaInv, steady, NEW p \in Provider
               PROVE  /\ made[p] - late[p] < Limit[p] - Reserve[p] + Cardinality(Session)
                      /\ late[p] <= Cardinality(Session)
    BY DEF QuotaKept
  <2>1. /\ used[p] + Cardinality(Passed(p)) <= Limit[p] - Reserve[p] - 1 + Cardinality(Session)
        /\ made[p] + Cardinality(Pending(p)) <= used[p] + late[p]
        /\ late[p] + Cardinality(Carrying(p)) <= Cardinality(Session)
    BY DEF QuotaInv, Checked, Counted, Carries
  <2> QED
    BY <2>1, Numbers DEF QuotaInv
<1> QED
  BY <1>1, QuotaInvariant, PTL

\* So a service gets no more calls than its quota, whatever overlaps, as long as the
\* reserve is at least twice the number of threads, less one (DEFAULT_RESERVE).
ReserveSuffices ==
  steady => \A p \in Provider :
    2 * Cardinality(Session) <= Reserve[p] + 1 => made[p] <= Limit[p]

\* ReserveSuffices, for any quotas and number of threads.
THEOREM QuotaIsNeverPassed == Spec => []ReserveSuffices
<1>1. QuotaInv /\ QuotaKept => ReserveSuffices
  <2> SUFFICES ASSUME QuotaInv, QuotaKept, steady, NEW p \in Provider,
                      2 * Cardinality(Session) <= Reserve[p] + 1
               PROVE  made[p] <= Limit[p]
    BY DEF ReserveSuffices
  <2>1. /\ made[p] - late[p] < Limit[p] - Reserve[p] + Cardinality(Session)
        /\ late[p] <= Cardinality(Session)
    BY DEF QuotaKept
  <2> QED
    BY <2>1, Numbers DEF QuotaInv
<1> QED
  BY <1>1, QuotaInvariant, QuotaIsKept, PTL

------------------------------------------------------------------------------
(* Items, prices and alerts.                                                *)

\* The alerts that the latest prices hit, and the prices that are news to them.
Hits == {a \in DOMAIN alerts : LatestOf(point, AlertItem[a]) \in AlertHit[a]}

News == [a \in {b \in Hits : LatestOf(point, AlertItem[b]) # alerts[b]} |->
           LatestOf(point, AlertItem[a])]

\* What a session holds fits the tables: what it has seen of them only grew, and
\* what it means to write has the right values.
HeldFits(s) ==
  /\ pc[s] = "seed" => data[s].known \subseteq known /\ data[s].wanted \subseteq Item
  /\ pc[s] = "store" =>
       /\ DOMAIN data[s].seen \subseteq DOMAIN point
       /\ \A k \in DOMAIN data[s].got : k[2] \in 0..today /\ data[s].got[k] \in Price
  /\ pc[s] = "told" =>
       /\ DOMAIN data[s].news \subseteq data[s].hit
       /\ \A a \in DOMAIN data[s].news : data[s].news[a] \in AlertHit[a]
       /\ fresh[s] => data[s].hit = Hits /\ data[s].news = News

MarketInv ==
  /\ TypeOK
  /\ DOMAIN data = Session
  /\ \A s \in Session : HeldFits(s)

\* While the provider has never been switched during a request: a request is about
\* the active provider, past the seeding its items are the tracked ones, and a
\* seeding that has loaded other flags will find them changed to that.
OnItsOwn(s) ==
  /\ pc[s] \in {"guarded", "chosen", "logged"} => call[s] = provider
  /\ pc[s] \in {"guard", "guarded", "chosen", "logged"} => tracked = ItemsOf[provider]
  /\ pc[s] = "seed" => /\ data[s].wanted = ItemsOf[provider]
                       /\ data[s].tracked = tracked \/ tracked = ItemsOf[provider]

TrackingInv == steady => \A s \in Session : OnItsOwn(s)

------------------------------------------------------------------------------
\* What a session holds goes on fitting while it waits, if the tables only grow
\* and its alert check is no fresher than before.
LEMMA WaitingFits ==
  ASSUME MarketInv, NEW r \in Session,
         pc'[r] = pc[r], data'[r] = data[r],
         known \subseteq known', DOMAIN point \subseteq DOMAIN point',
         today' \in Nat, today <= today',
         pc[r] = "told" /\ fresh'[r] => fresh[r] /\ Hits' = Hits /\ News' = News
  PROVE  HeldFits(r)'
<1>1. today \in Nat
  BY MarketAssumption DEF MarketInv, TypeOK
<1>2. pc[r] = "seed" => data[r].known \subseteq known' /\ data[r].wanted \subseteq Item
  BY DEF MarketInv, HeldFits
<1>3. pc[r] = "store" => /\ DOMAIN data[r].seen \subseteq DOMAIN point'
                         /\ \A k \in DOMAIN data[r].got : k[2] \in 0..today' /\ data[r].got[k] \in Price
  <2>1. \A d \in 0..today : d \in 0..today'
    BY <1>1
  <2> QED
    BY <2>1 DEF MarketInv, HeldFits
<1>4. pc[r] = "told" => /\ DOMAIN data[r].news \subseteq data[r].hit
                        /\ \A a \in DOMAIN data[r].news : data[r].news[a] \in AlertHit[a]
                        /\ fresh'[r] => data[r].hit = Hits' /\ data[r].news = News'
  BY DEF MarketInv, HeldFits
<1> QED
  BY <1>2, <1>3, <1>4 DEF HeldFits

\* Nothing is held at these stages.
LEMMA NothingHeld ==
  ASSUME NEW r, pc'[r] \notin {"seed", "store", "told"}
  PROVE  HeldFits(r)'
BY DEF HeldFits

\* The alerts that are hit are a matter of the prices, the alerts and the day.
LEMMA SameHits ==
  ASSUME point' = point, alerts' = alerts, today' = today
  PROVE  Hits' = Hits /\ News' = News
BY DEF Hits, News, LatestOf

\* At the start there is nothing to hold.
LEMMA InitMarket == Init => MarketInv
<1> SUFFICES ASSUME Init PROVE MarketInv
  OBVIOUS
<1>1. TypeOK
  BY MarketAssumption DEF Init, TypeOK, PC
<1>2. \A s \in Session : HeldFits(s)
  BY DEF Init, HeldFits
<1> QED
  BY <1>1, <1>2 DEF Init, MarketInv


\* The types that the quota does not care about.
StoreTypes ==
  /\ keys \subseteq Provider
  /\ tracked \subseteq known /\ known \subseteq Item
  /\ today \in 0..MaxDay
  /\ \A k \in DOMAIN point : k[1] \in known /\ k[2] \in 0..today /\ point[k] \in Price
  /\ \A a \in DOMAIN alerts : AlertItem[a] \in known /\ alerts[a] \in AlertHit[a] \cup {0}
  /\ fresh \in [Session -> BOOLEAN] /\ heard \in BOOLEAN
  /\ requests \in Nat

\* The types are those of the quota and these.
LEMMA TwoTypes == TypeOK <=> QuotaTypes /\ StoreTypes
BY DEF TypeOK, QuotaTypes, StoreTypes

\* The quota's types are those of NextTypes.
LEMMA StoreTypesDo ==
  ASSUME TypeOK, Next, StoreTypes'
  PROVE  TypeOK'
<1>1. QuotaTypes'
  BY TwoTypes, NextTypes
<1> QED
  BY <1>1, TwoTypes DEF TypeOK, QuotaTypes, StoreTypes

\* Steps of settings and of the call itself, which write neither items nor prices
\* nor alerts; what the session holds is then not looked at before it is stored.
Elsewhere(s) ==
  \/ SwitchProvider(s) \/ SetKey(s) \/ Guard(s) \/ Choose(s) \/ LogCall(s) \/ Call(s) \/ GiveUp(s)

\* Such a step leaves the tables alone.
LEMMA ElsewhereTables ==
  ASSUME MarketInv, NEW s \in Session, Elsewhere(s)
  PROVE  /\ known' = known /\ tracked' = tracked /\ point' = point /\ alerts' = alerts
         /\ today' = today /\ fresh' = fresh
<1> USE DEF items, store, history
<1> QED
  BY DEF Elsewhere, SwitchProvider, SetKey, Guard, Choose, LogCall, Call, GiveUp

\* And what other sessions hold.
LEMMA ElsewhereSessions ==
  ASSUME MarketInv, NEW s \in Session, Elsewhere(s)
  PROVE  /\ DOMAIN data' = Session
         /\ \A r \in Session \ {s} : pc'[r] = pc[r] /\ data'[r] = data[r]
         /\ \/ pc'[s] \notin {"seed", "store", "told"}
            \/ pc'[s] = pc[s] /\ data'[s] = data[s]
<1> USE DEF MarketInv, TypeOK, session
<1>1. CASE SwitchProvider(s)
  BY <1>1 DEF SwitchProvider, Begins
<1>2. CASE SetKey(s)
  BY <1>2 DEF SetKey, Begins
<1>3. CASE Guard(s)
  BY <1>3 DEF Guard, Goto
<1>4. CASE Choose(s)
  BY <1>4 DEF Choose, Goto
<1>5. CASE LogCall(s)
  BY <1>5 DEF LogCall, Goto
<1>6. CASE Call(s)
  <2>1. pc' = [pc EXCEPT ![s] = "calling"]
    BY <1>6 DEF Call, Goto
  <2>2. DOMAIN data' = Session /\ \A r \in Session \ {s} : data'[r] = data[r]
    BY <1>6 DEF Call
  <2> QED
    BY <2>1, <2>2
<1>7. CASE GiveUp(s)
  BY <1>7 DEF GiveUp, Goto
<1> QED
  BY <1>1, <1>2, <1>3, <1>4, <1>5, <1>6, <1>7 DEF Elsewhere

\* And so it keeps the invariant.
LEMMA ElsewhereMarket ==
  ASSUME MarketInv, NEW s \in Session, Elsewhere(s)
  PROVE  MarketInv'
<1>1. TypeOK'
  <2>1. Next
    BY DEF Elsewhere, Next
  <2>2. keys' \subseteq Provider /\ heard' \in BOOLEAN /\ requests' \in Nat
    <3> USE DEF MarketInv, TypeOK, settings, history
    <3>1. CASE SwitchProvider(s) \/ SetKey(s)
      BY <3>1 DEF SwitchProvider, SetKey, Begins
    <3>2. CASE Guard(s) \/ Choose(s) \/ LogCall(s) \/ Call(s)
      BY <3>2 DEF Guard, Choose, LogCall, Call
    <3>3. CASE GiveUp(s)
      BY <3>3 DEF GiveUp
    <3> QED
      BY <3>1, <3>2, <3>3 DEF Elsewhere
  <2>3. StoreTypes'
    BY <2>2, ElsewhereTables, TwoTypes DEF MarketInv, StoreTypes
  <2> QED
    BY <2>1, <2>3, StoreTypesDo DEF MarketInv
<1>2. ASSUME NEW r \in Session PROVE HeldFits(r)'
  <2>1. today \in Nat
    BY MarketAssumption DEF MarketInv, TypeOK
  <2>2. CASE pc'[r] = pc[r] /\ data'[r] = data[r]
    BY <2>1, <2>2, ElsewhereTables, SameHits, WaitingFits
  <2>3. CASE pc'[r] \notin {"seed", "store", "told"}
    BY <2>3, NothingHeld
  <2> QED
    BY <2>2, <2>3, ElsewhereSessions
<1> QED
  BY <1>1, <1>2, ElsewhereSessions DEF MarketInv

------------------------------------------------------------------------------
\* The latest price of an item is a matter of the prices and the day.
LEMMA SameLatest ==
  ASSUME point' = point, today' = today
  PROVE  \A i : LatestOf(point, i)' = LatestOf(point, i)
BY DEF LatestOf

\* And a new day alone brings no later price: all are of days gone by.
LEMMA NewDayLatest ==
  ASSUME MarketInv, NewDay
  PROVE  \A i : LatestOf(point, i)' = LatestOf(point, i)
<1>1. /\ UNCHANGED <<point>>
      /\ today \in Nat /\ today' = today + 1
  BY MarketAssumption DEF NewDay, store, MarketInv, TypeOK
<1>2. \A d \in Int : d \in 0..today => d \in 0..today'
  BY <1>1
<1>3. ASSUME NEW i PROVE LatestOf(point, i)' = LatestOf(point, i)
  <2>1. {d \in 0..today' : <<i, d>> \in DOMAIN point} = {d \in 0..today : <<i, d>> \in DOMAIN point}
    <3>1. ASSUME NEW d \in 0..today', <<i, d>> \in DOMAIN point PROVE d \in 0..today
      <4>1. <<i, d>>[2] \in 0..today
        BY <3>1 DEF MarketInv, TypeOK
      <4> QED
        BY <4>1
    <3> QED
      BY <1>2, <3>1
  <2> DEFINE L(days) == IF days = {} THEN 0
                        ELSE point[<<i, CHOOSE d \in days : \A e \in days : e <= d>>]
  <2>2. LatestOf(point, i) = L({d \in 0..today : <<i, d>> \in DOMAIN point})
    BY DEF LatestOf
  <2>3. LatestOf(point, i)' = L({d \in 0..today' : <<i, d>> \in DOMAIN point})
    BY <1>1 DEF LatestOf
  <2> HIDE DEF L
  <2> QED
    BY <2>1, <2>2, <2>3
<1> QED
  BY <1>3

\* So midnight does not concern what sessions hold.
LEMMA NewDayMarket ==
  ASSUME MarketInv, NewDay
  PROVE  MarketInv'
<1>1. /\ UNCHANGED <<provider, keys, known, tracked, point, alerts, pc, call, data>>
      /\ UNCHANGED <<steady, fresh, heard, requests>>
      /\ today \in Nat /\ today' = today + 1 /\ today' \in 0..MaxDay
  BY MarketAssumption DEF NewDay, settings, items, store, session, history, MarketInv, TypeOK
<1>2. \A d \in Int : d \in 0..today => d \in 0..today'
  BY <1>1
<1>3. TypeOK'
  <2>1. \A k \in DOMAIN point' : k[1] \in known' /\ k[2] \in 0..today' /\ point'[k] \in Price
    BY <1>1, <1>2 DEF MarketInv, TypeOK
  <2>2. StoreTypes'
    BY <1>1, <2>1 DEF MarketInv, TypeOK, StoreTypes
  <2> QED
    BY <2>2, StoreTypesDo DEF MarketInv, Next
<1>4. \A i : LatestOf(point, i)' = LatestOf(point, i)
  BY NewDayLatest
<1>5. Hits' = Hits /\ News' = News
  BY <1>1, <1>4 DEF Hits, News
<1>6. ASSUME NEW r \in Session PROVE HeldFits(r)'
  BY <1>1, <1>5, WaitingFits DEF MarketInv
<1> QED
  BY <1>1, <1>3, <1>6 DEF MarketInv

\* The seeding is asked for with what the session has just read.
LEMMA BeginSeedMarket ==
  ASSUME MarketInv, NEW s \in Session, BeginSeed(s)
  PROVE  MarketInv'
<1>1. /\ UNCHANGED <<provider, keys, known, tracked, point, alerts, today, heard, fresh>>
      /\ requests' \in Nat
      /\ pc' = [pc EXCEPT ![s] = "seed"]
  BY DEF BeginSeed, Begins, Goto, settings, items, store, history, MarketInv, TypeOK
<1>2. PICK ask : data' = [data EXCEPT ![s] = [ask |-> ask, wanted |-> ItemsOf[provider],
                                              known |-> known, tracked |-> tracked]]
  BY DEF BeginSeed
<1>3. TypeOK'
  <2>1. StoreTypes'
    BY <1>1 DEF MarketInv, TypeOK, StoreTypes
  <2> QED
    BY <2>1, StoreTypesDo DEF MarketInv, Next
<1>4. ASSUME NEW r \in Session PROVE HeldFits(r)'
  <2>1. CASE r = s
    <3>1. pc'[s] = "seed" /\ data'[s].known = known' /\ data'[s].wanted = ItemsOf[provider]
      BY <1>1, <1>2 DEF MarketInv, TypeOK
    <3>2. ItemsOf[provider] \subseteq Item
      BY MarketAssumption DEF MarketInv, TypeOK
    <3> QED
      BY <2>1, <3>1, <3>2 DEF HeldFits
  <2>2. CASE r # s
    <3>1. pc'[r] = pc[r] /\ data'[r] = data[r] /\ today \in Nat
      BY <1>1, <1>2, <2>2, MarketAssumption DEF MarketInv, TypeOK
    <3> QED
      BY <1>1, <3>1, SameHits, WaitingFits
  <2> QED
    BY <2>1, <2>2
<1> QED
  BY <1>2, <1>3, <1>4 DEF MarketInv

\* The seeding tracks items that are known then.
LEMMA SeedItemsMarket ==
  ASSUME MarketInv, NEW s \in Session, SeedItems(s)
  PROVE  MarketInv'
<1> DEFINE d == data[s]
<1>1. /\ UNCHANGED <<provider, keys, point, alerts, today, heard, fresh, requests>>
      /\ known' = known \cup (d.wanted \ d.known)
      /\ tracked' = (tracked \ (d.tracked \ d.wanted)) \cup (d.wanted \ d.tracked)
  BY DEF SeedItems, settings, store, history
<1>2. d.known \subseteq known /\ d.wanted \subseteq Item
  BY DEF SeedItems, MarketInv, HeldFits
<1>3. pc' = [pc EXCEPT ![s] = IF d.ask.kind = "items" THEN "idle" ELSE "guard"]
  BY DEF SeedItems, Goto
<1>4. DOMAIN data' = Session /\ \A r \in Session \ {s} : data'[r] = data[r]
  BY DEF SeedItems, MarketInv
<1>5. TypeOK'
  <2>1. tracked' \subseteq known' /\ known' \subseteq Item /\ known \subseteq known'
    BY <1>1, <1>2 DEF MarketInv, TypeOK
  <2>2. StoreTypes'
    BY <1>1, <2>1 DEF MarketInv, TypeOK, StoreTypes
  <2> QED
    BY <2>2, StoreTypesDo DEF MarketInv, Next
<1>6. ASSUME NEW r \in Session PROVE HeldFits(r)'
  <2>1. CASE r = s
    <3>1. pc'[s] \notin {"seed", "store", "told"}
      BY <1>3 DEF MarketInv, TypeOK
    <3> QED
      BY <2>1, <3>1, NothingHeld
  <2>2. CASE r # s
    <3>1. pc'[r] = pc[r] /\ data'[r] = data[r] /\ today \in Nat /\ known \subseteq known'
      BY <1>1, <1>3, <1>4, <2>2, MarketAssumption DEF MarketInv, TypeOK
    <3> QED
      BY <1>1, <3>1, SameHits, WaitingFits
  <2> QED
    BY <2>1, <2>2
<1> QED
  BY <1>4, <1>5, <1>6 DEF MarketInv

\* An answer has prices of no later day, and what is seen of the store is there.
LEMMA AnswerMarket ==
  ASSUME MarketInv, NEW s \in Session, Answer(s)
  PROVE  MarketInv'
<1>1. /\ UNCHANGED <<provider, keys, known, tracked, point, alerts, today, heard, fresh, requests>>
      /\ pc' = [pc EXCEPT ![s] = "store"]
  BY DEF Answer, Goto, settings, items, store, history
<1>2. PICK got \in Answers(s) :
        data' = [data EXCEPT ![s] = [ask |-> @.ask, got |-> got, seen |-> point]]
  BY DEF Answer
<1>3. today \in Nat
  BY MarketAssumption DEF MarketInv, TypeOK
<1>4. \A k \in DOMAIN got : k[2] \in 0..today /\ got[k] \in Price
  <2> DEFINE offered == data[s].asked \cap ItemsOf[call[s]]
  <2>1. PICK rows \in SUBSET (offered \X (0..today)) : got \in [rows -> Price]
    BY DEF Answers
  <2> HIDE DEF offered
  <2>2. \A k \in rows : k[2] \in 0..today
    BY <2>1
  <2> QED
    BY <2>1, <2>2
<1>5. TypeOK'
  <2>1. StoreTypes'
    BY <1>1 DEF MarketInv, TypeOK, StoreTypes
  <2> QED
    BY <2>1, StoreTypesDo DEF MarketInv, Next
<1>6. ASSUME NEW r \in Session PROVE HeldFits(r)'
  <2>1. CASE r = s
    <3>1. pc'[s] = "store" /\ data'[s].got = got /\ data'[s].seen = point'
      BY <1>1, <1>2 DEF MarketInv, TypeOK
    <3> QED
      BY <1>1, <1>4, <2>1, <3>1 DEF HeldFits
  <2>2. CASE r # s
    <3>1. pc'[r] = pc[r] /\ data'[r] = data[r] /\ today \in Nat
      BY <1>1, <1>2, <1>3, <2>2 DEF MarketInv, TypeOK
    <3> QED
      BY <1>1, <3>1, SameHits, WaitingFits
  <2> QED
    BY <2>1, <2>2
<1> QED
  BY <1>2, <1>5, <1>6 DEF MarketInv


------------------------------------------------------------------------------
\* A commit of prices or alerts makes every other alert check stale.
LEMMA StaleFits ==
  ASSUME MarketInv, NEW r \in Session, fresh' = [t \in Session |-> FALSE],
         pc'[r] = pc[r], data'[r] = data[r],
         known' = known, today' = today, DOMAIN point \subseteq DOMAIN point'
  PROVE  HeldFits(r)'
<1>1. today \in Nat /\ fresh'[r] = FALSE
  BY MarketAssumption DEF MarketInv, TypeOK
<1> QED
  BY <1>1, WaitingFits

\* Rows are written only of items that are known, or over rows that are there.
LEMMA StorePricesMarket ==
  ASSUME MarketInv, NEW s \in Session, StorePrices(s)
  PROVE  MarketInv'
<1> DEFINE got  == data[s].got
           seen == data[s].seen
           new  == DOMAIN got \ DOMAIN seen
           kept == {k \in DOMAIN got \cap DOMAIN seen : got[k] = seen[k]}
<1>1. /\ UNCHANGED <<provider, keys, known, tracked, alerts, today, requests>>
      /\ heard' \in BOOLEAN
  BY DEF StorePrices, settings, items, MarketInv, TypeOK
<1>2. /\ \A k \in new : k[1] \in known
      /\ point' = Written(point, [k \in DOMAIN got \ kept |-> got[k]])
      /\ fresh' = [r \in Session |-> FALSE]
  BY DEF StorePrices, Stored
<1>3. /\ DOMAIN seen \subseteq DOMAIN point
      /\ \A k \in DOMAIN got : k[2] \in 0..today /\ got[k] \in Price
  BY DEF StorePrices, MarketInv, HeldFits
<1>4. DOMAIN data' = Session /\ \A r \in Session \ {s} : data'[r] = data[r]
  BY DEF StorePrices, MarketInv
<1>5. /\ \A r \in Session \ {s} : pc'[r] = pc[r]
      /\ pc'[s] \notin {"seed", "store", "told"}
  BY DEF StorePrices, Goto, MarketInv, TypeOK
<1>6. DOMAIN point' = DOMAIN point \cup (DOMAIN got \ kept)
  BY <1>2 DEF Written
<1> HIDE DEF got, seen, new, kept
<1>7. ASSUME NEW k \in DOMAIN point'
      PROVE  k[1] \in known' /\ k[2] \in 0..today' /\ point'[k] \in Price
  <2>1. CASE k \in DOMAIN got \ kept
    <3>1. point'[k] = got[k]
      BY <1>2, <1>6, <2>1 DEF Written
    <3>2. k \in new \/ k \in DOMAIN point
      BY <1>3, <2>1 DEF new
    <3> QED
      BY <1>1, <1>2, <1>3, <2>1, <3>1, <3>2 DEF MarketInv, TypeOK
  <2>2. CASE k \notin DOMAIN got \ kept
    <3>1. k \in DOMAIN point /\ point'[k] = point[k]
      BY <1>2, <1>6, <1>7, <2>2 DEF Written
    <3> QED
      BY <1>1, <3>1 DEF MarketInv, TypeOK
  <2> QED
    BY <2>1, <2>2
<1>8. TypeOK'
  <2>1. StoreTypes'
    BY <1>1, <1>2, <1>7 DEF MarketInv, TypeOK, StoreTypes
  <2> QED
    BY <2>1, StoreTypesDo DEF MarketInv, Next
<1>9. ASSUME NEW r \in Session PROVE HeldFits(r)'
  <2>1. CASE r = s
    BY <1>5, <2>1, NothingHeld
  <2>2. CASE r # s
    BY <1>1, <1>2, <1>4, <1>5, <1>6, <2>2, StaleFits
  <2> QED
    BY <2>1, <2>2
<1> QED
  BY <1>4, <1>8, <1>9 DEF MarketInv

\* Alerts come and go.
LEMMA AlertsMarket ==
  ASSUME MarketInv, NEW s \in Session, CreateAlert(s) \/ DeleteAlert(s)
  PROVE  MarketInv'
<1>1. /\ UNCHANGED <<provider, keys, known, tracked, point, today, heard, data>>
      /\ requests' \in Nat
      /\ fresh' = [r \in Session |-> FALSE]
  BY DEF CreateAlert, DeleteAlert, Begins, Stored, settings, items, session, MarketInv, TypeOK
<1>2. /\ \A r \in Session \ {s} : pc'[r] = pc[r]
      /\ pc'[s] \notin {"seed", "store", "told"}
  BY DEF CreateAlert, DeleteAlert, Begins, Goto, session, MarketInv, TypeOK
<1>3. \A a \in DOMAIN alerts' : AlertItem[a] \in known' /\ alerts'[a] \in AlertHit[a] \cup {0}
  <2>1. CASE CreateAlert(s)
    <3>1. PICK a \in Alert \ DOMAIN alerts :
            AlertItem[a] \in known /\ alerts' = Written(alerts, [b \in {a} |-> 0])
      BY <2>1 DEF CreateAlert
    <3>2. /\ DOMAIN alerts' = DOMAIN alerts \cup {a} /\ alerts'[a] = 0
          /\ \A b \in DOMAIN alerts \ {a} : alerts'[b] = alerts[b]
      BY <3>1 DEF Written
    <3> QED
      BY <1>1, <3>1, <3>2 DEF MarketInv, TypeOK
  <2>2. CASE DeleteAlert(s)
    BY <1>1, <2>2 DEF DeleteAlert, MarketInv, TypeOK
  <2> QED
    BY <2>1, <2>2
<1>4. TypeOK'
  <2>1. StoreTypes'
    BY <1>1, <1>3 DEF MarketInv, TypeOK, StoreTypes
  <2> QED
    BY <2>1, StoreTypesDo DEF MarketInv, Next
<1>5. ASSUME NEW r \in Session PROVE HeldFits(r)'
  <2>1. CASE r = s
    BY <1>2, <2>1, NothingHeld
  <2>2. CASE r # s
    BY <1>1, <1>2, <2>2, StaleFits
  <2> QED
    BY <2>1, <2>2
<1> QED
  BY <1>1, <1>4, <1>5 DEF MarketInv

\* A check holds the hits of the moment at which it loads.
LEMMA BeginCheckMarket ==
  ASSUME MarketInv, NEW s \in Session, BeginCheck(s)
  PROVE  MarketInv'
<1>1. /\ UNCHANGED <<provider, keys, known, tracked, point, alerts, today, heard, requests>>
      /\ fresh' = [fresh EXCEPT ![s] = TRUE]
      /\ pc' = [pc EXCEPT ![s] = "told"]
  BY DEF BeginCheck, Goto, settings, items, store
<1>2. data' = [data EXCEPT ![s] = [hit |-> Hits, news |-> News]]
  BY DEF BeginCheck, Hits, News
<1>3. /\ Hits' = Hits /\ News' = News
      /\ DOMAIN News \subseteq Hits /\ \A a \in DOMAIN News : News[a] \in AlertHit[a]
  BY <1>1, SameHits DEF Hits, News
<1>4. TypeOK'
  <2>1. StoreTypes'
    BY <1>1 DEF MarketInv, TypeOK, StoreTypes
  <2> QED
    BY <2>1, StoreTypesDo DEF MarketInv, Next
<1>5. ASSUME NEW r \in Session PROVE HeldFits(r)'
  <2>1. CASE r = s
    <3>1. pc'[s] = "told" /\ data'[s].hit = Hits /\ data'[s].news = News
      BY <1>1, <1>2 DEF MarketInv, TypeOK
    <3> QED
      BY <1>3, <2>1, <3>1 DEF HeldFits
  <2>2. CASE r # s
    <3>1. /\ pc'[r] = pc[r] /\ data'[r] = data[r] /\ fresh'[r] = fresh[r] /\ today \in Nat
      BY <1>1, <1>2, <2>2, MarketAssumption DEF MarketInv, TypeOK
    <3>2. pc[r] = "told" /\ fresh'[r] => fresh[r] /\ Hits' = Hits /\ News' = News
      BY <1>3, <3>1
    <3>3. /\ known \subseteq known' /\ DOMAIN point \subseteq DOMAIN point'
          /\ today' \in Nat /\ today <= today'
      BY <1>1, <3>1
    <3> QED
      BY <3>1, <3>2, <3>3, WaitingFits
  <2> QED
    BY <2>1, <2>2
<1> QED
  BY <1>2, <1>4, <1>5 DEF MarketInv

\* What it tells is of alerts that are there.
LEMMA TellAlertsMarket ==
  ASSUME MarketInv, NEW s \in Session, TellAlerts(s)
  PROVE  MarketInv'
<1> DEFINE news == data[s].news
<1>1. /\ UNCHANGED <<provider, keys, known, tracked, point, today, requests>>
      /\ heard' \in BOOLEAN /\ fresh' = [r \in Session |-> FALSE]
      /\ pc' = [pc EXCEPT ![s] = "idle"] /\ data' = [data EXCEPT ![s] = None]
  BY DEF TellAlerts, Goto, Stored, settings, items, MarketInv, TypeOK
<1>2. alerts' = Written(alerts, news)
  BY DEF TellAlerts
<1>3. DOMAIN news \subseteq DOMAIN alerts /\ \A a \in DOMAIN news : news[a] \in AlertHit[a]
  BY DEF TellAlerts, MarketInv, HeldFits
<1> HIDE DEF news
<1>4. ASSUME NEW a \in DOMAIN alerts'
      PROVE  AlertItem[a] \in known' /\ alerts'[a] \in AlertHit[a] \cup {0}
  BY <1>1, <1>2, <1>3 DEF Written, MarketInv, TypeOK
<1>5. TypeOK'
  <2>1. StoreTypes'
    BY <1>1, <1>4 DEF MarketInv, TypeOK, StoreTypes
  <2> QED
    BY <2>1, StoreTypesDo DEF MarketInv, Next
<1>6. ASSUME NEW r \in Session PROVE HeldFits(r)'
  <2>1. CASE r = s
    <3>1. pc'[s] = "idle"
      BY <1>1 DEF MarketInv, TypeOK
    <3> QED
      BY <2>1, <3>1, NothingHeld
  <2>2. CASE r # s
    <3>1. pc'[r] = pc[r] /\ data'[r] = data[r]
      BY <1>1, <2>2 DEF MarketInv, TypeOK
    <3> QED
      BY <1>1, <3>1, StaleFits
  <2> QED
    BY <2>1, <2>2
<1> QED
  BY <1>1, <1>5, <1>6 DEF MarketInv

\* Every step keeps the invariant.
LEMMA NextMarket == MarketInv /\ [Next]_vars => MarketInv'
<1> SUFFICES ASSUME MarketInv, [Next]_vars PROVE MarketInv'
  OBVIOUS
<1>1. CASE UNCHANGED vars
  <2>1. UNCHANGED <<provider, keys, known, tracked, used, today, point, alerts, pc, call, data>>
        /\ UNCHANGED <<made, carried, late, steady, fresh, heard, requests>>
    BY <1>1 DEF vars, settings, items, store, session, quota, history
  <2>2. TypeOK'
    BY <2>1 DEF MarketInv, TypeOK
  <2>3. Hits' = Hits /\ News' = News /\ today \in Nat
    BY <2>1, SameHits, MarketAssumption DEF MarketInv, TypeOK
  <2>4. \A r \in Session : HeldFits(r)'
    BY <2>1, <2>3, WaitingFits
  <2> QED
    BY <2>1, <2>2, <2>4 DEF MarketInv
<1>2. CASE NewDay
  BY <1>2, NewDayMarket
<1>3. ASSUME NEW s \in Session, Elsewhere(s) PROVE MarketInv'
  BY <1>3, ElsewhereMarket
<1>4. ASSUME NEW s \in Session,
             BeginSeed(s) \/ SeedItems(s) \/ Answer(s) \/ StorePrices(s)
      PROVE  MarketInv'
  BY <1>4, BeginSeedMarket, SeedItemsMarket, AnswerMarket, StorePricesMarket
<1>5. ASSUME NEW s \in Session,
             CreateAlert(s) \/ DeleteAlert(s) \/ BeginCheck(s) \/ TellAlerts(s)
      PROVE  MarketInv'
  BY <1>5, AlertsMarket, BeginCheckMarket, TellAlertsMarket
<1> QED
  BY <1>1, <1>2, <1>3, <1>4, <1>5 DEF Next, Elsewhere

\* The invariant holds in every state of every behaviour.
LEMMA MarketInvariant == Spec => []MarketInv
BY InitMarket, NextMarket, PTL DEF Spec

\* TypeOK: prices and alerts are of items that are known, and a session has a call
\* to carry over only while it has one to make.
THEOREM Types == Spec => []TypeOK
<1>1. MarketInv => TypeOK
  BY DEF MarketInv
<1> QED
  BY <1>1, MarketInvariant, PTL

------------------------------------------------------------------------------
\* A check that nothing made stale leaves every alert that is hit with its price.
LEMMA ToldAlerts ==
  ASSUME MarketInv, NEW s \in Session, TellAlerts(s), heard'
  PROVE  \A a \in DOMAIN alerts' :
           LatestOf(point, AlertItem[a])' \in AlertHit[a] =>
             alerts'[a] = LatestOf(point, AlertItem[a])'
<1>1. point' = point /\ today' = today
  BY DEF TellAlerts
<1>2. alerts' = Written(alerts, News) /\ DOMAIN News \subseteq DOMAIN alerts
  BY DEF TellAlerts, MarketInv, HeldFits, News, Hits
<1>3. ASSUME NEW i PROVE LatestOf(point, i)' = LatestOf(point, i)
  BY <1>1 DEF LatestOf
<1>4. ASSUME NEW a \in DOMAIN alerts', LatestOf(point, AlertItem[a]) \in AlertHit[a]
      PROVE  alerts'[a] = LatestOf(point, AlertItem[a])
  <2>1. a \in Hits
    BY <1>2, <1>4 DEF Hits, Written
  <2>2. CASE a \in DOMAIN News
    BY <1>2, <2>2 DEF News, Written
  <2>3. CASE a \notin DOMAIN News
    <3>1. alerts[a] = LatestOf(point, AlertItem[a])
      BY <2>1, <2>3 DEF News
    <3>2. a \in DOMAIN alerts
      BY <2>1 DEF Hits
    <3> QED
      BY <1>2, <2>3, <3>1, <3>2 DEF Written
  <2> QED
    BY <2>2, <2>3
<1> QED
  BY <1>3, <1>4

\* Steps that leave the alerts and prices alone.
LEMMA AlertsStayTold ==
  ASSUME AlertsTold, heard' => heard,
         \A s \in Session : pc[s] \in {"check", "told"} => pc'[s] \in {"check", "told"} \/ ~heard',
         DOMAIN alerts' \subseteq DOMAIN alerts, \A a \in DOMAIN alerts' : alerts'[a] = alerts[a],
         \A i : LatestOf(point, i)' = LatestOf(point, i)
  PROVE  AlertsTold'
BY DEF AlertsTold


\* No step leaves an alert untold, a check that nothing made stale least of all.
LEMMA NextAlertsTold == MarketInv /\ AlertsTold /\ [Next]_vars => AlertsTold'
<1> SUFFICES ASSUME MarketInv, AlertsTold, [Next]_vars PROVE AlertsTold'
  OBVIOUS
<1>1. ASSUME NEW s \in Session, TellAlerts(s) PROVE AlertsTold'
  BY <1>1, ToldAlerts DEF AlertsTold
<1>2. ASSUME NEW s \in Session, CreateAlert(s) \/ BeginCheck(s) PROVE AlertsTold'
  <2>1. pc'[s] \in {"check", "told"}
    BY <1>2 DEF CreateAlert, BeginCheck, Goto, MarketInv, TypeOK
  <2> QED
    BY <2>1 DEF AlertsTold
<1>3. ASSUME NEW s \in Session, StorePrices(s) PROVE AlertsTold'
  <2>1. pc'[s] = "check" \/ heard' = FALSE
    BY <1>3 DEF StorePrices, Goto, MarketInv, TypeOK
  <2> QED
    BY <2>1 DEF AlertsTold
<1>4. ASSUME NEW s \in Session, DeleteAlert(s) PROVE AlertsTold'
  <2>1. UNCHANGED <<pc, heard, point, today>>
    BY <1>4 DEF DeleteAlert, session
  <2>2. DOMAIN alerts' \subseteq DOMAIN alerts /\ \A a \in DOMAIN alerts' : alerts'[a] = alerts[a]
    BY <1>4 DEF DeleteAlert
  <2>3. \A i : LatestOf(point, i)' = LatestOf(point, i)
    BY <2>1, SameLatest
  <2> QED
    BY <2>1, <2>2, <2>3, AlertsStayTold
<1>5. CASE NewDay
  <2>1. UNCHANGED <<pc, heard, alerts>>
    BY <1>5 DEF NewDay, session, history, store
  <2>2. \A i : LatestOf(point, i)' = LatestOf(point, i)
    BY <1>5, NewDayLatest
  <2> QED
    BY <2>1, <2>2, AlertsStayTold
<1>6. ASSUME NEW s \in Session, GiveUp(s) PROVE AlertsTold'
  <2>1. UNCHANGED <<point, today, alerts>>
    BY <1>6 DEF GiveUp, store
  <2>2. /\ heard' => heard
        /\ \A r \in Session : pc[r] \in {"check", "told"} => pc'[r] \in {"check", "told"} \/ ~heard'
    BY <1>6 DEF GiveUp, Goto, MarketInv, TypeOK
  <2>3. \A i : LatestOf(point, i)' = LatestOf(point, i)
    BY <2>1, SameLatest
  <2> QED
    BY <2>1, <2>2, <2>3, AlertsStayTold
<1>7. ASSUME NEW s \in Session,
             \/ SwitchProvider(s) \/ SetKey(s) \/ Guard(s) \/ Choose(s) \/ LogCall(s) \/ Call(s)
             \/ BeginSeed(s) \/ SeedItems(s) \/ Answer(s)
      PROVE  AlertsTold'
  <2> USE DEF settings, items, store, session, history
  <2>1. UNCHANGED <<point, today, alerts, heard>>
    BY <1>7 DEF SwitchProvider, SetKey, Guard, Choose, LogCall, Call, BeginSeed, SeedItems, Answer
  <2>2. \A r \in Session : pc[r] \in {"check", "told"} => pc'[r] \in {"check", "told"}
    BY <1>7 DEF SwitchProvider, SetKey, Guard, Choose, LogCall, Call, BeginSeed, SeedItems, Answer,
                Begins, Goto, MarketInv, TypeOK
  <2>3. \A i : LatestOf(point, i)' = LatestOf(point, i)
    BY <2>1, SameLatest
  <2> QED
    BY <2>1, <2>2, <2>3, AlertsStayTold
<1>8. CASE UNCHANGED vars
  <2>1. UNCHANGED <<pc, heard, alerts, point, today>>
    BY <1>8 DEF vars, session, store, history
  <2>2. \A i : LatestOf(point, i)' = LatestOf(point, i)
    BY <2>1, SameLatest
  <2> QED
    BY <2>1, <2>2, AlertsStayTold
<1> QED
  BY <1>1, <1>2, <1>3, <1>4, <1>5, <1>6, <1>7, <1>8 DEF Next

\* AlertsTold: whatever refreshes, checks, deletions and backfills overlap, an
\* alert that the latest price hits bears that price after a fresh check.
THEOREM AlertsAreTold == Spec => []AlertsTold
<1>1. Init => AlertsTold
  BY DEF Init, AlertsTold
<1> QED
  BY <1>1, NextAlertsTold, MarketInvariant, PTL DEF Spec

------------------------------------------------------------------------------
\* What a session knows goes on holding while it waits and nothing is tracked anew.
LEMMA WaitingOnItsOwn ==
  ASSUME NEW r \in Session, OnItsOwn(r), UNCHANGED <<provider, tracked>>,
         pc'[r] = pc[r], call'[r] = call[r], data'[r] = data[r]
  PROVE  OnItsOwn(r)'
BY DEF OnItsOwn

\* The seeding leaves exactly the active provider's items tracked.
LEMMA SeedTracks ==
  ASSUME MarketInv, NEW s \in Session, OnItsOwn(s), SeedItems(s)
  PROVE  tracked' = ItemsOf[provider]
<1>1. pc[s] = "seed"
      /\ tracked' = (tracked \ (data[s].tracked \ data[s].wanted))
                      \cup (data[s].wanted \ data[s].tracked)
  BY DEF SeedItems
<1>2. /\ data[s].wanted = ItemsOf[provider]
      /\ data[s].tracked = tracked \/ tracked = ItemsOf[provider]
  BY <1>1 DEF OnItsOwn
<1> QED
  BY <1>1, <1>2

\* Past its seeding a request finds its own provider's items tracked.
LEMMA NextTracking == MarketInv /\ TrackingInv /\ [Next]_vars => TrackingInv'
<1> SUFFICES ASSUME MarketInv, TrackingInv, [Next]_vars, steady', NEW r \in Session
             PROVE  OnItsOwn(r)'
  BY DEF TrackingInv
<1> USE DEF settings, items, store, session, quota, history
<1>1. CASE \E s \in Session : SwitchProvider(s)
  BY <1>1 DEF SwitchProvider, Begins, OnItsOwn
<1>2. steady
  BY DEF vars, Next, NewDay, SwitchProvider, SetKey, BeginSeed, SeedItems, Guard, Choose, LogCall,
         Call, Answer, StorePrices, CreateAlert, DeleteAlert, BeginCheck, TellAlerts, GiveUp
<1>3. \A s \in Session : OnItsOwn(s)
  BY <1>2 DEF TrackingInv
<1>4. ASSUME NEW s \in Session, SeedItems(s) PROVE OnItsOwn(r)'
  <2>1. tracked' = ItemsOf[provider'] /\ UNCHANGED <<provider, call>>
    BY <1>3, <1>4, SeedTracks DEF SeedItems
  <2>2. CASE r = s
    <3>1. pc'[r] \in {"idle", "guard"}
      BY <1>4, <2>2 DEF SeedItems, Goto, MarketInv, TypeOK
    <3> QED
      BY <2>1, <3>1 DEF OnItsOwn
  <2>3. CASE r # s
    <3>1. pc'[r] = pc[r] /\ data'[r] = data[r]
      BY <1>4, <2>3 DEF SeedItems, Goto, MarketInv, TypeOK
    <3> QED
      BY <1>3, <2>1, <3>1 DEF OnItsOwn
  <2> QED
    BY <2>2, <2>3
<1>5. ASSUME NEW s \in Session, BeginSeed(s) PROVE OnItsOwn(r)'
  <2>1. UNCHANGED <<provider, tracked, call>> /\ pc' = [pc EXCEPT ![s] = "seed"]
    BY <1>5 DEF BeginSeed, Goto
  <2>2. PICK ask : data' = [data EXCEPT ![s] = [ask |-> ask, wanted |-> ItemsOf[provider],
                                                known |-> known, tracked |-> tracked]]
    BY <1>5 DEF BeginSeed
  <2>3. CASE r = s
    <3>1. pc'[r] = "seed" /\ data'[r].wanted = ItemsOf[provider] /\ data'[r].tracked = tracked
      BY <2>1, <2>2, <2>3 DEF MarketInv, TypeOK
    <3> QED
      BY <2>1, <3>1 DEF OnItsOwn
  <2>4. CASE r # s
    <3>1. pc'[r] = pc[r] /\ data'[r] = data[r]
      BY <2>1, <2>2, <2>4 DEF MarketInv, TypeOK
    <3> QED
      BY <1>3, <2>1, <3>1, WaitingOnItsOwn
  <2> QED
    BY <2>3, <2>4
<1>6. ASSUME NEW s \in Session, Guard(s) \/ Choose(s) \/ LogCall(s) PROVE OnItsOwn(r)'
  <2>1. UNCHANGED <<provider, tracked>>
    BY <1>6 DEF Guard, Choose, LogCall
  <2>2. CASE r = s
    <3>1. /\ pc[s] \in {"guard", "guarded", "chosen"}
          /\ pc'[s] \in {"guarded", "chosen", "logged"}
          /\ \/ call'[s] = provider
             \/ pc[s] = "chosen" /\ call'[s] = call[s]
      BY <1>6 DEF Guard, Choose, LogCall, Goto, MarketInv, TypeOK
    <3> QED
      BY <1>3, <2>1, <2>2, <3>1 DEF OnItsOwn
  <2>3. CASE r # s
    <3>1. pc'[r] = pc[r] /\ call'[r] = call[r] /\ data'[r] = data[r]
      BY <1>6, <2>3 DEF Guard, Choose, LogCall, Goto, MarketInv, TypeOK
    <3> QED
      BY <1>3, <2>1, <3>1, WaitingOnItsOwn
  <2> QED
    BY <2>2, <2>3
<1>7. ASSUME NEW s \in Session,
             \/ SetKey(s) \/ Call(s) \/ Answer(s) \/ StorePrices(s) \/ CreateAlert(s)
             \/ DeleteAlert(s) \/ BeginCheck(s) \/ TellAlerts(s) \/ GiveUp(s)
      PROVE  OnItsOwn(r)'
  <2>1. UNCHANGED <<provider, tracked>>
    BY <1>7 DEF SetKey, Call, Answer, StorePrices, CreateAlert, DeleteAlert, BeginCheck,
                TellAlerts, GiveUp
  <2>2. \/ pc'[r] = pc[r] /\ call'[r] = call[r] /\ data'[r] = data[r]
        \/ pc'[r] \in {"idle", "calling", "store", "check", "told"}
    <3> USE DEF MarketInv, TypeOK
    <3>1. CASE SetKey(s) \/ CreateAlert(s) \/ DeleteAlert(s)
      BY <3>1 DEF SetKey, CreateAlert, DeleteAlert, Goto
    <3>2. CASE Call(s)
      BY <3>2 DEF Call, Goto
    <3>3. CASE Answer(s)
      BY <3>3 DEF Answer, Goto
    <3>4. CASE StorePrices(s)
      BY <3>4 DEF StorePrices, Goto
    <3>5. CASE BeginCheck(s) \/ TellAlerts(s)
      BY <3>5 DEF BeginCheck, TellAlerts, Goto
    <3>6. CASE GiveUp(s)
      BY <3>6 DEF GiveUp, Goto
    <3> QED
      BY <1>7, <3>1, <3>2, <3>3, <3>4, <3>5, <3>6
  <2> QED
    BY <1>3, <2>1, <2>2, WaitingOnItsOwn DEF OnItsOwn
<1>8. CASE NewDay \/ UNCHANGED vars
  BY <1>3, <1>8, WaitingOnItsOwn DEF NewDay, vars
<1> QED
  BY <1>1, <1>4, <1>5, <1>6, <1>7, <1>8 DEF Next

\* AsksOwnItems: as long as the provider is not switched during a request, no call
\* asks it for another's items.
THEOREM AsksForItsOwn == Spec => AsksOwnItems
<1>1. Init => TrackingInv
  BY DEF Init, TrackingInv, OnItsOwn
<1>2. TrackingInv =>
        \A s \in Session : Call(s) /\ steady /\ data[s].ask.kind = "latest" =>
                             tracked = ItemsOf[call[s]]
  BY DEF Call, TrackingInv, OnItsOwn
<1> QED
  BY <1>1, <1>2, NextTracking, MarketInvariant, PTL DEF Spec, AsksOwnItems
==============================================================================
