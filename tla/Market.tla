-------------------------------- MODULE Market --------------------------------
(***************************************************************************)
(* The price service: its quota, the price store and the price alerts      *)
(* (services/market/service.py and its routes).                            *)
(*                                                                         *)
(* A refresh seeds the items of the active provider, checks the quota,     *)
(* logs the call, makes it, stores the answer and checks the alerts.  Each *)
(* of these reads or commits on its own, and the active provider is read   *)
(* anew at most of them, while other requests may switch it.               *)
(***************************************************************************)
EXTENDS Integers, FiniteSets

CONSTANTS
  Session,    \* worker threads
  Provider,   \* the price services
  First,      \* the one that is active at the start
  FirstKeys,  \* those that have a key then
  Daily,      \* those whose window is a day; the others' is a month
  Limit, Reserve,  \* their quota and the part of it that is kept back
  Item, ItemsOf,   \* market items, and which each provider offers
  Price,      \* prices an item may have
  Alert, AlertItem, AlertHit,  \* alerts: their item, the prices that hit them
  MaxDay, MaxRequests          \* bounds

ASSUME MarketAssumption ==
  /\ IsFiniteSet(Session)
  /\ First \in Provider /\ FirstKeys \subseteq Provider /\ Daily \subseteq Provider
  /\ Limit \in [Provider -> Nat] /\ Reserve \in [Provider -> Nat]
  /\ \A p \in Provider : Reserve[p] < Limit[p]
  /\ ItemsOf \in [Provider -> SUBSET Item]
  /\ MaxDay \in Nat

VARIABLES
  provider, keys,   \* settings: the active service, the services with a key
  known, tracked,   \* table market_item: its codes, those with is_tracked
  used,       \* rows of api_call_log per provider in its current window
  today,
  point,      \* table price_point: <<item, day>> -> close_rial
  alerts,     \* table price_alert: alert -> last_price_rial (0: never)
  pc,         \* where each session is
  call,       \* the provider its request is about
  data,       \* whatever else it holds
  made,       \* the calls each provider has got in its current window
  carried,    \* history: sessions whose call was logged in an earlier window
  late,       \* history: calls made in this window and logged in an earlier one
  steady,     \* history: the provider was never switched during a request
  fresh,      \* history: what the session's alert check loaded is current
  heard,      \* history: the last check was fresh, and no backfill came after it
  requests    \* history: requests so far

settings == <<provider, keys>>
items    == <<known, tracked>>
store    == <<point, alerts>>
session  == <<pc, call, data>>
quota    == <<used, made, carried, late>>
history  == <<steady, fresh, heard>>
vars     == <<settings, items, store, session, quota, history, today, requests>>

None == [ask |-> "none"]

Init ==
  /\ provider = First /\ keys = FirstKeys
  /\ known = {} /\ tracked = {}
  /\ used = [p \in Provider |-> 0] /\ made = [p \in Provider |-> 0]
  /\ carried = {} /\ late = [p \in Provider |-> 0]
  /\ today = 0 /\ point = <<>> /\ alerts = <<>>
  /\ pc = [s \in Session |-> "idle"]
  /\ call = [s \in Session |-> First]
  /\ data = [s \in Session |-> None]
  /\ steady = TRUE /\ fresh = [s \in Session |-> FALSE] /\ heard = TRUE
  /\ requests = 0

Begins(s) ==
  /\ pc[s] = "idle" /\ requests < MaxRequests
  /\ requests' = requests + 1

\* A table with some rows written to it.
Written(table, rows) ==
  [k \in DOMAIN table \cup DOMAIN rows |-> IF k \in DOMAIN rows THEN rows[k] ELSE table[k]]

Goto(s, where) == pc' = [pc EXCEPT ![s] = where]

\* A change of prices or alerts makes stale what other checks have loaded.
Stored(s) == fresh' = [r \in Session |-> FALSE]

------------------------------------------------------------------------------
(* Settings and the calendar                                                *)

\* PUT /settings/market with a provider.
SwitchProvider(s) ==
  /\ Begins(s)
  /\ provider' \in Provider \ {provider}
  /\ steady' = (steady /\ \A r \in Session : pc[r] = "idle")
  /\ UNCHANGED <<keys, items, store, session, quota, fresh, heard, today>>

\* And with a key, or with an empty one.
SetKey(s) ==
  /\ Begins(s)
  /\ \E p \in Provider : keys' \in {keys \cup {p}, keys \ {p}}
  /\ UNCHANGED <<provider, items, store, session, quota, history, today>>

\* _window_start moves on: at midnight, and for all providers on a first day.
NewDay ==
  /\ today < MaxDay /\ today' = today + 1
  /\ \E over \in {Daily, Provider} :
       /\ used' = [p \in Provider |-> IF p \in over THEN 0 ELSE used[p]]
       /\ made' = [p \in Provider |-> IF p \in over THEN 0 ELSE made[p]]
       /\ late' = [p \in Provider |-> IF p \in over THEN 0 ELSE late[p]]
       /\ carried' = carried \cup {s \in Session : pc[s] = "logged" /\ call[s] \in over}
  /\ UNCHANGED <<settings, items, store, session, history, requests>>

------------------------------------------------------------------------------
(* A request to the service                                                 *)

\* POST /market/refresh, /market/items/{code}/backfill; GET /market/items and
\* POST /market/holdings seed the items and do no more here.
BeginSeed(s) ==
  /\ Begins(s)
  /\ \E ask \in [kind : {"latest", "items"}] \cup [kind : {"history"}, item : Item] :
       data' = [data EXCEPT ![s] = [ask |-> ask, wanted |-> ItemsOf[provider],
                                    known |-> known, tracked |-> tracked]]
  /\ Goto(s, "seed")
  /\ UNCHANGED <<settings, items, store, call, quota, history, today>>

\* Mutant: the items of the other providers stay tracked.
SeedOnlyAdds(s) ==
  /\ pc[s] = "seed"
  /\ known' = known \cup data[s].wanted
  /\ tracked' = tracked \cup data[s].wanted
  /\ Goto(s, IF data[s].ask.kind = "items" THEN "idle" ELSE "guard")
  /\ UNCHANGED <<settings, store, call, data, quota, history, today, requests>>

\* seed_items adds the provider's items and tracks them and no others; only
\* flags that differ from the loaded ones are written.
SeedItems(s) ==
  /\ pc[s] = "seed"
  /\ LET d   == data[s]
         new == d.wanted \ d.known
     IN  /\ new \cap known = {}                        \* primary key
         /\ known' = known \cup new
         /\ tracked' = (tracked \ (d.tracked \ d.wanted)) \cup (d.wanted \ d.tracked)
         /\ Goto(s, IF d.ask.kind = "items" THEN "idle" ELSE "guard")
         /\ data' = [data EXCEPT ![s] = IF d.ask.kind = "items" THEN None ELSE [ask |-> d.ask]]
  /\ UNCHANGED <<settings, store, call, quota, history, today, requests>>

\* Mutant: the reserve is used up as well.
UsableToTheLast(p) == Limit[p] - used[p]

Usable(p) == Limit[p] - Reserve[p] - used[p]

\* _guard: quota_status of the provider that is active now.
Guard(s) ==
  /\ pc[s] = "guard"
  /\ provider \in keys
  /\ Usable(provider) > 0
  /\ call' = [call EXCEPT ![s] = provider]
  /\ Goto(s, "guarded")
  /\ UNCHANGED <<settings, items, store, data, quota, history, today, requests>>

\* And then reads again which one that is, with its key.
Choose(s) ==
  /\ pc[s] = "guarded"
  /\ call' = [call EXCEPT ![s] = provider]
  /\ data' = [data EXCEPT ![s] = [ask |-> @.ask, keyed |-> provider \in keys]]
  /\ Goto(s, "chosen")
  /\ UNCHANGED <<settings, items, store, quota, history, today, requests>>

\* Mutant: the call is not logged before it is made.
LogNothing(s) ==
  /\ pc[s] = "chosen" /\ Goto(s, "logged")
  /\ UNCHANGED <<settings, items, store, call, data, quota, history, today, requests>>

\* _log, before the call and for the provider that is active now.
LogCall(s) ==
  /\ pc[s] = "chosen"
  /\ used' = [used EXCEPT ![provider] = @ + 1]
  /\ Goto(s, "logged")
  /\ UNCHANGED <<settings, items, store, call, data, made, carried, late, history, today, requests>>

\* Mutant: a call that failed is made once more.
CallRetried(s) ==
  /\ pc[s] = "logged"
  /\ data[s].keyed
  /\ made' = [made EXCEPT ![call[s]] = @ + 2]
  /\ late' = [late EXCEPT ![call[s]] = @ + (IF s \in carried THEN 1 ELSE 0)]
  /\ carried' = carried \ {s}
  /\ data' = [data EXCEPT ![s] = [ask |-> @.ask, asked |-> tracked]]
  /\ Goto(s, "calling")
  /\ UNCHANGED <<settings, items, store, call, used, history, today, requests>>

\* fetch_latest of the tracked codes, or fetch_history of one: one call each.
Call(s) ==
  /\ pc[s] = "logged"
  /\ data[s].keyed
  /\ made' = [made EXCEPT ![call[s]] = @ + 1]
  /\ late' = [late EXCEPT ![call[s]] = @ + (IF s \in carried THEN 1 ELSE 0)]
  /\ carried' = carried \ {s}
  /\ data' = [data EXCEPT ![s] = [ask |-> @.ask,
       asked |-> IF @.ask.kind = "latest" THEN tracked ELSE {@.ask.item}]]
  /\ Goto(s, "calling")
  /\ UNCHANGED <<settings, items, store, call, used, history, today, requests>>

\* What may come back: prices for items it has.  The latest ones bear the day of
\* the service's last trade, which need not be today's.
Answers(s) ==
  LET offered == data[s].asked \cap ItemsOf[call[s]]
      days    == 0..today
      once(rows) == \A k, l \in rows : k[1] = l[1] => k = l
  IN  UNION {[rows -> Price] : rows \in
        {q \in SUBSET (offered \X days) : data[s].ask.kind = "latest" => once(q)}}

\* The answer arrives and _store looks for the rows that are there already.
Answer(s) ==
  /\ pc[s] = "calling"
  /\ \E got \in Answers(s) :
       data' = [data EXCEPT ![s] = [ask |-> @.ask, got |-> got, seen |-> point]]
  /\ Goto(s, "store")
  /\ call' = [call EXCEPT ![s] = First]               \* no longer needed
  /\ UNCHANGED <<settings, items, store, quota, history, today, requests>>

\* Mutant: the alerts are not checked after a refresh.
StorePricesQuietly(s) ==
  /\ pc[s] = "store"
  /\ point' = Written(point, data[s].got)
  /\ Goto(s, "idle") /\ Stored(s)
  /\ UNCHANGED <<settings, items, alerts, call, data, quota, steady, heard, today, requests>>

\* Mutant: the item need not be in the list.
StorePricesAnyItem(s) ==
  /\ pc[s] = "store"
  /\ point' = Written(point, data[s].got)
  /\ Stored(s)
  /\ Goto(s, IF data[s].ask.kind = "latest" THEN "check" ELSE "idle")
  /\ heard' = FALSE
  /\ data' = [data EXCEPT ![s] = None]
  /\ UNCHANGED <<settings, items, alerts, call, quota, steady, today, requests>>

\* The prices are committed: new rows must be new still and their items known,
\* rows that were there are written if the price differs from the loaded one.
StorePrices(s) ==
  /\ pc[s] = "store"
  /\ LET got  == data[s].got
         seen == data[s].seen
         new  == DOMAIN got \ DOMAIN seen
         kept == {k \in DOMAIN got \cap DOMAIN seen : got[k] = seen[k]}
     IN  /\ new \cap DOMAIN point = {}                 \* uq_price_item_date
         /\ \A k \in new : k[1] \in known
         /\ point' = Written(point, [k \in DOMAIN got \ kept |-> got[k]])
  /\ Stored(s)
  /\ IF data[s].ask.kind = "latest"
     THEN Goto(s, "check") /\ UNCHANGED heard
     ELSE Goto(s, "idle") /\ heard' = FALSE
  /\ data' = [data EXCEPT ![s] = None]
  /\ UNCHANGED <<settings, items, alerts, call, quota, steady, today, requests>>

------------------------------------------------------------------------------
(* Alerts                                                                   *)

\* latest_price: of the latest day there is one for; 0 when there is none.
LatestOf(prices, i) ==
  LET days == {d \in 0..today : <<i, d>> \in DOMAIN prices}
  IN  IF days = {} THEN 0
      ELSE prices[<<i, CHOOSE d \in days : \A e \in days : e <= d>>]

\* POST /market/alerts; a check follows.
CreateAlert(s) ==
  /\ Begins(s)
  /\ \E a \in Alert \ DOMAIN alerts :
       AlertItem[a] \in known /\ alerts' = Written(alerts, [b \in {a} |-> 0])
  /\ Goto(s, "check") /\ Stored(s)
  /\ UNCHANGED <<settings, items, point, call, data, quota, steady, heard, today>>

\* DELETE /market/alerts/{id}
DeleteAlert(s) ==
  /\ Begins(s)
  /\ \E a \in DOMAIN alerts : alerts' = [b \in DOMAIN alerts \ {a} |-> alerts[b]]
  /\ Stored(s)
  /\ UNCHANGED <<settings, items, point, session, quota, steady, heard, today>>

\* check_alerts loads the alerts and the latest price of each one's item.
BeginCheck(s) ==
  /\ pc[s] = "check" /\ Goto(s, "told")
  /\ LET latest(a) == LatestOf(point, AlertItem[a])
         hit == {a \in DOMAIN alerts : latest(a) \in AlertHit[a]}
     IN  data' = [data EXCEPT ![s] =
           [hit |-> hit, news |-> [a \in {b \in hit : latest(b) # alerts[b]} |-> latest(a)]]]
  /\ fresh' = [fresh EXCEPT ![s] = TRUE]
  /\ UNCHANGED <<settings, items, store, call, quota, steady, heard, today, requests>>

\* And notes the time on each that is hit, if all of them are still there, with
\* the price where it is news.
TellAlerts(s) ==
  /\ pc[s] = "told"
  /\ data[s].hit \subseteq DOMAIN alerts
  /\ alerts' = Written(alerts, data[s].news)
  /\ heard' = fresh[s]
  /\ Goto(s, "idle")
  /\ data' = [data EXCEPT ![s] = None]
  /\ Stored(s)
  /\ UNCHANGED <<settings, items, point, call, quota, steady, today, requests>>

------------------------------------------------------------------------------
\* The request ends early: no key, no quota left, a failed call, a conflict, or
\* the server stops.  What it had committed stays, its logged call included.
GiveUp(s) ==
  /\ pc[s] # "idle" /\ Goto(s, "idle")
  /\ data' = [data EXCEPT ![s] = None]
  /\ call' = [call EXCEPT ![s] = First]
  /\ carried' = carried \ {s}
  /\ heard' = (heard /\ pc[s] \notin {"check", "told"})
  /\ UNCHANGED <<settings, items, store, used, made, late, steady, fresh, today, requests>>

Next ==
  \/ NewDay
  \/ \E s \in Session :
       \/ SwitchProvider(s) \/ SetKey(s)
       \/ BeginSeed(s) \/ SeedItems(s)
       \/ Guard(s) \/ Choose(s) \/ LogCall(s) \/ Call(s)
       \/ Answer(s) \/ StorePrices(s)
       \/ CreateAlert(s) \/ DeleteAlert(s) \/ BeginCheck(s) \/ TellAlerts(s)
       \/ GiveUp(s)

Spec == Init /\ [][Next]_vars

------------------------------------------------------------------------------
(* Properties                                                               *)

PC == {"idle", "seed", "guard", "guarded", "chosen", "logged", "calling",
       "store", "check", "told"}

\* Values are of their kind; prices are of known items, alerts too; a session
\* carries a call over midnight only while it has one to make.
TypeOK ==
  /\ provider \in Provider /\ keys \subseteq Provider
  /\ tracked \subseteq known /\ known \subseteq Item
  /\ used \in [Provider -> Nat] /\ made \in [Provider -> Nat] /\ late \in [Provider -> Nat]
  /\ pc \in [Session -> PC] /\ call \in [Session -> Provider]
  /\ carried \subseteq {s \in Session : pc[s] = "logged"}
  /\ today \in 0..MaxDay
  /\ \A k \in DOMAIN point : k[1] \in known /\ k[2] \in 0..today /\ point[k] \in Price
  /\ \A a \in DOMAIN alerts : AlertItem[a] \in known /\ alerts[a] \in AlertHit[a] \cup {0}
  /\ steady \in BOOLEAN /\ fresh \in [Session -> BOOLEAN] /\ heard \in BOOLEAN
  /\ requests \in Nat

\* The local counter never falls behind the service's: of the calls a provider
\* got in its window, all are in the log of that window but those that were
\* logged before it began.  For as long as the provider is not switched while a
\* request is under way; failed calls and crashes only make it run ahead.
CallsCounted ==
  steady => \A p \in Provider : made[p] <= used[p] + late[p]

\* What the check and the log being apart can cost: the calls logged in a window
\* pass the usable part of the quota by fewer than there are threads, and no more
\* than one call a thread comes over from the window before, whatever overlaps,
\* midnight included (_guard and _log commit on their own).
QuotaKept ==
  steady => \A p \in Provider :
    /\ made[p] - late[p] < Limit[p] - Reserve[p] + Cardinality(Session)
    /\ late[p] <= Cardinality(Session)

\* A call is not spent on another provider's items: when a refresh calls, the
\* tracked codes are those of the provider it calls, however the seedings of
\* several requests overlapped and whatever was active before.
AsksOwnItems ==
  [][\A s \in Session : Call(s) /\ steady /\ data[s].ask.kind = "latest" =>
       tracked = ItemsOf[call[s]]]_vars

\* An alert whose bound the latest price has passed bears that price, once no
\* check is under way; unless the last check was lost or overlapped, or a
\* backfill, which checks no alerts, came after it.
AlertsTold ==
  heard /\ (\A s \in Session : pc[s] \notin {"check", "told"}) =>
    \A a \in DOMAIN alerts :
      LatestOf(point, AlertItem[a]) \in AlertHit[a] =>
        alerts[a] = LatestOf(point, AlertItem[a])
=============================================================================
