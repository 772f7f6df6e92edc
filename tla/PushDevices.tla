------------------------------- MODULE PushDevices -------------------------------
(* Web Push registrations: a device's browser rotates or renews its subscription *)
(* while the server delivers to the rows it lists and drops the rows the push    *)
(* service calls gone.                                                           *)
(* server/notifications/webpush.ts, service.ts deliver, routes/notifications.ts, *)
(* client/lib/webPush.ts, client/public/sw.js pushsubscriptionchange             *)
EXTENDS Naturals, FiniteSets

CONSTANTS
  Installs,   \* installation ids, one per device; a device is named by its own
  Endpoints,  \* push endpoints, each handed to one device at most
  MaxSubs,    \* MAX_PUSH_SUBSCRIPTIONS
  MaxRenewals,\* bound: subscriptions the browsers mint
  None

VARIABLES
  rows,       \* the stored subscriptions: [install, endpoint, key]
  browser,    \* browser[d]: the device's live subscription, or None
  posting,    \* posting[d]: registrations on their way to the server
  registered, \* devices whose live subscription the server accepted
  sending,    \* rows a delivery listed and has not heard about
  expired,    \* rows the push service called gone in that delivery
  owner,      \* owner[e]: the device that got endpoint e, or None
  renewals

vars == <<rows, browser, posting, registered, sending, expired, owner, renewals>>

Sub(e, k) == [endpoint |-> e, key |-> k]
Row(d, s) == [install |-> d, endpoint |-> s.endpoint, key |-> s.key]
SubOf(r)  == Sub(r.endpoint, r.key)

Init ==
  /\ rows = {} /\ browser = [d \in Installs |-> None]
  /\ posting = [d \in Installs |-> {}] /\ registered = {}
  /\ sending = {} /\ expired = {} /\ owner = [e \in Endpoints |-> None]
  /\ renewals = 0

\* Every subscription has keys of its own: the count of those minted names them.
Keys == 1..MaxRenewals

server == <<rows, sending, expired>>

\* The browser mints a subscription: on a new endpoint, or on the device's old one
\* with a new key. The page or the worker then posts it with the installation id.
Renew(d) ==
  /\ renewals < MaxRenewals /\ renewals' = renewals + 1
  /\ \E e \in Endpoints :
       /\ owner[e] \in {None, d} /\ owner' = [owner EXCEPT ![e] = d]
       /\ browser' = [browser EXCEPT ![d] = Sub(e, renewals')]
       /\ posting' = [posting EXCEPT ![d] = @ \union {Sub(e, renewals')}]
  /\ registered' = registered \ {d} /\ UNCHANGED server

\* The push service drops the subscription; nobody is told.
Lapse(d) ==
  /\ browser[d] # None /\ browser' = [browser EXCEPT ![d] = None]
  /\ registered' = registered \ {d}
  /\ UNCHANGED <<posting, owner, renewals, server>>

\* Saving Settings posts the subscription the browser still has.
Repost(d) ==
  /\ browser[d] # None /\ browser[d] \notin posting[d]
  /\ posting' = [posting EXCEPT ![d] = @ \union {browser[d]}]
  /\ UNCHANGED <<browser, registered, owner, renewals, server>>

\* The request is lost, or refused: the fallback is to save Settings again.
PostLost(d, s) ==
  /\ s \in posting[d] /\ posting' = [posting EXCEPT ![d] = @ \ {s}]
  /\ UNCHANGED <<browser, registered, owner, renewals, server>>

\* add(): requests may overtake each other; the row of the installation is replaced, else the one of the endpoint.
Added(d, s) ==
  LET mine == {r \in rows : r.install = d} IN
    IF mine # {} THEN (rows \ mine) \union {Row(d, s)}
    ELSE {r \in rows : r.endpoint # s.endpoint} \union {Row(d, s)}

Add(d, s) ==
  /\ s \in posting[d] /\ posting' = [posting EXCEPT ![d] = @ \ {s}]
  /\ LET next == Added(d, s) IN
       IF Cardinality(next) > MaxSubs /\ ~\E r \in rows : r.install = d
         THEN UNCHANGED <<rows, registered>>
         ELSE /\ rows' = next
              /\ registered' = IF s = browser[d] THEN registered \union {d}
                               ELSE registered \ {d}
  /\ UNCHANGED <<browser, owner, renewals, sending, expired>>

\* Removed in Settings, by id, by endpoint or all at once.
UserRemoves(S) ==
  /\ S # {} /\ rows' = rows \ S
  /\ registered' = registered \ {r.install : r \in S}
  /\ UNCHANGED <<browser, posting, owner, renewals, sending, expired>>

\* subscribeWebPush with another VAPID key, unsubscribeWebPush: the row of the old
\* endpoint is removed, then the browser unsubscribes.
Unsubscribe(d) ==
  /\ browser[d] # None /\ browser' = [browser EXCEPT ![d] = None]
  /\ rows' = {r \in rows : r.endpoint # browser[d].endpoint}
  /\ registered' = registered \ {d}
  /\ UNCHANGED <<posting, owner, renewals, sending, expired>>

-------------------------------------------------------------------------------
\* deliver(): list the rows, send to each, drop what the push service calls gone.
Deliver ==
  /\ sending = {} /\ expired = {} /\ rows # {} /\ sending' = rows
  /\ UNCHANGED <<rows, expired, browser, posting, registered, owner, renewals>>

Live(r) == browser[r.install] = SubOf(r)

\* Mutant: a row that is gone is taken for one that failed.
AnsweredAlike(r) ==
  /\ r \in sending /\ sending' = sending \ {r}
  /\ UNCHANGED <<rows, expired, browser, posting, registered, owner, renewals>>

\* 404 or 410 for a row that is gone when the push service handles it; any other
\* failure, or a success, leaves the row alone.
Answered(r) ==
  /\ r \in sending /\ sending' = sending \ {r}
  /\ expired' = IF Live(r) THEN expired ELSE expired \union {r}
  /\ UNCHANGED <<rows, browser, posting, registered, owner, renewals>>

\* Mutant: the endpoint alone is matched.
DropEndpoint(r) ==
  /\ r \in expired /\ sending = {} /\ expired' = expired \ {r}
  /\ rows' = {x \in rows : x.endpoint # r.endpoint}
  /\ UNCHANGED <<sending, browser, posting, registered, owner, renewals>>

\* remove(endpoint, keys): a row renewed in the meantime has other keys.
DropExpired(r) ==
  /\ r \in expired /\ sending = {} /\ expired' = expired \ {r}
  /\ rows' = {x \in rows : SubOf(x) # SubOf(r)}
  /\ UNCHANGED <<sending, browser, posting, registered, owner, renewals>>

Delivery == \/ Deliver
            \/ \E r \in sending : Answered(r)
            \/ \E r \in expired : DropExpired(r)

Next ==
  \/ Delivery
  \/ \E d \in Installs : \/ Renew(d) \/ Lapse(d) \/ Repost(d) \/ Unsubscribe(d)
                         \/ \E s \in posting[d] : PostLost(d, s) \/ Add(d, s)
  \/ \E S \in SUBSET rows : UserRemoves(S)

Spec == Init /\ [][Next]_vars

\* Notifications keep coming, and every delivery ends.
FairSpec ==
  /\ Spec /\ WF_vars(Deliver)
  /\ WF_vars(\E r \in sending : Answered(r)) /\ WF_vars(\E r \in expired : DropExpired(r))

-------------------------------------------------------------------------------
Rows == [install : Installs, endpoint : Endpoints, key : Keys]
Subs == [endpoint : Endpoints, key : Keys]

TypeOK ==
  /\ rows \subseteq Rows /\ IsFiniteSet(rows) /\ Cardinality(rows) <= MaxSubs
  /\ browser \in [Installs -> Subs \union {None}] /\ posting \in [Installs -> SUBSET Subs]
  /\ registered \subseteq Installs /\ owner \in [Endpoints -> Installs \union {None}]
  /\ sending \subseteq Rows /\ expired \subseteq Rows /\ sending \cap expired = {}
  /\ renewals \in 0..MaxRenewals

\* A device the server accepted keeps its row until the user or the device gives it
\* up: no delivery that listed an older registration takes the new one away, and
\* no other device's registration replaces it.
RegisteredIsListed ==
  \A d \in registered : browser[d] # None => Row(d, browser[d]) \in rows

\* Why no delivery takes it away: a subscription is of the device that got its endpoint,
\* with keys never minted again, so what the push service called gone stays gone.
SubsAreOwn ==
  /\ \A r \in rows \union sending \union expired :
       owner[r.endpoint] = r.install /\ r.key <= renewals
  /\ \A d \in Installs : \A s \in posting[d] \union ({browser[d]} \ {None}) :
       owner[s.endpoint] = d /\ s.key <= renewals
  /\ \A r \in expired : ~Live(r)

DeviceInv == RegisteredIsListed /\ SubsAreOwn

\* The row of a subscription that is gone does not stay for ever.
NoDeadRow == \A r \in rows : Live(r)
DeadRowsGo == []<>NoDeadRow
================================================================================
