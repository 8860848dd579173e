------------------------------ MODULE Dashboard ------------------------------
(***************************************************************************)
(* The page (static/index.html): its overlapping requests to the API, the  *)
(* cache of histories, and the sidebar.  A piece of script between two     *)
(* awaits is one step.  A request is sent, answered by the server out of   *)
(* what it has at that time, and delivered; requests do not keep their     *)
(* order.                                                                  *)
(*                                                                         *)
(* Of the data only its age matters: a history, and the status of a card,  *)
(* is the number of results the service had when it was read.              *)
(***************************************************************************)
EXTENDS Integers, Bags

CONSTANTS
    Name,          \* service names
    Absent,        \* value of what is not there
    Most,          \* Most[n]: results of n in a behaviour (bound)
    Optional,      \* the services that reloads add and remove (bound)
    MaxFlight,     \* requests when the user or the timer starts another (bound)
    MaxFailures    \* requests of the page that fail (bound)

ASSUME DashboardAssumption ==
    /\ Absent \notin Name \union Int
    /\ Most \in [Name -> Nat]
    /\ Optional \subseteq Name
    /\ MaxFlight \in Nat
    /\ MaxFailures \in Nat

VARIABLES
    version,     \* the server: version[n] results of n are stored
    served,      \* the server: app.state.services
    flight,      \* the bag of the requests in flight
    services,    \* the cards: services[n] as loaded last, Absent without a card
    cached,      \* historyCache[n].data
    fresh,       \* the names whose historyCache[n].ts is within HISTORY_TTL
    selected,    \* the service of the open sidebar
    sidebar,     \* the service the content of the sidebar is of
    failures     \* failed requests so far

vars == <<version, served, flight, services, cached, fresh, selected, sidebar, failures>>

UpToMost(l) == \A n \in Name : l[n] = Absent \/ l[n] \in 0..Most[n]

\* "services": loadServices, for the timer, the refresh button ("user") or at the
\* end of a manual check of a service; "cache": loadAllHistory; "sidebar":
\* loadHistory; "check": runCheck.
Key ==
    [kind : {"services"}, of : {"timer", "user"} \union Name]
        \union [kind : {"cache", "sidebar", "check"}, of : Name]

IsRequest(r) ==
    /\ DOMAIN r = {"key", "body"}
    /\ r.key \in Key
    /\ r.body # Absent => UpToMost(r.body)

TypeOK ==
    /\ \A n \in Name : version[n] \in 0..Most[n]
    /\ served \subseteq Name
    /\ IsABag(flight) /\ \A r \in BagToSet(flight) : IsRequest(r)
    /\ UpToMost(services)
    /\ UpToMost(cached)
    /\ fresh \subseteq {n \in Name : cached[n] # Absent}
    /\ selected \in Name \union {Absent}
    /\ sidebar \in Name \union {Absent}
    /\ failures \in 0..MaxFailures

Nothing == [n \in Name |-> Absent]

New(kind, of) == [key |-> [kind |-> kind, of |-> of], body |-> Absent]

Init ==
    /\ version = [n \in Name |-> 0]
    /\ served = Name
    /\ flight = SetToBag({New("services", "user")})
    /\ services = Nothing
    /\ cached = Nothing
    /\ fresh = {}
    /\ selected = Absent
    /\ sidebar = Absent
    /\ failures = 0

Swap(old, new) == flight' = (flight (-) SetToBag(old)) (+) SetToBag(new)

serverVars == <<version, served>>
pageVars   == <<services, cached, fresh, selected, sidebar>>

-----------------------------------------------------------------------------
(* The server.                                                             *)

Listed == [n \in Name |-> IF n \in served THEN version[n] ELSE Absent]

NewResult(n) ==
    /\ version[n] < Most[n]
    /\ version' = [version EXCEPT ![n] = @ + 1]
    /\ UNCHANGED <<served, flight, pageVars, failures>>

\* A reload adds or removes a service.
Reload(n) ==
    /\ n \in Optional
    /\ served' = IF n \in served THEN served \ {n} ELSE served \union {n}
    /\ UNCHANGED <<version, flight, pageVars, failures>>

\* The server reads what it has; a manual check adds a result first.
Answer(r) ==
    /\ r.body = Absent
    /\ IF r.key.kind = "check"
         THEN /\ r.key.of \in served
              /\ version[r.key.of] < Most[r.key.of]
              /\ version' = [version EXCEPT ![r.key.of] = @ + 1]
         ELSE UNCHANGED version
    /\ LET body == IF r.key.kind = "services" THEN Listed
                   ELSE [Nothing EXCEPT ![r.key.of] = version'[r.key.of]] IN
       Swap({r}, {[r EXCEPT !.body = body]})
    /\ UNCHANGED <<served, pageVars, failures>>

-----------------------------------------------------------------------------
(* The page.                                                               *)

Room == BagCardinality(flight) < MaxFlight

\* The auto-refresh timer and the refresh button.
Timer ==
    /\ Room
    /\ Swap({}, {New("services", "timer")})
    /\ UNCHANGED <<serverVars, pageVars, failures>>

Refresh ==
    /\ Room
    /\ Swap({}, {New("services", "user")})
    /\ UNCHANGED <<serverVars, pageVars, failures>>

\* "Check now" on a card.
RunCheck(n) ==
    /\ Room
    /\ services[n] # Absent
    /\ version[n] < Most[n]
    /\ Swap({}, {New("check", n)})
    /\ UNCHANGED <<serverVars, pageVars, failures>>

\* selectSvc, which ends in loadHistory.
Select(n) ==
    /\ Room
    /\ services[n] # Absent
    /\ selected # n
    /\ selected' = n
    /\ sidebar' = n
    /\ Swap({}, {New("sidebar", n)})
    /\ UNCHANGED <<serverVars, services, cached, fresh, failures>>

CloseSidebar ==
    /\ selected # Absent
    /\ selected' = Absent
    /\ UNCHANGED <<serverVars, flight, services, cached, fresh, sidebar, failures>>

\* HISTORY_TTL passes.
Expire(n) ==
    /\ n \in fresh
    /\ fresh' = fresh \ {n}
    /\ UNCHANGED <<serverVars, flight, services, cached, selected, sidebar, failures>>

\* Seeded mistakes: the cache is for good; the timer does not look at the sidebar, or
\* not whether it is open.
Uncached == {n \in Name : services'[n] # Absent /\ cached'[n] = Absent}
OnlyChecks(of) == of = selected
AlwaysGoesOn(of) == of = "timer" \/ of = selected

\* The services that loadAllHistory fetches: without an entry or an expired one.
Stale == {n \in Name : services'[n] # Absent /\ (cached'[n] = Absent \/ n \notin fresh')}

\* What awaited loadServices goes on with the history of the open sidebar: the
\* timer always, a manual check if it is of that service, the button never.
GoesOn(of) == selected # Absent /\ (of = "timer" \/ of = selected)

\* The end of loadServices, with the answer or without: what is sent next.
AfterServices(r, histories) ==
    LET open == IF GoesOn(r.key.of) THEN {selected} ELSE {} IN
    /\ Swap({r}, {New("cache", n) : n \in histories} \union {New("sidebar", n) : n \in open})
    /\ sidebar' = IF open = {} THEN sidebar ELSE selected
    /\ UNCHANGED selected

StillFresh(r) == {n \in fresh : r.body[n] # Absent}

\* loadServices: entries of removed services leave the cache.
Services(r) ==
    /\ r.key.kind = "services"
    /\ services' = r.body
    /\ cached' = [n \in Name |-> IF r.body[n] = Absent THEN Absent ELSE cached[n]]
    /\ fresh' = StillFresh(r)
    /\ AfterServices(r, Stale)

History(r, n, rows) ==
    /\ cached' = [cached EXCEPT ![n] = rows]
    /\ fresh' = fresh \union {n}
    /\ Swap({r}, {})
    /\ UNCHANGED <<services, selected>>

CacheFilled(r) ==
    /\ r.key.kind = "cache"
    /\ History(r, r.key.of, r.body[r.key.of])
    /\ UNCHANGED sidebar

\* loadHistory draws its rows whichever service is selected by now.
SidebarFilled(r) ==
    /\ r.key.kind = "sidebar"
    /\ History(r, r.key.of, r.body[r.key.of])
    /\ sidebar' = r.key.of

\* runCheck: the entry goes and loadServices follows.
Checked(r) ==
    /\ r.key.kind = "check"
    /\ cached' = [cached EXCEPT ![r.key.of] = Absent]
    /\ fresh' = fresh \ {r.key.of}
    /\ Swap({r}, {New("services", r.key.of)})
    /\ UNCHANGED <<services, selected, sidebar>>

Deliver(r) ==
    /\ r.body # Absent
    /\ Services(r) \/ CacheFilled(r) \/ SidebarFilled(r) \/ Checked(r)
    /\ UNCHANGED <<serverVars, failures>>

\* The request fails, before or after the server saw it: an empty history goes
\* into the cache, loadHistory and runCheck show an error.
Fail(r) ==
    /\ failures < MaxFailures
    /\ failures' = failures + 1
    /\ \/ r.key.kind = "services" /\ AfterServices(r, {}) /\ UNCHANGED <<services, cached, fresh>>
       \/ r.key.kind = "cache" /\ History(r, r.key.of, 0) /\ UNCHANGED sidebar
       \/ r.key.kind = "sidebar" /\ Swap({r}, {}) /\ UNCHANGED pageVars
       \/ r.key.kind = "check" /\ Swap({r}, {New("services", r.key.of)}) /\ UNCHANGED pageVars
    /\ UNCHANGED serverVars

\* A check of a service that was removed is refused.
Refused(r) ==
    /\ r.key.kind = "check"
    /\ r.body = Absent
    /\ r.key.of \notin served \/ version[r.key.of] = Most[r.key.of]
    /\ Swap({r}, {New("services", r.key.of)})
    /\ UNCHANGED <<serverVars, pageVars, failures>>

-----------------------------------------------------------------------------

Flying(key) == {r \in BagToSet(flight) : r.key = key}

Progress(key) == \E r \in Flying(key) : Answer(r) \/ Refused(r) \/ Deliver(r)

Next ==
    \/ \E n \in Name : NewResult(n)
    \/ \E n \in Name : Reload(n)
    \/ Timer
    \/ Refresh
    \/ \E n \in Name : RunCheck(n)
    \/ \E n \in Name : Select(n)
    \/ CloseSidebar
    \/ \E n \in Name : Expire(n)
    \/ \E r \in BagToSet(flight) : Answer(r) \/ Refused(r)
    \/ \E r \in BagToSet(flight) : Deliver(r)
    \/ \E r \in BagToSet(flight) : Fail(r)

Spec == Init /\ [][Next]_vars

\* The timer is not paused, time passes, and requests are answered and delivered
\* in the end.  The user does something, and the server changes, only if it happens.
\* (SF, as the bound MaxFlight must not let the user keep the timer from firing.)
Fairness ==
    /\ SF_flight(Timer)
    /\ \A n \in Name : WF_fresh(Expire(n))
    /\ \A key \in Key : WF_flight(Progress(key))

FairSpec == Spec /\ Fairness

-----------------------------------------------------------------------------
(* Liveness.                                                               *)

\* A service that stays selected gets the sidebar: the rows of a service selected
\* before, whose answer comes late, are drawn there but do not stay
\* (index.html:1230-1239, 1401-1402).
SidebarSettles ==
    \A n \in Name : <>[](selected = n) => <>[](sidebar = n)

\* Once nothing changes on the server any more, the page shows what the server has,
\* every card and every history, for good: answers that overtake each other, failed
\* requests and cache entries of removed services do no lasting harm.
PageCatchesUp ==
    <>[][FALSE]_serverVars =>
        <>[](services = Listed /\ \A n \in served : cached[n] = version[n])
=============================================================================
