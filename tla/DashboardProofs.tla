---------------------------- MODULE DashboardProofs ----------------------------
(***************************************************************************)
(* The types of Dashboard, for any services, any history lengths and any   *)
(* number of requests in flight.  They are not obvious: what a handler     *)
(* writes comes out of an answer that is older than the page it meets.     *)
(***************************************************************************)
EXTENDS Dashboard, TLAPS

-----------------------------------------------------------------------------
(* Bags.                                                                   *)

LEMMA BagSum ==
    ASSUME NEW B, IsABag(B), NEW C, IsABag(C)
    PROVE  IsABag(B (+) C) /\ BagToSet(B (+) C) = BagToSet(B) \union BagToSet(C)
  BY DEF IsABag, BagToSet, (+)

LEMMA BagDifference ==
    ASSUME NEW B, IsABag(B), NEW C, IsABag(C)
    PROVE  IsABag(B (-) C) /\ BagToSet(B (-) C) \subseteq BagToSet(B)
  BY DEF IsABag, BagToSet, (-)

LEMMA BagOfSet ==
    ASSUME NEW S
    PROVE  IsABag(SetToBag(S)) /\ BagToSet(SetToBag(S)) = S
  BY DEF IsABag, BagToSet, SetToBag

-----------------------------------------------------------------------------
(* Requests.                                                               *)

Rows(n) == 0..Most[n]

\* A list of cards or of histories, in full.
IsList(l) == l \in [Name -> Int \union {Absent}] /\ UpToMost(l)

\* IsRequest with what makes it inductive: an answer is a list, and the answer to a
\* request for a history has that history.
Sound(r) ==
    /\ IsRequest(r)
    /\ r.body # Absent => IsList(r.body)
    /\ (r.body # Absent /\ r.key.kind # "services") => r.body[r.key.of] # Absent

FlightInv == IsABag(flight) /\ \A r \in BagToSet(flight) : Sound(r)

\* TypeOK with what makes it inductive.
PageInv ==
    /\ version \in [Name -> Int] /\ \A n \in Name : version[n] \in Rows(n)
    /\ served \subseteq Name
    /\ FlightInv
    /\ IsList(services)
    /\ IsList(cached)
    /\ fresh \subseteq {n \in Name : cached[n] # Absent}
    /\ selected \in Name \union {Absent}
    /\ sidebar \in Name \union {Absent}
    /\ failures \in 0..MaxFailures

LEMMA SwapSound ==
    ASSUME FlightInv, NEW old, NEW new, \A r \in new : Sound(r), Swap(old, new)
    PROVE  FlightInv'
<1> DEFINE rest == flight (-) SetToBag(old)
<1>1. IsABag(rest) /\ BagToSet(rest) \subseteq BagToSet(flight)
  BY BagDifference, BagOfSet DEF FlightInv
<1>2. IsABag(flight') /\ BagToSet(flight') = BagToSet(rest) \union new
  BY <1>1, BagSum, BagOfSet DEF Swap
<1>3. \A r \in BagToSet(flight') : Sound(r)
  BY <1>1, <1>2 DEF FlightInv
<1>4. QED
  BY <1>2, <1>3 DEF FlightInv, Sound, IsRequest, IsList, UpToMost

LEMMA NewSound ==
    /\ \A of \in {"timer", "user"} \union Name : Sound(New("services", of))
    /\ \A kind \in {"cache", "sidebar", "check"}, n \in Name : Sound(New(kind, n))
  BY DEF New, Sound, IsRequest, Key

\* Of which service a request for a history or a check is.
LEMMA KeyOf ==
    ASSUME NEW r, IsRequest(r), r.key.kind # "services"
    PROVE  r.key.of \in Name
  BY DEF IsRequest, Key

LEMMA PageInit == Init => PageInv
<1> SUFFICES ASSUME Init PROVE PageInv
  OBVIOUS
<1>1. IsList(Nothing)
  BY DEF IsList, Nothing, UpToMost
<1>2. FlightInv
  BY BagOfSet, NewSound DEF Init, FlightInv
<1>3. QED
  BY <1>1, <1>2, DashboardAssumption DEF Init, PageInv, Rows

-----------------------------------------------------------------------------
(* Steps.  Each one swaps sound requests for sound ones; what it writes on *)
(* the page is what is said here of its writes.                            *)

LEMMA ListedSound ==
    ASSUME PageInv
    PROVE  IsList(Listed)
  BY DEF PageInv, IsList, UpToMost, Listed, Rows

\* One result more keeps to the bound.
LEMMA OneMore ==
    ASSUME version \in [Name -> Int], \A m \in Name : version[m] \in Rows(m),
           NEW n \in Name, version[n] < Most[n],
           version' = [version EXCEPT ![n] = @ + 1]
    PROVE  version' \in [Name -> Int] /\ \A m \in Name : version'[m] \in Rows(m)
<1>1. version[n] \in Nat /\ Most[n] \in Nat
  <2>1. Most[n] \in Nat
    BY DashboardAssumption
  <2>2. version[n] \in Rows(n)
    OBVIOUS
  <2>3. QED
    BY <2>1, <2>2 DEF Rows
<1>2. version' \in [Name -> Int]
  BY <1>1
<1>3. version'[n] = version[n] + 1
  OBVIOUS
<1>4. version'[n] \in Rows(n)
  BY <1>1, <1>3 DEF Rows
<1>5. \A m \in Name : m # n => version'[m] = version[m]
  OBVIOUS
<1>6. QED
  BY <1>2, <1>4, <1>5

\* The answer of the server is of the kind that was asked for.
LEMMA AnswerSound ==
    ASSUME PageInv, NEW r \in BagToSet(flight), Answer(r)
    PROVE  PageInv'
<1>1. Sound(r) /\ r.body = Absent
  BY DEF PageInv, FlightInv, Answer
<1>2. version' \in [Name -> Int] /\ \A n \in Name : version'[n] \in Rows(n)
  <2>1. CASE r.key.kind = "check"
    <3>1. r.key.of \in Name
      BY <1>1, <2>1, KeyOf DEF Sound
    <3>2. QED
      BY <2>1, <3>1, OneMore DEF PageInv, Answer
  <2>2. CASE r.key.kind # "check"
    BY <2>2 DEF PageInv, Answer
  <2>3. QED
    BY <2>1, <2>2
<1>3. PICK body : /\ Swap({r}, {[r EXCEPT !.body = body]})
                  /\ r.key.kind = "services" => body = Listed
                  /\ r.key.kind # "services" =>
                         body = [Nothing EXCEPT ![r.key.of] = version'[r.key.of]]
  BY DEF Answer
<1>4. IsList(body) /\ (r.key.kind # "services" => body[r.key.of] # Absent)
  <2>1. CASE r.key.kind = "services"
    BY <1>3, <2>1, ListedSound
  <2>2. CASE r.key.kind # "services"
    <3>1. r.key.of \in Name
      BY <1>1, <2>2, KeyOf DEF Sound
    <3>2. QED
      BY <1>2, <1>3, <2>2, <3>1, DashboardAssumption DEF IsList, UpToMost, Nothing, Rows
  <2>3. QED
    BY <2>1, <2>2
<1>5. Sound([r EXCEPT !.body = body])
  <2>1. [r EXCEPT !.body = body].key = r.key /\ [r EXCEPT !.body = body].body = body
        /\ DOMAIN [r EXCEPT !.body = body] = DOMAIN r
    BY <1>1 DEF Sound, IsRequest
  <2>2. QED
    BY <1>1, <1>4, <2>1 DEF Sound, IsRequest, IsList
<1>6. FlightInv'
  BY <1>3, <1>5, SwapSound DEF PageInv
<1>7. QED
  BY <1>2, <1>6 DEF Answer, PageInv, pageVars, IsList, UpToMost, Rows

\* What follows loadServices are new requests for services with a card.
LEMMA AfterServicesSound ==
    ASSUME PageInv, NEW r, NEW histories \in SUBSET Name, AfterServices(r, histories)
    PROVE  FlightInv' /\ selected' = selected /\ sidebar' \in Name \union {Absent}
<1>1. PICK open : /\ open = {} \/ (open = {selected} /\ selected # Absent)
                  /\ Swap({r}, {New("cache", n) : n \in histories} \union {New("sidebar", n) : n \in open})
                  /\ sidebar' = IF open = {} THEN sidebar ELSE selected
  BY DEF AfterServices, GoesOn
<1>2. open \subseteq Name
  BY <1>1 DEF PageInv
<1>3. \A q \in {New("cache", n) : n \in histories} \union {New("sidebar", n) : n \in open} : Sound(q)
  BY <1>2, NewSound
<1>4. FlightInv'
  BY <1>1, <1>3, SwapSound DEF PageInv
<1>5. QED
  BY <1>1, <1>4 DEF AfterServices, PageInv

\* A history that arrives goes into the cache, with its time stamp.
LEMMA HistorySound ==
    ASSUME PageInv, NEW r, NEW n \in Name, NEW rows \in Rows(n), History(r, n, rows),
           UNCHANGED <<serverVars>>, sidebar' \in Name \union {Absent},
           failures' \in 0..MaxFailures
    PROVE  PageInv'
<1>1. FlightInv'
  BY SwapSound DEF PageInv, History
<1>2. rows \in Int /\ rows # Absent
  BY DashboardAssumption DEF Rows
<1>3. IsList(cached')
  BY <1>2 DEF PageInv, History, IsList, UpToMost, Rows
<1>4. fresh' \subseteq {m \in Name : cached'[m] # Absent}
  BY <1>2 DEF PageInv, History, IsList
<1>5. QED
  BY <1>1, <1>3, <1>4 DEF PageInv, History, serverVars, IsList, UpToMost, Rows

LEMMA DeliverSound ==
    ASSUME PageInv, NEW r \in BagToSet(flight), Deliver(r)
    PROVE  PageInv'
<1>1. Sound(r) /\ r.body # Absent
  BY DEF PageInv, FlightInv, Deliver
<1>2. CASE Services(r)
  <2>1. IsList(services') /\ IsList(cached') /\ cached' \in [Name -> Int \union {Absent}]
    BY <1>1, <1>2 DEF Services, Sound, PageInv, IsList, UpToMost
  <2>2. fresh' \subseteq {n \in Name : cached'[n] # Absent}
    BY <1>2 DEF Services, StillFresh, PageInv
  <2>3. FlightInv' /\ selected' = selected /\ sidebar' \in Name \union {Absent}
    BY <1>2, AfterServicesSound DEF Services, Stale
  <2>4. QED
    BY <2>1, <2>2, <2>3 DEF Deliver, PageInv, serverVars, IsList, UpToMost, Rows
<1>3. ASSUME CacheFilled(r) \/ SidebarFilled(r) PROVE PageInv'
  <2>1. r.key.of \in Name /\ r.key.kind # "services"
    BY <1>1, <1>3, KeyOf DEF CacheFilled, SidebarFilled, Sound
  <2>2. r.body[r.key.of] \in Rows(r.key.of)
    BY <1>1, <2>1 DEF Sound, IsList, UpToMost, Rows
  <2>3. History(r, r.key.of, r.body[r.key.of]) /\ sidebar' \in Name \union {Absent}
    BY <1>3, <2>1 DEF CacheFilled, SidebarFilled, PageInv
  <2>4. QED
    BY <2>1, <2>2, <2>3, HistorySound DEF Deliver, PageInv
<1>4. CASE Checked(r)
  <2>1. r.key.of \in Name
    BY <1>1, <1>4, KeyOf DEF Checked, Sound
  <2>2. FlightInv'
    BY <1>4, <2>1, NewSound, SwapSound DEF Checked, PageInv
  <2>3. IsList(cached') /\ fresh' \subseteq {n \in Name : cached'[n] # Absent}
    BY <1>4, <2>1 DEF Checked, PageInv, IsList, UpToMost
  <2>4. QED
    BY <1>4, <2>2, <2>3 DEF Deliver, Checked, PageInv, serverVars, IsList, UpToMost, Rows
<1>5. QED
  BY <1>2, <1>3, <1>4 DEF Deliver

LEMMA FailSound ==
    ASSUME PageInv, NEW r \in BagToSet(flight), Fail(r)
    PROVE  PageInv'
<1>1. Sound(r)
  BY DEF PageInv, FlightInv
<1>2. failures' \in 0..MaxFailures /\ UNCHANGED serverVars
  BY DashboardAssumption DEF Fail, PageInv
<1>3. CASE r.key.kind = "services"
  <2>1. AfterServices(r, {}) /\ UNCHANGED <<services, cached, fresh>>
    BY <1>3 DEF Fail
  <2>2. FlightInv' /\ selected' = selected /\ sidebar' \in Name \union {Absent}
    BY <2>1, AfterServicesSound
  <2>3. QED
    BY <1>2, <2>1, <2>2 DEF PageInv, serverVars, IsList, UpToMost, Rows
<1>4. CASE r.key.kind = "cache"
  <2>1. History(r, r.key.of, 0) /\ UNCHANGED sidebar
    BY <1>4 DEF Fail
  <2>2. r.key.of \in Name
    BY <1>1, <1>4, KeyOf DEF Sound
  <2>3. 0 \in Rows(r.key.of)
    BY <2>2, DashboardAssumption DEF Rows
  <2>4. QED
    BY <1>2, <2>1, <2>2, <2>3, HistorySound DEF PageInv
<1>5. CASE r.key.kind = "sidebar"
  <2>1. Swap({r}, {}) /\ UNCHANGED pageVars
    BY <1>5 DEF Fail
  <2>2. FlightInv'
    BY <2>1, SwapSound DEF PageInv
  <2>3. QED
    BY <1>2, <2>1, <2>2 DEF PageInv, serverVars, pageVars, IsList, UpToMost, Rows
<1>6. CASE r.key.kind = "check"
  <2>1. Swap({r}, {New("services", r.key.of)}) /\ UNCHANGED pageVars
    BY <1>6 DEF Fail
  <2>2. Sound(New("services", r.key.of))
    BY <1>1, <1>6, KeyOf, NewSound DEF Sound
  <2>3. FlightInv'
    BY <2>1, <2>2, SwapSound DEF PageInv
  <2>4. QED
    BY <1>2, <2>1, <2>3 DEF PageInv, serverVars, pageVars, IsList, UpToMost, Rows
<1>7. QED
  BY <1>3, <1>4, <1>5, <1>6 DEF Fail

\* What the user and the timer do, and a check that is refused.
LEMMA SendSound ==
    ASSUME PageInv,
           \/ Timer
           \/ Refresh
           \/ \E n \in Name : RunCheck(n) \/ Select(n)
           \/ \E r \in BagToSet(flight) : Refused(r)
    PROVE  PageInv'
<1>1. FlightInv'
  <2>1. CASE Timer \/ Refresh
    BY <2>1, SwapSound, NewSound DEF Timer, Refresh, PageInv
  <2>2. ASSUME NEW n \in Name, RunCheck(n) \/ Select(n) PROVE FlightInv'
    BY <2>2, SwapSound, NewSound DEF RunCheck, Select, PageInv
  <2>3. ASSUME NEW r \in BagToSet(flight), Refused(r) PROVE FlightInv'
    <3>1. Sound(New("services", r.key.of))
      BY <2>3, KeyOf, NewSound DEF Refused, PageInv, FlightInv, Sound
    <3>2. QED
      BY <2>3, <3>1, SwapSound DEF Refused, PageInv
  <2>4. QED
    BY <2>1, <2>2, <2>3
<1>2. /\ UNCHANGED <<serverVars, services, cached, fresh, failures>>
      /\ selected' \in Name \union {Absent} /\ sidebar' \in Name \union {Absent}
  BY DEF Timer, Refresh, RunCheck, Select, Refused, PageInv, pageVars
<1>3. QED
  BY <1>1, <1>2 DEF PageInv, serverVars, IsList, UpToMost, Rows

LEMMA PageStep == PageInv /\ [Next]_vars => PageInv'
<1> SUFFICES ASSUME PageInv, [Next]_vars PROVE PageInv'
  OBVIOUS
<1>1. ASSUME NEW n \in Name, NewResult(n) PROVE PageInv'
  <2>1. version' \in [Name -> Int] /\ \A m \in Name : version'[m] \in Rows(m)
    BY <1>1, OneMore DEF NewResult, PageInv
  <2>2. QED
    BY <1>1, <2>1 DEF NewResult, PageInv, FlightInv, pageVars, IsList, UpToMost, Rows
<1>2. ASSUME NEW n \in Name, Reload(n) PROVE PageInv'
  BY <1>2 DEF Reload, PageInv, FlightInv, pageVars, IsList, UpToMost, Rows
<1>3. CASE CloseSidebar
  BY <1>3 DEF CloseSidebar, PageInv, FlightInv, serverVars, IsList, UpToMost, Rows
<1>4. ASSUME NEW n \in Name, Expire(n) PROVE PageInv'
  BY <1>4 DEF Expire, PageInv, FlightInv, serverVars, IsList, UpToMost, Rows
<1>5. CASE UNCHANGED vars
  BY <1>5 DEF vars, PageInv, FlightInv, IsList, UpToMost, Rows
<1>6. QED
  BY <1>1, <1>2, <1>3, <1>4, <1>5, SendSound, AnswerSound, DeliverSound, FailSound DEF Next

\* Whatever order the answers come in, and whichever of them fail, the page shows
\* histories the server had, keeps a time stamp only for a history it keeps, and
\* sends requests of services there are (index.html: loadServices, loadAllHistory,
\* loadHistory, runCheck).
THEOREM TypeCorrect == Spec => []TypeOK
<1>1. PageInv => TypeOK
  BY DEF PageInv, FlightInv, Sound, IsList, TypeOK, Rows
<1>2. QED
  BY PageInit, PageStep, <1>1, PTL DEF Spec
=============================================================================
