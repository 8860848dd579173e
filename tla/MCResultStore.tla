---------------------------- MODULE MCResultStore ----------------------------
(* Two services: a site with a timeout of 3, a latency threshold of 2 and no *)
(* certificate threshold, and a system check with limits of 2.  The settings *)
(* have a timeout of 3 and loads of 3, so that the dashboard's request is    *)
(* laxer than either service, and another one is stricter than the site.     *)
(* StateIsWorst is about every http and tcp service with limits of 0, 2 or   *)
(* none and every system one with limits of 2, and at probes that wait 1, 2  *)
(* or in vain and measure up to 3, so that each limit is met, missed by one  *)
(* and passed.                                                               *)
EXTENDS ResultStore, TLC

CONSTANTS site, host

Loads(limit) == [cpu |-> limit, memory |-> limit, disk |-> limit]

Default == [timeout |-> 3] @@ Loads(3)

Service(type, https, timeout, latency, cert) ==
    [type |-> type, https |-> https, timeout |-> timeout,
     latency_ms |-> latency, cert_expiry_days |-> cert] @@ Loads(2)

Services ==
    {Service(type, https, timeout, latency, cert) :
        type \in {"http", "tcp", "system"}, https \in BOOLEAN, timeout \in {2, 3},
        latency \in {0, 2, None}, cert \in {0, 2, None}}

Sites ==
    site :> Service("http", TRUE, 3, 2, None) @@
    host :> Service("system", FALSE, 3, None, None)

Asking(timeout, latency, cert) ==
    [timeout |-> timeout, latency_ms |-> latency, cert_expiry_days |-> cert]

Requests == {FromDashboard, Asking(2, 1, 2)}

OnlyDashboard == {FromDashboard}

\* A timeout is met, and the whole takes no less than its longest wait.
Answers == {<<1, 2>>, <<1, 3>>, <<2, 2>>, <<2, 3>>, <<None, 3>>}

Found(answer, expected, handshake, days, load) ==
    [wait |-> answer[1], latency |-> answer[2], expected |-> expected,
     handshake |-> handshake, days |-> days,
     cpu |-> load[1], memory |-> load[2], disk |-> load[3]]

Probes ==
    {Found(answer, expected, handshake, days, <<2, 2, load>>) :
        answer \in Answers, expected \in BOOLEAN, handshake \in {1, 2, None},
        days \in {-1, 1, 2}, load \in {2, 3}}
=============================================================================
