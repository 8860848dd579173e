------------------------------ MODULE MCMonitor ------------------------------
(* Two services.  The first comes and goes, and changes between an HTTPS and *)
(* a TCP check whose port is out of range; the second can be given an      *)
(* interval that the scheduler refuses.                                    *)
EXTENDS Monitor, TLC

CONSTANTS api, disk

Config(t, cert, sound, fits) == [type |-> t, cert |-> cert, sound |-> sound, fits |-> fits]

Https == Config("http", TRUE, TRUE, TRUE)
Port  == Config("tcp", FALSE, FALSE, TRUE)
Root  == Config("system", FALSE, TRUE, TRUE)
Never == Config("system", FALSE, TRUE, FALSE)

Files == {api :> a @@ disk :> d : a \in {Https, Port, Absent}, d \in {Root, Never}}

\* Every interval is accepted and every probe ends in an outcome.
SoundFiles == {api :> a @@ disk :> Root : a \in {Https, Absent}}
=============================================================================
