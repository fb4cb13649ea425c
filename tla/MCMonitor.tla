----------------------------- MODULE MCMonitor ------------------------------
(* Small fleets for the runs of Monitor.                                   *)
EXTENDS Monitor, TLC

CONSTANTS a1, a2, a3, m1, m2, web, ssh, n1, n2, h1, h2

(* The proxy of the web service and that of the other one.                 *)
SomeForwardPorts == (n1 :> web) @@ (n2 :> ssh)

(* Two records on one device, each with a proxy of its own.                *)
TwinMacs == {m1}
TwinHome == m1 :> a1
TwinServices == m1 :> {web, ssh}
TwinFleet == (h1 :> [mac |-> m1, port |-> web, npm |-> n1])
          @@ (h2 :> [mac |-> m1, port |-> ssh, npm |-> n2])

(* Two devices.                                                            *)
BothMacs == {m1, m2}
BothHome == (m1 :> a1) @@ (m2 :> a2)

(* They never answer on each other's port.                                 *)
ApartServices == (m1 :> {web}) @@ (m2 :> {ssh})
ApartFleet == (h1 :> [mac |-> m1, port |-> web, npm |-> n1])
           @@ (h2 :> [mac |-> m2, port |-> ssh, npm |-> n2])
=============================================================================
