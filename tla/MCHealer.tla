------------------------------ MODULE MCHealer ------------------------------
(* Small fleets and edit forms for the runs of Healer.                     *)
EXTENDS Healer, TLC

CONSTANTS a1, a2, a3, m1, m2, web, ssh, n1, n2, h1, h2

(* The proxy of the web service and that of the other one.                 *)
SomeForwardPorts == (n1 :> web) @@ (n2 :> ssh)

(* Two devices.                                                            *)
BothMacs == {m1, m2}
BothHome == (m1 :> a1) @@ (m2 :> a2)

(* They never answer on each other's port.                                 *)
ApartServices == (m1 :> {web}) @@ (m2 :> {ssh})
ApartFleet == (h1 :> [mac |-> m1, port |-> web, npm |-> n1])
           @@ (h2 :> [mac |-> m2, port |-> ssh, npm |-> n2])

(* Both serve the same port; the second has no proxy.                      *)
AlikeServices == (m1 :> {web}) @@ (m2 :> {web})
AlikeFleet == (h1 :> [mac |-> m1, port |-> web, npm |-> n1])
           @@ (h2 :> [mac |-> m2, port |-> web, npm |-> Null])

(* A wrong address, a missing one with the link dropped, a record switched *)
(* off, and a record given to the other device.                            *)
SomeForms ==
    {[mac |-> m1, ip |-> a3,   port |-> web, npm |-> n1,   mode |-> "enabled"],
     [mac |-> m1, ip |-> Null, port |-> web, npm |-> Null, mode |-> "enabled"],
     [mac |-> m1, ip |-> a1,   port |-> web, npm |-> n1,   mode |-> "disabled"],
     [mac |-> m2, ip |-> a2,   port |-> web, npm |-> n2,   mode |-> "enabled"]}
=============================================================================
