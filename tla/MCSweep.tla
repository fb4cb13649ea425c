------------------------------ MODULE MCSweep -------------------------------
(* An instance of Sweep for TLC: a machine with its LAN and a second local *)
(* network, a network behind a tunnel and one behind the LAN's gateway.    *)
EXTENDS Sweep

CONSTANTS o1, l1, l2, v1, t1, r1, d1, g1, lan, vlan, tun, far, huge, tiny, e0, e1, w0

MCAddr == [n \in Nets |-> CASE n = lan  -> {l1, l2}
                            [] n = vlan -> {v1}
                            [] n = tun  -> {t1}
                            [] n = far  -> {r1}
                            [] n = tiny -> {o1}
                            [] OTHER    -> {}]

MCAuto == [n \in Nets |-> CASE n = lan -> e0 [] n = vlan -> e1 [] OTHER -> Null]

MCRoute == [n \in Nets |-> CASE n = vlan -> e1 [] n = tun -> w0 [] OTHER -> e0]

MCHolds == [i \in Ifaces |-> CASE i = e0 -> {lan, tiny}
                               [] i = e1 -> {vlan}
                               [] OTHER  -> {tun}]

(* The gateway of the LAN answers for what lies behind it, as the peer of  *)
(* the tunnel does; it is the device g1 in both cases.                     *)
MCPeer == [i \in Ifaces |-> IF i = e1 THEN Null ELSE g1]

MCScopes == {Null, {lan, vlan}, {lan, tun}, {far, tiny}, {vlan, huge}}

(* The machine has a default route.                                         *)
ASSUME MCRouted == Routed
=============================================================================
