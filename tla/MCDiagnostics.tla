--------------------------- MODULE MCDiagnostics ----------------------------
(* Instances of Diagnostics for TLC.                                       *)
EXTENDS Diagnostics

CONSTANTS a1, a2, m1, n1, n2, n3

(* One record: device m1, curated as n1, last seen at a1.                  *)
MCTable == [r \in Records |-> [mac |-> m1, ip |-> a1, name |-> n1]]

(* The device may answer at a1, and a routed host without a MAC at a2.     *)
MCResponders == {[ip |-> a1, mac |-> m1], [ip |-> a2, mac |-> Null]}

(* It announces itself as n3, a name nobody gave it.  The browse hears its *)
(* address and its MAC, or, in the run of names, either or both.           *)
MCAnnounced == {[ip |-> a1, mac |-> m1, name |-> n3]}

MCHalves == {[ip |-> a1, mac |-> Null, name |-> n3],
             [ip |-> Null, mac |-> m1, name |-> n3]}

MCReverseDns == [i \in IPs |-> Null]

MCForms == {[mac |-> Null, ip |-> a1]}
=============================================================================
