----------------------------- MODULE MCService ------------------------------
(* Instances of Service for TLC.                                           *)
EXTENDS Service

CONSTANTS m1, a1, a2, n1, r1, r2, v1, v2, v3, s1, c1, c2, e1, app, cli

(* One host at first, on port 2, which is where proxy host n1 forwards.    *)
MCAtFirst  == <<[mac |-> m1, ip |-> a1, port |-> 2, link |-> Null, on |-> TRUE]>>
MCForwards == n1 :> [ip |-> a2, port |-> 2]

(* Port 1 is entered, without a link or with each answer to the mismatch.  *)
MCForms ==
    {[mac |-> m1, ip |-> a1, port |-> 1, link |-> Null, resolution |-> ""]} \cup
    [mac: {m1}, ip: {a1}, port: {1}, link: {n1}, resolution: {"", "match", "link", "cancel"}]
=============================================================================
