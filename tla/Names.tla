------------------------------- MODULE Names --------------------------------
(***************************************************************************)
(* The names the diagnostic pages show for devices on the network.  A      *)
(* sweep sees addresses and, on its own segment, MAC addresses; a name may *)
(* come from the hosts table, from mDNS, from the cache of earlier mDNS    *)
(* names, or from reverse DNS.  Every source is a map that is defined for  *)
(* some keys only; Null is a key of none.                                  *)
(***************************************************************************)
EXTENDS Naturals, Sequences, FiniteSetsExt

CONSTANTS
    Macs, IPs, Null,
    NameSet,      \* names people and devices give
    Records,      \* ids of the rows of hosts
    Table,        \* [Records -> [mac, ip, name]]: hosts at first
    ReverseDns    \* [IPs -> NameSet \cup {Null}]: gethostbyaddr

ASSUME NamesAssumption ==
    /\ Null \notin Macs \cup IPs \cup NameSet
    /\ Records \subseteq Nat /\ IsFiniteSet(Records)
    /\ Table \in [Records -> [mac: Macs, ip: IPs \cup {Null}, name: NameSet]]
    /\ ReverseDns \in [IPs -> NameSet \cup {Null}]

Lookup(map, key) == IF key \in DOMAIN map THEN map[key] ELSE Null

(* Python's chain of "or": the first of the names that is one.             *)
FirstOf(names) ==
    LET given == {i \in DOMAIN names : names[i] # Null}
    IN  IF given = {} THEN Null ELSE names[Min(given)]

(* The rows of hosts as a map from one column to the name.  The last row   *)
(* with a key wins, and rows without one are skipped.                      *)
NamesBy(table, Key(_)) ==
    [k \in {Key(table[r]) : r \in Records} \ {Null} |->
        table[Max({r \in Records : Key(table[r]) = k})].name]

LoadKnownHostnames(table)     == LET Mac(r) == r.mac IN NamesBy(table, Mac)
LoadKnownHostnamesByIp(table) == LET Ip(r) == r.ip IN NamesBy(table, Ip)

(* INSERT ... ON CONFLICT(mac) DO UPDATE for every name just heard.        *)
RememberMdnsNames(cache, live) ==
    [m \in DOMAIN cache \cup DOMAIN live |->
        IF m \in DOMAIN live THEN live[m] ELSE cache[m]]

(* What a scan has collected by the time it names its rows.                *)
NoNames == [known |-> <<>>, knownByIp |-> <<>>, mdnsIp |-> <<>>,
            mdnsMac |-> <<>>, cached |-> <<>>]

(* Mutant: names devices announce go before names people give.             *)
ApplyHostnamesLiveFirst(row, src) ==
    FirstOf(<<Lookup(src.mdnsIp, row.ip), Lookup(src.mdnsMac, row.mac),
              Lookup(src.known, row.mac), Lookup(src.knownByIp, row.ip),
              Lookup(src.cached, row.mac), row.name>>)

(* apply_hostnames for one row.  Its display order is left out.            *)
ApplyHostnames(row, src) ==
    FirstOf(<<Lookup(src.known, row.mac), Lookup(src.knownByIp, row.ip),
              Lookup(src.mdnsIp, row.ip), Lookup(src.mdnsMac, row.mac),
              Lookup(src.cached, row.mac), row.name>>)

(* Mutant: a name just heard goes before the record.                       *)
ResolveHostnameLiveFirst(ip, mac, src) ==
    FirstOf(<<Lookup(src.mdnsMac, mac), Lookup(src.known, mac),
              Lookup(src.cached, mac), Lookup(src.mdnsIp, ip),
              Lookup(ReverseDns, ip)>>)

(* resolve_hostname, by which a validation names one address.              *)
ResolveHostname(ip, mac, src) ==
    FirstOf(<<Lookup(src.known, mac), Lookup(src.mdnsMac, mac),
              Lookup(src.cached, mac), Lookup(src.mdnsIp, ip),
              Lookup(ReverseDns, ip)>>)
=============================================================================
