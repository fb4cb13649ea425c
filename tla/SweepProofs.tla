---------------------------- MODULE SweepProofs -----------------------------
(***************************************************************************)
(* What the sweeps of scanner.py promise, for every machine, network and   *)
(* scope: nothing outside the networks asked for is collected, a MAC is    *)
(* only reported where its device was, and a device that stays is found.   *)
(*                                                                         *)
(* A step of Sweep builds its next job in stages (a row is added, then the *)
(* tool is through, then the search goes on with scapy or ends), so the    *)
(* invariant is stated of a job j and proved stage by stage.               *)
(***************************************************************************)
EXTENDS Sweep, TLAPS

Pcs == {"idle", "arp", "passive", "scapy", "nmap", "done"}

Jobs == [pc: Pcs, mode: Modes, target: Macs, scope: Scopes, ip: BOOLEAN,
         todo: SUBSET (Optional(Ifaces) \X Nets), rows: SUBSET Rows,
         found: Optional(IPs), failed: BOOLEAN]

(* The networks left are the machine's, and the tool's own.                *)
Planned(j) ==
    /\ j \in Jobs
    /\ j.todo \subseteq (IF j.pc = "arp" THEN Ifaces ELSE {Null}) \X Nets
    /\ \A s \in j.todo : j.scope = Null \/ s[2] \in j.scope

Within(scope, ip) == scope = Null \/ \E n \in scope : ip \in Addr[n]

Confined(j) ==
    /\ \A r \in j.rows : Within(j.scope, r.ip)
    /\ j.found # Null => Within(j.scope, j.found)

TrueAt(j, seen) ==
    j.ip => /\ \A r \in j.rows : r.mac # Null => <<r.mac, r.ip>> \in seen
            /\ j.found # Null => <<j.target, j.found>> \in seen

(* What a search was asked to do does not change while it runs.            *)
SameSearch(j) == /\ j.mode = job.mode /\ j.target = job.target
                 /\ j.scope = job.scope /\ j.ip = job.ip

Staged(j) == Planned(j) /\ Confined(j) /\ SameSearch(j)
             /\ (Routed => TrueAt(j, held))

Fresh(j) == j.todo = {} /\ j.rows = {} /\ j.found = Null

SweepInv ==
    /\ where \in [Macs -> Optional(IPs)]
    /\ moves \in 0..MaxMoves
    /\ held \subseteq Macs \X IPs
    /\ lost \subseteq {"arp", "arp failed", "scapy", "nmap"}
    /\ Holding(where) \subseteq held
    /\ Staged(job)
    /\ job.pc = "idle" => Fresh(job) /\ held = Holding(where)
    /\ job.pc = "passive" => Fresh(job) /\ job.scope = Null

-----------------------------------------------------------------------------
(* What the network answers.                                               *)

LEMMA WithinScope == \A ip : InScope(ip) <=> Within(job.scope, ip)
BY DEF InScope, Within

LEMMA HeldRows ==
    ASSUME where \in [Macs -> Optional(IPs)], SweepAssumption,
           Holding(where) \subseteq held, NEW nets \in SUBSET Nets
    PROVE  /\ DevicesIn(nets) \subseteq Rows
           /\ \A r \in DevicesIn(nets) :
                 /\ r.mac \in Macs /\ r.ip = where[r.mac] /\ <<r.mac, r.ip>> \in held
                 /\ \E n \in nets : r.ip \in Addr[n]
<1>1. SUFFICES ASSUME NEW d \in Macs, NEW n \in nets, where[d] \in Addr[n],
                      NEW r, r = [ip |-> where[d], mac |-> d]
               PROVE  r \in Rows /\ r.mac \in Macs /\ r.ip = where[r.mac]
                      /\ <<r.mac, r.ip>> \in held /\ \E k \in nets : r.ip \in Addr[k]
  BY Zenon DEF DevicesIn
<1>2. where[d] \in IPs /\ where[d] # Null
  BY <1>1 DEF SweepAssumption
<1>3. <<d, where[d]>> \in Holding(where)
  BY <1>2 DEF Holding
<1>4. r.ip = where[d] /\ r.mac = d
  BY <1>1
<1>5. r \in Rows
  BY <1>1, <1>2 DEF Rows, Optional
<1> QED BY <1>1, <1>3, <1>4, <1>5

LEMMA HeldInNetwork ==
    ASSUME SweepInv, SweepAssumption, NEW n \in Nets
    PROVE  \A r \in DevicesIn({n}) :
              /\ r \in Rows /\ r.mac \in Macs /\ r.ip \in Addr[n]
              /\ r.ip = where[r.mac] /\ <<r.mac, r.ip>> \in held
<1>1. {n} \in SUBSET Nets /\ where \in [Macs -> Optional(IPs)] /\ Holding(where) \subseteq held
  BY DEF SweepInv
<1>2. DevicesIn({n}) \subseteq Rows
  BY <1>1, HeldRows
<1>3. \A r \in DevicesIn({n}) :
         /\ r.mac \in Macs /\ r.ip = where[r.mac] /\ <<r.mac, r.ip>> \in held
         /\ \E k \in {n} : r.ip \in Addr[k]
  BY <1>1, HeldRows
<1> QED BY <1>2, <1>3

(* An answer of a network a tool may broadcast on, and what it may hear.   *)
LEMMA LocalRows ==
    ASSUME SweepAssumption, job.ip, NEW n \in Nets, NEW i \in Ifaces, ~ L3Only(n, i)
    PROVE  BroadcastRows(i, n) = DevicesIn({n})
BY DEF SweepAssumption, L3Only, ClassifySubnet, IsTunnelInterface, BroadcastRows

LEMMA ProbedRows ==
    ASSUME SweepInv, SweepAssumption, NEW n \in Nets
    PROVE  \A r \in L3Rows(n) : r \in Rows /\ r.mac = Null /\ r.ip \in Addr[n]
<1>1. \A r \in DevicesIn({n}) : r \in Rows /\ r.ip \in Addr[n]
  BY HeldInNetwork
<1>2. SUFFICES ASSUME NEW q \in DevicesIn({n}), NEW r, r = [ip |-> q.ip, mac |-> Null]
               PROVE  r \in Rows /\ r.mac = Null /\ r.ip \in Addr[n]
  BY Zenon DEF L3Rows
<1> QED BY <1>1, <1>2 DEF Rows, Optional

LEMMA BroadcastRowsType ==
    ASSUME SweepInv, SweepAssumption, NEW n \in Nets, NEW i \in Ifaces
    PROVE  \A r \in BroadcastRows(i, n) : r \in Rows /\ r.ip \in Addr[n]
<1>1. \A r \in DevicesIn({n}) : r \in Rows /\ r.ip \in Addr[n]
  BY HeldInNetwork
<1>2. Peer[i] # Null => [ip: Addr[n], mac: {Peer[i]}] \subseteq Rows
  BY DEF SweepAssumption, Rows, Optional
<1>3. \A r \in [ip: Addr[n], mac: {Peer[i]}] : r.ip \in Addr[n]
  OBVIOUS
<1> QED BY <1>1, <1>2, <1>3 DEF BroadcastRows

LEMMA StrayRowsHeld ==
    ASSUME SweepInv, SweepAssumption, NEW i \in Ifaces
    PROVE  \A r \in StrayRows(i) :
              r \in Rows /\ r.mac \in Macs /\ r.ip = where[r.mac] /\ <<r.mac, r.ip>> \in held
<1>1. Holds[i] \in SUBSET Nets
  BY DEF SweepAssumption
<1> QED BY <1>1, HeldRows DEF SweepInv, StrayRows

LEMMA NmapRowsHeld ==
    ASSUME SweepInv, SweepAssumption, NEW n \in Nets
    PROVE  \A r \in NmapRows(n) :
              r \in Rows /\ r.ip \in Addr[n] /\ (r.mac # Null => <<r.mac, r.ip>> \in held)
<1>1. \A r \in DevicesIn({n}) :
         r \in Rows /\ r.ip \in Addr[n] /\ <<r.mac, r.ip>> \in held
  BY HeldInNetwork
<1>2. SUFFICES ASSUME NEW q \in DevicesIn({n}), NEW r, r = [ip |-> q.ip, mac |-> Null]
               PROVE  r \in Rows /\ r.mac = Null /\ r.ip \in Addr[n]
  BY <1>1, Zenon DEF NmapRows
<1> QED BY <1>1, <1>2 DEF Rows, Optional

-----------------------------------------------------------------------------
(* The stages a step takes a job through.                                  *)

LEMMA MatchFound ==
    ASSUME SweepAssumption, NEW rows, rows \subseteq Rows, NEW ip, ip \in Match(rows)
    PROVE  /\ ip \in Optional(IPs)
           /\ ip # Null => /\ InScope(ip)
                          /\ \E r \in rows : r.mac = job.target /\ r.ip = ip
           /\ ip = Null => \A r \in rows : r.mac = job.target => ~ InScope(r.ip)
<1>1. \A r \in rows : r.ip \in IPs /\ r.ip # Null
  BY DEF Rows, SweepAssumption
<1>2. CASE Matches(rows) = {}
  <2>1. ip = Null
    BY <1>2 DEF Match
  <2>2. \A r \in rows : ~ (r.mac = job.target /\ InScope(r.ip))
    <3>1. \A r \in rows : r.mac = job.target /\ InScope(r.ip) => r.ip \in Matches(rows)
      BY DEF Matches
    <3> QED BY <1>2, <3>1
  <2> QED BY <2>1, <2>2 DEF Optional
<1>3. CASE Matches(rows) # {}
  <2>1. ip \in Matches(rows)
    BY <1>3 DEF Match
  <2>2. PICK r \in rows : r.mac = job.target /\ InScope(r.ip) /\ ip = r.ip
    BY <2>1, Zenon DEF Matches
  <2> QED BY <1>1, <2>2 DEF Optional
<1> QED BY <1>2, <1>3

LEMMA FoundIsStaged ==
    ASSUME NEW j, Staged(j), NEW ip \in Optional(IPs),
           ip # Null => InScope(ip) /\ \E r \in j.rows : r.mac = job.target /\ r.ip = ip,
           job.target # Null
    PROVE  /\ Staged([j EXCEPT !.found = ip])
           /\ [j EXCEPT !.found = ip].found = ip
<1> DEFINE k == [j EXCEPT !.found = ip]
<1>1. j \in Jobs
  BY DEF Staged, Planned
<1>2. /\ k \in Jobs /\ k.found = ip /\ k.pc = j.pc /\ k.mode = j.mode /\ k.target = j.target
      /\ k.scope = j.scope /\ k.ip = j.ip /\ k.todo = j.todo /\ k.rows = j.rows
  BY <1>1 DEF Jobs
<1> HIDE DEF k
<1>3. Planned(k) /\ SameSearch(k)
  BY <1>2 DEF Staged, Planned, SameSearch
<1>4. Confined(k)
  BY <1>2, WithinScope DEF Staged, SameSearch, Confined
<1>5. Routed => TrueAt(k, held)
  BY <1>2 DEF Staged, SameSearch, TrueAt
<1> QED BY <1>2, <1>3, <1>4, <1>5 DEF Staged, k

LEMMA DoneIsStaged ==
    ASSUME NEW j, Staged(j)
    PROVE  /\ Staged(Done(j)) /\ Done(j).pc = "done" /\ Done(j).found = j.found
           /\ Done(j).failed = j.failed
<1> DEFINE k == Done(j)
<1>1. j \in Jobs
  BY DEF Staged, Planned
<1>2. /\ k \in Jobs /\ k.pc = "done" /\ k.todo = {} /\ k.rows \subseteq j.rows
      /\ k.found = j.found /\ k.mode = j.mode /\ k.target = j.target /\ k.failed = j.failed
      /\ k.scope = j.scope /\ k.ip = j.ip
  BY <1>1 DEF Jobs, Done, Pcs
<1> HIDE DEF k
<1>3. Planned(k) /\ SameSearch(k)
  BY <1>2 DEF Staged, Planned, SameSearch
<1>4. Confined(k)
  BY <1>2 DEF Staged, Confined
<1>5. Routed => TrueAt(k, held)
  BY <1>2 DEF Staged, TrueAt
<1> QED BY <1>2, <1>3, <1>4, <1>5 DEF Staged, k

LEMMA ToScapyIsStaged ==
    ASSUME SweepAssumption, NEW j, Staged(j)
    PROVE  /\ Staged(ToScapy(j)) /\ ToScapy(j).pc = "scapy" /\ ToScapy(j).found = j.found
           /\ job.scope # Null => \A n \in job.scope : <<Null, n>> \in ToScapy(j).todo
<1> DEFINE k    == ToScapy(j)
           nets == IF job.scope = Null THEN {Primary} ELSE job.scope
<1>1. j \in Jobs /\ j.scope = job.scope
  BY DEF Staged, Planned, SameSearch
<1>2. nets \subseteq Nets
  BY <1>1 DEF Jobs, SweepAssumption, Optional
<1>3. k.todo = {<<Null, n>> : n \in nets} /\ k.pc = "scapy" /\ k.rows = {}
  BY <1>1 DEF Jobs, ToScapy
<1>4. {<<Null, n>> : n \in nets} \subseteq {Null} \X Nets
  BY <1>2
<1>5. {<<Null, n>> : n \in nets} \subseteq Optional(Ifaces) \X Nets
  BY <1>4 DEF Optional
<1>6. /\ k \in Jobs /\ k.found = j.found /\ k.mode = j.mode /\ k.target = j.target
      /\ k.scope = j.scope /\ k.ip = j.ip
  BY <1>1, <1>5 DEF Jobs, ToScapy, Pcs
<1>7. \A s \in k.todo : k.scope = Null \/ s[2] \in k.scope
  BY <1>1, <1>3, <1>6
<1> HIDE DEF k
<1>8. Planned(k) /\ SameSearch(k)
  BY <1>3, <1>4, <1>6, <1>7 DEF Staged, Planned, SameSearch
<1>9. Confined(k)
  BY <1>3, <1>6 DEF Staged, Confined
<1>10. Routed => TrueAt(k, held)
  BY <1>3, <1>6 DEF Staged, TrueAt
<1> QED BY <1>3, <1>6, <1>8, <1>9, <1>10 DEF Staged, k

LEMMA TakenIsStaged ==
    ASSUME NEW j, Staged(j), job' = j, held \subseteq held'
    PROVE  Staged(job)' /\ SameSearch(job')
BY DEF Staged, SameSearch, Planned, Confined, TrueAt

LEMMA AfterArpIsStaged ==
    ASSUME SweepAssumption, NEW j, Staged(j), AfterArp(j), held \subseteq held'
    PROVE  Staged(job)' /\ SameSearch(job') /\ job'.pc \in {"done", "scapy"}
<1>1. j \in Jobs /\ job.target = j.target
  BY DEF Staged, Planned, SameSearch
<1>2. j.rows \subseteq Rows /\ job.target # Null
  BY <1>1 DEF Jobs, SweepAssumption
<1>3. PICK ip \in IF j.failed THEN {Null} ELSE Match(j.rows) :
         \/ job' = Done([j EXCEPT !.found = ip])
         \/ job' = Done(j)
         \/ job' = ToScapy(j)
  BY Zenon DEF AfterArp
<1>4. /\ ip \in Optional(IPs)
      /\ ip # Null => InScope(ip) /\ \E r \in j.rows : r.mac = job.target /\ r.ip = ip
  <2>1. CASE j.failed
    BY <1>3, <2>1 DEF Optional
  <2>2. CASE ~ j.failed
    <3>1. ip \in Match(j.rows)
      BY <1>3, <2>2
    <3>2. ip \in Optional(IPs)
      BY <1>2, <3>1, MatchFound
    <3>3. ip # Null => InScope(ip)
      BY <1>2, <3>1, MatchFound
    <3>4. ip # Null => \E r \in j.rows : r.mac = job.target /\ r.ip = ip
      BY <1>2, <3>1, MatchFound
    <3> QED BY <3>2, <3>3, <3>4
  <2> QED BY <2>1, <2>2
<1>5. CASE job' = Done([j EXCEPT !.found = ip])
  <2>1. Staged([j EXCEPT !.found = ip])
    BY <1>2, <1>4, FoundIsStaged
  <2> QED BY <1>5, <2>1, DoneIsStaged, TakenIsStaged
<1>6. CASE job' = Done(j)
  BY <1>6, DoneIsStaged, TakenIsStaged
<1>7. CASE job' = ToScapy(j)
  BY <1>7, ToScapyIsStaged, TakenIsStaged
<1> QED BY <1>3, <1>5, <1>6, <1>7

LEMMA ArpGoesOnIsStaged ==
    ASSUME SweepAssumption, NEW j, Staged(j), j.pc = "arp", ArpGoesOn(j), held \subseteq held'
    PROVE  Staged(job)' /\ SameSearch(job') /\ job'.pc \notin {"idle", "passive"}
<1>1. CASE j.todo = {}
  BY <1>1, AfterArpIsStaged DEF ArpGoesOn
<1>2. CASE j.todo # {}
  BY <1>2, TakenIsStaged DEF ArpGoesOn
<1> QED BY <1>1, <1>2

(* One network is done with: it is not left, and its answer is added.      *)
Swept(s, heard, failed) ==
    [job EXCEPT !.todo = @ \ {s}, !.rows = @ \cup heard, !.failed = failed]

LEMMA SweptIsStaged ==
    ASSUME SweepInv, NEW s, NEW heard, NEW failed \in BOOLEAN,
           \A r \in heard : r \in Rows /\ InScope(r.ip),
           Routed /\ job.ip => \A r \in heard : r.mac # Null => <<r.mac, r.ip>> \in held
    PROVE  /\ Staged(Swept(s, heard, failed))
           /\ Swept(s, heard, failed).pc = job.pc
           /\ Swept(s, heard, failed).todo = job.todo \ {s}
           /\ Swept(s, heard, failed).rows = job.rows \cup heard
           /\ Swept(s, heard, failed).failed = failed
           /\ Swept(s, heard, failed).found = job.found
<1> DEFINE k == Swept(s, heard, failed)
<1>1. Staged(job) /\ job \in Jobs
  BY DEF SweepInv, Staged, Planned
<1>2. /\ k \in Jobs /\ k.pc = job.pc /\ k.todo = job.todo \ {s} /\ k.failed = failed
      /\ k.rows = job.rows \cup heard /\ k.found = job.found /\ k.mode = job.mode
      /\ k.target = job.target /\ k.scope = job.scope /\ k.ip = job.ip
  BY <1>1 DEF Jobs, Swept
<1> HIDE DEF k
<1>3. Planned(k) /\ SameSearch(k)
  BY <1>1, <1>2 DEF Staged, Planned, SameSearch
<1>4. Confined(k)
  BY <1>1, <1>2, WithinScope DEF Staged, Confined
<1>5. Routed => TrueAt(k, held)
  BY <1>1, <1>2 DEF Staged, TrueAt
<1> QED BY <1>2, <1>3, <1>4, <1>5 DEF Staged, k

(* A network that is left is one of those asked for.                       *)
LEMMA LeftInScope ==
    ASSUME SweepInv, NEW i, NEW n, <<i, n>> \in job.todo
    PROVE  /\ n \in Nets /\ (job.pc = "arp" => i \in Ifaces)
           /\ \A ip \in Addr[n] : InScope(ip)
<1>1. <<i, n>> \in (IF job.pc = "arp" THEN Ifaces ELSE {Null}) \X Nets
  BY DEF SweepInv, Staged, Planned
<1>2. job.scope = Null \/ n \in job.scope
  BY DEF SweepInv, Staged, Planned
<1> QED BY <1>1, <1>2 DEF InScope

-----------------------------------------------------------------------------
(* One lemma for each step of a search.                                    *)

Rested == /\ Staged(job)' /\ SameSearch(job')
          /\ job'.pc # "idle"
          /\ job'.pc = "passive" => Fresh(job)' /\ job'.scope = Null

LEMMA HeardUnlessMissed ==
    ASSUME NEW tool, NEW n, NEW heard, Missed(tool, n, heard), TargetIn(n), tool \notin lost'
    PROVE  \E r \in heard : r.mac = job.target
<1>1. job.target \in {r.mac : r \in heard}
  BY DEF Missed
<1> QED BY <1>1

(* A step of arp-scan sweeps one network, and goes on from there: what it  *)
(* has kept names the target, if it is there and was not missed.           *)
LEMMA ArpSweepStage ==
    ASSUME SweepInv, SweepAssumption, NEW i \in Ifaces, NEW n \in Nets, ArpSweep(i, n)
    PROVE  \E kept, failed :
              /\ Staged(Swept(<<i, n>>, kept, failed)) /\ ArpGoesOn(Swept(<<i, n>>, kept, failed))
              /\ job.failed => failed
              /\ failed \in BOOLEAN
              /\ TargetIn(n) /\ "arp" \notin lost' =>
                    \E r \in kept : r.mac = job.target /\ InScope(r.ip)
<1> DEFINE left == [job EXCEPT !.todo = @ \ {<<i, n>>}]
<1>1. /\ job.pc = "arp" /\ <<i, n>> \in job.todo
      /\ \/ /\ L3Only(n, i)
            /\ \E heard \in SUBSET L3Rows(n) :
                 /\ ArpGoesOn([left EXCEPT !.rows = @ \cup heard,
                                           !.failed = @ \/ n \in TooLarge])
                 /\ Missed("arp", n, heard)
         \/ /\ ~ L3Only(n, i)
            /\ \E heard \in SUBSET (BroadcastRows(i, n) \cup StrayRows(i)) :
                 /\ ArpGoesOn([left EXCEPT !.rows = @ \cup Kept(heard)])
                 /\ Missed("arp", n, heard)
  BY Zenon DEF ArpSweep
<1>2. job \in Jobs /\ job.target \in Macs /\ job.failed \in BOOLEAN
  BY DEF SweepInv, Staged, Planned, Jobs
<1>3. CASE L3Only(n, i)
  <2>1. PICK heard \in SUBSET L3Rows(n) :
           /\ ArpGoesOn([left EXCEPT !.rows = @ \cup heard, !.failed = @ \/ n \in TooLarge])
           /\ Missed("arp", n, heard)
    BY <1>1, <1>3
  <2> DEFINE bad == job.failed \/ n \in TooLarge
             k == Swept(<<i, n>>, heard, bad)
  <2>2. [left EXCEPT !.rows = @ \cup heard, !.failed = @ \/ n \in TooLarge] = k
    BY <1>2 DEF Jobs, Swept
  <2>3. \A r \in heard : r \in Rows /\ r.mac = Null /\ InScope(r.ip)
    BY <1>1, ProbedRows, LeftInScope
  <2>4. /\ bad \in BOOLEAN
        /\ \A r \in heard : r \in Rows /\ InScope(r.ip)
        /\ Routed /\ job.ip => \A r \in heard : r.mac # Null => <<r.mac, r.ip>> \in held
    BY <1>2, <2>3 DEF Jobs
  <2>5. Staged(k) /\ k.pc = job.pc
    BY <2>4, SweptIsStaged, Zenon
  <2>6. ~ (TargetIn(n) /\ "arp" \notin lost')
    BY <1>2, <2>1, <2>3, HeardUnlessMissed DEF SweepAssumption
  <2> HIDE DEF k
  <2>7. ArpGoesOn(k)
    BY <2>1, <2>2
  <2> QED BY <2>4, <2>5, <2>6, <2>7 DEF k
<1>4. CASE ~ L3Only(n, i)
  <2>1. PICK heard \in SUBSET (BroadcastRows(i, n) \cup StrayRows(i)) :
           /\ ArpGoesOn([left EXCEPT !.rows = @ \cup Kept(heard)])
           /\ Missed("arp", n, heard)
    BY <1>1, <1>4
  <2> DEFINE k == Swept(<<i, n>>, Kept(heard), job.failed)
  <2>2. [left EXCEPT !.rows = @ \cup Kept(heard)] = k
    BY <1>2 DEF Jobs, Swept
  <2>3. \A r \in Kept(heard) : r \in heard /\ r \in Rows /\ InScope(r.ip)
    BY BroadcastRowsType, StrayRowsHeld DEF Kept
  <2>4. ASSUME job.ip, NEW r \in heard
        PROVE  <<r.mac, r.ip>> \in held
    <3>1. CASE r \in StrayRows(i)
      BY <3>1, StrayRowsHeld
    <3>2. CASE r \in BroadcastRows(i, n)
      <4>1. BroadcastRows(i, n) = DevicesIn({n})
        BY <1>4, <2>4, LocalRows
      <4>2. r \in DevicesIn({n})
        BY <3>2, <4>1
      <4> QED BY <4>2, HeldInNetwork
    <3> QED BY <2>1, <3>1, <3>2
  <2>5. /\ \A r \in Kept(heard) : r \in Rows /\ InScope(r.ip)
        /\ Routed /\ job.ip =>
              \A r \in Kept(heard) : r.mac # Null => <<r.mac, r.ip>> \in held
    BY <2>3, <2>4
  <2>6. Staged(k) /\ k.pc = job.pc
    BY <1>2, <2>5, SweptIsStaged
  <2>7. ASSUME TargetIn(n), "arp" \notin lost'
        PROVE  \E r \in Kept(heard) : r.mac = job.target /\ InScope(r.ip)
    <3>1. PICK r \in heard : r.mac = job.target
      BY <2>1, <2>7, HeardUnlessMissed
    <3>2. r.ip \in Addr[n]
      BY <2>7, <3>1, BroadcastRowsType, StrayRowsHeld DEF TargetIn
    <3>3. InScope(r.ip)
      BY <1>1, <3>2, LeftInScope
    <3> QED BY <3>1, <3>3 DEF Kept
  <2> HIDE DEF k
  <2>8. ArpGoesOn(k)
    BY <2>1, <2>2
  <2> QED BY <1>2, <2>6, <2>7, <2>8 DEF k
<1> QED BY <1>1, <1>3, <1>4

LEMMA ArpSweepKeeps ==
    ASSUME SweepInv, SweepAssumption, NEW i \in Ifaces, NEW n \in Nets, ArpSweep(i, n)
    PROVE  Rested
<1>1. PICK kept, failed : /\ Staged(Swept(<<i, n>>, kept, failed))
                          /\ ArpGoesOn(Swept(<<i, n>>, kept, failed))
  BY ArpSweepStage
<1>2. job \in Jobs /\ job.pc = "arp" /\ held' = held
  BY DEF SweepInv, Staged, Planned, ArpSweep
<1>3. Swept(<<i, n>>, kept, failed).pc = "arp"
  BY <1>2 DEF Jobs, Swept
<1> QED BY <1>1, <1>2, <1>3, ArpGoesOnIsStaged DEF Rested

(* A network that fails is done with as well.                              *)
LEMMA FailedIsStaged ==
    ASSUME SweepInv, NEW s, NEW failed \in BOOLEAN
    PROVE  /\ Staged(Swept(s, {}, failed))
           /\ Swept(s, {}, failed).pc = job.pc
           /\ Swept(s, {}, failed).todo = job.todo \ {s}
           /\ Swept(s, {}, failed).rows = job.rows
           /\ Swept(s, {}, failed).failed = failed
           /\ Swept(s, {}, failed).found = job.found
<1>1. PICK none : none = {}
  OBVIOUS
<1>2. /\ \A r \in none : r \in Rows /\ InScope(r.ip)
      /\ Routed /\ job.ip => \A r \in none : r.mac # Null => <<r.mac, r.ip>> \in held
  BY <1>1
<1>3. /\ Staged(Swept(s, none, failed))
      /\ Swept(s, none, failed).pc = job.pc
      /\ Swept(s, none, failed).todo = job.todo \ {s}
      /\ Swept(s, none, failed).rows = job.rows \cup none
      /\ Swept(s, none, failed).failed = failed
      /\ Swept(s, none, failed).found = job.found
  BY <1>2, SweptIsStaged
<1> QED BY <1>1, <1>3

LEMMA ArpFailsKeeps ==
    ASSUME SweepInv, SweepAssumption, NEW i \in Ifaces, NEW n \in Nets, ArpFails(i, n)
    PROVE  Rested
<1>1. /\ job.pc = "arp" /\ held' = held
      /\ ArpGoesOn([job EXCEPT !.todo = @ \ {<<i, n>>}, !.failed = TRUE])
  BY DEF ArpFails
<1>2. [job EXCEPT !.todo = @ \ {<<i, n>>}, !.failed = TRUE] = Swept(<<i, n>>, {}, TRUE)
  BY DEF SweepInv, Staged, Planned, Jobs, Swept
<1>3. Staged(Swept(<<i, n>>, {}, TRUE)) /\ Swept(<<i, n>>, {}, TRUE).pc = job.pc
  BY FailedIsStaged
<1> QED BY <1>1, <1>2, <1>3, ArpGoesOnIsStaged DEF Rested

LEMMA ArpMissingKeeps ==
    ASSUME SweepInv, SweepAssumption, ArpMissing
    PROVE  Rested
<1> DEFINE k == [job EXCEPT !.todo = {}, !.rows = {}, !.failed = TRUE]
<1>1. Staged(job) /\ job \in Jobs
  BY DEF SweepInv, Staged, Planned
<1>2. AfterArp(k) /\ held' = held
  BY DEF ArpMissing
<1>3. /\ k \in Jobs /\ k.pc = job.pc /\ k.todo = {} /\ k.rows = {} /\ k.found = job.found
      /\ k.mode = job.mode /\ k.target = job.target /\ k.scope = job.scope /\ k.ip = job.ip
  BY <1>1 DEF Jobs
<1> HIDE DEF k
<1>4. Staged(k)
  BY <1>1, <1>3 DEF Staged, Planned, Confined, SameSearch, TrueAt
<1> QED BY <1>2, <1>4, AfterArpIsStaged DEF Rested

LEMMA PassiveDumpKeeps ==
    ASSUME SweepInv, SweepAssumption, PassiveDump
    PROVE  Rested
<1>1. Staged(job) /\ job \in Jobs /\ Fresh(job) /\ job.scope = Null /\ held' = held
  BY DEF SweepInv, Staged, Planned, PassiveDump
<1>2. ASSUME NEW heard \in SUBSET StrayRows(Default), AfterArp([job EXCEPT !.rows = heard])
      PROVE  Rested
  <2> DEFINE k == [job EXCEPT !.rows = heard]
  <2>1. \A r \in heard : r \in Rows /\ <<r.mac, r.ip>> \in held
    BY StrayRowsHeld DEF SweepAssumption
  <2>2. /\ k \in Jobs /\ k.pc = job.pc /\ k.todo = {} /\ k.rows = heard /\ k.found = Null
        /\ k.mode = job.mode /\ k.target = job.target /\ k.scope = Null
        /\ job.scope = Null /\ k.ip = job.ip
    BY <1>1, <2>1 DEF Jobs, Fresh
  <2>3. AfterArp(k)
    BY <1>2
  <2> HIDE DEF k
  <2>4. Staged(k)
    BY <2>1, <2>2 DEF Staged, Planned, Confined, Within, SameSearch, TrueAt
  <2> QED BY <1>1, <2>3, <2>4, AfterArpIsStaged DEF Rested
<1>3. ASSUME AfterArp([job EXCEPT !.failed = TRUE])
      PROVE  Rested
  <2> DEFINE k == [job EXCEPT !.failed = TRUE]
  <2>1. /\ k \in Jobs /\ k.pc = job.pc /\ k.todo = job.todo /\ k.rows = job.rows
        /\ k.found = job.found /\ k.mode = job.mode /\ k.target = job.target
        /\ k.scope = job.scope /\ k.ip = job.ip
    BY <1>1 DEF Jobs
  <2>2. AfterArp(k)
    BY <1>3
  <2> HIDE DEF k
  <2>3. Staged(k)
    BY <1>1, <2>1 DEF Staged, Planned, Confined, SameSearch, TrueAt
  <2> QED BY <1>1, <2>2, <2>3, AfterArpIsStaged DEF Rested
<1> QED BY <1>2, <1>3 DEF PassiveDump

LEMMA ScapyGoesOnIsStaged ==
    ASSUME NEW j, Staged(j), j.pc = "scapy", ScapyGoesOn(j), held \subseteq held'
    PROVE  Rested
<1>1. CASE j.todo = {}
  BY <1>1, DoneIsStaged, TakenIsStaged DEF ScapyGoesOn, Rested
<1>2. CASE j.todo # {}
  BY <1>2, TakenIsStaged DEF ScapyGoesOn, Rested
<1> QED BY <1>1, <1>2

LEMMA ScapyFailsKeeps ==
    ASSUME SweepInv, NEW n \in Nets, ScapyFails(n)
    PROVE  Rested
<1>1. /\ job.pc = "scapy" /\ held' = held
      /\ ScapyGoesOn([job EXCEPT !.todo = @ \ {<<Null, n>>}])
  BY DEF ScapyFails
<1>2. job \in Jobs /\ job.failed \in BOOLEAN
  BY DEF SweepInv, Staged, Planned, Jobs
<1>3. [job EXCEPT !.todo = @ \ {<<Null, n>>}] = Swept(<<Null, n>>, {}, job.failed)
  BY <1>2 DEF Jobs, Swept
<1>4. /\ Staged(Swept(<<Null, n>>, {}, job.failed))
      /\ Swept(<<Null, n>>, {}, job.failed).pc = job.pc
  BY <1>2, FailedIsStaged
<1> QED BY <1>1, <1>3, <1>4, ScapyGoesOnIsStaged

LEMMA ScapyMissingKeeps ==
    ASSUME SweepInv, ScapyMissing
    PROVE  Rested
<1> DEFINE k == [job EXCEPT !.rows = {}, !.found = Null, !.failed = TRUE]
<1>1. Staged(job) /\ job \in Jobs
  BY DEF SweepInv, Staged, Planned
<1>2. job' = Done(k) /\ held' = held
  BY DEF ScapyMissing
<1>3. /\ k \in Jobs /\ k.pc = job.pc /\ k.todo = job.todo /\ k.rows = {} /\ k.found = Null
      /\ k.mode = job.mode /\ k.target = job.target /\ k.scope = job.scope /\ k.ip = job.ip
  BY <1>1 DEF Jobs, Optional
<1> HIDE DEF k
<1>4. Staged(k)
  BY <1>1, <1>3 DEF Staged, Planned, Confined, SameSearch, TrueAt
<1> QED BY <1>2, <1>4, DoneIsStaged, TakenIsStaged DEF Rested

(* A step of scapy: the target is found, if it is there and not missed.    *)
LEMMA ScapySweepStage ==
    ASSUME SweepInv, SweepAssumption, NEW n \in Nets, ScapySweep(n)
    PROVE  \E j : /\ Staged(j) /\ j.pc = "scapy" /\ ScapyGoesOn(j)
                  /\ j.mode = job.mode /\ j.todo = job.todo \ {<<Null, n>>}
                  /\ job.found # Null => j.found # Null
                  /\ TargetIn(n) /\ "scapy" \notin lost' /\ job.mode # "validate"
                        => j.found # Null
<1> DEFINE egress == IF GetLocalInterface(n) = Null THEN Default ELSE GetLocalInterface(n)
           left == [job EXCEPT !.todo = @ \ {<<Null, n>>}]
           answers == IF L3Only(n, Null) THEN L3Rows(n) ELSE BroadcastRows(egress, n)
<1>0. PICK heard \in SUBSET answers :
         /\ \E ip \in Match(heard) :
               ScapyGoesOn([left EXCEPT !.rows = @ \cup heard,
                              !.found = IF @ = Null /\ job.mode # "validate" THEN ip ELSE @])
         /\ Missed("scapy", n, heard)
  BY Zenon DEF ScapySweep
<1>1. PICK ip \in Match(heard) :
         ScapyGoesOn([left EXCEPT !.rows = @ \cup heard,
                        !.found = IF @ = Null /\ job.mode # "validate" THEN ip ELSE @])
  BY <1>0
<1>2. job.pc = "scapy" /\ <<Null, n>> \in job.todo
  BY DEF ScapySweep
<1>3. job \in Jobs /\ job.failed \in BOOLEAN /\ job.target # Null
  BY DEF SweepInv, Staged, Planned, Jobs, SweepAssumption
<1>4. \A r \in heard : r \in Rows /\ r.ip \in Addr[n]
  <2>1. CASE L3Only(n, Null)
    BY <2>1, ProbedRows
  <2>2. CASE ~ L3Only(n, Null)
    <3>1. egress \in Ifaces
      BY DEF GetLocalInterface, SweepAssumption, Optional
    <3> QED BY <2>2, <3>1, BroadcastRowsType
  <2> QED BY <2>1, <2>2
<1>5. Routed /\ job.ip => \A r \in heard : r.mac # Null => <<r.mac, r.ip>> \in held
  <2>1. CASE L3Only(n, Null)
    BY <2>1, ProbedRows
  <2>2. ASSUME Routed, job.ip, ~ L3Only(n, Null)
        PROVE  \A r \in heard : <<r.mac, r.ip>> \in held
    <3>1. BroadcastRows(egress, n) \subseteq DevicesIn({n})
      <4>1. CASE Route[n] = Null
        BY <2>2, <4>1 DEF Routed, GetLocalInterface, BroadcastRows
      <4>2. CASE Route[n] # Null
        BY <2>2, <4>2 DEF L3Only, ClassifySubnet, IsTunnelInterface, GetLocalInterface,
                          BroadcastRows
      <4> QED BY <4>1, <4>2
    <3> QED BY <2>2, <3>1, HeldInNetwork
  <2> QED BY <2>1, <2>2
<1>6. \A r \in heard : r \in Rows /\ InScope(r.ip)
  BY <1>2, <1>4, LeftInScope
<1>7. heard \subseteq Rows
  BY <1>4
<1> DEFINE k   == Swept(<<Null, n>>, heard, job.failed)
           hit == IF job.found = Null /\ job.mode # "validate" THEN ip ELSE job.found
<1>8. [left EXCEPT !.rows = @ \cup heard,
          !.found = IF @ = Null /\ job.mode # "validate" THEN ip ELSE @]
        = [k EXCEPT !.found = hit]
  BY <1>3 DEF Jobs, Swept
<1>9. /\ Staged(k) /\ k.pc = job.pc /\ k.rows = job.rows \cup heard /\ k.found = job.found
  BY <1>3, <1>5, <1>6, SweptIsStaged
<1>10. /\ k \in Jobs /\ [k EXCEPT !.found = hit].pc = k.pc
       /\ [k EXCEPT !.found = hit].found = hit /\ [k EXCEPT !.found = hit].mode = k.mode
       /\ [k EXCEPT !.found = hit].todo = k.todo
       /\ k.mode = job.mode /\ k.todo = job.todo \ {<<Null, n>>}
  BY <1>3, <1>9 DEF Staged, Planned, Jobs, SameSearch, Swept
<1> HIDE DEF k
<1>11. Staged([k EXCEPT !.found = hit])
  <2>1. CASE hit = job.found
    BY <1>9, <1>10, <2>1 DEF Jobs
  <2>2. CASE hit # job.found
    <3>1. hit = ip /\ ip \in Optional(IPs)
      BY <1>7, <2>2, MatchFound
    <3>2. ip # Null => InScope(ip)
      BY <1>7, MatchFound
    <3>3. ip # Null => \E r \in heard : r.mac = job.target /\ r.ip = ip
      BY <1>7, MatchFound
    <3>4. ip # Null => \E r \in k.rows : r.mac = job.target /\ r.ip = ip
      BY <1>9, <3>3
    <3> QED BY <1>3, <1>9, <3>1, <3>2, <3>4, FoundIsStaged
  <2> QED BY <2>1, <2>2
<1>12. ASSUME TargetIn(n), "scapy" \notin lost'
       PROVE  ip # Null
  <2>1. PICK r \in heard : r.mac = job.target
    BY <1>0, <1>12, HeardUnlessMissed
  <2>2. InScope(r.ip)
    BY <1>6, <2>1
  <2> QED BY <1>7, <2>1, <2>2, MatchFound
<1>13. ScapyGoesOn([k EXCEPT !.found = hit])
  BY <1>1, <1>8
<1> DEFINE j == [k EXCEPT !.found = hit]
<1>14. /\ Staged(j) /\ j.pc = "scapy" /\ ScapyGoesOn(j)
       /\ j.mode = job.mode /\ j.todo = job.todo \ {<<Null, n>>}
       /\ job.found # Null => j.found # Null
       /\ TargetIn(n) /\ "scapy" \notin lost' /\ job.mode # "validate" => j.found # Null
  BY <1>2, <1>9, <1>10, <1>11, <1>12, <1>13
<1> QED BY <1>14

LEMMA ScapySweepKeeps ==
    ASSUME SweepInv, SweepAssumption, NEW n \in Nets, ScapySweep(n)
    PROVE  Rested
<1>1. held' = held
  BY DEF ScapySweep
<1> QED BY <1>1, ScapySweepStage, ScapyGoesOnIsStaged

LEMMA NmapGoesOnIsStaged ==
    ASSUME SweepAssumption, NEW j, Staged(j), j.pc = "nmap", NmapGoesOn(j), held \subseteq held'
    PROVE  Rested
<1>1. j \in Jobs /\ job.target = j.target
  BY DEF Staged, Planned, SameSearch
<1>2. j.rows \subseteq Rows /\ job.target # Null
  BY <1>1 DEF Jobs, SweepAssumption
<1>3. PICK ip \in Match(j.rows) :
         job' = IF j.todo # {} THEN j ELSE Done([j EXCEPT !.found = ip])
  BY DEF NmapGoesOn
<1>4. ip \in Optional(IPs)
  BY <1>2, MatchFound
<1>5. ip # Null => InScope(ip)
  BY <1>2, MatchFound
<1>6. ip # Null => \E r \in j.rows : r.mac = job.target /\ r.ip = ip
  BY <1>2, MatchFound
<1>7. CASE j.todo # {}
  BY <1>3, <1>7, TakenIsStaged DEF Rested
<1>8. CASE j.todo = {}
  <2>1. Staged([j EXCEPT !.found = ip])
    BY <1>2, <1>4, <1>5, <1>6, FoundIsStaged
  <2> QED BY <1>3, <1>8, <2>1, DoneIsStaged, TakenIsStaged DEF Rested
<1> QED BY <1>7, <1>8

(* A step of nmap: its row of the target is kept, if that was not missed.  *)
LEMMA NmapSweepStage ==
    ASSUME SweepInv, SweepAssumption, NEW n \in Nets, NmapSweep(n)
    PROVE  \E heard :
              /\ Staged(Swept(<<Null, n>>, heard, job.failed))
              /\ NmapGoesOn(Swept(<<Null, n>>, heard, job.failed))
              /\ TargetIn(n) /\ "nmap" \notin lost' =>
                    \E r \in heard : r.mac = job.target /\ InScope(r.ip)
<1>1. PICK heard \in SUBSET NmapRows(n) :
         /\ NmapGoesOn([job EXCEPT !.todo = @ \ {<<Null, n>>}, !.rows = @ \cup heard])
         /\ Missed("nmap", n, heard)
  BY DEF NmapSweep
<1>2. job.pc = "nmap" /\ <<Null, n>> \in job.todo
  BY DEF NmapSweep
<1>3. job \in Jobs /\ job.failed \in BOOLEAN
  BY DEF SweepInv, Staged, Planned, Jobs
<1> DEFINE k == Swept(<<Null, n>>, heard, job.failed)
<1>4. [job EXCEPT !.todo = @ \ {<<Null, n>>}, !.rows = @ \cup heard] = k
  BY <1>3 DEF Jobs, Swept
<1>5. /\ \A r \in heard : r \in Rows /\ InScope(r.ip)
      /\ Routed /\ job.ip => \A r \in heard : r.mac # Null => <<r.mac, r.ip>> \in held
  BY <1>2, NmapRowsHeld, LeftInScope
<1>6. Staged(k)
  BY <1>3, <1>5, SweptIsStaged
<1>7. TargetIn(n) /\ "nmap" \notin lost' =>
         \E r \in heard : r.mac = job.target /\ InScope(r.ip)
  BY <1>1, <1>5, HeardUnlessMissed
<1> HIDE DEF k
<1>8. NmapGoesOn(k)
  BY <1>1, <1>4
<1> QED BY <1>6, <1>7, <1>8 DEF k

LEMMA NmapSweepKeeps ==
    ASSUME SweepInv, SweepAssumption, NEW n \in Nets, NmapSweep(n)
    PROVE  Rested
<1>1. PICK heard : /\ Staged(Swept(<<Null, n>>, heard, job.failed))
                   /\ NmapGoesOn(Swept(<<Null, n>>, heard, job.failed))
  BY NmapSweepStage
<1>2. job \in Jobs /\ job.pc = "nmap" /\ held' = held
  BY DEF SweepInv, Staged, Planned, NmapSweep
<1>3. Swept(<<Null, n>>, heard, job.failed).pc = "nmap"
  BY <1>2 DEF Jobs, Swept
<1> QED BY <1>1, <1>2, <1>3, NmapGoesOnIsStaged

LEMMA NmapFailsKeeps ==
    ASSUME SweepInv, SweepAssumption, NEW n \in Nets, NmapFails(n)
    PROVE  Rested
<1>1. /\ job.pc = "nmap" /\ held' = held
      /\ NmapGoesOn([job EXCEPT !.todo = @ \ {<<Null, n>>}, !.failed = TRUE])
  BY DEF NmapFails
<1>2. [job EXCEPT !.todo = @ \ {<<Null, n>>}, !.failed = TRUE] = Swept(<<Null, n>>, {}, TRUE)
  BY DEF SweepInv, Staged, Planned, Jobs, Swept
<1>3. Staged(Swept(<<Null, n>>, {}, TRUE)) /\ Swept(<<Null, n>>, {}, TRUE).pc = job.pc
  BY FailedIsStaged
<1> QED BY <1>1, <1>2, <1>3, NmapGoesOnIsStaged

LEMMA ArpPlanIsScoped ==
    ASSUME SweepInv, SweepAssumption
    PROVE  /\ ArpPlan \subseteq Ifaces \X Nets
           /\ \A s \in ArpPlan : job.scope = Null \/ s[2] \in job.scope
<1> DEFINE nets == IF job.scope # Null THEN job.scope
                   ELSE IF DefaultNets # {} THEN DefaultNets ELSE {Primary}
<1>1. job.scope \in Scopes
  BY DEF SweepInv, Staged, Planned, Jobs
<1>2. nets \subseteq Nets /\ (job.scope # Null => nets = job.scope)
  BY <1>1 DEF SweepAssumption, Optional, DefaultNets
<1>3. ArpPlan = PlanSweeps(nets)
  BY DEF ArpPlan
<1> HIDE DEF nets
<1>4. \A n \in Nets : Discovered(n) \in Optional(Ifaces) /\ GetLocalInterface(n) \in Optional(Ifaces)
  BY DEF SweepAssumption, Discovered, GetLocalInterface, Optional
<1> DEFINE Iface(n) == IF Discovered(n) # Null THEN Discovered(n) ELSE GetLocalInterface(n)
<1>5. \A n \in Nets : Iface(n) # Null => Iface(n) \in Ifaces
  BY <1>4 DEF Optional
<1>6. PlanSweeps(nets) = {<<Iface(n), n>> : n \in {k \in nets \ TooSmall : Iface(k) # Null}}
  BY DEF PlanSweeps
<1> HIDE DEF Iface
<1>7. ASSUME NEW s \in PlanSweeps(nets)
      PROVE  s \in Ifaces \X Nets /\ s[2] \in nets
  <2>1. PICK n \in {k \in nets \ TooSmall : Iface(k) # Null} : s = <<Iface(n), n>>
    BY <1>6, Zenon
  <2>2. n \in nets /\ n \in Nets /\ Iface(n) \in Ifaces
    BY <1>2, <1>5, <2>1
  <2> QED BY <2>1, <2>2
<1> QED BY <1>2, <1>3, <1>7

LEMMA StartKeeps ==
    ASSUME SweepInv, SweepAssumption, Start
    PROVE  Rested
<1>1. /\ Staged(job) /\ job \in Jobs /\ Fresh(job) /\ held = Holding(where)
      /\ job.pc = "idle" /\ held' = Holding(where) /\ job.scope \in Scopes
  BY DEF SweepInv, Staged, Planned, Start, Jobs
<1>2. CASE job' = ToScapy(job)
  BY <1>1, <1>2, ToScapyIsStaged, TakenIsStaged DEF Rested
<1>3. CASE job' = Done(job)
  BY <1>1, <1>3, DoneIsStaged, TakenIsStaged DEF Rested
<1>4. ASSUME NEW todo, NEW pc \in {"nmap", "arp", "passive"},
             todo \subseteq (IF pc = "arp" THEN Ifaces ELSE {Null}) \X Nets,
             \A s \in todo : job.scope = Null \/ s[2] \in job.scope,
             pc = "passive" => todo = {} /\ job.scope = Null,
             job' = [job EXCEPT !.pc = pc, !.todo = todo]
      PROVE  Rested
  <2> DEFINE k == [job EXCEPT !.pc = pc, !.todo = todo]
  <2>1. todo \subseteq Optional(Ifaces) \X Nets
    BY <1>4 DEF Optional
  <2>2. /\ k \in Jobs /\ k.pc = pc /\ k.todo = todo /\ k.rows = {} /\ k.found = Null
        /\ k.mode = job.mode /\ k.target = job.target /\ k.scope = job.scope /\ k.ip = job.ip
    BY <1>1, <2>1 DEF Jobs, Pcs, Fresh
  <2>3. job' = k
    BY <1>4
  <2> HIDE DEF k
  <2>4. Staged(k)
    BY <1>4, <2>2 DEF Staged, Planned, Confined, SameSearch, TrueAt
  <2>5. Staged(job)' /\ SameSearch(job')
    BY <1>1, <2>3, <2>4, TakenIsStaged
  <2>6. job'.pc = pc /\ (pc = "passive" => Fresh(job)' /\ job'.scope = Null)
    BY <1>4, <2>2, <2>3 DEF Fresh
  <2> QED BY <2>5, <2>6 DEF Rested
<1>5. CASE job.mode = "nmap"
  <2> DEFINE nets == IF job.scope = Null THEN DefaultNets ELSE job.scope
             todo == {<<Null, n>> : n \in nets}
  <2>1. nets \subseteq Nets
    BY <1>1 DEF DefaultNets, SweepAssumption, Optional
  <2>2. /\ todo \subseteq {Null} \X Nets
        /\ \A s \in todo : job.scope = Null \/ s[2] \in job.scope
    BY <2>1
  <2>3. job' = Done(job) \/ job' = [job EXCEPT !.pc = "nmap", !.todo = todo]
    BY <1>5, Zenon DEF Start
  <2> HIDE DEF todo
  <2>4. job' = [job EXCEPT !.pc = "nmap", !.todo = todo] => Rested
    BY <1>4, <2>2
  <2> QED BY <1>3, <2>3, <2>4
<1>6. CASE job.mode = "scapy"
  BY <1>2, <1>6 DEF Start
<1>7. CASE job.mode \notin {"scapy", "nmap"}
  <2>1. \/ job' = [job EXCEPT !.pc = "arp", !.todo = ArpPlan]
        \/ job' = [job EXCEPT !.pc = "passive"] /\ job.scope = Null
        \/ AfterArp([job EXCEPT !.failed = TRUE])
    BY <1>7, Zenon DEF Start
  <2>2. ASSUME job' = [job EXCEPT !.pc = "arp", !.todo = ArpPlan]
        PROVE  Rested
    BY <1>4, <2>2, ArpPlanIsScoped
  <2>3. ASSUME job' = [job EXCEPT !.pc = "passive"], job.scope = Null
        PROVE  Rested
    <3>1. [job EXCEPT !.pc = "passive"] = [job EXCEPT !.pc = "passive", !.todo = {}]
      BY <1>1 DEF Jobs, Fresh
    <3> QED BY <1>4, <2>3, <3>1
  <2>4. ASSUME AfterArp([job EXCEPT !.failed = TRUE])
        PROVE  Rested
    <3> DEFINE k == [job EXCEPT !.failed = TRUE]
    <3>1. /\ k \in Jobs /\ k.pc = job.pc /\ k.todo = {} /\ k.rows = {} /\ k.found = Null
          /\ k.mode = job.mode /\ k.target = job.target /\ k.scope = job.scope
          /\ k.ip = job.ip
      BY <1>1 DEF Jobs, Fresh
    <3>2. AfterArp(k)
      BY <2>4
    <3> HIDE DEF k
    <3>3. Staged(k)
      BY <3>1 DEF Staged, Planned, Confined, SameSearch, TrueAt
    <3> QED BY <1>1, <3>2, <3>3, AfterArpIsStaged DEF Rested
  <2> QED BY <2>1, <2>2, <2>3, <2>4
<1> QED BY <1>5, <1>6, <1>7

LEMMA MoveKeeps ==
    ASSUME SweepInv, SweepAssumption, NEW d \in Macs, NEW to \in Optional(IPs), Move(d, to)
    PROVE  SweepInv'
<1>1. /\ job' = job /\ lost' = lost /\ moves < MaxMoves /\ moves' = moves + 1
      /\ where' = [where EXCEPT ![d] = to] /\ held' = held \cup Holding(where')
      /\ job.pc # "idle"
  BY DEF Move
<1>2. where' \in [Macs -> Optional(IPs)]
  BY <1>1 DEF SweepInv
<1>3. moves' \in 0..MaxMoves
  <2>1. MaxMoves \in Nat /\ moves \in 0..MaxMoves
    BY DEF SweepInv, SweepAssumption
  <2> QED BY <1>1, <2>1
<1>4. Holding(where') \subseteq Macs \X IPs
  BY <1>2 DEF Holding, Optional
<1>5. Staged(job)'
  BY <1>1, TakenIsStaged DEF SweepInv
<1>6. Holding(where)' = Holding(where')
  BY DEF Holding
<1> QED BY <1>1, <1>2, <1>3, <1>4, <1>5, <1>6 DEF SweepInv, Fresh

LEMMA StepKeeps ==
    ASSUME SweepInv, SweepAssumption, SweepStep
    PROVE  Rested
<1>1. ASSUME NEW i \in Ifaces, NEW n \in Nets, ArpSweep(i, n) \/ ArpFails(i, n)
      PROVE  Rested
  BY <1>1, ArpSweepKeeps, ArpFailsKeeps
<1>2. ASSUME NEW n \in Nets, ScapySweep(n) \/ ScapyFails(n) \/ NmapSweep(n) \/ NmapFails(n)
      PROVE  Rested
  BY <1>2, ScapySweepKeeps, ScapyFailsKeeps, NmapSweepKeeps, NmapFailsKeeps
<1>3. ASSUME Start \/ ArpMissing \/ PassiveDump \/ ScapyMissing
      PROVE  Rested
  BY <1>3, StartKeeps, ArpMissingKeeps, PassiveDumpKeeps, ScapyMissingKeeps
<1> QED BY <1>1, <1>2, <1>3 DEF SweepStep

LEMMA SweepInvStep ==
    ASSUME SweepInv, SweepAssumption, [SweepNext]_sweepVars
    PROVE  SweepInv'
<1>1. ASSUME SweepStep
      PROVE  SweepInv'
  <2>1. Rested
    BY <1>1, StepKeeps
  <2>2. where' = where /\ moves' = moves
    BY <1>1 DEF SweepStep, ArpSweep, ArpFails, ScapySweep, ScapyFails, NmapSweep, NmapFails,
                Start, ArpMissing, PassiveDump, ScapyMissing
  <2>3. held' = held
    BY <1>1 DEF SweepStep, ArpSweep, ArpFails, ScapySweep, ScapyFails, NmapSweep, NmapFails,
                Start, ArpMissing, PassiveDump, ScapyMissing, SweepInv
  <2>4. lost' \subseteq lost \cup {"arp", "arp failed", "scapy", "nmap"}
    BY <1>1 DEF SweepStep, ArpSweep, ArpFails, ScapySweep, ScapyFails, NmapSweep, NmapFails,
                Start, ArpMissing, PassiveDump, ScapyMissing, Missed
  <2> QED BY <2>1, <2>2, <2>3, <2>4 DEF SweepInv, Rested, Holding
<1>2. ASSUME NEW d \in Macs, NEW to \in Optional(IPs), Move(d, to)
      PROVE  SweepInv'
  BY <1>2, MoveKeeps
<1>3. CASE UNCHANGED sweepVars
  <2>1. /\ where' = where /\ moves' = moves /\ job' = job /\ held' = held /\ lost' = lost
        /\ Holding(where)' = Holding(where)
    BY <1>3 DEF sweepVars, Holding
  <2>2. Staged(job)'
    BY <2>1, TakenIsStaged DEF SweepInv
  <2> QED BY <2>1, <2>2 DEF SweepInv, Fresh
<1> QED BY <1>1, <1>2, <1>3 DEF SweepNext

LEMMA SweepInvInit ==
    ASSUME SweepInit, SweepAssumption
    PROVE  SweepInv
<1>1. PICK mode \in Modes, target \in Macs, scope \in Scopes, ip \in BOOLEAN :
         job = [pc |-> "idle", mode |-> mode, target |-> target, scope |-> scope, ip |-> ip,
                todo |-> {}, rows |-> {}, found |-> Null, failed |-> FALSE]
  BY Zenon DEF SweepInit
<1>2. /\ job \in Jobs /\ job.pc = "idle" /\ Fresh(job)
  BY <1>1 DEF Jobs, Pcs, Fresh, Optional
<1>3. Staged(job)
  BY <1>2 DEF Staged, Planned, Confined, SameSearch, TrueAt, Fresh
<1>4. /\ where \in [Macs -> Optional(IPs)] /\ moves = 0 /\ held = Holding(where) /\ lost = {}
  BY DEF SweepInit
<1>5. Holding(where) \subseteq Macs \X IPs
  BY <1>4 DEF Holding, Optional
<1>6. moves \in 0..MaxMoves
  BY <1>4 DEF SweepAssumption
<1> QED BY <1>2, <1>3, <1>4, <1>5, <1>6 DEF SweepInv

LEMMA SweepInvHolds == SweepSpec => []SweepInv
<1>1. SweepInit => SweepInv
  BY SweepInvInit, SweepAssumption
<1>2. SweepInv /\ [SweepNext]_sweepVars => SweepInv'
  BY SweepInvStep, SweepAssumption
<1> QED BY <1>1, <1>2, PTL DEF SweepSpec

-----------------------------------------------------------------------------
(* Whatever falls away from the plan, no network is put before a tool that *)
(* was not asked for.                                                      *)
AskedFor == \A s \in job.todo : job.scope = Null \/ s[2] \in job.scope

(* A search and what it has collected is always of its type, and the tool  *)
(* in use only has networks before it that the search was asked for, those *)
(* of arp-scan with an interface each.                                     *)
THEOREM SweepTypeHolds == SweepSpec => [](SweepTypeOK /\ AskedFor)
<1>1. SweepInv => SweepTypeOK /\ AskedFor
  BY DEF SweepInv, SweepTypeOK, AskedFor, Staged, Planned, Jobs, Pcs
<1> QED BY <1>1, SweepInvHolds, PTL

(* Whatever tool is used, whatever fails and whoever answers: no host of a *)
(* network that was not asked for is collected, and the target is never    *)
(* found on one.                                                           *)
THEOREM NothingLeaksHolds == SweepSpec => []NothingLeaks
<1>1. SweepInv => NothingLeaks
  BY WithinScope DEF SweepInv, NothingLeaks, Staged, Confined
<1> QED BY <1>1, SweepInvHolds, PTL

(* On a machine with a default route, a MAC is only reported where its     *)
(* device was during the search: a gateway or a tunnel's peer that answers *)
(* for others never lends its MAC to their addresses.                      *)
THEOREM RowsAreTrueHolds ==
    ASSUME Routed
    PROVE  SweepSpec => []RowsAreTrue
<1>1. SweepInv => RowsAreTrue
  BY Routed DEF SweepInv, RowsAreTrue, Staged, TrueAt
<1> QED BY <1>1, SweepInvHolds, PTL

-----------------------------------------------------------------------------
(* A device that stays.  While nothing has moved, its network n is either  *)
(* still before the tool, or the target is in what was collected, or the   *)
(* tool has missed it: lost, or an arp-scan that has failed.               *)

ArpModes == {"find", "validate", "arp-scan"}

ModesOK ==
    /\ job.pc \in {"arp", "passive"} => job.mode \in ArpModes
    /\ job.pc = "scapy" => job.mode \in {"find", "validate", "scapy"}
    /\ job.pc = "nmap" => job.mode = "nmap"

Local(n) == /\ job.scope # Null /\ n \in job.scope \ TooSmall
            /\ TargetIn(n) /\ ClassifySubnet(n, Null) = "broadcast"

Named(j) == \E r \in j.rows : r.mac = j.target /\ Within(j.scope, r.ip)

ScapyAwaits(j, n) ==
    /\ j.pc = "scapy" => <<Null, n>> \in j.todo \/ j.found # Null
    /\ j.pc = "done" => j.found # Null

ArpAwaits(j, n) ==
    /\ j.pc = "arp" => Named(j) \/ \E i \in Ifaces : <<i, n>> \in j.todo
    /\ j.pc = "done" => j.found # Null

NmapAwaits(j, n) ==
    /\ j.pc = "nmap" => <<Null, n>> \in j.todo \/ Named(j)
    /\ j.pc = "done" => j.found # Null

Awaits(j, missed, n) ==
    /\ j.mode \in {"find", "scapy"} /\ "scapy" \notin missed => ScapyAwaits(j, n)
    /\ j.mode = "arp-scan" /\ "arp" \notin missed /\ ~ j.failed => ArpAwaits(j, n)
    /\ j.mode = "nmap" /\ missed = {} => NmapAwaits(j, n)

StableInv ==
    /\ ModesOK
    /\ moves = 0 => /\ held = Holding(where)
                    /\ \A n \in Nets : Local(n) => Awaits(job, lost, n)

(* The record that ends a search or hands it on.                           *)
LEMMA AfterArpOutcome ==
    ASSUME SweepAssumption, NEW j, Staged(j), AfterArp(j), j.mode \in ArpModes
    PROVE  /\ job'.pc \in {"done", "scapy"} /\ job'.mode = j.mode
           /\ job'.pc = "done" =>
                 /\ j.mode = "find" => job'.found # Null
                 /\ j.mode = "arp-scan" =>
                       job'.failed = j.failed /\ (~ j.failed /\ Named(j) => job'.found # Null)
           /\ job'.pc = "scapy" =>
                 /\ j.mode # "arp-scan"
                 /\ job.scope # Null => \A n \in job.scope : <<Null, n>> \in job'.todo
<1>1. j \in Jobs /\ job.target = j.target /\ job.scope = j.scope
  BY DEF Staged, Planned, SameSearch
<1>2. j.rows \subseteq Rows /\ job.target # Null
  BY <1>1 DEF Jobs, SweepAssumption
<1>3. PICK ip \in IF j.failed THEN {Null} ELSE Match(j.rows) :
        CASE j.mode = "find" /\ ip # Null -> job' = Done([j EXCEPT !.found = ip])
          [] j.mode = "arp-scan"          -> job' = Done([j EXCEPT !.found = ip])
          [] j.mode = "validate" /\ (j.rows # {} \/ ~ j.failed) -> job' = Done(j)
          [] OTHER                        -> job' = ToScapy(j)
  BY Zenon DEF AfterArp
<1>4. Done([j EXCEPT !.found = ip]).found = ip /\ Done([j EXCEPT !.found = ip]).pc = "done"
      /\ Done([j EXCEPT !.found = ip]).failed = j.failed
      /\ Done([j EXCEPT !.found = ip]).mode = j.mode
  BY <1>1 DEF Done, Jobs
<1>5. Done(j).pc = "done" /\ Done(j).mode = j.mode
  BY <1>1 DEF Done, Jobs
<1>6. ToScapy(j).pc = "scapy" /\ ToScapy(j).mode = j.mode
  BY <1>1 DEF ToScapy, Jobs
<1>7. job.scope # Null => \A n \in job.scope : <<Null, n>> \in ToScapy(j).todo
  BY ToScapyIsStaged
<1>8. ~ j.failed /\ Named(j) => ip # Null
  <2>1. SUFFICES ASSUME ~ j.failed, Named(j), ip = Null PROVE FALSE
    OBVIOUS
  <2>2. ip \in Match(j.rows)
    BY <1>3, <2>1
  <2>3. \A r \in j.rows : r.mac = job.target => ~ InScope(r.ip)
    BY <1>2, <2>1, <2>2, MatchFound
  <2> QED BY <1>1, <2>1, <2>3, WithinScope DEF Named
<1>9. CASE j.mode = "find" /\ ip # Null
  BY <1>3, <1>4, <1>9
<1>10. CASE j.mode = "find" /\ ip = Null
  <2>1. job' = ToScapy(j)
    BY <1>3, <1>10
  <2> QED BY <1>6, <1>7, <1>10, <2>1
<1>11. CASE j.mode = "arp-scan"
  <2>1. job' = Done([j EXCEPT !.found = ip])
    BY <1>3, <1>11
  <2> QED BY <1>4, <1>8, <1>11, <2>1
<1>12. CASE j.mode = "validate"
  <2>1. job' = Done(j) \/ job' = ToScapy(j)
    BY <1>3, <1>12
  <2> QED BY <1>5, <1>6, <1>7, <1>12, <2>1
<1> QED BY <1>9, <1>10, <1>11, <1>12 DEF ArpModes

(* What is still to be swept, or collected, after a step of arp-scan.      *)
LEMMA AfterArpAwaits ==
    ASSUME SweepAssumption, NEW j, Staged(j), j.mode \in ArpModes, AfterArp(j), NEW n, NEW missed,
           job.scope # Null, n \in job.scope,
           j.mode = "arp-scan" /\ "arp" \notin missed /\ ~ j.failed => Named(j)
    PROVE  Awaits(job', missed, n)
BY AfterArpOutcome DEF Awaits, ArpModes, ScapyAwaits, ArpAwaits

LEMMA ArpGoesOnAwaits ==
    ASSUME SweepAssumption, NEW j, Staged(j), j.mode \in ArpModes, j.pc = "arp", ArpGoesOn(j),
           NEW n, NEW missed, job.scope # Null, n \in job.scope,
           j.mode = "arp-scan" /\ "arp" \notin missed /\ ~ j.failed =>
              Named(j) \/ \E i \in Ifaces : <<i, n>> \in j.todo
    PROVE  Awaits(job', missed, n)
<1>1. CASE j.todo = {}
  BY <1>1, AfterArpAwaits DEF ArpGoesOn
<1>2. CASE j.todo # {}
  BY <1>2 DEF ArpGoesOn, Awaits, ArpModes, ScapyAwaits, ArpAwaits
<1> QED BY <1>1, <1>2

LEMMA ArpGoesOnModes ==
    ASSUME SweepAssumption, NEW j, Staged(j), j.mode \in ArpModes, j.pc = "arp", ArpGoesOn(j)
    PROVE  ModesOK'
<1>1. CASE j.todo = {}
  BY <1>1, AfterArpOutcome DEF ArpGoesOn, ArpModes, ModesOK
<1>2. CASE j.todo # {}
  BY <1>2 DEF ArpGoesOn, ArpModes, ModesOK
<1> QED BY <1>1, <1>2

Onward == /\ ModesOK'
          /\ \A n \in Nets : Local(n) /\ Awaits(job, lost, n) => Awaits(job', lost', n)

LEMMA ArpSweepOnward ==
    ASSUME SweepInv, SweepAssumption, ModesOK, NEW i \in Ifaces, NEW m \in Nets, ArpSweep(i, m)
    PROVE  Onward
<1>1. PICK kept, failed :
         /\ Staged(Swept(<<i, m>>, kept, failed)) /\ ArpGoesOn(Swept(<<i, m>>, kept, failed))
         /\ job.failed => failed
         /\ failed \in BOOLEAN
         /\ TargetIn(m) /\ "arp" \notin lost' =>
               \E r \in kept : r.mac = job.target /\ InScope(r.ip)
  BY ArpSweepStage
<1>2. job \in Jobs /\ job.pc = "arp" /\ job.mode \in ArpModes /\ lost \subseteq lost'
  BY DEF SweepInv, Staged, Planned, ArpSweep, ModesOK, Missed
<1> DEFINE j == Swept(<<i, m>>, kept, failed)
<1>3. /\ j.pc = "arp" /\ j.mode = job.mode /\ j.todo = job.todo \ {<<i, m>>}
      /\ j.rows = job.rows \cup kept /\ j.failed = failed /\ j.target = job.target
      /\ j.scope = job.scope
  BY <1>2 DEF Jobs, Swept
<1>4. Staged(j) /\ ArpGoesOn(j)
  BY <1>1
<1> HIDE DEF j
<1>5. ModesOK'
  BY <1>2, <1>3, <1>4, ArpGoesOnModes
<1>6. ASSUME NEW n \in Nets, Local(n), Awaits(job, lost, n)
      PROVE  Awaits(job', lost', n)
  <2>1. ASSUME j.mode = "arp-scan", "arp" \notin lost', ~ j.failed
        PROVE  Named(j) \/ \E h \in Ifaces : <<h, n>> \in j.todo
    <3>1. Named(job) \/ \E h \in Ifaces : <<h, n>> \in job.todo
      BY <1>1, <1>2, <1>3, <1>6, <2>1 DEF Awaits, ArpAwaits
    <3>2. Named(job) => Named(j)
      BY <1>3 DEF Named
    <3>3. ASSUME NEW h \in Ifaces, <<h, n>> \in job.todo
          PROVE  Named(j) \/ <<h, n>> \in j.todo
      <4>1. CASE h = i /\ n = m
        BY <1>1, <1>3, <1>6, <2>1, <4>1, WithinScope DEF Local, Named
      <4>2. CASE ~ (h = i /\ n = m)
        BY <1>3, <3>3, <4>2
      <4> QED BY <4>1, <4>2
    <3> QED BY <3>1, <3>2, <3>3
  <2>2. job.scope # Null /\ n \in job.scope
    BY <1>6 DEF Local
  <2> QED BY <1>2, <1>3, <1>4, <2>1, <2>2, ArpGoesOnAwaits
<1> QED BY <1>5, <1>6 DEF Onward

LEMMA ArpFailsOnward ==
    ASSUME SweepInv, SweepAssumption, ModesOK, NEW i \in Ifaces, NEW m \in Nets, ArpFails(i, m)
    PROVE  Onward
<1> DEFINE j == Swept(<<i, m>>, {}, TRUE)
<1>1. /\ job \in Jobs /\ job.pc = "arp" /\ job.mode \in ArpModes
      /\ ArpGoesOn([job EXCEPT !.todo = @ \ {<<i, m>>}, !.failed = TRUE])
  BY DEF SweepInv, Staged, Planned, ArpFails, ModesOK
<1>2. [job EXCEPT !.todo = @ \ {<<i, m>>}, !.failed = TRUE] = j
  BY <1>1 DEF Jobs, Swept
<1>3. j.pc = "arp" /\ j.mode = job.mode /\ j.failed = TRUE
  BY <1>1 DEF Jobs, Swept
<1>4. Staged(j)
  BY FailedIsStaged
<1>5. ArpGoesOn(j)
  BY <1>1, <1>2
<1> HIDE DEF j
<1>6. ModesOK'
  BY <1>1, <1>3, <1>4, <1>5, ArpGoesOnModes
<1>7. ASSUME NEW n \in Nets, Local(n)
      PROVE  Awaits(job', lost', n)
  <2>1. job.scope # Null /\ n \in job.scope
    BY <1>7 DEF Local
  <2> QED BY <1>1, <1>3, <1>4, <1>5, <2>1, ArpGoesOnAwaits
<1> QED BY <1>6, <1>7 DEF Onward

(* A search that leaves arp-scan with an error.                            *)
LEMMA ArpFailedOnward ==
    ASSUME SweepAssumption, NEW j, Staged(j), AfterArp(j), j.mode \in ArpModes,
           job.scope # Null => j.failed
    PROVE  Onward
<1>1. ModesOK'
  BY AfterArpOutcome DEF ArpModes, ModesOK
<1>2. ASSUME NEW n \in Nets, Local(n)
      PROVE  Awaits(job', lost', n)
  <2>1. job.scope # Null /\ n \in job.scope /\ j.failed
    BY <1>2 DEF Local
  <2> QED BY <2>1, AfterArpAwaits
<1> QED BY <1>1, <1>2 DEF Onward

LEMMA ArpMissingOnward ==
    ASSUME SweepInv, SweepAssumption, ModesOK, ArpMissing
    PROVE  Onward
<1> DEFINE k == [job EXCEPT !.todo = {}, !.rows = {}, !.failed = TRUE]
<1>1. Staged(job) /\ job \in Jobs
  BY DEF SweepInv, Staged, Planned
<1>2. AfterArp(k) /\ job.mode \in ArpModes
  BY DEF ArpMissing, ModesOK
<1>3. /\ k \in Jobs /\ k.pc = job.pc /\ k.todo = {} /\ k.rows = {} /\ k.found = job.found
      /\ k.mode = job.mode /\ k.target = job.target /\ k.scope = job.scope /\ k.ip = job.ip
      /\ k.failed = TRUE
  BY <1>1 DEF Jobs
<1> HIDE DEF k
<1>4. Staged(k)
  BY <1>1, <1>3 DEF Staged, Planned, Confined, SameSearch, TrueAt
<1> QED BY <1>2, <1>3, <1>4, ArpFailedOnward

LEMMA PassiveDumpOnward ==
    ASSUME SweepInv, SweepAssumption, ModesOK, PassiveDump
    PROVE  Onward
<1>1. /\ Staged(job) /\ job \in Jobs /\ Fresh(job) /\ job.scope = Null
      /\ job.mode \in ArpModes
  BY DEF SweepInv, Staged, Planned, PassiveDump, ModesOK
<1>2. ASSUME NEW heard, \A r \in heard : r \in Rows /\ <<r.mac, r.ip>> \in held,
             NEW k, k \in Jobs, k.pc = job.pc, k.todo = {}, k.rows = heard, k.found = Null,
             k.mode = job.mode, k.target = job.target, k.scope = job.scope, k.ip = job.ip,
             AfterArp(k)
      PROVE  Onward
  <2>1. Staged(k)
    BY <1>1, <1>2 DEF Staged, Planned, Confined, Within, SameSearch, TrueAt
  <2> QED BY <1>1, <1>2, <2>1, ArpFailedOnward
<1>3. ASSUME NEW heard \in SUBSET StrayRows(Default), AfterArp([job EXCEPT !.rows = heard])
      PROVE  Onward
  <2> DEFINE k == [job EXCEPT !.rows = heard]
  <2>1. \A r \in heard : r \in Rows /\ <<r.mac, r.ip>> \in held
    BY StrayRowsHeld DEF SweepAssumption
  <2>2. /\ k \in Jobs /\ k.pc = job.pc /\ k.todo = {} /\ k.rows = heard /\ k.found = Null
        /\ k.mode = job.mode /\ k.target = job.target /\ k.scope = job.scope /\ k.ip = job.ip
    BY <1>1, <2>1 DEF Jobs, Fresh
  <2>3. AfterArp(k)
    BY <1>3
  <2> HIDE DEF k
  <2> QED BY <1>2, <2>1, <2>2, <2>3
<1>4. ASSUME AfterArp([job EXCEPT !.failed = TRUE])
      PROVE  Onward
  <2> DEFINE k == [job EXCEPT !.failed = TRUE]
  <2>1. /\ k \in Jobs /\ k.pc = job.pc /\ k.todo = {} /\ k.rows = {} /\ k.found = Null
        /\ k.mode = job.mode /\ k.target = job.target /\ k.scope = job.scope /\ k.ip = job.ip
    BY <1>1 DEF Jobs, Fresh
  <2>2. AfterArp(k)
    BY <1>4
  <2> HIDE DEF k
  <2> QED BY <1>2, <2>1, <2>2
<1> QED BY <1>3, <1>4 DEF PassiveDump

LEMMA ScapyGoesOnOnward ==
    ASSUME NEW j, Staged(j), j.pc = "scapy", ScapyGoesOn(j), ModesOK, job.pc = "scapy",
           j.mode = job.mode, NEW m, j.todo = job.todo \ {<<Null, m>>}, lost \subseteq lost',
           job.found # Null => j.found # Null,
           TargetIn(m) /\ "scapy" \notin lost' /\ job.mode # "validate" => j.found # Null
    PROVE  Onward
<1>1. j \in Jobs
  BY DEF Staged, Planned
<1>2. Done(j).pc = "done" /\ Done(j).mode = j.mode /\ Done(j).found = j.found
  BY <1>1 DEF Done, Jobs
<1>3. \/ job' = j
      \/ job'.pc = "done" /\ job'.mode = j.mode /\ job'.found = j.found /\ j.todo = {}
  BY <1>2 DEF ScapyGoesOn
<1>4. ModesOK'
  BY <1>3 DEF ModesOK
<1>5. ASSUME NEW n \in Nets, Local(n), Awaits(job, lost, n)
      PROVE  Awaits(job', lost', n)
  <2>1. ASSUME j.mode \in {"find", "scapy"}, "scapy" \notin lost'
        PROVE  <<Null, n>> \in j.todo \/ j.found # Null
    <3>1. <<Null, n>> \in job.todo \/ job.found # Null
      BY <1>5, <2>1 DEF Awaits, ScapyAwaits
    <3>2. CASE n = m
      BY <1>5, <2>1, <3>2 DEF Local
    <3>3. CASE n # m
      BY <3>1, <3>3
    <3> QED BY <3>2, <3>3
  <2>2. j.mode \in {"find", "validate", "scapy"}
    BY DEF ModesOK
  <2> QED BY <1>3, <2>1, <2>2 DEF Awaits, ScapyAwaits
<1> QED BY <1>4, <1>5 DEF Onward

LEMMA ScapySweepOnward ==
    ASSUME SweepInv, SweepAssumption, ModesOK, NEW m \in Nets, ScapySweep(m)
    PROVE  Onward
<1>1. job.pc = "scapy" /\ lost \subseteq lost'
  BY DEF ScapySweep, Missed
<1> QED BY <1>1, ScapySweepStage, ScapyGoesOnOnward

LEMMA ScapyFailsOnward ==
    ASSUME SweepInv, SweepAssumption, ModesOK, NEW m \in Nets, ScapyFails(m)
    PROVE  Onward
<1> DEFINE j == Swept(<<Null, m>>, {}, job.failed)
<1>1. /\ job.pc = "scapy" /\ lost \subseteq lost'
      /\ ScapyGoesOn([job EXCEPT !.todo = @ \ {<<Null, m>>}]) /\ Missed("scapy", m, {})
  BY DEF ScapyFails, Missed
<1>2. job \in Jobs /\ job.failed \in BOOLEAN
  BY DEF SweepInv, Staged, Planned, Jobs
<1>3. [job EXCEPT !.todo = @ \ {<<Null, m>>}] = j
  BY <1>2 DEF Jobs, Swept
<1>4. /\ j.pc = job.pc /\ j.mode = job.mode /\ j.todo = job.todo \ {<<Null, m>>}
      /\ j.found = job.found
  BY <1>2 DEF Jobs, Swept
<1>5. Staged(j)
  BY <1>2, FailedIsStaged
<1>6. ~ (TargetIn(m) /\ "scapy" \notin lost')
  BY <1>1, HeardUnlessMissed
<1>7. ScapyGoesOn(j)
  BY <1>1, <1>3
<1> HIDE DEF j
<1> QED BY <1>1, <1>4, <1>5, <1>6, <1>7, ScapyGoesOnOnward

LEMMA ScapyMissingOnward ==
    ASSUME SweepInv, ModesOK, ScapyMissing
    PROVE  Onward
<1> DEFINE k == Done([job EXCEPT !.rows = {}, !.found = Null, !.failed = TRUE])
<1>1. job \in Jobs /\ job.mode \in {"find", "validate", "scapy"}
  BY DEF SweepInv, Staged, Planned, ScapyMissing, ModesOK
<1>2. job' = k /\ "scapy" \in lost'
  BY DEF ScapyMissing
<1>3. k.pc = "done" /\ k.mode = job.mode
  BY <1>1 DEF Done, Jobs
<1> HIDE DEF k
<1>4. ModesOK'
  BY <1>2, <1>3 DEF ModesOK
<1>5. \A n : Awaits(job', lost', n)
  BY <1>1, <1>2, <1>3 DEF Awaits
<1> QED BY <1>4, <1>5 DEF Onward

LEMMA NmapGoesOnOnward ==
    ASSUME SweepAssumption, NEW j, Staged(j), j.pc = "nmap", NmapGoesOn(j), j.mode = "nmap",
           \A n \in Nets : Local(n) /\ Awaits(job, lost, n) /\ lost' = {} =>
                             <<Null, n>> \in j.todo \/ Named(j)
    PROVE  Onward
<1>1. j \in Jobs /\ job.target = j.target /\ job.scope = j.scope
  BY DEF Staged, Planned, SameSearch
<1>2. j.rows \subseteq Rows
  BY <1>1 DEF Jobs
<1>3. PICK ip \in Match(j.rows) :
         job' = IF j.todo # {} THEN j ELSE Done([j EXCEPT !.found = ip])
  BY DEF NmapGoesOn
<1>4. Named(j) => ip # Null
  <2>1. SUFFICES ASSUME Named(j), ip = Null PROVE FALSE
    OBVIOUS
  <2>2. \A r \in j.rows : r.mac = job.target => ~ InScope(r.ip)
    BY <1>2, <1>3, <2>1, MatchFound
  <2> QED BY <1>1, <2>1, <2>2, WithinScope DEF Named
<1>5. /\ Done([j EXCEPT !.found = ip]).found = ip /\ Done([j EXCEPT !.found = ip]).pc = "done"
      /\ Done([j EXCEPT !.found = ip]).mode = j.mode
  BY <1>1 DEF Done, Jobs
<1>6. \/ job' = j
      \/ job'.pc = "done" /\ job'.mode = "nmap" /\ job'.found = ip /\ j.todo = {}
  BY <1>3, <1>5
<1>7. ModesOK'
  BY <1>6 DEF ModesOK
<1>8. ASSUME NEW n \in Nets, Local(n), Awaits(job, lost, n)
      PROVE  Awaits(job', lost', n)
  BY <1>4, <1>6, <1>8 DEF Awaits, NmapAwaits
<1> QED BY <1>7, <1>8 DEF Onward

LEMMA NmapSweepOnward ==
    ASSUME SweepInv, SweepAssumption, ModesOK, NEW m \in Nets, NmapSweep(m)
    PROVE  Onward
<1>1. PICK heard :
         /\ Staged(Swept(<<Null, m>>, heard, job.failed))
         /\ NmapGoesOn(Swept(<<Null, m>>, heard, job.failed))
         /\ TargetIn(m) /\ "nmap" \notin lost' =>
               \E r \in heard : r.mac = job.target /\ InScope(r.ip)
  BY NmapSweepStage
<1>2. job \in Jobs /\ job.pc = "nmap" /\ job.mode = "nmap" /\ lost \subseteq lost'
  BY DEF SweepInv, Staged, Planned, NmapSweep, ModesOK, Missed
<1> DEFINE j == Swept(<<Null, m>>, heard, job.failed)
<1>3. /\ j.pc = "nmap" /\ j.mode = "nmap" /\ j.todo = job.todo \ {<<Null, m>>}
      /\ j.rows = job.rows \cup heard /\ j.target = job.target /\ j.scope = job.scope
  BY <1>2 DEF Jobs, Swept
<1>4. Staged(j) /\ NmapGoesOn(j)
  BY <1>1
<1> HIDE DEF j
<1>5. ASSUME NEW n \in Nets, Local(n), Awaits(job, lost, n), lost' = {}
      PROVE  <<Null, n>> \in j.todo \/ Named(j)
  <2>1. <<Null, n>> \in job.todo \/ Named(job)
    BY <1>2, <1>5 DEF Awaits, NmapAwaits
  <2>2. CASE n = m
    BY <1>1, <1>3, <1>5, <2>2, WithinScope DEF Local, Named
  <2>3. CASE n # m
    BY <1>3, <2>1, <2>3 DEF Named
  <2> QED BY <2>2, <2>3
<1> QED BY <1>3, <1>4, <1>5, NmapGoesOnOnward

LEMMA NmapFailsOnward ==
    ASSUME SweepInv, SweepAssumption, ModesOK, NEW m \in Nets, NmapFails(m)
    PROVE  Onward
<1> DEFINE j == Swept(<<Null, m>>, {}, TRUE)
<1>1. /\ job \in Jobs /\ job.pc = "nmap" /\ job.mode = "nmap" /\ lost \subseteq lost'
      /\ NmapGoesOn([job EXCEPT !.todo = @ \ {<<Null, m>>}, !.failed = TRUE])
      /\ Missed("nmap", m, {})
  BY DEF SweepInv, Staged, Planned, NmapFails, ModesOK, Missed
<1>2. [job EXCEPT !.todo = @ \ {<<Null, m>>}, !.failed = TRUE] = j
  BY <1>1 DEF Jobs, Swept
<1>3. /\ j.pc = "nmap" /\ j.mode = "nmap" /\ j.todo = job.todo \ {<<Null, m>>}
      /\ j.target = job.target /\ j.scope = job.scope
  BY <1>1 DEF Jobs, Swept
<1>4. Staged(j) /\ j.rows = job.rows
  BY FailedIsStaged
<1>5. NmapGoesOn(j)
  BY <1>1, <1>2
<1> HIDE DEF j
<1>6. ASSUME NEW n \in Nets, Local(n), Awaits(job, lost, n), lost' = {}
      PROVE  <<Null, n>> \in j.todo \/ Named(j)
  <2>1. <<Null, n>> \in job.todo \/ Named(job)
    BY <1>1, <1>6 DEF Awaits, NmapAwaits
  <2>2. CASE n = m
    BY <1>1, <1>6, <2>2, HeardUnlessMissed DEF Local
  <2>3. CASE n # m
    BY <1>3, <1>4, <2>1, <2>3 DEF Named
  <2> QED BY <2>2, <2>3
<1> QED BY <1>3, <1>4, <1>5, <1>6, NmapGoesOnOnward

LEMMA LocalIsPlanned ==
    ASSUME SweepInv, SweepAssumption, NEW n \in Nets, Local(n)
    PROVE  /\ \E i \in Ifaces : <<i, n>> \in ArpPlan
           /\ job.scope # Null /\ job.scope \subseteq Nets /\ n \in job.scope
<1>1. job.scope # Null /\ n \in job.scope \ TooSmall /\ job.scope \in Scopes
  BY DEF Local, SweepInv, Staged, Planned, Jobs
<1>2. job.scope \subseteq Nets
  BY <1>1 DEF SweepAssumption, Optional
<1>3. GetLocalInterface(n) # Null
  BY DEF Local, ClassifySubnet, IsTunnelInterface
<1> DEFINE Iface(k) == IF Discovered(k) # Null THEN Discovered(k) ELSE GetLocalInterface(k)
<1>4. Iface(n) \in Ifaces
  BY <1>3 DEF SweepAssumption, Discovered, GetLocalInterface, Optional
<1>5. Iface(n) # Null
  BY <1>3
<1>6. ArpPlan = {<<Iface(k), k>> : k \in {m \in job.scope \ TooSmall : Iface(m) # Null}}
  BY <1>1, Zenon DEF ArpPlan, PlanSweeps
<1> HIDE DEF Iface
<1>7. <<Iface(n), n>> \in ArpPlan
  BY <1>1, <1>5, <1>6
<1> QED BY <1>1, <1>2, <1>4, <1>7

LEMMA StartOnward ==
    ASSUME SweepInv, SweepAssumption, ModesOK, Start
    PROVE  Onward
<1>1. /\ Staged(job) /\ job \in Jobs /\ Fresh(job) /\ job.pc = "idle" /\ lost' = lost
      /\ job.mode \in Modes
  BY DEF SweepInv, Staged, Planned, Start, Jobs
<1>2. CASE job.mode = "scapy"
  <2>1. job' = ToScapy(job)
    BY <1>2 DEF Start
  <2>2. /\ job'.pc = "scapy" /\ job'.mode = "scapy"
        /\ job.scope # Null => \A n \in job.scope : <<Null, n>> \in job'.todo
    <3>1. ToScapy(job).pc = "scapy" /\ ToScapy(job).mode = "scapy"
      BY <1>1, <1>2 DEF ToScapy, Jobs
    <3> QED BY <1>1, <2>1, <3>1, ToScapyIsStaged
  <2> QED BY <2>2 DEF Onward, ModesOK, Awaits, ScapyAwaits, Local
<1>3. CASE job.mode = "nmap"
  <2> DEFINE nets == IF job.scope = Null THEN DefaultNets ELSE job.scope
             todo == {<<Null, n>> : n \in nets}
             k    == [job EXCEPT !.pc = "nmap", !.todo = todo]
  <2>1. job' = IF nets = {} THEN Done(job) ELSE k
    BY <1>3, Zenon DEF Start
  <2>2. Done(job).pc = "done" /\ Done(job).mode = "nmap"
    BY <1>1, <1>3 DEF Done, Jobs
  <2>3. k.pc = "nmap" /\ k.mode = "nmap" /\ k.todo = todo
    BY <1>1, <1>3 DEF Jobs
  <2>4. \A n \in nets : <<Null, n>> \in todo
    OBVIOUS
  <2>5. \A n : Local(n) => n \in nets
    BY DEF Local
  <2> HIDE DEF k, todo, nets
  <2>6. ModesOK'
    BY <2>1, <2>2, <2>3 DEF ModesOK
  <2>7. ASSUME NEW n \in Nets, Local(n)
        PROVE  Awaits(job', lost', n)
    <3>1. job'.pc = "nmap" /\ job'.mode = "nmap" /\ <<Null, n>> \in job'.todo
      BY <2>1, <2>3, <2>4, <2>5, <2>7
    <3> QED BY <3>1 DEF Awaits, NmapAwaits
  <2> QED BY <2>6, <2>7 DEF Onward
<1>4. CASE job.mode \in ArpModes
  <2>1. \/ ArpPlan # {} /\ job' = [job EXCEPT !.pc = "arp", !.todo = ArpPlan]
        \/ job' = [job EXCEPT !.pc = "passive"] /\ job.scope = Null
        \/ AfterArp([job EXCEPT !.failed = TRUE])
    BY <1>4, Zenon DEF Start, ArpModes
  <2>2. ASSUME job' = [job EXCEPT !.pc = "arp", !.todo = ArpPlan]
        PROVE  Onward
    <3>1. job'.pc = "arp" /\ job'.mode = job.mode /\ job'.todo = ArpPlan
      BY <1>1, <2>2 DEF Jobs
    <3>2. ModesOK'
      BY <1>4, <3>1 DEF ModesOK
    <3>3. ASSUME NEW n \in Nets, Local(n)
          PROVE  Awaits(job', lost', n)
      <4>1. \E i \in Ifaces : <<i, n>> \in job'.todo
        BY <3>1, <3>3, LocalIsPlanned
      <4> QED BY <1>4, <3>1, <4>1 DEF Awaits, ArpModes, ScapyAwaits, ArpAwaits
    <3> QED BY <3>2, <3>3 DEF Onward
  <2>3. ASSUME job' = [job EXCEPT !.pc = "passive"], job.scope = Null
        PROVE  Onward
    <3>1. job'.pc = "passive" /\ job'.mode = job.mode
      BY <1>1, <2>3 DEF Jobs
    <3> QED BY <1>4, <2>3, <3>1 DEF Onward, ModesOK, Local
  <2>4. ASSUME AfterArp([job EXCEPT !.failed = TRUE])
        PROVE  Onward
    <3> DEFINE k == [job EXCEPT !.failed = TRUE]
    <3>1. /\ k \in Jobs /\ k.pc = job.pc /\ k.todo = {} /\ k.rows = {} /\ k.found = Null
          /\ k.mode = job.mode /\ k.target = job.target /\ k.scope = job.scope
          /\ k.ip = job.ip /\ k.failed = TRUE
      BY <1>1 DEF Jobs, Fresh
    <3>2. AfterArp(k)
      BY <2>4
    <3> HIDE DEF k
    <3>3. Staged(k)
      BY <1>1, <3>1 DEF Staged, Planned, Confined, SameSearch, TrueAt
    <3> QED BY <1>4, <3>1, <3>2, <3>3, ArpFailedOnward
  <2> QED BY <2>1, <2>2, <2>3, <2>4
<1> QED BY <1>1, <1>2, <1>3, <1>4 DEF Modes, ArpModes

LEMMA StepOnward ==
    ASSUME SweepInv, SweepAssumption, ModesOK, SweepStep
    PROVE  Onward
<1>1. ASSUME NEW i \in Ifaces, NEW n \in Nets, ArpSweep(i, n) \/ ArpFails(i, n)
      PROVE  Onward
  BY <1>1, ArpSweepOnward, ArpFailsOnward
<1>2. ASSUME NEW n \in Nets, ScapySweep(n) \/ ScapyFails(n) \/ NmapSweep(n) \/ NmapFails(n)
      PROVE  Onward
  BY <1>2, ScapySweepOnward, ScapyFailsOnward, NmapSweepOnward, NmapFailsOnward
<1>3. ASSUME Start \/ ArpMissing \/ PassiveDump \/ ScapyMissing
      PROVE  Onward
  BY <1>3, StartOnward, ArpMissingOnward, PassiveDumpOnward, ScapyMissingOnward
<1> QED BY <1>1, <1>2, <1>3 DEF SweepStep

LEMMA StableInvStep ==
    ASSUME SweepInv, SweepAssumption, StableInv, [SweepNext]_sweepVars
    PROVE  StableInv'
<1>1. ASSUME SweepStep
      PROVE  StableInv'
  <2>1. Onward /\ Rested
    BY <1>1, StepOnward, StepKeeps DEF StableInv
  <2>2. where' = where /\ moves' = moves
    BY <1>1 DEF SweepStep, ArpSweep, ArpFails, ScapySweep, ScapyFails, NmapSweep, NmapFails,
                Start, ArpMissing, PassiveDump, ScapyMissing
  <2>3. held' = held
    BY <1>1 DEF SweepStep, ArpSweep, ArpFails, ScapySweep, ScapyFails, NmapSweep, NmapFails,
                Start, ArpMissing, PassiveDump, ScapyMissing, SweepInv
  <2>4. Holding(where)' = Holding(where)
    BY <2>2 DEF Holding
  <2>5. \A n \in Nets : Local(n)' => Local(n)
    BY <2>1, <2>2 DEF Rested, SameSearch, Local, TargetIn, ClassifySubnet, IsTunnelInterface,
                      GetLocalInterface
  <2>6. \A n \in Nets : Awaits(job, lost, n)' <=> Awaits(job', lost', n)
    BY DEF Awaits, ScapyAwaits, ArpAwaits, NmapAwaits, Named
  <2> QED BY <2>1, <2>2, <2>3, <2>4, <2>5, <2>6 DEF StableInv, Onward
<1>2. ASSUME NEW d \in Macs, NEW to \in Optional(IPs), Move(d, to)
      PROVE  StableInv'
  <2>1. job' = job /\ moves' = moves + 1 /\ moves \in 0..MaxMoves
    BY <1>2 DEF Move, SweepInv
  <2>2. moves' # 0
    BY <2>1
  <2> QED BY <2>1, <2>2 DEF StableInv, ModesOK
<1>3. CASE UNCHANGED sweepVars
  <2>1. where' = where /\ moves' = moves /\ job' = job /\ held' = held /\ lost' = lost
    BY <1>3 DEF sweepVars
  <2>2. Holding(where)' = Holding(where)
    BY <2>1 DEF Holding
  <2>3. \A n \in Nets : Local(n)' => Local(n)
    BY <2>1 DEF Local, TargetIn, ClassifySubnet, IsTunnelInterface, GetLocalInterface
  <2>4. \A n \in Nets : Awaits(job, lost, n)' <=> Awaits(job, lost, n)
    BY <2>1 DEF Awaits, ScapyAwaits, ArpAwaits, NmapAwaits, Named
  <2> QED BY <2>1, <2>2, <2>3, <2>4 DEF StableInv, ModesOK
<1> QED BY <1>1, <1>2, <1>3 DEF SweepNext

LEMMA StableInvHolds == SweepSpec => []StableInv
<1>1. SweepInit => StableInv
  <2>1. SUFFICES ASSUME SweepInit PROVE StableInv
    OBVIOUS
  <2>2. job.pc = "idle" /\ held = Holding(where)
    BY <2>1 DEF SweepInit
  <2> QED BY <2>2 DEF StableInv, ModesOK, Awaits, ScapyAwaits, ArpAwaits, NmapAwaits
<1>2. SweepInv /\ StableInv /\ [SweepNext]_sweepVars => StableInv'
  BY StableInvStep, SweepAssumption
<1> QED BY <1>1, <1>2, SweepInvHolds, PTL DEF SweepSpec

(* On a machine with a default route: a device that stays on a local       *)
(* network that was asked for is found by every search whose tool has not  *)
(* missed it, whatever fails elsewhere and however many networks there are.*)
THEOREM StableIsFoundHolds ==
    ASSUME Routed
    PROVE  SweepSpec => []StableIsFound
<1>1. SweepInv /\ StableInv => StableIsFound
  <2>1. SUFFICES
          ASSUME SweepInv, StableInv,
                 job.pc = "done", job.mode # "validate", job.scope # Null, moves = 0,
                 NEW n \in job.scope \ TooSmall,
                 TargetIn(n), ClassifySubnet(n, Null) = "broadcast",
                 job.mode \in {"find", "scapy"} => "scapy" \notin lost,
                 job.mode = "arp-scan" => "arp" \notin lost /\ ~ job.failed,
                 job.mode = "nmap" => lost = {}
          PROVE  job.found = where[job.target]
    BY DEF StableIsFound
  <2>2. job \in Jobs /\ (job.ip => TrueAt(job, held))
    BY <2>1, Routed DEF SweepInv, Staged, Planned
  <2>3. n \in Nets /\ job.mode \in Modes /\ job.found \in Optional(IPs)
    <3>1. job.scope \in Scopes /\ job.mode \in Modes /\ job.found \in Optional(IPs)
      BY <2>2 DEF Jobs
    <3>2. job.scope \subseteq Nets
      BY <2>1, <3>1, SweepAssumption DEF SweepAssumption, Optional
    <3> QED BY <2>1, <3>1, <3>2
  <2>4. Local(n)
    BY <2>1 DEF Local
  <2>5. Awaits(job, lost, n)
    BY <2>1, <2>3, <2>4 DEF StableInv
  <2>6. job.found # Null
    BY <2>1, <2>3, <2>5 DEF Awaits, ScapyAwaits, ArpAwaits, NmapAwaits, Modes
  <2>7. job.ip
    BY <2>1, <2>2 DEF ClassifySubnet, GetLocalInterface, Jobs
  <2>8. <<job.target, job.found>> \in Holding(where)
    BY <2>1, <2>2, <2>6, <2>7 DEF TrueAt, StableInv
  <2> QED BY <2>8 DEF Holding
<1> QED BY <1>1, SweepInvHolds, StableInvHolds, PTL
=============================================================================
