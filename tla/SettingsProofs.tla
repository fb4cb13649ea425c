--------------------------- MODULE SettingsProofs ---------------------------
(***************************************************************************)
(* Proofs about the tables that the settings pages write and the monitor   *)
(* reads meanwhile: networks and pins, channels and rules.  With those      *)
(* about the hosts they give the type invariant of the service.            *)
(***************************************************************************)
EXTENDS HostAdminProofs

-----------------------------------------------------------------------------
(* Networks.                                                               *)

(* The id 0 means no row, and an id is never given again.                  *)
PinOK(p) ==
    /\ p.cidr \in Cidrs \cup {NoNet} /\ p.id \in 0..lastSubnet
    /\ p.cidr # NoNet => p.net = p.cidr /\ p.id = 0
    /\ p.id \in DOMAIN subnets => subnets[p.id].cidr = p.net

RowsOK ==
    /\ lastSubnet \in 0..MaxSubnets
    /\ DOMAIN subnets \subseteq 1..lastSubnet
    /\ \A i \in DOMAIN subnets :
          subnets[i] \in [cidr: Cidrs, on: BOOLEAN]
    /\ \A i, j \in DOMAIN subnets : subnets[i].cidr = subnets[j].cidr => i = j

Pins == [cidr: Cidrs \cup {NoNet}, id: 0..MaxSubnets, net: Cidrs \cup {NoNet}]

Recoveries == [pc: {"idle", "pin", "swept"} \cup Listing, pin: Pins,
               manual: SUBSET Cidrs, hidden: SUBSET Cidrs, scope: SUBSET Cidrs,
               byDefault: BOOLEAN]

ListsOK ==
    /\ attached \subseteq Cidrs /\ suppressed \subseteq Cidrs
    /\ edits \in [Edits -> [pc: {"new", "save"}, list: SUBSET Cidrs]]
    /\ pin \in Pins
    /\ recovery \in Recoveries

(* A step of the pages, or of the monitor.                                 *)
LEMMA SubnetRowsStep ==
    ASSUME RowsOK, ListsOK, [SubnetsNext]_subnetVars
    PROVE  RowsOK'
<1> USE SubnetsAssumption DEF RowsOK, ListsOK
<1>1. CASE AddSubnet
    <2>1. PICK cidr \in Cidrs, on \in BOOLEAN :
            /\ NewId <= MaxSubnets
            /\ \A i \in DOMAIN subnets : subnets[i].cidr # cidr
            /\ subnets' = [i \in DOMAIN subnets \cup {NewId} |->
                     IF i = NewId THEN [cidr |-> cidr, on |-> on] ELSE subnets[i]]
            /\ lastSubnet' = NewId
        BY <1>1 DEF AddSubnet
    <2> QED
        BY <2>1 DEF NewId
<1>2. CASE ToggleSubnet
    <2>1. PICK i \in DOMAIN subnets : subnets' = [subnets EXCEPT ![i].on = ~@]
        BY <1>2 DEF ToggleSubnet
    <2>2. DOMAIN subnets' = DOMAIN subnets
        BY <2>1
    <2>3. [subnets[i] EXCEPT !.on = ~@] \in [cidr: Cidrs, on: BOOLEAN]
          /\ [subnets[i] EXCEPT !.on = ~@].cidr = subnets[i].cidr
        OBVIOUS
    <2>4. \A j \in DOMAIN subnets :
            subnets'[j].cidr = subnets[j].cidr /\ subnets'[j] \in [cidr: Cidrs, on: BOOLEAN]
        BY <2>1, <2>3
    <2> QED
        BY <1>2, <2>2, <2>4 DEF ToggleSubnet
<1>3. CASE DeleteSubnet
    BY <1>3 DEF DeleteSubnet
<1>4. CASE UNCHANGED <<subnets, lastSubnet>>
    BY <1>4
<1> QED
    BY <1>1, <1>2, <1>3, <1>4
    DEF SubnetsNext, SubnetsStep, subnetVars, Pages, Tables, PinHost, Replug,
        ReadList, Save, SuppressSubnet, RescanSubnet, RescanAllSubnets,
        BeginRecovery, ResolvePin, ReadManual, ReadSuppressed, ReadAuto, SweepByDefault

LEMMA SubnetListsStep ==
    ASSUME RowsOK, ListsOK, [SubnetsNext]_subnetVars
    PROVE  ListsOK'
<1> USE SubnetsAssumption DEF RowsOK, ListsOK
<1>1. CASE AddSubnet \/ ToggleSubnet \/ DeleteSubnet
    BY <1>1 DEF AddSubnet, ToggleSubnet, DeleteSubnet, Pages
<1>2. CASE PinHost
    <2>1. NoPin \in Pins
        BY DEF NoPin, Pins
    <2>2. ASSUME NEW cidr \in Cidrs PROVE [cidr |-> cidr, id |-> 0, net |-> cidr] \in Pins
        BY DEF Pins
    <2>3. ASSUME NEW i \in DOMAIN subnets
          PROVE  [cidr |-> NoNet, id |-> i, net |-> subnets[i].cidr] \in Pins
        BY DEF Pins
    <2> QED
        BY <1>2, <2>1, <2>2, <2>3 DEF PinHost, Pages
<1>3. CASE Replug
    BY <1>3 DEF Replug
<1>4. ASSUME NEW r \in Edits, ReadList(r) PROVE ListsOK'
    BY <1>4 DEF ReadList, Pages
<1>5. ASSUME NEW r \in Edits,
             SuppressSubnet(r) \/ RescanSubnet(r) \/ RescanAllSubnets(r)
      PROVE  ListsOK'
    BY <1>5 DEF SuppressSubnet, RescanSubnet, RescanAllSubnets, Save, Pages
<1>6. CASE BeginRecovery
    <2>1. recovery' = [pc |-> "pin", pin |-> pin, manual |-> {}, hidden |-> {},
                       scope |-> {}, byDefault |-> FALSE]
        BY <1>6 DEF BeginRecovery, Idle
    <2>2. recovery' \in Recoveries
        BY <2>1 DEF Recoveries
    <2> QED
        BY <1>6, <2>2 DEF BeginRecovery, Tables
<1>7. ASSUME NEW cidrs \in SUBSET Cidrs, Sweeps(cidrs) PROVE recovery' \in Recoveries
    BY <1>7 DEF Sweeps, Recoveries
<1>8. CASE ResolvePin
    <2>1. recovery.pin.cidr # NoNet => recovery.pin.cidr \in Cidrs
        BY DEF Pins, Recoveries
    <2>2. recovery.pin.id \in DOMAIN subnets => subnets[recovery.pin.id].cidr \in Cidrs
        OBVIOUS
    <2>3. recovery' = [recovery EXCEPT !.pc = "manual"] => recovery' \in Recoveries
        BY DEF Recoveries, Listing
    <2>4. recovery' \in Recoveries
        BY <1>7, <1>8, <2>1, <2>2, <2>3 DEF ResolvePin
    <2> QED
        BY <1>8, <2>4 DEF ResolvePin, Tables
<1>9. CASE ReadManual \/ ReadSuppressed
    <2>1. Enabled \in SUBSET Cidrs
        BY DEF Enabled
    <2>2. recovery' \in Recoveries
        BY <1>9, <2>1 DEF ReadManual, ReadSuppressed, Recoveries, Listing
    <2> QED
        BY <1>9, <2>2 DEF ReadManual, ReadSuppressed, Tables
<1>10. CASE ReadAuto \/ SweepByDefault
    <2>1. recovery.manual \cup (attached \ recovery.hidden) \in SUBSET Cidrs
        BY DEF Recoveries
    <2>2. recovery' = [recovery EXCEPT !.pc = "default", !.hidden = {}]
            => recovery' \in Recoveries
        BY DEF Recoveries, Listing
    <2>3. recovery' \in Recoveries
        BY <1>7, <1>10, <2>1, <2>2 DEF ReadAuto, SweepsList, SweepByDefault
    <2> QED
        BY <1>10, <2>3 DEF ReadAuto, SweepByDefault, Tables
<1>11. CASE UNCHANGED subnetVars
    BY <1>11 DEF subnetVars
<1> QED
    BY <1>1, <1>2, <1>3, <1>4, <1>5, <1>6, <1>8, <1>9, <1>10, <1>11
    DEF SubnetsNext, SubnetsStep

(* The id of a row that is gone is never given again, and no edit changes  *)
(* the network of a row that stays.                                        *)
LEMMA RowsStayWhatTheyAre ==
    ASSUME RowsOK, ListsOK, [SubnetsNext]_subnetVars
    PROVE  /\ lastSubnet <= lastSubnet'
           /\ \A i \in 0..lastSubnet : i \in DOMAIN subnets' =>
                 i \in DOMAIN subnets /\ subnets'[i].cidr = subnets[i].cidr
<1> USE SubnetsAssumption DEF RowsOK
<1>1. CASE AddSubnet
    BY <1>1 DEF AddSubnet, NewId
<1>2. CASE ToggleSubnet
    <2>1. PICK i \in DOMAIN subnets : subnets' = [subnets EXCEPT ![i].on = ~@]
        BY <1>2 DEF ToggleSubnet
    <2>2. [subnets[i] EXCEPT !.on = ~@].cidr = subnets[i].cidr
        OBVIOUS
    <2> QED
        BY <1>2, <2>1, <2>2 DEF ToggleSubnet
<1>3. CASE DeleteSubnet
    BY <1>3 DEF DeleteSubnet
<1>4. CASE UNCHANGED <<subnets, lastSubnet>>
    BY <1>4
<1> QED
    BY <1>1, <1>2, <1>3, <1>4
    DEF SubnetsNext, SubnetsStep, subnetVars, Pages, Tables, PinHost, Replug,
        ReadList, Save, SuppressSubnet, RescanSubnet, RescanAllSubnets,
        BeginRecovery, ResolvePin, ReadManual, ReadSuppressed, ReadAuto, SweepByDefault

(* A recovery that goes on to the list has found its pin to name nothing.  *)
NothingPinned ==
    recovery.pc \in Listing =>
        recovery.pin.cidr = NoNet /\ recovery.pin.id \notin DOMAIN subnets

PinInv == RowsOK /\ ListsOK /\ PinOK(pin) /\ PinOK(recovery.pin) /\ NothingPinned

LEMMA PinInvInit == SubnetsInit => PinInv
<1> SUFFICES ASSUME SubnetsInit PROVE PinInv
    OBVIOUS
<1> USE SubnetsAssumption DEF SubnetsInit, NoPin, Idle
<1>1. DOMAIN subnets = {}
    OBVIOUS
<1>2. RowsOK
    BY <1>1 DEF RowsOK
<1>3. NoPin \in Pins
    BY DEF Pins
<1>4. ListsOK
    BY <1>3 DEF ListsOK, Recoveries
<1>5. PinOK(pin) /\ PinOK(recovery.pin)
    BY <1>1 DEF PinOK
<1> QED
    BY <1>2, <1>4, <1>5 DEF PinInv, NothingPinned, Listing

(* How far a recovery gets in a step, once its pin is read.                *)
LEMMA RecoverySteps ==
    ASSUME ListsOK, [SubnetsNext]_subnetVars
    PROVE  \/ BeginRecovery
           \/ ResolvePin
           \/ /\ recovery.pc \in Listing
              /\ recovery'.pc \in (Listing \ {"manual"}) \cup {"swept"}
              /\ recovery'.pin = recovery.pin /\ UNCHANGED <<subnets, lastSubnet, pin>>
           \/ UNCHANGED recovery
<1> USE DEF ListsOK, Recoveries, Listing
<1>1. CASE ReadManual \/ ReadSuppressed
    BY <1>1 DEF ReadManual, ReadSuppressed, Tables
<1>2. CASE ReadAuto
    BY <1>2 DEF ReadAuto, SweepsList, Sweeps, Tables
<1>3. CASE SweepByDefault
    BY <1>3 DEF SweepByDefault, Sweeps, Tables
<1> QED
    BY <1>1, <1>2, <1>3
    DEF SubnetsNext, SubnetsStep, subnetVars, Pages, AddSubnet, ToggleSubnet,
        DeleteSubnet, PinHost, Replug, ReadList, Save, SuppressSubnet, RescanSubnet,
        RescanAllSubnets

(* What ResolvePin does with the pin: it sweeps the network meant, or goes *)
(* on to the list because there is no pin, or no row for it.               *)
LEMMA PinIsResolved ==
    ASSUME PinInv, ResolvePin
    PROVE  /\ recovery'.pin = recovery.pin /\ UNCHANGED <<subnets, lastSubnet, pin>>
           /\ \/ /\ recovery'.pc = "swept" /\ ~Unpinned
                 /\ recovery'.scope = {recovery.pin.net}
              \/ /\ recovery'.pc = "manual"
                 /\ recovery.pin.cidr = NoNet /\ recovery.pin.id \notin DOMAIN subnets
<1> USE SubnetsAssumption DEF PinInv, ListsOK, Recoveries, PinOK, RowsOK
<1>0. ASSUME NEW cidrs, Sweeps(cidrs)
      PROVE  recovery'.pc = "swept" /\ recovery'.pin = recovery.pin /\ recovery'.scope = cidrs
    BY <1>0 DEF Sweeps
<1>1. CASE recovery.pin.cidr # NoNet
    BY <1>0, <1>1 DEF ResolvePin, Tables, Unpinned
<1>2. CASE recovery.pin.cidr = NoNet /\ recovery.pin.id \in DOMAIN subnets
    <2>1. ~Unpinned /\ subnets[recovery.pin.id].cidr = recovery.pin.net
        BY <1>2 DEF Unpinned
    <2>2. Sweeps({recovery.pin.net}) /\ UNCHANGED <<subnets, lastSubnet, pin>>
        BY <1>2, <2>1 DEF ResolvePin, Tables
    <2> QED
        BY <1>0, <2>1, <2>2
<1>3. CASE recovery.pin.cidr = NoNet /\ recovery.pin.id \notin DOMAIN subnets
    BY <1>3 DEF ResolvePin, Tables
<1> QED
    BY <1>1, <1>2, <1>3

(* A pin that names no row names none later: ids are not given again.      *)
LEMMA GonePinsStayGone ==
    ASSUME PinInv, [SubnetsNext]_subnetVars
    PROVE  \A p \in Pins :
             PinOK(p) => /\ p.cidr \in Cidrs \cup {NoNet} /\ p.id \in 0..lastSubnet'
                         /\ p.cidr # NoNet => p.net = p.cidr /\ p.id = 0
                         /\ p.id \in DOMAIN subnets' => subnets'[p.id].cidr = p.net
                         /\ p.id \notin DOMAIN subnets => p.id \notin DOMAIN subnets'
<1>1. RowsOK /\ ListsOK /\ RowsOK'
    BY SubnetRowsStep DEF PinInv
<1>2. /\ lastSubnet <= lastSubnet' /\ lastSubnet \in Nat /\ lastSubnet' \in Nat
      /\ \A i \in 0..lastSubnet : i \in DOMAIN subnets' =>
            i \in DOMAIN subnets /\ subnets'[i].cidr = subnets[i].cidr
    <2>1. lastSubnet \in Nat /\ lastSubnet' \in Nat
        BY <1>1, SubnetsAssumption DEF RowsOK
    <2> QED
        BY <1>1, <2>1, RowsStayWhatTheyAre
<1> QED
    BY <1>2 DEF PinOK

LEMMA PinInvStep == PinInv /\ [SubnetsNext]_subnetVars => PinInv'
<1> SUFFICES ASSUME PinInv, [SubnetsNext]_subnetVars PROVE PinInv'
    OBVIOUS
<1> USE SubnetsAssumption DEF PinInv
<1>1. RowsOK' /\ ListsOK'
    BY SubnetRowsStep, SubnetListsStep
<1>2. pin \in Pins /\ recovery.pin \in Pins
    BY DEF ListsOK, Recoveries
<1>3. CASE UNCHANGED recovery
    <2>1. PinOK(recovery.pin)' /\ NothingPinned'
        BY <1>2, <1>3, GonePinsStayGone DEF PinOK, NothingPinned
    <2>2. CASE UNCHANGED pin
        BY <1>1, <1>2, <2>1, <2>2, GonePinsStayGone DEF PinOK
    <2>3. CASE PinHost
        <3>1. UNCHANGED <<subnets, lastSubnet>>
            BY <2>3 DEF PinHost
        <3>2. PinOK(pin)'
            <4>1. CASE pin' = NoPin
                BY <3>1, <4>1 DEF PinOK, NoPin, RowsOK
            <4>2. ASSUME NEW cidr \in Cidrs, pin' = [cidr |-> cidr, id |-> 0, net |-> cidr]
                  PROVE  PinOK(pin)'
                BY <3>1, <4>2 DEF PinOK, RowsOK
            <4>3. ASSUME NEW i \in DOMAIN subnets,
                         pin' = [cidr |-> NoNet, id |-> i, net |-> subnets[i].cidr]
                  PROVE  PinOK(pin)'
                BY <3>1, <4>3 DEF PinOK, RowsOK
            <4> QED
                BY <2>3, <4>1, <4>2, <4>3 DEF PinHost
        <3> QED
            BY <1>1, <2>1, <3>2
    <2> QED
        BY <2>2, <2>3
        DEF SubnetsNext, SubnetsStep, subnetVars, Tables, AddSubnet, ToggleSubnet,
            DeleteSubnet, Replug, ReadList, Save, SuppressSubnet, RescanSubnet,
            RescanAllSubnets, BeginRecovery, ResolvePin, ReadManual, ReadSuppressed,
            ReadAuto, SweepByDefault
<1>4. CASE BeginRecovery
    <2>1. recovery'.pin = pin /\ recovery'.pc = "pin" /\ UNCHANGED <<subnets, lastSubnet, pin>>
        BY <1>4 DEF BeginRecovery, Idle, Tables
    <2> QED
        BY <1>1, <2>1 DEF PinOK, NothingPinned, Listing
<1>5. CASE ResolvePin
    BY <1>1, <1>5, PinIsResolved DEF PinOK, NothingPinned, Listing
<1>6. CASE /\ recovery.pc \in Listing /\ recovery'.pin = recovery.pin
           /\ UNCHANGED <<subnets, lastSubnet, pin>>
    BY <1>1, <1>6 DEF PinOK, NothingPinned
<1> QED
    BY <1>3, <1>4, <1>5, <1>6, RecoverySteps

(* What has held since the recovery began its list still holds, and what   *)
(* it has read so far agrees with it.                                      *)
SteadyIsNow ==
    recovery.pc \in Listing =>
        /\ steady.manual \subseteq Now.manual
        /\ steady.auto \subseteq Now.auto
        /\ steady.hidden \subseteq Now.hidden

ReadAgree ==
    /\ recovery.pc \in {"suppressed", "auto"} =>
           /\ steady.manual \subseteq recovery.manual
           /\ recovery.manual \cap steady.hidden = {}
    /\ recovery.pc = "auto" =>
           /\ steady.hidden \subseteq recovery.hidden
           /\ recovery.hidden \cap steady.auto = {}
    /\ recovery.pc = "default" => steady.manual = {} /\ steady.auto = {}

(* Whatever the pin, the search was in its network or everywhere.          *)
SearchedAsPinned ==
    recovery.pc = "swept" =>
        \/ ~Unpinned /\ recovery.scope = {recovery.pin.net}
        \/ /\ recovery.pin.cidr = NoNet /\ recovery.pin.id \notin DOMAIN subnets
           /\ Everywhere

ScopeInv == PinInv /\ SteadyIsNow /\ ReadAgree /\ SearchedAsPinned

LEMMA ScopeInvInit == SubnetsInit => ScopeInv
BY PinInvInit
DEF SubnetsInit, ScopeInv, SteadyIsNow, ReadAgree, SearchedAsPinned, Idle, Listing

LEMMA ScopeInvStep == ScopeInv /\ [SubnetsNext]_subnetVars => ScopeInv'
<1> SUFFICES ASSUME ScopeInv, [SubnetsNext]_subnetVars PROVE ScopeInv'
    OBVIOUS
<1> USE SubnetsAssumption DEF ScopeInv
<1>1. PinInv'
    BY PinInvStep
<1>2. CASE UNCHANGED subnetVars
    BY <1>1, <1>2
    DEF subnetVars, SteadyIsNow, ReadAgree, SearchedAsPinned, Everywhere, Unpinned, Now,
        Enabled
<1>3. ASSUME SubnetsNext, recovery'.pc \in Listing, recovery.pc \in Listing
      PROVE  /\ steady'.manual = steady.manual \cap Now'.manual
             /\ steady'.auto = steady.auto \cap Now'.auto
             /\ steady'.hidden = steady.hidden \cap Now'.hidden
    <2>1. steady' = [f \in DOMAIN Now' |-> steady[f] \cap Now'[f]]
        BY <1>3 DEF SubnetsNext
    <2>2. DOMAIN Now' = {"manual", "auto", "hidden"}
        BY DEF Now
    <2> QED
        BY <2>1, <2>2
<1>4. ASSUME SubnetsNext, recovery'.pc \in Listing, recovery.pc \notin Listing
      PROVE  steady' = Now'
    BY <1>4 DEF SubnetsNext
<1>5. ASSUME SubnetsNext, recovery'.pc = "swept"
      PROVE  steady' = steady
    BY <1>5 DEF SubnetsNext, Listing
<1>6. ASSUME SubnetsNext PROVE SteadyIsNow'
    <2>1. ASSUME recovery'.pc \in Listing
          PROVE  /\ steady'.manual \subseteq Now'.manual
                 /\ steady'.auto \subseteq Now'.auto /\ steady'.hidden \subseteq Now'.hidden
        BY <1>3, <1>4, <1>6, <2>1
    <2> QED
        BY <2>1 DEF SteadyIsNow
<1> DEFINE Rest == ReadAgree /\ SearchedAsPinned
<1>7. ASSUME SubnetsNext, UNCHANGED recovery PROVE Rest'
    <2>1. ReadAgree'
        BY <1>3, <1>7 DEF ReadAgree, Listing
    <2>2. ASSUME recovery.pc = "swept" PROVE SearchedAsPinned'
        <3>1. Everywhere' = Everywhere /\ Unpinned' = Unpinned
            BY <1>5, <1>7, <2>2 DEF Everywhere, Unpinned
        <3>2. recovery.pin \in Pins /\ PinOK(recovery.pin)
            BY DEF PinInv, ListsOK, Recoveries
        <3>3. recovery.pin.id \notin DOMAIN subnets => recovery.pin.id \notin DOMAIN subnets'
            BY <3>2, GonePinsStayGone
        <3> QED
            BY <1>7, <2>2, <3>1, <3>3 DEF SearchedAsPinned
    <2> QED
        BY <1>7, <2>1, <2>2 DEF SearchedAsPinned
<1>8. ASSUME SubnetsNext, BeginRecovery PROVE Rest'
    BY <1>8 DEF BeginRecovery, Idle, ReadAgree, SearchedAsPinned
<1>9. ASSUME SubnetsNext, ResolvePin PROVE Rest'
    BY <1>9, PinIsResolved DEF ReadAgree, SearchedAsPinned, Unpinned
<1>10. ASSUME SubnetsNext, ReadManual PROVE Rest'
    <2>1. /\ recovery'.pc = "suppressed" /\ recovery'.manual = Enabled
          /\ recovery.pc = "manual"
        BY <1>10 DEF ReadManual, PinInv, ListsOK, Recoveries
    <2>2. UNCHANGED <<subnets, attached, suppressed>>
        BY <1>10 DEF ReadManual, Tables
    <2>3. Now'.manual = Enabled /\ Now'.hidden = suppressed \ Enabled
        BY <2>2 DEF Now, Enabled
    <2>4. /\ steady'.manual = steady.manual \cap Now'.manual
          /\ steady'.hidden = steady.hidden \cap Now'.hidden
        BY <1>3, <1>10, <2>1 DEF Listing
    <2> QED
        BY <2>1, <2>3, <2>4 DEF ReadAgree, SearchedAsPinned
<1>11. ASSUME SubnetsNext, ReadSuppressed PROVE Rest'
    <2>1. /\ recovery'.pc = "auto" /\ recovery'.manual = recovery.manual
          /\ recovery'.hidden = suppressed /\ recovery.pc = "suppressed"
        BY <1>11 DEF ReadSuppressed, PinInv, ListsOK, Recoveries
    <2>2. UNCHANGED <<subnets, attached, suppressed>>
        BY <1>11 DEF ReadSuppressed, Tables
    <2>3. Now'.auto = attached \ suppressed /\ Now'.hidden \subseteq suppressed
        BY <2>2 DEF Now
    <2>4. /\ steady'.manual \subseteq steady.manual
          /\ steady'.auto \subseteq Now'.auto
          /\ steady'.hidden \subseteq steady.hidden \cap Now'.hidden
        BY <1>3, <1>11, <2>1 DEF Listing
    <2> QED
        BY <2>1, <2>3, <2>4 DEF ReadAgree, SearchedAsPinned
<1>12. ASSUME SubnetsNext, ReadAuto PROVE Rest'
    <2> DEFINE list == recovery.manual \cup (attached \ recovery.hidden)
    <2>1. /\ recovery.pc = "auto" /\ recovery'.pin = recovery.pin
          /\ UNCHANGED subnets
          /\ \/ list # {} /\ recovery'.pc = "swept" /\ recovery'.scope = list
             \/ list = {} /\ recovery'.pc = "default"
        BY <1>12 DEF ReadAuto, SweepsList, Sweeps, Tables, PinInv, ListsOK, Recoveries
    <2>2. /\ steady.auto \subseteq attached /\ steady.manual \subseteq recovery.manual
          /\ recovery.manual \cap steady.hidden = {}
          /\ steady.hidden \subseteq recovery.hidden
          /\ recovery.hidden \cap steady.auto = {}
        BY <2>1 DEF SteadyIsNow, Listing, Now, ReadAgree
    <2>3. steady.manual \cup steady.auto \subseteq list /\ list \cap steady.hidden = {}
        BY <2>2
    <2>4. recovery.pin.cidr = NoNet /\ recovery.pin.id \notin DOMAIN subnets
        BY <2>1 DEF PinInv, NothingPinned, Listing
    <2>5. CASE recovery'.pc = "swept"
        BY <1>5, <1>12, <2>1, <2>3, <2>4, <2>5 DEF ReadAgree, SearchedAsPinned, Everywhere
    <2>6. CASE recovery'.pc = "default"
        <3>1. steady'.manual \subseteq steady.manual /\ steady'.auto \subseteq steady.auto
            BY <1>3, <1>12, <2>1, <2>6 DEF Listing
        <3> QED
            BY <2>1, <2>3, <2>6, <3>1 DEF ReadAgree, SearchedAsPinned
    <2> QED
        BY <2>1, <2>5, <2>6
<1>13. ASSUME SubnetsNext, SweepByDefault PROVE Rest'
    <2>1. /\ recovery.pc = "default" /\ recovery'.pc = "swept" /\ UNCHANGED subnets
          /\ recovery'.pin = recovery.pin /\ recovery'.byDefault = TRUE
        BY <1>13 DEF SweepByDefault, Sweeps, Tables, PinInv, ListsOK, Recoveries
    <2>2. recovery.pin.cidr = NoNet /\ recovery.pin.id \notin DOMAIN subnets
        BY <2>1 DEF PinInv, NothingPinned, Listing
    <2>3. steady' = steady /\ steady.manual = {} /\ steady.auto = {}
        BY <1>5, <1>13, <2>1 DEF ReadAgree
    <2> QED
        BY <2>1, <2>2, <2>3 DEF ReadAgree, SearchedAsPinned, Everywhere
<1>14. ASSUME SubnetsNext PROVE Rest'
    BY <1>7, <1>8, <1>9, <1>10, <1>11, <1>12, <1>13, <1>14
    DEF SubnetsNext, SubnetsStep, Pages, AddSubnet, ToggleSubnet, DeleteSubnet, PinHost,
        Replug, ReadList, Save, SuppressSubnet, RescanSubnet, RescanAllSubnets
<1> QED
    BY <1>1, <1>2, <1>6, <1>14

LEMMA ScopeInvHolds == ServiceSpec => []ScopeInv
<1>1. ServiceInit => ScopeInv
    BY ScopeInvInit DEF ServiceInit
<1>2. ScopeInv /\ [ServiceNext]_serviceVars => ScopeInv'
    BY ScopeInvStep, StepOfParts
<1> QED
    BY <1>1, <1>2, PTL DEF ServiceSpec

(* Theorem: a recovery with a pin (_run_recovery in                        *)
(* app/services/monitor.py) sweeps the network that was meant when the     *)
(* host was pinned, and nothing else.  Only where the pin was to a row and *)
(* the row is gone is the search everywhere: AUTOINCREMENT keeps the id    *)
(* from coming back with another network, whatever is added and deleted.   *)
THEOREM PinnedNowhereElseHolds == ServiceSpec => []PinnedNowhereElse
<1>1. ScopeInv => PinnedNowhereElse
    BY DEF ScopeInv, SearchedAsPinned, PinnedNowhereElse
<1> QED
    BY <1>1, ScopeInvHolds, PTL

(* Theorem: a recovery of a host without a pin (list_subnets in            *)
(* app/services/scanner.py) sweeps every network that was enabled, or      *)
(* attached and not deleted, while it read the tables one by one, and none *)
(* that was deleted all that while, whatever the settings page does; but   *)
(* it sweeps the deleted ones when it has found no other.                  *)
THEOREM EffectiveScopeHolds == ServiceSpec => []EffectiveScope
<1>1. ScopeInv => EffectiveScope
    BY DEF ScopeInv, SearchedAsPinned, EffectiveScope
<1> QED
    BY <1>1, ScopeInvHolds, PTL

(* The type invariant of the networks, for the one of the service.         *)
LEMMA SubnetsTypeHolds == ServiceSpec => []SubnetsTypeOK
<1>1. ServiceInit => RowsOK /\ ListsOK
    BY PinInvInit DEF ServiceInit, PinInv
<1>2. RowsOK /\ ListsOK /\ [ServiceNext]_serviceVars => RowsOK' /\ ListsOK'
    BY SubnetRowsStep, SubnetListsStep, StepOfParts
<1>3. RowsOK /\ ListsOK => SubnetsTypeOK
    BY DEF RowsOK, ListsOK, SubnetsTypeOK, Pins, Recoveries, Listing
<1> QED
    BY <1>1, <1>2, <1>3, PTL DEF ServiceSpec

-----------------------------------------------------------------------------
(* Notifications.                                                          *)

(* The requests that are under way or over: each has added a channel at    *)
(* most, so that the ids stay within Ids.                                  *)
Begun == {v \in Visits : visit[v].pc # "new"}

ChannelsOK ==
    /\ lastChannel \in Nat /\ lastChannel <= Cardinality(Begun)
    /\ DOMAIN channels \subseteq 1..lastChannel
    /\ crossed \in BOOLEAN

VisitsOK ==
    /\ visit \in [Visits -> [pc: {"new", "rules", "toggle", "done"}, channel: Nat,
                             type: Types \cup {"none"}, found: SUBSET Visits]]
    /\ \A v \in Visits :
          /\ visit[v].pc \in {"rules", "toggle"} => visit[v].channel \in 1..lastChannel
          /\ visit[v].pc = "toggle" => visit[v].type \in Types

(* A step that touches the table of channels adds one row at most, of a    *)
(* request that was new until then.                                        *)
LEMMA ChannelStep ==
    ASSUME ChannelsOK, VisitsOK, [ChannelsNext]_channelVars
    PROVE  /\ Begun \subseteq Begun'
           /\ \/ lastChannel' = lastChannel /\ DOMAIN channels' \subseteq DOMAIN channels
              \/ /\ lastChannel' = lastChannel + 1
                 /\ DOMAIN channels' = DOMAIN channels \cup {lastChannel + 1}
                 /\ Begun # Begun'
<1> USE DEF ChannelsOK, VisitsOK, Begun
<1>1. ASSUME NEW v \in Visits, AddChannel(v) \/ CliAddTelegram(v)
      PROVE  /\ Begun \subseteq Begun'
             /\ lastChannel' = lastChannel + 1 /\ v \in Begun' \ Begun
             /\ DOMAIN channels' = DOMAIN channels \cup {lastChannel + 1}
    BY <1>1 DEF AddChannel, CliAddTelegram, AddRow, NewChannel, Inserts, Done
<1>2. ASSUME NEW v \in Visits,
             AddRules(v) \/ FindRule(v) \/ ToggleRule(v) \/ ToggleChannel(v)
                 \/ DisableTelegram(v) \/ DeleteChannel(v)
      PROVE  /\ Begun \subseteq Begun' /\ lastChannel' = lastChannel
             /\ DOMAIN channels' \subseteq DOMAIN channels
    BY <1>2 DEF AddRules, FindRule, ToggleRule, ToggleChannel, DisableTelegram,
                DeleteChannel, Inserts, Done
<1>3. ASSUME NEW s \in Sends, LogEvent(s) \/ SelectChannels(s) \/ Notify(s) \/ Return(s)
      PROVE  UNCHANGED <<visit, channels, lastChannel>>
    BY <1>3 DEF LogEvent, SelectChannels, Notify, Return, Settings
<1>4. CASE Shutdown
    BY <1>4 DEF Shutdown
<1>5. CASE UNCHANGED channelVars
    BY <1>5 DEF channelVars
<1> QED
    BY <1>1, <1>2, <1>3, <1>4, <1>5 DEF ChannelsNext

LEMMA TablesStep ==
    ASSUME ChannelsOK, VisitsOK, [ChannelsNext]_channelVars
    PROVE  ChannelsOK' /\ lastChannel' <= Cardinality(Visits)
<1> USE ChannelsAssumption DEF ChannelsOK
<1>1. /\ IsFiniteSet(Begun') /\ IsFiniteSet(Begun) /\ Cardinality(Begun') <= Cardinality(Visits)
      /\ Cardinality(Begun) \in Nat /\ Cardinality(Begun') \in Nat /\ Cardinality(Visits) \in Nat
    <2>1. Begun \subseteq Visits /\ Begun' \subseteq Visits
        BY DEF Begun
    <2> QED
        BY <2>1, FS_Subset, FS_CardinalityType
<1>2. Cardinality(Begun) <= Cardinality(Begun')
      /\ (Begun # Begun' => Cardinality(Begun) < Cardinality(Begun'))
    BY <1>1, ChannelStep, FS_Subset
<1>3. crossed' \in BOOLEAN
    <2>1. ASSUME NEW v \in Visits, NEW c, NEW types, Inserts(v, c, types) PROVE crossed' \in BOOLEAN
        BY <2>1 DEF Inserts
    <2>2. ASSUME NEW v \in Visits, ToggleRule(v) PROVE crossed' \in BOOLEAN
        BY <2>1, <2>2 DEF ToggleRule
    <2>3. ASSUME NEW v \in Visits, AddRules(v) \/ CliAddTelegram(v) PROVE crossed' \in BOOLEAN
        BY <2>1, <2>3 DEF AddRules, CliAddTelegram
    <2> QED
        BY <2>2, <2>3
        DEF ChannelsNext, channelVars, AddChannel, FindRule, ToggleChannel,
            DisableTelegram, DeleteChannel, LogEvent, SelectChannels, Notify, Return,
            Settings, Shutdown
<1>4. lastChannel' \in Nat /\ lastChannel' <= Cardinality(Begun')
    BY <1>1, <1>2, ChannelStep
<1>5. DOMAIN channels' \subseteq 1..lastChannel'
    <2>1. CASE lastChannel' = lastChannel /\ DOMAIN channels' \subseteq DOMAIN channels
        BY <2>1
    <2>2. CASE /\ lastChannel' = lastChannel + 1
               /\ DOMAIN channels' = DOMAIN channels \cup {lastChannel + 1}
        BY <2>2
    <2> QED
        BY <2>1, <2>2, ChannelStep
<1> QED
    BY <1>1, <1>3, <1>4, <1>5

RuleRow == [by: Visits, channel: Nat, type: Types, on: BOOLEAN]

(* A rule is known by the request it is of, its channel and its type.      *)
OneOfEach(rows) ==
    \A q, r \in rows : q.by = r.by /\ q.channel = r.channel /\ q.type = r.type => q = r

RulesOK ==
    /\ rules \subseteq RuleRow /\ OneOfEach(rules)
    /\ \A r \in rules : r.channel \in 1..lastChannel /\ visit[r.by].pc = "done"

LEMMA VisitsStep ==
    ASSUME ChannelsOK, VisitsOK, RulesOK, [ChannelsNext]_channelVars
    PROVE  VisitsOK'
<1> USE DEF ChannelsOK, VisitsOK
<1>0. lastChannel' \in Nat /\ lastChannel <= lastChannel'
    BY ChannelStep, TablesStep
<1>1. ASSUME NEW v \in Visits, AddChannel(v) PROVE VisitsOK'
    <2> DEFINE Visit == [pc: {"new", "rules", "toggle", "done"}, channel: Nat,
                         type: Types \cup {"none"}, found: SUBSET Visits]
    <2>1. NewChannel \in 1..lastChannel' /\ NewChannel \in Nat
        BY <1>0, <1>1 DEF AddChannel, AddRow, NewChannel
    <2>2. ASSUME NEW x \in Visit
          PROVE  /\ [x EXCEPT !.pc = "rules", !.channel = NewChannel] \in Visit
                 /\ [x EXCEPT !.pc = "rules", !.channel = NewChannel].channel = NewChannel
                 /\ [x EXCEPT !.pc = "rules", !.channel = NewChannel].pc = "rules"
        BY <2>1
    <2>3. visit' = [visit EXCEPT ![v] = [visit[v] EXCEPT !.pc = "rules", !.channel = NewChannel]]
        BY <1>1 DEF AddChannel
    <2>4. PICK x \in Visit : /\ x.pc = "rules" /\ x.channel = NewChannel
                             /\ visit' = [visit EXCEPT ![v] = x]
        BY <2>2, <2>3
    <2> QED
        BY <1>0, <2>1, <2>4
<1>2. ASSUME NEW v \in Visits, Done(v) PROVE VisitsOK'
    BY <1>0, <1>2 DEF Done
<1>3. ASSUME NEW v \in Visits,
             CliAddTelegram(v) \/ AddRules(v) \/ ToggleRule(v) \/ ToggleChannel(v)
                 \/ DisableTelegram(v) \/ DeleteChannel(v)
      PROVE  VisitsOK'
    BY <1>2, <1>3 DEF CliAddTelegram, AddRules, ToggleRule, ToggleChannel,
                      DisableTelegram, DeleteChannel, Inserts
<1>4. ASSUME NEW v \in Visits, FindRule(v) PROVE VisitsOK'
    <2>1. PICK c \in DOMAIN channels, t \in Types :
            visit' = [visit EXCEPT ![v] = [pc |-> "toggle", channel |-> c, type |-> t,
                   found |-> {r.by : r \in {x \in rules : x.channel = c /\ x.type = t}}]]
        BY <1>4 DEF FindRule
    <2>2. {r.by : r \in {x \in rules : x.channel = c /\ x.type = t}} \in SUBSET Visits
        BY DEF RulesOK, RuleRow
    <2>3. c \in Nat /\ c \in 1..lastChannel'
        BY <1>0
    <2> QED
        BY <1>0, <2>1, <2>2, <2>3
<1>5. CASE UNCHANGED visit
    BY <1>0, <1>5
<1>6. CASE Shutdown
    BY <1>0, <1>6 DEF Shutdown
<1> QED
    BY <1>1, <1>3, <1>4, <1>5, <1>6
    DEF ChannelsNext, channelVars, LogEvent, SelectChannels, Notify, Return, Settings

(* How the table of rules changes: nothing, the rules of one request, which*)
(* was not done, or a flip of one of them.                                 *)
Flipped(now, w) ==
    rules' = {IF r.by = w /\ r.channel = now.channel /\ r.type = now.type
                THEN [r EXCEPT !.on = ~@] ELSE r : r \in rules}

LEMMA RuleStep ==
    ASSUME ChannelsOK, VisitsOK, [ChannelsNext]_channelVars
    PROVE  \/ rules' = rules /\ UNCHANGED crossed
           \/ \E v \in Visits, c \in 1..lastChannel', types \in SUBSET Types :
                 /\ visit[v].pc # "done" /\ Inserts(v, c, types)
                 /\ \/ visit[v].pc = "rules" /\ c = visit[v].channel
                    \/ c = lastChannel + 1
                    \/ /\ visit[v].pc = "toggle" /\ visit[v].found = {}
                       /\ c = visit[v].channel /\ types = {visit[v].type}
           \/ \E v \in Visits : \E w \in visit[v].found :
                 Flipped(visit[v], w) /\ Done(v) /\ UNCHANGED crossed
<1> USE ChannelsAssumption DEF ChannelsOK, VisitsOK
<1>0. lastChannel <= lastChannel' /\ lastChannel' \in Nat
    BY ChannelStep, TablesStep
<1>1. ASSUME NEW v \in Visits, AddRules(v)
      PROVE  /\ visit[v].pc = "rules" /\ Inserts(v, visit[v].channel, Important)
             /\ visit[v].channel \in 1..lastChannel'
    BY <1>0, <1>1 DEF AddRules
<1>2. ASSUME NEW v \in Visits, CliAddTelegram(v)
      PROVE  /\ visit[v].pc = "new" /\ Inserts(v, lastChannel + 1, Types)
             /\ lastChannel + 1 \in 1..lastChannel'
    BY <1>2 DEF CliAddTelegram, AddRow, NewChannel
<1>3. ASSUME NEW v \in Visits, ToggleRule(v), visit[v].found = {}
      PROVE  /\ visit[v].pc = "toggle" /\ Inserts(v, visit[v].channel, {visit[v].type})
             /\ visit[v].channel \in 1..lastChannel' /\ visit[v].type \in Types
    BY <1>0, <1>3 DEF ToggleRule
<1>4. ASSUME NEW v \in Visits, ToggleRule(v), visit[v].found # {}
      PROVE  \E w \in visit[v].found : Flipped(visit[v], w) /\ Done(v) /\ UNCHANGED crossed
    BY <1>4 DEF ToggleRule, Flipped
<1>5. ASSUME NEW v \in Visits,
             AddChannel(v) \/ FindRule(v) \/ ToggleChannel(v) \/ DisableTelegram(v)
                 \/ DeleteChannel(v)
      PROVE  UNCHANGED <<rules, crossed>>
    BY <1>5 DEF AddChannel, FindRule, ToggleChannel, DisableTelegram, DeleteChannel
<1>6. ASSUME NEW s \in Sends, LogEvent(s) \/ SelectChannels(s) \/ Notify(s) \/ Return(s)
      PROVE  UNCHANGED <<rules, crossed>>
    BY <1>6 DEF LogEvent, SelectChannels, Notify, Return, Settings
<1>7. CASE Shutdown \/ UNCHANGED channelVars
    BY <1>7 DEF Shutdown, channelVars
<1>8. ASSUME NEW v \in Visits, AddRules(v) \/ CliAddTelegram(v) \/ ToggleRule(v)
      PROVE  \/ \E c \in 1..lastChannel', types \in SUBSET Types :
                 /\ visit[v].pc # "done" /\ Inserts(v, c, types)
                 /\ \/ visit[v].pc = "rules" /\ c = visit[v].channel
                    \/ c = lastChannel + 1
                    \/ /\ visit[v].pc = "toggle" /\ visit[v].found = {}
                       /\ c = visit[v].channel /\ types = {visit[v].type}
             \/ \E w \in visit[v].found : Flipped(visit[v], w) /\ Done(v) /\ UNCHANGED crossed
    <2>1. CASE AddRules(v)
        BY <1>1, <2>1
    <2>2. CASE CliAddTelegram(v)
        BY <1>2, <2>2
    <2>3. CASE ToggleRule(v) /\ visit[v].found = {}
        BY <1>3, <2>3
    <2> QED
        BY <1>4, <1>8, <2>1, <2>2, <2>3
<1> QED
    BY <1>5, <1>6, <1>7, <1>8 DEF ChannelsNext

(* Rules go in under a key of their own, and a flip leaves the keys.       *)
LEMMA InsertedRows ==
    ASSUME NEW v \in Visits, NEW c \in Nat, NEW types \in SUBSET Types
    PROVE  /\ RulesOf(v, c, types) \subseteq RuleRow /\ OneOfEach(RulesOf(v, c, types))
           /\ \A r \in RulesOf(v, c, types) : r.by = v /\ r.channel = c /\ r.type \in types
<1>1. \A r \in RulesOf(v, c, types) :
        r.by = v /\ r.channel = c /\ r.type \in types /\ r.on = TRUE
    BY DEF RulesOf
<1>2. \A r \in RulesOf(v, c, types) : r \in RuleRow
    BY DEF RulesOf, RuleRow
<1>3. \A q, r \in RuleRow :
        q.by = r.by /\ q.channel = r.channel /\ q.type = r.type /\ q.on = r.on => q = r
    BY DEF RuleRow
<1>4. OneOfEach(RulesOf(v, c, types))
    BY <1>1, <1>2, <1>3 DEF OneOfEach
<1> QED
    BY <1>1, <1>2, <1>4

LEMMA FlippedRows ==
    ASSUME rules \subseteq RuleRow, NEW now, NEW w, Flipped(now, w)
    PROVE  \A r \in rules' : /\ r \in RuleRow
                             /\ \E q \in rules : /\ q.by = r.by /\ q.channel = r.channel
                                                 /\ q.type = r.type
<1>1. ASSUME NEW q \in rules
      PROVE  /\ [q EXCEPT !.on = ~@] \in RuleRow /\ [q EXCEPT !.on = ~@].by = q.by
             /\ [q EXCEPT !.on = ~@].channel = q.channel /\ [q EXCEPT !.on = ~@].type = q.type
    BY DEF RuleRow
<1>2. ASSUME NEW r \in rules'
      PROVE  \E q \in rules : r = q \/ r = [q EXCEPT !.on = ~@]
    BY DEF Flipped
<1> QED
    BY <1>1, <1>2

LEMMA RulesStep ==
    ASSUME ChannelsOK, VisitsOK, RulesOK, [ChannelsNext]_channelVars
    PROVE  RulesOK'
<1>0. /\ lastChannel \in Nat /\ lastChannel' \in Nat /\ lastChannel <= lastChannel'
      /\ VisitsOK' /\ ChannelsOK'
    BY ChannelStep, TablesStep, VisitsStep DEF ChannelsOK
<1>1. \A v \in Visits : visit[v].pc = "done" => visit'[v].pc = "done"
    <2>1. ASSUME NEW v \in Visits, NEW u \in Visits,
                 AddChannel(v) \/ FindRule(v), visit[u].pc = "done"
          PROVE  visit'[u] = visit[u]
        BY <2>1 DEF AddChannel, FindRule, VisitsOK
    <2>2. ASSUME NEW v \in Visits, Done(v), NEW u \in Visits, visit[u].pc = "done"
          PROVE  visit'[u].pc = "done"
        BY <2>2 DEF Done, VisitsOK
    <2>3. ASSUME Shutdown, NEW u \in Visits, visit[u].pc = "done"
          PROVE  visit'[u].pc = "done"
        BY <2>3 DEF Shutdown, VisitsOK
    <2> QED
        BY <2>1, <2>2, <2>3
        DEF ChannelsNext, channelVars, CliAddTelegram, AddRules, ToggleRule,
            ToggleChannel, DisableTelegram, DeleteChannel, Inserts, LogEvent,
            SelectChannels, Notify, Return, Settings
<1>2. CASE rules' = rules
    BY <1>0, <1>1, <1>2 DEF RulesOK, RuleRow
<1>3. ASSUME NEW v \in Visits, NEW c \in 1..lastChannel', NEW types \in SUBSET Types,
             visit[v].pc # "done", Inserts(v, c, types)
      PROVE  RulesOK'
    <2>1. /\ rules' = rules \cup RulesOf(v, c, types)
          /\ visit'[v].pc = "done"
        BY <1>3 DEF Inserts, Done, VisitsOK
    <2>2. /\ RulesOf(v, c, types) \subseteq RuleRow /\ OneOfEach(RulesOf(v, c, types))
          /\ \A r \in RulesOf(v, c, types) : r.by = v /\ r.channel = c
        BY <1>0, InsertedRows
    <2>3. \A r \in rules : r.by # v /\ r.by \in Visits
        BY <1>3 DEF RulesOK, RuleRow
    <2>4. OneOfEach(rules')
        BY <2>1, <2>2, <2>3 DEF RulesOK, OneOfEach
    <2>5. \A r \in rules' : r.channel \in 1..lastChannel' /\ visit'[r.by].pc = "done"
        BY <1>0, <1>1, <2>1, <2>2, <2>3 DEF RulesOK
    <2>6. rules' \subseteq RuleRow
        BY <2>1, <2>2 DEF RulesOK
    <2> QED
        BY <2>4, <2>5, <2>6 DEF RulesOK
<1>4. ASSUME NEW v \in Visits, NEW w, Flipped(visit[v], w) PROVE RulesOK'
    <2>1. \A r \in rules' : /\ r \in RuleRow
                            /\ \E q \in rules : /\ q.by = r.by /\ q.channel = r.channel
                                                /\ q.type = r.type
        BY <1>4, FlippedRows DEF RulesOK
    <2>2. \A r \in rules' : r.channel \in 1..lastChannel' /\ visit'[r.by].pc = "done"
        BY <1>0, <1>1, <2>1 DEF RulesOK, RuleRow
    <2>3. OneOfEach(rules')
        <3>1. ASSUME NEW q \in rules', NEW r \in rules',
                     q.by = r.by, q.channel = r.channel, q.type = r.type
              PROVE  q = r
            <4>1. PICK x \in rules : q = IF x.by = w /\ x.channel = visit[v].channel
                                            /\ x.type = visit[v].type
                                         THEN [x EXCEPT !.on = ~@] ELSE x
                BY <1>4 DEF Flipped
            <4>2. PICK y \in rules : r = IF y.by = w /\ y.channel = visit[v].channel
                                            /\ y.type = visit[v].type
                                         THEN [y EXCEPT !.on = ~@] ELSE y
                BY <1>4 DEF Flipped
            <4>3. /\ x.by = q.by /\ x.channel = q.channel /\ x.type = q.type
                  /\ y.by = r.by /\ y.channel = r.channel /\ y.type = r.type
                BY <4>1, <4>2 DEF RulesOK, RuleRow
            <4>4. x = y
                BY <3>1, <4>3 DEF RulesOK, OneOfEach
            <4> QED
                BY <4>1, <4>2, <4>4
        <3> QED
            BY <3>1 DEF OneOfEach
    <2> QED
        BY <2>1, <2>2, <2>3 DEF RulesOK
<1> QED
    BY <1>2, <1>3, <1>4, RuleStep

(* The requests that rows for channel c are of: a call has one try at each *)
(* row, so that a channel is tried as often as there are requests at most. *)
Askers(rows, c) == {v \in Visits : \E r \in rows : r.by = v /\ r.channel = c}

SendRows == [pc: {"new", "logged", "sending", "over", "cut"}, type: Types \cup {"none"},
             todo: SUBSET RuleRow, chosen: SUBSET Ids]

(* What one call is about: its record, and its tries.                      *)
SendOK(x, tries) ==
    /\ \A r \in x.todo : r.channel \in Ids /\ r.type = x.type
    /\ OneOfEach(x.todo)
    /\ x.pc \in {"new", "logged"} => x.todo = {} /\ x.chosen = {} /\ \A c \in Ids : tries[c] = 0
    /\ \A c \in Ids : tries[c] + Cardinality(Askers(x.todo, c)) <= Cardinality(Visits)
    /\ \A c \in x.chosen :
          \/ tries[c] >= 1 \/ x.pc = "cut"
          \/ x.pc = "sending" /\ \E r \in x.todo : r.channel = c

SendsOK ==
    /\ send \in [Sends -> SendRows] /\ got \in [Sends -> [Ids -> Nat]]
    /\ \A s \in Sends : SendOK(send[s], got[s])

LEMMA AskersCount ==
    ASSUME NEW rows \in SUBSET RuleRow, NEW c \in Ids
    PROVE  /\ IsFiniteSet(Askers(rows, c))
           /\ Cardinality(Visits) \in Nat /\ Cardinality(Askers(rows, c)) \in Nat
           /\ Cardinality(Askers(rows, c)) <= Cardinality(Visits)
<1>1. Askers(rows, c) \subseteq Visits
    BY DEF Askers
<1> QED
    BY <1>1, ChannelsAssumption, FS_Subset, FS_CardinalityType

LEMMA AskersLess ==
    ASSUME NEW rows \in SUBSET RuleRow, NEW c \in Ids,
           OneOfEach(rows), \A r, q \in rows : r.type = q.type, NEW r \in rows
    PROVE  Cardinality(Askers(rows \ {r}, c))
              = Cardinality(Askers(rows, c)) - (IF r.channel = c THEN 1 ELSE 0)
<1>1. IsFiniteSet(Askers(rows, c)) /\ Cardinality(Askers(rows, c)) \in Nat
    BY AskersCount
<1>2. CASE r.channel = c
    <2>1. Askers(rows \ {r}, c) = Askers(rows, c) \ {r.by}
        BY <1>2 DEF Askers, OneOfEach, RuleRow
    <2>2. r.by \in Askers(rows, c)
        BY <1>2 DEF Askers, RuleRow
    <2>3. Cardinality(Askers(rows, c) \ {r.by}) = Cardinality(Askers(rows, c)) - 1
        BY <1>1, <2>2, FS_RemoveElement
    <2> QED
        BY <1>2, <2>1, <2>3
<1>3. CASE r.channel # c
    <2>1. Askers(rows \ {r}, c) = Askers(rows, c)
        BY <1>3 DEF Askers
    <2> QED
        BY <1>1, <1>3, <2>1
<1> QED
    BY <1>2, <1>3

LEMMA SendsInit == ChannelsInit => SendsOK
<1> SUFFICES ASSUME ChannelsInit PROVE SendsOK
    OBVIOUS
<1>1. \A c \in Ids : 0 + Cardinality(Askers({}, c)) <= Cardinality(Visits)
    BY AskersCount
<1>2. /\ send = [s \in Sends |-> [pc |-> "new", type |-> "none", todo |-> {}, chosen |-> {}]]
      /\ got = [s \in Sends |-> [c \in Ids |-> 0]]
    BY DEF ChannelsInit
<1>3. send \in [Sends -> SendRows] /\ got \in [Sends -> [Ids -> Nat]]
    BY <1>2 DEF SendRows
<1>4. ASSUME NEW s \in Sends PROVE SendOK(send[s], got[s])
    BY <1>1, <1>2, AskersCount DEF SendOK, OneOfEach
<1> QED
    BY <1>3, <1>4 DEF SendsOK

LEMMA LogEventOK ==
    ASSUME SendsOK, NEW s \in Sends, LogEvent(s) PROVE SendsOK'
<1>1. PICK x \in SendRows :
        /\ x.pc \in {"logged", "over"} /\ x.todo = send[s].todo /\ x.chosen = send[s].chosen
        /\ send' = [send EXCEPT ![s] = x]
    <2>1. PICK t \in Types, notify \in BOOLEAN :
            send' = [send EXCEPT ![s].pc = IF notify THEN "logged" ELSE "over", ![s].type = t]
        BY DEF LogEvent
    <2>2. ASSUME NEW y \in SendRows, NEW pc \in {"logged", "over"}
          PROVE  /\ [y EXCEPT !.pc = pc, !.type = t] \in SendRows
                 /\ [y EXCEPT !.pc = pc, !.type = t].pc = pc
                 /\ [y EXCEPT !.pc = pc, !.type = t].todo = y.todo
                 /\ [y EXCEPT !.pc = pc, !.type = t].chosen = y.chosen
        BY DEF SendRows
    <2>3. send[s] \in SendRows /\ (IF notify THEN "logged" ELSE "over") \in {"logged", "over"}
        BY DEF SendsOK
    <2>4. send' = [send EXCEPT ![s] =
                     [send[s] EXCEPT !.pc = IF notify THEN "logged" ELSE "over", !.type = t]]
        BY <2>1, <2>3 DEF SendsOK
    <2> QED
        BY <2>2, <2>3, <2>4
<1>2. got' = got /\ send[s].pc = "new"
    BY DEF LogEvent
<1>3. SendOK(x, got[s])
    <2>1. x.todo = {} /\ x.chosen = {} /\ \A c \in Ids : got[s][c] = 0
        BY <1>1, <1>2 DEF SendsOK, SendOK
    <2> QED
        BY <1>1, <2>1 DEF SendsOK, SendOK
<1> QED
    BY <1>1, <1>2, <1>3 DEF SendsOK

LEMMA SelectChannelsOK ==
    ASSUME ChannelsOK, RulesOK, lastChannel <= Cardinality(Visits),
           SendsOK, NEW s \in Sends, SelectChannels(s)
    PROVE  SendsOK'
<1> DEFINE rows == {r \in rules : /\ r.type = send[s].type /\ r.on
                                   /\ r.channel \in DOMAIN channels /\ channels[r.channel]}
<1>0. 1..lastChannel \subseteq Ids
    BY ChannelsAssumption, FS_CardinalityType DEF Ids, ChannelsOK
<1>2. PICK x \in SendRows :
        /\ x.pc = "sending" /\ x.type = send[s].type
        /\ x.todo = rows /\ x.chosen = {r.channel : r \in rows}
        /\ send' = [send EXCEPT ![s] = x]
    <2>1. rows \subseteq RuleRow /\ {r.channel : r \in rows} \subseteq Ids
        BY <1>0 DEF RulesOK
    <2>3. send[s] \in SendRows
        BY DEF SendsOK
    <2>4. send' = [send EXCEPT ![s] = [send[s] EXCEPT !.pc = "sending", !.todo = rows,
                                         !.chosen = {r.channel : r \in rows}]]
        BY <2>3 DEF SendsOK, SelectChannels
    <2>5. ASSUME NEW todo \in SUBSET RuleRow, NEW chosen \in SUBSET Ids,
                 send' = [send EXCEPT ![s] = [send[s] EXCEPT !.pc = "sending", !.todo = todo,
                                                             !.chosen = chosen]]
          PROVE  \E x \in SendRows :
                    /\ x.pc = "sending" /\ x.type = send[s].type
                    /\ x.todo = todo /\ x.chosen = chosen /\ send' = [send EXCEPT ![s] = x]
        <3> DEFINE x == [send[s] EXCEPT !.pc = "sending", !.todo = todo, !.chosen = chosen]
        <3>1. /\ x \in SendRows /\ x.pc = "sending" /\ x.type = send[s].type
              /\ x.todo = todo /\ x.chosen = chosen
            BY <2>3 DEF SendRows
        <3>2. send' = [send EXCEPT ![s] = x]
            BY <2>5
        <3> HIDE DEF x
        <3> QED
            BY <3>1, <3>2
    <2> QED
        BY <2>1, <2>4, <2>5
<1>3. got' = got /\ send[s].pc = "logged"
    BY DEF SelectChannels
<1>4. SendOK(x, got[s])
    <2>1. \A c \in Ids : got[s][c] = 0
        BY <1>3 DEF SendsOK, SendOK
    <2>2. OneOfEach(x.todo) /\ \A r \in x.todo : r.channel \in Ids /\ r.type = x.type
        BY <1>0, <1>2 DEF RulesOK, OneOfEach
    <2>3. x.todo \in SUBSET RuleRow
        BY DEF SendRows
    <2>4. \A c \in Ids : got[s][c] + Cardinality(Askers(x.todo, c)) <= Cardinality(Visits)
        <3>1. ASSUME NEW c \in Ids PROVE 0 + Cardinality(Askers(x.todo, c)) <= Cardinality(Visits)
            BY <2>3, AskersCount
        <3> QED
            BY <2>1, <3>1
    <2>5. \A c \in x.chosen : \E r \in x.todo : r.channel = c
        BY <1>2
    <2> QED
        BY <1>2, <2>2, <2>4, <2>5 DEF SendOK
<1> QED
    BY <1>2, <1>3, <1>4 DEF SendsOK

LEMMA NotifyOK ==
    ASSUME SendsOK, NEW s \in Sends, Notify(s) PROVE SendsOK'
<1>1. PICK r \in send[s].todo :
        /\ send' = [send EXCEPT ![s].todo = @ \ {r}]
        /\ got' = [got EXCEPT ![s][r.channel] = @ + 1]
    BY DEF Notify
<1>2. /\ send[s] \in SendRows /\ send[s].pc = "sending" /\ send[s].todo \subseteq RuleRow
      /\ got[s] \in [Ids -> Nat] /\ r \in RuleRow /\ r.channel \in Ids
      /\ SendOK(send[s], got[s])
    BY DEF Notify, SendsOK, SendOK, SendRows
<1> DEFINE tries == [got[s] EXCEPT ![r.channel] = @ + 1]
<1>3. PICK x \in SendRows :
        /\ x.pc = "sending" /\ x.type = send[s].type /\ x.chosen = send[s].chosen
        /\ x.todo = send[s].todo \ {r} /\ send' = [send EXCEPT ![s] = x]
    <2> DEFINE x == [send[s] EXCEPT !.todo = @ \ {r}]
    <2>1. /\ x \in SendRows /\ x.pc = "sending" /\ x.type = send[s].type
          /\ x.chosen = send[s].chosen /\ x.todo = send[s].todo \ {r}
        BY <1>2 DEF SendRows
    <2>2. send' = [send EXCEPT ![s] = x]
        BY <1>1
    <2> HIDE DEF x
    <2> QED
        BY <2>1, <2>2
<1>4. tries \in [Ids -> Nat] /\ got' = [got EXCEPT ![s] = tries]
    BY <1>1, <1>2 DEF SendsOK
<1>5. \A c \in Ids : tries[c] + Cardinality(Askers(x.todo, c)) <= Cardinality(Visits)
    <2>1. ASSUME NEW c \in Ids
          PROVE  tries[c] + Cardinality(Askers(x.todo, c)) <= Cardinality(Visits)
        <3>1. Cardinality(Askers(x.todo, c))
                = Cardinality(Askers(send[s].todo, c)) - (IF r.channel = c THEN 1 ELSE 0)
            <4>1. OneOfEach(send[s].todo) /\ \A q, p \in send[s].todo : q.type = p.type
                BY <1>2 DEF SendOK
            <4> QED
                BY <1>2, <1>3, <4>1, AskersLess
        <3>2. tries[c] = got[s][c] + (IF r.channel = c THEN 1 ELSE 0) /\ got[s][c] \in Nat
            BY <1>2
        <3>3. /\ Cardinality(Askers(send[s].todo, c)) \in Nat /\ Cardinality(Visits) \in Nat
              /\ got[s][c] + Cardinality(Askers(send[s].todo, c)) <= Cardinality(Visits)
            BY <1>2, AskersCount DEF SendOK
        <3> QED
            BY <3>1, <3>2, <3>3
    <2> QED
        BY <2>1
<1>6. \A c \in x.chosen : tries[c] >= 1 \/ \E q \in x.todo : q.channel = c
    <2>1. ASSUME NEW c \in x.chosen PROVE tries[c] >= 1 \/ \E q \in x.todo : q.channel = c
        <3>1. got[s][c] >= 1 \/ \E q \in send[s].todo : q.channel = c
            BY <1>2, <1>3 DEF SendOK
        <3>2. c \in Ids /\ got[s][c] \in Nat
            BY <1>2, <1>3 DEF SendRows
        <3>3. tries[c] = IF c = r.channel THEN got[s][c] + 1 ELSE got[s][c]
            BY <1>2, <3>2
        <3> HIDE DEF tries
        <3> QED
            BY <1>3, <3>1, <3>2, <3>3
    <2> QED
        BY <2>1
<1>7. SendOK(x, tries)
    <2> HIDE DEF tries
    <2> QED
        BY <1>2, <1>3, <1>5, <1>6 DEF SendOK, OneOfEach
<1> HIDE DEF tries
<1> QED
    BY <1>3, <1>4, <1>7 DEF SendsOK

LEMMA ReturnOK ==
    ASSUME SendsOK, NEW s \in Sends, Return(s) PROVE SendsOK'
<1>1. PICK x \in SendRows :
        /\ x.pc = "over" /\ x.type = send[s].type /\ x.chosen = send[s].chosen
        /\ x.todo = send[s].todo /\ send' = [send EXCEPT ![s] = x]
    <2> DEFINE x == [send[s] EXCEPT !.pc = "over"]
    <2>1. /\ x \in SendRows /\ x.pc = "over" /\ x.type = send[s].type
          /\ x.chosen = send[s].chosen /\ x.todo = send[s].todo
        BY DEF SendsOK, SendRows
    <2>2. send' = [send EXCEPT ![s] = x]
        BY DEF Return
    <2> HIDE DEF x
    <2> QED
        BY <2>1, <2>2
<1>2. send[s].pc = "sending" /\ send[s].todo = {} /\ got' = got
    BY DEF Return
<1>3. SendOK(x, got[s])
    BY <1>1, <1>2 DEF SendsOK, SendOK
<1> QED
    BY <1>1, <1>2, <1>3 DEF SendsOK

LEMMA ShutdownOK ==
    ASSUME SendsOK, Shutdown PROVE SendsOK'
<1>1. got' = got /\ send' \in [Sends -> SendRows]
    BY DEF Shutdown, SendsOK, SendRows
<1>2. ASSUME NEW s \in Sends PROVE SendOK(send'[s], got[s])
    <2>1. CASE send[s].pc \in {"logged", "sending"}
        <3>1. /\ send'[s].pc = "cut" /\ send'[s].type = send[s].type
              /\ send'[s].chosen = send[s].chosen /\ send'[s].todo = send[s].todo
            BY <2>1 DEF Shutdown, SendsOK, SendRows
        <3> QED
            BY <3>1 DEF SendsOK, SendOK
    <2>2. CASE send[s].pc \notin {"logged", "sending"}
        BY <2>2 DEF Shutdown, SendsOK
    <2> QED
        BY <2>1, <2>2
<1> QED
    BY <1>1, <1>2 DEF SendsOK

ChannelInv == ChannelsOK /\ lastChannel <= Cardinality(Visits) /\ VisitsOK /\ RulesOK /\ SendsOK

LEMMA ChannelInvInit == ChannelsInit => ChannelInv
<1> SUFFICES ASSUME ChannelsInit PROVE ChannelInv
    OBVIOUS
<1>1. SendsOK
    BY SendsInit
<1>2. /\ channels = << >> /\ lastChannel = 0 /\ rules = {} /\ crossed = FALSE
      /\ visit = [v \in Visits |-> [pc |-> "new", channel |-> 0, type |-> "none", found |-> {}]]
    BY DEF ChannelsInit
<1>3. VisitsOK
    BY <1>2 DEF VisitsOK
<1>4. RulesOK
    BY <1>2 DEF RulesOK, OneOfEach
<1>5. Cardinality(Begun) \in Nat /\ Cardinality(Visits) \in Nat
    <2>1. Begun \subseteq Visits
        BY DEF Begun
    <2> QED
        BY <2>1, ChannelsAssumption, FS_Subset, FS_CardinalityType
<1>6. ChannelsOK /\ lastChannel <= Cardinality(Visits)
    <2>1. DOMAIN channels = {}
        BY <1>2
    <2> QED
        <3>1. lastChannel \in Nat /\ lastChannel <= Cardinality(Begun)
            BY <1>2, <1>5
        <3>2. DOMAIN channels \subseteq 1..lastChannel /\ crossed \in BOOLEAN
            BY <1>2, <2>1
        <3> QED
            BY <1>2, <1>5, <3>1, <3>2 DEF ChannelsOK
<1> QED
    BY <1>1, <1>3, <1>4, <1>6 DEF ChannelInv

LEMMA ChannelInvStep == ChannelInv /\ [ChannelsNext]_channelVars => ChannelInv'
<1> SUFFICES ASSUME ChannelInv, [ChannelsNext]_channelVars PROVE ChannelInv'
    OBVIOUS
<1> USE DEF ChannelInv
<1>1. ChannelsOK' /\ lastChannel' <= Cardinality(Visits)
    BY TablesStep
<1>2. VisitsOK' /\ RulesOK'
    BY VisitsStep, RulesStep
<1>3. ASSUME UNCHANGED <<send, got>> PROVE SendsOK'
    <2>1. \A s \in Sends : send'[s] = send[s] /\ got'[s] = got[s]
        BY <1>3
    <2>2. \A s \in Sends : SendOK(send'[s], got'[s])
        BY <2>1 DEF SendsOK
    <2> QED
        BY <1>3, <2>2 DEF SendsOK
<1>4. SendsOK'
    BY <1>3, LogEventOK, SelectChannelsOK, NotifyOK, ReturnOK, ShutdownOK
    DEF ChannelsNext, channelVars, AddChannel, AddRules, CliAddTelegram, FindRule,
        ToggleRule, ToggleChannel, DisableTelegram, DeleteChannel
<1> QED
    BY <1>1, <1>2, <1>4

(* Theorem: once a call of send_event (app/services/notifications.py) is   *)
(* over, every channel that was enabled for the event when the call chose  *)
(* its rows has been tried, whichever of them failed before it.            *)
THEOREM EveryChannelTriedHolds == ServiceSpec => []EveryChannelTried
<1>1. ServiceInit => ChannelInv
    BY ChannelInvInit DEF ServiceInit
<1>2. ChannelInv /\ [ServiceNext]_serviceVars => ChannelInv'
    BY ChannelInvStep, StepOfParts
<1>3. ChannelInv => EveryChannelTried
    BY DEF ChannelInv, SendsOK, SendOK, EveryChannelTried
<1> QED
    BY <1>1, <1>2, <1>3, PTL DEF ServiceSpec

(* As long as no two requests for the rules of a channel have overlapped,  *)
(* a channel has one rule for a type, and a request that is about to       *)
(* insert rules finds none there.                                          *)
OneRuleEach ==
    ~crossed =>
        /\ \A q, r \in rules : q.channel = r.channel /\ q.type = r.type => q = r
        /\ \A v \in Visits, r \in rules :
              /\ visit[v].pc = "rules" => r.channel # visit[v].channel
              /\ visit[v].pc = "toggle" /\ visit[v].found = {} =>
                    r.channel # visit[v].channel \/ r.type # visit[v].type

OneTryEach ==
    ~crossed => \A s \in Sends :
        /\ \A c \in Ids : got[s][c] <= 1
        /\ \A r \in send[s].todo : got[s][r.channel] = 0
        /\ \A q, r \in send[s].todo : q.channel = r.channel => q = r

(* The part of OneRuleEach about the requests: what each knows stays true. *)
Pending(v, r) ==
    \/ visit[v].pc = "rules" /\ r.channel = visit[v].channel
    \/ /\ visit[v].pc = "toggle" /\ visit[v].found = {}
       /\ r.channel = visit[v].channel /\ r.type = visit[v].type

LEMMA OneRuleStep ==
    ASSUME ChannelInv, OneRuleEach, [ChannelsNext]_channelVars
    PROVE  OneRuleEach'
<1> USE DEF ChannelInv
<1>0. ChannelInv' /\ (crossed => crossed')
    <2>1. crossed => crossed'
        BY RuleStep DEF Inserts, Flipped
    <2> QED
        BY <2>1, ChannelInvStep
<1>1. \A v \in Visits, r \in rules : ~crossed => ~Pending(v, r)
    BY DEF Pending, OneRuleEach
<1>2. SUFFICES ASSUME ~crossed'
               PROVE  /\ \A q, r \in rules' : q.channel = r.channel /\ q.type = r.type => q = r
                      /\ \A v \in Visits, r \in rules' : ~Pending(v, r)'
    BY DEF OneRuleEach, Pending
<1>3. \A v \in Visits, r \in rules : ~Pending(v, r)
    BY <1>0, <1>1, <1>2
<1>4. \A q, r \in rules : q.channel = r.channel /\ q.type = r.type => q = r
    BY <1>0, <1>2 DEF OneRuleEach
<1>5. lastChannel \in Nat /\ \A r \in rules : r.channel \in 1..lastChannel /\ r \in RuleRow
    BY DEF ChannelsOK, RulesOK
<1>6. ASSUME NEW v \in Visits, Done(v), NEW w \in Visits
      PROVE  w # v => visit'[w] = visit[w]
    BY <1>6 DEF Done, VisitsOK
<1>7. ASSUME NEW v \in Visits, Done(v) PROVE visit'[v].pc = "done"
    BY <1>7 DEF Done, VisitsOK
<1>8. CASE rules' = rules
    <2>1. ASSUME NEW v \in Visits, NEW r \in rules PROVE ~Pending(v, r)'
        <3>1. CASE visit'[v] = visit[v] \/ visit'[v].pc \in {"new", "done"}
            BY <1>3, <3>1 DEF Pending
        <3>2. CASE AddChannel(v)
            <4>1. visit'[v].pc = "rules" /\ visit'[v].channel = lastChannel + 1
                BY <3>2 DEF AddChannel, NewChannel, VisitsOK
            <4> QED
                BY <1>5, <4>1 DEF Pending
        <3>3. CASE FindRule(v)
            <4>1. PICK c \in DOMAIN channels, t \in Types :
                    visit'[v] = [pc |-> "toggle", channel |-> c, type |-> t,
                      found |-> {x.by : x \in {y \in rules : y.channel = c /\ y.type = t}}]
                BY <3>3 DEF FindRule, VisitsOK
            <4>2. r.channel = c /\ r.type = t => visit'[v].found # {}
                BY <4>1
            <4> QED
                BY <4>1, <4>2 DEF Pending
        <3>4. ASSUME NEW w \in Visits, w # v, AddChannel(w) \/ FindRule(w) PROVE visit'[v] = visit[v]
            BY <3>4 DEF AddChannel, FindRule, VisitsOK
        <3>5. ASSUME NEW w \in Visits, Done(w)
              PROVE  visit'[v] = visit[v] \/ visit'[v].pc = "done"
            BY <1>6, <1>7, <3>5
        <3>6. ASSUME Shutdown PROVE visit'[v].pc \in {"new", "done"}
            BY <3>6 DEF Shutdown, VisitsOK
        <3> QED
            BY <3>1, <3>2, <3>3, <3>4, <3>5, <3>6
            DEF ChannelsNext, channelVars, CliAddTelegram, AddRules, ToggleRule,
                ToggleChannel, DisableTelegram, DeleteChannel, Inserts, LogEvent,
                SelectChannels, Notify, Return, Settings
    <2> QED
        BY <1>4, <1>8, <2>1
<1>9. ASSUME NEW v \in Visits, NEW c \in 1..lastChannel', NEW types \in SUBSET Types,
             Inserts(v, c, types),
             \/ visit[v].pc = "rules" /\ c = visit[v].channel
             \/ c = lastChannel + 1
             \/ /\ visit[v].pc = "toggle" /\ visit[v].found = {}
                /\ c = visit[v].channel /\ types = {visit[v].type}
      PROVE  /\ \A q, r \in rules' : q.channel = r.channel /\ q.type = r.type => q = r
             /\ \A w \in Visits, r \in rules' : ~Pending(w, r)'
    <2>1. /\ rules' = rules \cup RulesOf(v, c, types) /\ Done(v)
          /\ \A w \in Visits \ {v} :
                visit[w].pc \in {"rules", "toggle"} => visit[w].channel # c
        BY <1>2, <1>9 DEF Inserts
    <2>2. /\ OneOfEach(RulesOf(v, c, types))
          /\ \A r \in RulesOf(v, c, types) : r.by = v /\ r.channel = c /\ r.type \in types
        <3>1. c \in Nat
            BY <1>0 DEF ChannelsOK
        <3> QED
            BY <3>1, InsertedRows
    <2>3. ASSUME NEW q \in rules, NEW r \in RulesOf(v, c, types)
          PROVE  ~(q.channel = r.channel /\ q.type = r.type)
        <3>1. CASE c = lastChannel + 1
            BY <1>5, <2>2, <3>1
        <3>2. CASE c # lastChannel + 1
            BY <1>3, <1>9, <2>2, <3>2 DEF Pending
        <3> QED
            BY <3>1, <3>2
    <2>4. ASSUME NEW q \in rules', NEW r \in rules', q.channel = r.channel, q.type = r.type
          PROVE  q = r
        BY <1>4, <2>1, <2>2, <2>3, <2>4 DEF OneOfEach
    <2>5. ASSUME NEW w \in Visits, NEW r \in rules' PROVE ~Pending(w, r)'
        <3>1. CASE w = v
            BY <1>7, <2>1, <3>1 DEF Pending
        <3>2. CASE w # v
            <4>1. visit'[w] = visit[w]
                BY <1>6, <2>1, <3>2
            <4>2. r \in rules => ~Pending(w, r)
                BY <1>3
            <4>3. r \notin rules => r.channel = c
                BY <2>1, <2>2
            <4> QED
                BY <2>1, <3>2, <4>1, <4>2, <4>3 DEF Pending
        <3> QED
            BY <3>1, <3>2
    <2> QED
        BY <2>4, <2>5
<1>10. ASSUME NEW v \in Visits, NEW w, Flipped(visit[v], w), Done(v)
       PROVE  /\ \A q, r \in rules' : q.channel = r.channel /\ q.type = r.type => q = r
              /\ \A u \in Visits, r \in rules' : ~Pending(u, r)'
    <2>1. ASSUME NEW q \in rules'
          PROVE  \E x \in rules :
                    /\ x.channel = q.channel /\ x.type = q.type
                    /\ q = IF x.by = w /\ x.channel = visit[v].channel /\ x.type = visit[v].type
                             THEN [x EXCEPT !.on = ~@] ELSE x
        <3>1. PICK x \in rules :
                 q = IF x.by = w /\ x.channel = visit[v].channel /\ x.type = visit[v].type
                             THEN [x EXCEPT !.on = ~@] ELSE x
            BY <1>10 DEF Flipped
        <3>2. x.channel = q.channel /\ x.type = q.type
            BY <1>5, <3>1 DEF RuleRow
        <3> QED
            BY <3>1, <3>2
    <2>2. ASSUME NEW q \in rules', NEW r \in rules', q.channel = r.channel, q.type = r.type
          PROVE  q = r
        <3>1. PICK x \in rules :
                    /\ x.channel = q.channel /\ x.type = q.type
                    /\ q = IF x.by = w /\ x.channel = visit[v].channel /\ x.type = visit[v].type
                             THEN [x EXCEPT !.on = ~@] ELSE x
            BY <2>1
        <3>2. PICK y \in rules :
                    /\ y.channel = r.channel /\ y.type = r.type
                    /\ r = IF y.by = w /\ y.channel = visit[v].channel /\ y.type = visit[v].type
                             THEN [y EXCEPT !.on = ~@] ELSE y
            BY <2>1
        <3>3. x = y
            BY <1>4, <2>2, <3>1, <3>2
        <3> QED
            BY <3>1, <3>2, <3>3
    <2>3. ASSUME NEW u \in Visits, NEW r \in rules' PROVE ~Pending(u, r)'
        <3>1. PICK x \in rules : x.channel = r.channel /\ x.type = r.type
            BY <2>1
        <3>2. ~Pending(u, x) /\ (visit'[u] = visit[u] \/ visit'[u].pc = "done")
            BY <1>3, <1>6, <1>7, <1>10
        <3> QED
            BY <3>1, <3>2 DEF Pending
    <2> QED
        BY <2>2, <2>3
<1> QED
    BY <1>8, <1>9, <1>10, RuleStep

LEMMA OneTryStep ==
    ASSUME ChannelInv, OneRuleEach, OneTryEach, [ChannelsNext]_channelVars
    PROVE  OneTryEach'
<1> USE DEF ChannelInv
<1>1. ChannelInv' /\ (crossed => crossed')
    <2>1. crossed => crossed'
        BY RuleStep DEF Inserts, Flipped
    <2> QED
        BY <2>1, ChannelInvStep
<1>2. SUFFICES ASSUME ~crossed', ~crossed, NEW s \in Sends
      PROVE  /\ \A c \in Ids : got'[s][c] <= 1
             /\ \A r \in send'[s].todo : got'[s][r.channel] = 0
             /\ \A q, r \in send'[s].todo : q.channel = r.channel => q = r
    BY <1>1 DEF OneTryEach
<1>3. /\ send \in [Sends -> SendRows] /\ got \in [Sends -> [Ids -> Nat]]
      /\ \A r \in send[s].todo : r.channel \in Ids
    BY DEF SendsOK, SendOK
<1>4. /\ \A c \in Ids : got[s][c] <= 1
      /\ \A r \in send[s].todo : got[s][r.channel] = 0
      /\ \A q, r \in send[s].todo : q.channel = r.channel => q = r
    BY <1>2 DEF OneTryEach
<1>5. CASE got' = got /\ send'[s].todo = send[s].todo
    BY <1>4, <1>5
<1>6. CASE SelectChannels(s)
    <2>1. got' = got /\ \A c \in Ids : got[s][c] = 0
        BY <1>6 DEF SelectChannels, SendsOK, SendOK
    <2>2. /\ \A r \in send'[s].todo : r \in rules /\ r.type = send[s].type
          /\ \A r \in send'[s].todo : r.channel \in Ids
        <3>1. \A r \in rules : r.channel \in Ids
            BY ChannelsAssumption, FS_CardinalityType DEF RulesOK, ChannelsOK, Ids
        <3> QED
            BY <1>3, <1>6, <3>1 DEF SelectChannels, SendRows
    <2> QED
        BY <1>2, <2>1, <2>2 DEF OneRuleEach
<1>7. CASE Notify(s)
    <2>1. PICK r \in send[s].todo :
            /\ send' = [send EXCEPT ![s].todo = @ \ {r}]
            /\ got' = [got EXCEPT ![s][r.channel] = @ + 1]
        BY <1>7 DEF Notify
    <2>2. send'[s].todo = send[s].todo \ {r}
        BY <1>3, <2>1 DEF SendRows
    <2>3. \A c \in Ids : got'[s][c] = IF c = r.channel THEN got[s][c] + 1 ELSE got[s][c]
        BY <1>3, <2>1
    <2>4. got[s][r.channel] = 0
        BY <1>4
    <2> QED
        BY <1>3, <1>4, <2>2, <2>3, <2>4
<1>8. ASSUME NEW t \in Sends, t # s, LogEvent(t) \/ SelectChannels(t) \/ Notify(t) \/ Return(t)
      PROVE  got'[s] = got[s] /\ send'[s] = send[s]
    BY <1>3, <1>8 DEF LogEvent, SelectChannels, Notify, Return
<1>9. CASE LogEvent(s) \/ Return(s)
    <2>1. got' = got /\ DOMAIN send = Sends /\ DOMAIN send[s] = {"pc", "type", "todo", "chosen"}
        BY <1>3, <1>9 DEF LogEvent, Return, SendRows
    <2>2. send'[s].todo = send[s].todo
        BY <1>9, <2>1 DEF LogEvent, Return
    <2> QED
        BY <1>4, <2>1, <2>2
<1>10. CASE Shutdown
    BY <1>3, <1>4, <1>10 DEF Shutdown, SendRows
<1>11. CASE UNCHANGED <<send, got>>
    BY <1>4, <1>11
<1> QED
    BY <1>4, <1>6, <1>7, <1>8, <1>9, <1>10, <1>11
    DEF ChannelsNext, channelVars, AddChannel, AddRules, CliAddTelegram, FindRule,
        ToggleRule, ToggleChannel, DisableTelegram, DeleteChannel

(* Theorem: no call of send_event (app/services/notifications.py) tries a  *)
(* channel twice, whatever channels were deleted and added before, unless  *)
(* two requests for the rules of one channel have overlapped               *)
(* (app/main.py).                                                          *)
THEOREM NotifiedOnceHolds == ServiceSpec => []NotifiedOnce
<1> DEFINE Inv == ChannelInv /\ OneRuleEach /\ OneTryEach
<1>1. ServiceInit => Inv
    <2> SUFFICES ASSUME ServiceInit PROVE OneRuleEach /\ OneTryEach
        BY ChannelInvInit DEF ServiceInit
    <2> QED
        <3>1. /\ rules = {} /\ \A s \in Sends : send[s].todo = {}
              /\ \A s \in Sends, c \in Ids : got[s][c] = 0
            BY DEF ServiceInit, ChannelsInit
        <3> QED
            BY <3>1 DEF OneRuleEach, OneTryEach
<1>2. Inv /\ [ServiceNext]_serviceVars => Inv'
    BY ChannelInvStep, OneRuleStep, OneTryStep, StepOfParts
<1>3. Inv => NotifiedOnce
    BY DEF OneTryEach, NotifiedOnce
<1> HIDE DEF Inv
<1> QED
    BY <1>1, <1>2, <1>3, PTL DEF ServiceSpec

(* The type invariant of the notifications, for the one of the service.    *)
LEMMA ChannelsTypeHolds == ServiceSpec => []ChannelsTypeOK
<1>1. ServiceInit => ChannelInv
    BY ChannelInvInit DEF ServiceInit
<1>2. ChannelInv /\ [ServiceNext]_serviceVars => ChannelInv'
    BY ChannelInvStep, StepOfParts
<1>3. ChannelInv => ChannelsTypeOK
    <2> SUFFICES ASSUME ChannelInv PROVE ChannelsTypeOK
        OBVIOUS
    <2>1. /\ lastChannel \in 0..Cardinality(Visits) /\ 1..lastChannel \subseteq Ids
          /\ DOMAIN channels \subseteq 1..lastChannel /\ crossed \in BOOLEAN
        BY ChannelsAssumption, FS_CardinalityType DEF ChannelInv, ChannelsOK, Ids
    <2>2. \A r \in RuleRow : r.channel \in Ids => r \in Rule
        BY DEF RuleRow, Rule
    <2>3. rules \subseteq Rule
        BY <2>1, <2>2 DEF ChannelInv, RulesOK
    <2>4. \A v \in Visits : visit[v].pc \in {"new", "rules", "toggle", "done"}
        BY DEF ChannelInv, VisitsOK
    <2>5. ASSUME NEW s \in Sends
          PROVE  /\ send[s].pc \in {"new", "logged", "sending", "over", "cut"}
                 /\ send[s].todo \subseteq Rule /\ send[s].chosen \subseteq Ids
        BY <2>2 DEF ChannelInv, SendsOK, SendRows, SendOK
    <2>6. ASSUME NEW s \in Sends, NEW c \in Ids PROVE got[s][c] \in 0..Cardinality(Visits)
        <3>1. send[s].todo \in SUBSET RuleRow /\ got[s][c] \in Nat
            BY DEF ChannelInv, SendsOK, SendRows
        <3>2. got[s][c] + Cardinality(Askers(send[s].todo, c)) <= Cardinality(Visits)
            BY DEF ChannelInv, SendsOK, SendOK
        <3>3. Cardinality(Askers(send[s].todo, c)) \in Nat /\ Cardinality(Visits) \in Nat
            BY <3>1, AskersCount
        <3> QED
            BY <3>1, <3>2, <3>3
    <2>7. got \in [Sends -> [Ids -> 0..Cardinality(Visits)]]
        <3>1. got \in [Sends -> [Ids -> Nat]]
            BY DEF ChannelInv, SendsOK
        <3>2. ASSUME NEW s \in Sends PROVE got[s] \in [Ids -> 0..Cardinality(Visits)]
            BY <2>6, <3>1
        <3> QED
            BY <3>1, <3>2
    <2> QED
        BY <2>1, <2>3, <2>4, <2>5, <2>7 DEF ChannelsTypeOK
<1> QED
    BY <1>1, <1>2, <1>3, PTL DEF ServiceSpec

-----------------------------------------------------------------------------
(* Theorem: the parts of the service are of their types at all times: no   *)
(* id is beyond the sequence it comes from, no two rows break a UNIQUE of  *)
(* app/database.py, and no channel is tried more often than there were     *)
(* requests for its rules.                                                 *)
THEOREM ServiceTypeHolds == ServiceSpec => []ServiceTypeOK
<1>1. StartupInv => StartupTypeOK
    BY DEF StartupInv
<1>2. QuietInv => QuietTypeOK
    BY DEF QuietInv
<1>3. StartupTypeOK /\ HostAdminTypeOK /\ QuietTypeOK /\ SubnetsTypeOK /\ ChannelsTypeOK
        => ServiceTypeOK
    BY DEF ServiceTypeOK
<1> QED
    BY <1>1, <1>2, <1>3, StartupInvHolds, QuietInvHolds, HostAdminTypeHolds,
       SubnetsTypeHolds, ChannelsTypeHolds, PTL
=============================================================================
