------------------------- MODULE DiagnosticsProofs --------------------------
(***************************************************************************)
(* What the diagnostic pages promise, for every number of scans and        *)
(* validations, every network and every order of their steps.              *)
(*                                                                         *)
(* A step changes one scan or one validation.  What holds of a scan is a   *)
(* predicate of its locals and its entry, so that a step is shown to keep  *)
(* it for its own scan, and the clock and the edits for all of them.       *)
(***************************************************************************)
EXTENDS Diagnostics, FiniteSetTheorems, WellFoundedInduction, TLAPS

-----------------------------------------------------------------------------
(* The greatest and the least of a finite set, and the first of the names. *)

LEMMA MaxOfFinite ==
    ASSUME NEW S \in SUBSET Nat, IsFiniteSet(S), S # {}
    PROVE  Max(S) \in S
<1> DEFINE Above(x) == {y \in S : y > x}
           family   == {Above(x) : x \in S}
<1>1. family \subseteq FiniteSubsetsOf(S) /\ family # {}
  <2>1. FiniteSubsetsOf(S) = SUBSET S
    BY FS_FiniteSubsetsOfFinite
  <2>2. \A x \in S : Above(x) \in SUBSET S
    OBVIOUS
  <2>3. PICK x \in S : TRUE
    OBVIOUS
  <2> HIDE DEF Above
  <2> QED BY <2>1, <2>2, <2>3
<1>2. IsWellFoundedOn(StrictSubsetOrdering(S), FiniteSubsetsOf(S))
  BY FS_StrictSubsetOrderingWellFounded
<1>3. PICK A \in family : \A B \in family : ~ (<<B, A>> \in StrictSubsetOrdering(S))
  <2> HIDE DEF family
  <2> QED BY <1>1, <1>2, WFMin
<1>4. PICK x \in S : A = Above(x)
  BY <1>3
<1>5. \A y \in S : x >= y
  <2>1. SUFFICES ASSUME NEW y \in S, y > x PROVE FALSE
    BY SMT
  <2>2. Above(y) \subseteq Above(x) /\ y \in Above(x) /\ y \notin Above(y)
    <3>1. x \in Nat /\ y \in Nat /\ \A z \in S : z \in Nat
      OBVIOUS
    <3>2. \A z \in S : z > y => z > x
      BY <2>1, <3>1
    <3>3. ~ (y > y)
      BY <3>1
    <3> QED BY <2>1, <3>2, <3>3
  <2>3. <<Above(y), Above(x)>> \in StrictSubsetOrdering(S)
    BY <2>2 DEF StrictSubsetOrdering
  <2> QED BY <1>3, <1>4, <2>3
<1> QED BY <1>5 DEF Max

LEMMA MinOfFinite ==
    ASSUME NEW S \in SUBSET Nat, IsFiniteSet(S), S # {}
    PROVE  Min(S) \in S
<1> DEFINE Below(x) == {y \in S : y < x}
           family   == {Below(x) : x \in S}
<1>1. family \subseteq FiniteSubsetsOf(S) /\ family # {}
  <2>1. FiniteSubsetsOf(S) = SUBSET S
    BY FS_FiniteSubsetsOfFinite
  <2>2. \A x \in S : Below(x) \in SUBSET S
    OBVIOUS
  <2>3. PICK x \in S : TRUE
    OBVIOUS
  <2> HIDE DEF Below
  <2> QED BY <2>1, <2>2, <2>3
<1>2. IsWellFoundedOn(StrictSubsetOrdering(S), FiniteSubsetsOf(S))
  BY FS_StrictSubsetOrderingWellFounded
<1>3. PICK A \in family : \A B \in family : ~ (<<B, A>> \in StrictSubsetOrdering(S))
  <2> HIDE DEF family
  <2> QED BY <1>1, <1>2, WFMin
<1>4. PICK x \in S : A = Below(x)
  BY <1>3
<1>5. \A y \in S : x =< y
  <2>1. SUFFICES ASSUME NEW y \in S, y < x PROVE FALSE
    BY SMT
  <2>2. Below(y) \subseteq Below(x) /\ y \in Below(x) /\ y \notin Below(y)
    <3>1. x \in Nat /\ y \in Nat /\ \A z \in S : z \in Nat
      OBVIOUS
    <3>2. \A z \in S : z < y => z < x
      BY <2>1, <3>1
    <3>3. ~ (y < y)
      BY <3>1
    <3> QED BY <2>1, <3>2, <3>3
  <2>3. <<Below(y), Below(x)>> \in StrictSubsetOrdering(S)
    BY <2>2 DEF StrictSubsetOrdering
  <2> QED BY <1>3, <1>4, <2>3
<1> QED BY <1>5 DEF Min

(* The chain of "or" ends in one of its names, or in Null.                 *)
LEMMA FirstOfIsOne ==
    ASSUME NEW k \in Nat, NEW names, DOMAIN names = 1..k
    PROVE  FirstOf(names) = Null \/ \E i \in 1..k : FirstOf(names) = names[i]
<1> DEFINE given == {i \in DOMAIN names : names[i] # Null}
<1>1. given \in SUBSET Nat /\ IsFiniteSet(given)
  BY FS_Interval, FS_Subset
<1>2. CASE given # {}
  <2>1. Min(given) \in given
    BY <1>1, <1>2, MinOfFinite
  <2> QED BY <2>1 DEF FirstOf
<1> QED BY <1>2 DEF FirstOf

(* Its first name is taken, if it is one.                                  *)
LEMMA FirstOfIsFirst ==
    ASSUME NEW k \in Nat \ {0}, NEW names, DOMAIN names = 1..k, names[1] # Null
    PROVE  FirstOf(names) = names[1]
<1> DEFINE given == {i \in DOMAIN names : names[i] # Null}
<1>1. given \in SUBSET (1..k) /\ 1 \in given /\ \A i \in given : 1 =< i
  OBVIOUS
<1>2. Min(given) = 1
  <2> HIDE DEF given
  <2>1. Min(given) \in given /\ \A i \in given : Min(given) =< i
    BY <1>1 DEF Min
  <2>2. Min(given) \in 1..k /\ Min(given) =< 1
    BY <1>1, <2>1
  <2> QED BY <2>2
<1> QED BY <1>1, <1>2 DEF FirstOf

-----------------------------------------------------------------------------
(* The debug logs.                                                         *)

Distinct(seq) == \A i, j \in DOMAIN seq : seq[i] = seq[j] => i = j

LogPart == LogTypeOK /\ IsFiniteSet(open) /\ Len(files) =< Keep + Cardinality(open)

LEMMA RemovedAt ==
    ASSUME NEW S, NEW seq \in Seq(S), NEW k \in DOMAIN seq
    PROVE  /\ RemoveAt(seq, k) \in Seq(S) /\ Len(RemoveAt(seq, k)) = Len(seq) - 1
           /\ \A i \in 1..(Len(seq) - 1) :
                 RemoveAt(seq, k)[i] = IF i < k THEN seq[i] ELSE seq[i + 1]
<1> DEFINE a == SubSeq(seq, 1, k - 1)
           b == SubSeq(seq, k + 1, Len(seq))
<1>1. k \in 1..Len(seq) /\ Len(seq) \in Nat
  OBVIOUS
<1>2. a \in Seq(S) /\ Len(a) = k - 1 /\ \A i \in 1..(k - 1) : a[i] = seq[i]
  BY <1>1
<1>3. b \in Seq(S) /\ Len(b) = Len(seq) - k /\ \A i \in 1..(Len(seq) - k) : b[i] = seq[k + i]
  BY <1>1
<1> HIDE DEF a, b
<1>4. a \o b \in Seq(S) /\ Len(a \o b) = Len(seq) - 1
  BY <1>1, <1>2, <1>3
<1>5. \A i \in 1..(Len(seq) - 1) : (a \o b)[i] = IF i < k THEN seq[i] ELSE seq[i + 1]
  BY <1>1, <1>2, <1>3, SMTT(30)
<1> QED BY <1>4, <1>5 DEF RemoveAt, a, b

LEMMA TouchedKeeps ==
    ASSUME LogTypeOK, NEW job \in Jobs
    PROVE  /\ Touched(job) \in Seq(Jobs) /\ Len(Touched(job)) = Len(files)
           /\ Distinct(Touched(job))
           /\ ToSet(Touched(job)) \subseteq ToSet(files)
<1>1. files \in Seq(Jobs) /\ Distinct(files)
  BY DEF LogTypeOK, Distinct
<1>2. CASE job \notin ToSet(files)
  BY <1>1, <1>2 DEF Touched
<1>3. CASE job \in ToSet(files)
  <2> DEFINE k == CHOOSE i \in DOMAIN files : files[i] = job
             q == RemoveAt(files, k)
  <2>1. k \in DOMAIN files /\ files[k] = job
    BY <1>3 DEF ToSet
  <2>2. /\ q \in Seq(Jobs) /\ Len(q) = Len(files) - 1
        /\ \A i \in 1..(Len(files) - 1) : q[i] = IF i < k THEN files[i] ELSE files[i + 1]
    <3> HIDE DEF k
    <3> QED BY <1>1, <2>1, RemovedAt
  <2>3. Touched(job) = Append(q, job)
    BY <1>3 DEF Touched
  <2> HIDE DEF k, q
  <2>4. Len(files) \in Nat /\ DOMAIN files = 1..Len(files) /\ k \in 1..Len(files)
    BY <1>1, <2>1
  <2>5. /\ Touched(job) \in Seq(Jobs) /\ Len(Touched(job)) = Len(files)
        /\ Touched(job)[Len(files)] = job
        /\ \A i \in 1..(Len(files) - 1) : Touched(job)[i] = q[i]
    BY <2>2, <2>3, <2>4
  <2>6. \A i \in 1..(Len(files) - 1) : q[i] # job
    BY <1>1, <2>1, <2>2, <2>4 DEF Distinct
  <2>7. \A i, j \in 1..(Len(files) - 1) : q[i] = q[j] => i = j
    <3> DEFINE at(i) == IF i < k THEN i ELSE i + 1
    <3>1. SUFFICES ASSUME NEW i \in 1..(Len(files) - 1), NEW j \in 1..(Len(files) - 1), q[i] = q[j]
                   PROVE  i = j
      OBVIOUS
    <3>2. at(i) \in 1..Len(files) /\ at(j) \in 1..Len(files)
      BY <2>4
    <3>3. q[i] = files[at(i)] /\ q[j] = files[at(j)]
      BY <2>2
    <3>4. at(i) = at(j)
      <4> HIDE DEF at
      <4> QED BY <1>1, <2>4, <3>1, <3>2, <3>3 DEF Distinct
    <3> QED BY <2>4, <3>4
  <2>8. Distinct(Touched(job))
    BY <2>4, <2>5, <2>6, <2>7 DEF Distinct
  <2>9. \A i \in 1..Len(files) : Touched(job)[i] \in ToSet(files)
    <3>1. \A m \in 1..Len(files) : files[m] \in ToSet(files)
      BY <2>4 DEF ToSet
    <3>2. \A i \in 1..(Len(files) - 1) : i \in 1..Len(files) /\ i + 1 \in 1..Len(files)
      BY <2>4
    <3>3. \A i \in 1..(Len(files) - 1) : q[i] \in ToSet(files)
      BY <2>2, <3>1, <3>2
    <3> QED BY <1>3, <2>4, <2>5, <3>3
  <2> QED BY <2>4, <2>5, <2>8, <2>9 DEF ToSet
<1> QED BY <1>2, <1>3

LEMMA WrittenWithinCap ==
    ASSUME LogTypeOK, ScanLogAssumption, NEW job \in Jobs, NEW size \in LineSizes
    PROVE  [bytes EXCEPT ![job] = Written(job, size)] \in [Jobs -> 0..MaxBytes]
<1>1. bytes \in [Jobs -> 0..MaxBytes] /\ MaxBytes \in Nat /\ size \in Nat
  BY DEF LogTypeOK, ScanLogAssumption
<1>2. Written(job, size) \in 0..MaxBytes
  BY <1>1 DEF Written
<1> QED BY <1>1, <1>2

LEMMA OpenLogKeeps ==
    ASSUME LogPart, ScanLogAssumption, NEW job \in Jobs, OpenLog(job),
           job \notin open, job \notin ToSet(files)
    PROVE  /\ LogPart' /\ open' = open \cup {job}
           /\ ToSet(files') \subseteq ToSet(files) \cup {job}
<1>1. /\ open' = open \cup {job} /\ files' = Append(files, job)
      /\ files \in Seq(Jobs) /\ Distinct(files) /\ open \subseteq Jobs
  BY DEF OpenLog, LogPart, LogTypeOK, Distinct
<1>2. bytes' \in [Jobs -> 0..MaxBytes]
  BY WrittenWithinCap DEF OpenLog, LogPart
<1>3. /\ files' \in Seq(Jobs) /\ Len(files') = Len(files) + 1 /\ files'[Len(files) + 1] = job
      /\ DOMAIN files = 1..Len(files) /\ DOMAIN files' = 1..(Len(files) + 1)
      /\ Len(files) \in Nat /\ \A i \in 1..Len(files) : files'[i] = files[i]
  BY <1>1
<1>4. \A i \in 1..Len(files) : files[i] # job
  BY <1>3 DEF ToSet
<1>5. \A i, j \in DOMAIN files' : files'[i] = files'[j] => i = j
  BY <1>1, <1>3, <1>4 DEF Distinct
<1>6. /\ IsFiniteSet(open') /\ Cardinality(open') = Cardinality(open) + 1
      /\ Cardinality(open) \in Nat
  BY <1>1, FS_AddElement, FS_CardinalityType DEF LogPart
<1>7. Len(files') =< Keep + Cardinality(open')
  BY <1>3, <1>6 DEF LogPart, ScanLogAssumption
<1>8. ToSet(files') \subseteq ToSet(files) \cup {job}
  BY <1>3 DEF ToSet
<1> QED BY <1>1, <1>2, <1>3, <1>5, <1>6, <1>7, <1>8 DEF LogPart, LogTypeOK

LEMMA EmitKeeps ==
    ASSUME LogPart, ScanLogAssumption, NEW job \in Jobs, Emit(job)
    PROVE  LogPart' /\ open' = open /\ ToSet(files') \subseteq ToSet(files)
<1>1. bytes' \in [Jobs -> 0..MaxBytes]
  BY WrittenWithinCap DEF Emit, LogPart
<1>2. files' = Touched(job) /\ open' = open
  BY DEF Emit
<1> QED BY <1>1, <1>2, TouchedKeeps DEF LogPart, LogTypeOK, Distinct

LEMMA CloseLogKeeps ==
    ASSUME LogPart, ScanLogAssumption, NEW job \in Jobs, CloseLog(job)
    PROVE  LogPart' /\ open' \subseteq open /\ ToSet(files') \subseteq ToSet(files)
<1> DEFINE kept == Touched(job)
<1>1. bytes' \in [Jobs -> 0..MaxBytes]
  BY WrittenWithinCap DEF CloseLog, LogPart
<1>2. files' = Rotated(kept) /\ open' = open \ {job} /\ open \subseteq Jobs
  BY DEF CloseLog, LogPart, LogTypeOK
<1>3. /\ kept \in Seq(Jobs) /\ Distinct(kept) /\ ToSet(kept) \subseteq ToSet(files)
  BY TouchedKeeps DEF LogPart
<1>4. IsFiniteSet(open') /\ Cardinality(open') \in Nat
  BY <1>2, FS_RemoveElement, FS_CardinalityType DEF LogPart
<1>5. Keep \in Nat /\ Len(kept) \in Nat /\ DOMAIN kept = 1..Len(kept)
  BY <1>3 DEF ScanLogAssumption
<1> HIDE DEF kept
<1>6. CASE Len(kept) > Keep
  <2>1. files' = SubSeq(kept, Len(kept) - Keep + 1, Len(kept))
    BY <1>2, <1>6 DEF Rotated
  <2>2. /\ files' \in Seq(Jobs) /\ Len(files') = Keep
        /\ \A i \in 1..Keep : files'[i] = kept[Len(kept) - Keep + i]
    BY <1>3, <1>5, <1>6, <2>1
  <2>3. DOMAIN files' = 1..Keep
    BY <2>2
  <2>4. \A i \in 1..Keep : Len(kept) - Keep + i \in DOMAIN kept
    BY <1>5, <1>6
  <2>5. \A i, j \in DOMAIN files' : files'[i] = files'[j] => i = j
    <3>1. SUFFICES ASSUME NEW i \in 1..Keep, NEW j \in 1..Keep, files'[i] = files'[j]
                   PROVE  i = j
      BY <2>3
    <3>2. Len(kept) - Keep + i = Len(kept) - Keep + j
      <4>1. kept[Len(kept) - Keep + i] = kept[Len(kept) - Keep + j]
        BY <2>2, <3>1
      <4>2. Len(kept) - Keep + i \in DOMAIN kept /\ Len(kept) - Keep + j \in DOMAIN kept
        BY <2>4
      <4> HIDE DEF kept
      <4> QED BY <1>3, <4>1, <4>2 DEF Distinct
    <3> QED BY <1>5, <3>2
  <2>6. ToSet(files') \subseteq ToSet(kept)
    BY <2>2, <2>3, <2>4 DEF ToSet
  <2> QED BY <1>1, <1>2, <1>3, <1>4, <1>5, <2>2, <2>5, <2>6 DEF LogPart, LogTypeOK
<1>7. CASE ~ (Len(kept) > Keep)
  <2>1. files' = kept
    BY <1>2, <1>7 DEF Rotated
  <2> QED BY <1>1, <1>2, <1>3, <1>4, <1>5, <1>7, <2>1 DEF LogPart, LogTypeOK, Distinct
<1> QED BY <1>5, <1>6, <1>7

-----------------------------------------------------------------------------
(* The sources of names.                                                   *)

Maps  == UNION {[D -> NameSet] : D \in SUBSET (Macs \cup IPs)}
Names == NameSet \cup {Null}
Hosts == [mac: Macs, ip: IPs \cup {Null}, name: NameSet]
Srcs  == [known: Maps, knownByIp: Maps, mdnsIp: Maps, mdnsMac: Maps, cached: Maps]

LEMMA EmptyMap == \A S : <<>> \in [{} -> S] /\ DOMAIN <<>> = {}
OBVIOUS

LEMMA EmptyIsMap == <<>> \in Maps /\ NoNames \in Srcs
<1>1. <<>> \in Maps
  BY EmptyMap DEF Maps
<1> QED BY <1>1 DEF NoNames, Srcs

LEMMA MapIntro ==
    ASSUME NEW f, DOMAIN f \subseteq Macs \cup IPs, f = [k \in DOMAIN f |-> f[k]],
           \A k \in DOMAIN f : f[k] \in NameSet
    PROVE  f \in Maps
<1>1. f \in [DOMAIN f -> NameSet]
  OBVIOUS
<1> QED BY <1>1 DEF Maps

LEMMA MapElim ==
    ASSUME NEW f \in Maps
    PROVE  /\ DOMAIN f \subseteq Macs \cup IPs /\ \A k \in DOMAIN f : f[k] \in NameSet
           /\ \A k : Lookup(f, k) \in Names
<1>1. PICK D \in SUBSET (Macs \cup IPs) : f \in [D -> NameSet]
  BY DEF Maps
<1> QED BY <1>1 DEF Lookup, Names

LEMMA KnownIsMap ==
    ASSUME NamesAssumption, NEW table \in [Records -> Hosts]
    PROVE  LoadKnownHostnames(table) \in Maps
<1> DEFINE keys == {table[r].mac : r \in Records} \ {Null}
           rows(k) == {r \in Records : table[r].mac = k}
           f == [k \in keys |-> table[Max(rows(k))].name]
<1>1. LoadKnownHostnames(table) = f
  BY DEF LoadKnownHostnames, NamesBy
<1>2. keys \subseteq Macs
  BY DEF Hosts
<1>3. ASSUME NEW k \in keys
      PROVE  f[k] \in NameSet
  <2>1. rows(k) \subseteq Records /\ rows(k) # {}
    BY <1>3
  <2>2. rows(k) \in SUBSET Nat /\ IsFiniteSet(rows(k))
    BY <2>1, FS_Subset DEF NamesAssumption
  <2> HIDE DEF rows
  <2>3. Max(rows(k)) \in Records
    BY <2>1, <2>2, MaxOfFinite
  <2> QED BY <2>3 DEF Hosts
<1>4. DOMAIN f = keys /\ f = [k \in DOMAIN f |-> f[k]]
  OBVIOUS
<1> HIDE DEF f
<1> QED BY <1>1, <1>2, <1>3, <1>4, MapIntro

LEMMA KnownByIpIsMap ==
    ASSUME NamesAssumption, NEW table \in [Records -> Hosts]
    PROVE  LoadKnownHostnamesByIp(table) \in Maps
<1> DEFINE keys == {table[r].ip : r \in Records} \ {Null}
           rows(k) == {r \in Records : table[r].ip = k}
           f == [k \in keys |-> table[Max(rows(k))].name]
<1>1. LoadKnownHostnamesByIp(table) = f
  BY DEF LoadKnownHostnamesByIp, NamesBy
<1>2. keys \subseteq IPs
  BY DEF Hosts
<1>3. ASSUME NEW k \in keys
      PROVE  f[k] \in NameSet
  <2>1. rows(k) \subseteq Records /\ rows(k) # {}
    BY <1>3
  <2>2. rows(k) \in SUBSET Nat /\ IsFiniteSet(rows(k))
    BY <2>1, FS_Subset DEF NamesAssumption
  <2> HIDE DEF rows
  <2>3. Max(rows(k)) \in Records
    BY <2>1, <2>2, MaxOfFinite
  <2> QED BY <2>3 DEF Hosts
<1>4. DOMAIN f = keys /\ f = [k \in DOMAIN f |-> f[k]]
  OBVIOUS
<1> HIDE DEF f
<1> QED BY <1>1, <1>2, <1>3, <1>4, MapIntro

LEMMA HeardIsMap ==
    ASSUME ScanAssumption, NEW heard \in Hearings
    PROVE  ByIp(heard) \in Maps /\ ByMac(heard) \in Maps
<1>1. \A a \in heard : /\ a.ip \in IPs \cup {Null} /\ a.mac \in Macs \cup {Null}
                      /\ a.name \in NameSet
  BY DEF Hearings, ScanAssumption
<1>2. ByIp(heard) \in Maps
  <2> DEFINE f == ByIp(heard)
  <2>1. DOMAIN f = {a.ip : a \in heard} \ {Null} /\ f = [i \in DOMAIN f |-> f[i]]
    BY DEF ByIp
  <2>2. ASSUME NEW i \in DOMAIN f PROVE f[i] \in NameSet
    <3>1. (CHOOSE a \in heard : a.ip = i) \in heard
      BY <2>1, <2>2
    <3> QED BY <1>1, <2>1, <2>2, <3>1 DEF ByIp
  <2>3. DOMAIN f \subseteq Macs \cup IPs
    BY <1>1, <2>1
  <2> HIDE DEF f
  <2>4. f \in Maps
    BY <2>1, <2>2, <2>3, MapIntro
  <2> QED BY <2>4 DEF f
<1>3. ByMac(heard) \in Maps
  <2> DEFINE f == ByMac(heard)
  <2>1. DOMAIN f = {a.mac : a \in heard} \ {Null} /\ f = [m \in DOMAIN f |-> f[m]]
    BY DEF ByMac
  <2>2. ASSUME NEW m \in DOMAIN f PROVE f[m] \in NameSet
    <3>1. (CHOOSE a \in heard : a.mac = m) \in heard
      BY <2>1, <2>2
    <3> QED BY <1>1, <2>1, <2>2, <3>1 DEF ByMac
  <2>3. DOMAIN f \subseteq Macs \cup IPs
    BY <1>1, <2>1
  <2> HIDE DEF f
  <2>4. f \in Maps
    BY <2>1, <2>2, <2>3, MapIntro
  <2> QED BY <2>4 DEF f
<1> QED BY <1>2, <1>3

LEMMA RememberedIsMap ==
    ASSUME NEW cache \in Maps, NEW live \in Maps
    PROVE  RememberMdnsNames(cache, live) \in Maps
<1> DEFINE f == RememberMdnsNames(cache, live)
<1>1. DOMAIN f = DOMAIN cache \cup DOMAIN live /\ f = [m \in DOMAIN f |-> f[m]]
  BY DEF RememberMdnsNames
<1>2. \A m \in DOMAIN f : f[m] \in NameSet
  BY MapElim DEF RememberMdnsNames
<1>3. DOMAIN f \subseteq Macs \cup IPs
  BY <1>1, MapElim
<1> HIDE DEF f
<1>4. f \in Maps
  BY <1>1, <1>2, <1>3, MapIntro
<1> QED BY <1>4 DEF f

LEMMA ImageOf ==
    ASSUME NEW S, IsFiniteSet(S), NEW f, f = [x \in S |-> f[x]], NEW T, T = {f[x] : x \in S}
    PROVE  /\ IsFiniteSet(T)
           /\ (\A x, y \in S : f[x] = f[y] => x = y) => Cardinality(T) = Cardinality(S)
<1>1. f \in [S -> T] /\ \A y \in T : \E x \in S : f[x] = y
  OBVIOUS
<1>2. f \in Surjection(S, T)
  BY <1>1 DEF Surjection
<1>3. (\A x, y \in S : f[x] = f[y] => x = y) => f \in Injection(S, T)
  BY <1>1 DEF Injection, IsInjective
<1>4. IsFiniteSet(T)
  BY <1>2, FS_Surjection
<1>5. f \in Injection(S, T) => Cardinality(T) = Cardinality(S)
  BY <1>2, FS_Surjection
<1> QED BY <1>3, <1>4, <1>5

(* A row, and an address, are named from the record whenever there is one. *)
LEMMA RowIsNamed ==
    ASSUME NamesAssumption, NEW src \in Srcs, NEW row \in Row
    PROVE  /\ ApplyHostnames(row, src) \in Names
           /\ Lookup(src.known, row.mac) # Null =>
                 ApplyHostnames(row, src) = Lookup(src.known, row.mac)
<1> DEFINE names == <<Lookup(src.known, row.mac), Lookup(src.knownByIp, row.ip),
                      Lookup(src.mdnsIp, row.ip), Lookup(src.mdnsMac, row.mac),
                      Lookup(src.cached, row.mac), row.name>>
<1>1. DOMAIN names = 1..6 /\ names[1] = Lookup(src.known, row.mac)
  OBVIOUS
<1>2. /\ src.known \in Maps /\ src.knownByIp \in Maps /\ src.mdnsIp \in Maps
      /\ src.mdnsMac \in Maps /\ src.cached \in Maps /\ row.name \in Names
  BY DEF Srcs, Row, Names
<1>3. \A i \in 1..6 : names[i] \in Names
  BY <1>2, MapElim
<1>4. ApplyHostnames(row, src) = FirstOf(names)
  BY DEF ApplyHostnames
<1> HIDE DEF names
<1>5. 6 \in Nat /\ 6 \in Nat \ {0}
  OBVIOUS
<1>6. FirstOf(names) = Null \/ \E i \in 1..6 : FirstOf(names) = names[i]
  BY <1>1, <1>5, FirstOfIsOne
<1>7. names[1] # Null => FirstOf(names) = names[1]
  BY <1>1, <1>5, FirstOfIsFirst
<1> QED BY <1>1, <1>3, <1>4, <1>6, <1>7 DEF Names

LEMMA AddressIsNamed ==
    ASSUME NamesAssumption, NEW src \in Srcs, NEW ip \in IPs, NEW mac
    PROVE  /\ ResolveHostname(ip, mac, src) \in Names
           /\ Lookup(src.known, mac) # Null =>
                 ResolveHostname(ip, mac, src) = Lookup(src.known, mac)
<1> DEFINE names == <<Lookup(src.known, mac), Lookup(src.mdnsMac, mac),
                      Lookup(src.cached, mac), Lookup(src.mdnsIp, ip), Lookup(ReverseDns, ip)>>
<1>1. DOMAIN names = 1..5 /\ names[1] = Lookup(src.known, mac)
  OBVIOUS
<1>2. /\ src.known \in Maps /\ src.mdnsIp \in Maps /\ src.mdnsMac \in Maps
      /\ src.cached \in Maps /\ Lookup(ReverseDns, ip) \in Names
  BY DEF Srcs, Names, NamesAssumption, Lookup
<1>3. \A i \in 1..5 : names[i] \in Names
  BY <1>2, MapElim
<1>4. ResolveHostname(ip, mac, src) = FirstOf(names)
  BY DEF ResolveHostname
<1> HIDE DEF names
<1>5. 5 \in Nat /\ 5 \in Nat \ {0}
  OBVIOUS
<1>6. FirstOf(names) = Null \/ \E i \in 1..5 : FirstOf(names) = names[i]
  BY <1>1, <1>5, FirstOfIsOne
<1>7. names[1] # Null => FirstOf(names) = names[1]
  BY <1>1, <1>5, FirstOfIsFirst
<1> QED BY <1>1, <1>3, <1>4, <1>6, <1>7 DEF Names

-----------------------------------------------------------------------------
(* The invariant, part by part.  Of a scan, with locals t and entry e, at  *)
(* time at, when hosts has held the names.                                 *)

PortMaps == UNION {[D -> (SUBSET Ports) \ {{}}] : D \in SUBSET IPs}
TaskRec  == [pc: Pcs, wantsPorts: BOOLEAN, rows: SUBSET Row, src: Srcs,
             named: BOOLEAN, todo: SUBSET Row, portMap: PortMaps]

Waiting == {"begin", "sweep", "remember", "known", "knownByIp", "cached", "publish"}

(* The entry is as far as the task.                                        *)
EntryOK(t, e, at) ==
    /\ e = Null <=> t.pc = "none"
    /\ e # Null => /\ e.start =< at
                   /\ e.final # Null <=> t.pc = "over"
                   /\ e.status = "complete" <=> t.pc = "over"
                   /\ e.status = "scanning_ports" <=> t.pc = "ports"
    /\ t.pc \in Waiting => e.rows = {} /\ e.scanned = 0 /\ ~ e.error

(* The names read from hosts are of their record, and so are those shown.  *)
NamesOf(known, names) == \A m \in Macs : Lookup(known, m) \in names[m]

RowsNamed(rows, names) ==
    \A r \in rows : r.mac # Null /\ Null \notin names[r.mac] => r.name \in names[r.mac]

NamedOK(t, e, names) ==
    t.named =>
        /\ t.pc \in {"knownByIp", "cached", "publish"} => NamesOf(t.src.known, names)
        /\ e # Null => RowsNamed(e.rows, names)

(* Rows that differ keep differing when they get their ports.              *)
Keyed(rows) == \A r, q \in rows : r.ip = q.ip /\ r.mac = q.mac /\ r.name = q.name => r = q

Mapped(rows, portMap) == \A r \in rows : r.ports \notin {Null, {}} => r.ip \in DOMAIN portMap

(* The rows still to scan and the rows scanned are all the rows.           *)
CountOK(t, e) ==
    t.pc = "ports" =>
        /\ t.wantsPorts /\ ~ e.error
        /\ IsFiniteSet(t.todo) /\ IsFiniteSet(e.rows) /\ Keyed(e.rows)
        /\ e.scanned + Cardinality(t.todo) = Cardinality(e.rows)
        /\ Mapped(e.rows, t.portMap)

WholeOK(t, e) ==
    t.pc = "over" /\ t.wantsPorts /\ ~ e.error =>
        e.scanned = Cardinality(e.rows) /\ \A r \in e.rows : r.ports # Null

ScanOK(t, e, at, names) ==
    /\ EntryOK(t, e, at) /\ NamedOK(t, e, names) /\ CountOK(t, e) /\ WholeOK(t, e)
    /\ IsFiniteSet(t.rows) /\ \A r \in t.rows : r.ports = Null

(* Of a validation k.                                                      *)
NameMaps == UNION {[D -> Names] : D \in SUBSET IPs}
CheckPcs == {"none", "sweep", "listen", "probe", "known", "cached", "answer", "over"}
CheckRec == [pc: CheckPcs, mac: Macs \cup {Null}, ip: IPs \cup {Null},
             foundIp: IPs \cup {Null}, foundMac: Macs \cup {Null}, src: Srcs,
             probed: SUBSET IPs, names: NameMaps]

CheckOK(k, names) ==
    /\ k.pc \in {"none", "sweep"} => k.foundMac = Null
    /\ k.pc \in {"none", "sweep", "listen", "probe", "over"} => DOMAIN k.names = {}
    /\ k.foundMac # Null => k.ip \in IPs
    /\ k.pc \in {"known", "cached", "answer"} => k.probed = {k.ip, k.foundIp} \ {Null}
    /\ DOMAIN k.names \subseteq k.probed
    /\ k.pc = "answer" => DOMAIN k.names = k.probed
    /\ k.pc = "cached" => NamesOf(k.src.known, names)
    /\ k.foundMac # Null /\ Null \notin names[k.foundMac] =>
          \A i \in DOMAIN k.names : k.names[i] \in names[k.foundMac]

(* And of them all.  A log belongs to a job that has begun.                *)
Begun == {s \in Scans : task[s].pc \notin {"none", "begin"}} \cup {c \in Checks : check[c].pc # "none"}

LogInv == LogPart /\ open \subseteq Begun /\ ToSet(files) \subseteq Begun

TableInv ==
    /\ hosts \in [Records -> Hosts] /\ mdnsNames \in Maps
    /\ past \in [Macs -> SUBSET Names]
    /\ \A m \in Macs : NameOfMac(hosts, m) \in past[m]
    /\ edits \in 0..MaxEdits /\ now \in 0..MaxTime /\ connected \subseteq Scans

ScanInv ==
    /\ task \in [Scans -> TaskRec] /\ progress \in [Scans -> Entry \cup {Null}]
    /\ \A s \in Scans : ScanOK(task[s], progress[s], now, past)

CheckInv ==
    /\ check \in [Checks -> CheckRec]
    /\ \A c \in Checks : CheckOK(check[c], past)

DiagInv == LogInv /\ TableInv /\ ScanInv /\ CheckInv

(* What a step makes of an entry, at time at: it never goes back.          *)
Grows(e, e2, at) ==
    e # Null =>
        /\ e2 # Null /\ e2.start = e.start
        /\ e.final # Null => e2.final = e.final
        /\ e.final = Null => e2.final \in {Null, at - e.start}
        /\ \A ip \in IPs : HasPorts(e, ip) => HasPorts(e2, ip)

AllGrow == now =< now' /\ \A s \in Scans : Grows(progress[s], progress'[s], now')

-----------------------------------------------------------------------------
(* What time and edits leave as it is.                                     *)

LEMMA ScanLater ==
    ASSUME NEW t \in TaskRec, NEW e \in Entry \cup {Null}, NEW at \in Nat, NEW at2 \in Nat,
           NEW names, NEW names2, at =< at2, \A m \in Macs : names[m] \subseteq names2[m],
           ScanAssumption, ScanOK(t, e, at, names)
    PROVE  ScanOK(t, e, at2, names2)
<1>1. EntryOK(t, e, at2)
  <2>1. e # Null => e.start \in Nat /\ e.start =< at
    BY DEF ScanOK, EntryOK, Entry
  <2>2. e # Null => e.start =< at2
    BY <2>1
  <2> QED BY <2>2 DEF ScanOK, EntryOK
<1>2. NamedOK(t, e, names2)
  <2>1. SUFFICES ASSUME t.named
                 PROVE  /\ t.pc \in {"knownByIp", "cached", "publish"} => NamesOf(t.src.known, names2)
                        /\ e # Null => RowsNamed(e.rows, names2)
    BY DEF NamedOK
  <2>2. /\ t.pc \in {"knownByIp", "cached", "publish"} => NamesOf(t.src.known, names)
        /\ e # Null => RowsNamed(e.rows, names)
    BY <2>1 DEF ScanOK, NamedOK
  <2>3. NamesOf(t.src.known, names) => NamesOf(t.src.known, names2)
    BY DEF NamesOf
  <2>4. ASSUME e # Null PROVE RowsNamed(e.rows, names2)
    <3>1. \A r \in e.rows : r.mac # Null => r.mac \in Macs
      BY <2>4 DEF Entry, Row
    <3> QED BY <2>2, <2>4, <3>1 DEF RowsNamed
  <2> QED BY <2>2, <2>3, <2>4
<1> QED BY <1>1, <1>2 DEF ScanOK

LEMMA CheckLater ==
    ASSUME NEW k \in CheckRec, NEW names, NEW names2,
           \A m \in Macs : names[m] \subseteq names2[m], CheckOK(k, names)
    PROVE  CheckOK(k, names2)
<1>1. k.foundMac # Null => k.foundMac \in Macs
  BY DEF CheckRec
<1>2. NamesOf(k.src.known, names) => NamesOf(k.src.known, names2)
  BY DEF NamesOf
<1>3. k.foundMac # Null /\ Null \notin names2[k.foundMac] =>
         \A i \in DOMAIN k.names : k.names[i] \in names2[k.foundMac]
  BY <1>1 DEF CheckOK
<1> QED BY <1>2, <1>3 DEF CheckOK

LEMMA GrowsSame ==
    ASSUME NEW e, NEW at
    PROVE  Grows(e, e, at)
BY DEF Grows

LEMMA InvKept ==
    ASSUME DiagInv, UNCHANGED diagVars
    PROVE  DiagInv' /\ AllGrow
<1>1. /\ hosts' = hosts /\ mdnsNames' = mdnsNames /\ edits' = edits /\ now' = now
      /\ connected' = connected /\ task' = task /\ progress' = progress /\ past' = past
      /\ bytes' = bytes /\ open' = open /\ files' = files /\ check' = check
  BY DEF diagVars, scanVars, logVars
<1>2. LogInv'
  BY <1>1 DEF DiagInv, LogInv, LogPart, LogTypeOK, Begun
<1>3. TableInv'
  BY <1>1 DEF DiagInv, TableInv
<1>4. ScanInv' /\ CheckInv'
  BY <1>1 DEF DiagInv, ScanInv, CheckInv
<1>5. AllGrow
  BY <1>1, GrowsSame DEF AllGrow, DiagInv, TableInv
<1> QED BY <1>2, <1>3, <1>4, <1>5 DEF DiagInv

(* A step that moves one scan only.                                        *)
ScanMoves(s) ==
    \E t \in TaskRec, e \in Entry :
        /\ task' = [task EXCEPT ![s] = t] /\ progress' = [progress EXCEPT ![s] = e]
        /\ ScanOK(t, e, now, past) /\ Grows(progress[s], e, now)
        /\ t.pc = "begin" => task[s].pc = "none" /\ open' = open /\ files' = files

LEMMA ScanMoved ==
    ASSUME DiagInv, ScanAssumption, NEW s \in Scans, ScanMoves(s),
           UNCHANGED <<hosts, edits, now, past, check>>,
           mdnsNames' \in Maps, connected' \subseteq Scans,
           LogPart', open' \subseteq open \cup {s}, ToSet(files') \subseteq ToSet(files) \cup {s}
    PROVE  DiagInv' /\ AllGrow
<1>1. PICK t \in TaskRec : \E e \in Entry :
        /\ task' = [task EXCEPT ![s] = t] /\ progress' = [progress EXCEPT ![s] = e]
        /\ ScanOK(t, e, now, past) /\ Grows(progress[s], e, now)
        /\ t.pc = "begin" => task[s].pc = "none" /\ open' = open /\ files' = files
  BY DEF ScanMoves
<1>2. PICK e \in Entry :
        /\ task' = [task EXCEPT ![s] = t] /\ progress' = [progress EXCEPT ![s] = e]
        /\ ScanOK(t, e, now, past) /\ Grows(progress[s], e, now)
        /\ t.pc = "begin" => task[s].pc = "none" /\ open' = open /\ files' = files
  BY <1>1
<1>3. /\ hosts' = hosts /\ edits' = edits /\ now' = now /\ past' = past /\ check' = check
      /\ task \in [Scans -> TaskRec] /\ progress \in [Scans -> Entry \cup {Null}]
      /\ \A x \in Scans : ScanOK(task[x], progress[x], now, past)
  BY DEF DiagInv, ScanInv
<1>4. /\ task' \in [Scans -> TaskRec] /\ progress' \in [Scans -> Entry \cup {Null}]
      /\ task'[s] = t /\ progress'[s] = e
      /\ \A x \in Scans : x # s => task'[x] = task[x] /\ progress'[x] = progress[x]
  BY <1>2, <1>3
<1>5. ScanInv'
  BY <1>2, <1>3, <1>4 DEF ScanInv
<1>6. AllGrow
  <2>1. \A x \in Scans : Grows(progress[x], progress'[x], now')
    BY <1>2, <1>3, <1>4, GrowsSame
  <2> QED BY <1>3, <2>1 DEF AllGrow, DiagInv, TableInv
<1>7. Begun \subseteq Begun' /\ (task'[s].pc # "begin" => s \in Begun')
  <2>1. t.pc # "none"
    <3>1. e # Null
      BY DEF ScanAssumption
    <3> QED BY <1>2, <3>1 DEF ScanOK, EntryOK
  <2>2. CASE t.pc = "begin"
    <3>1. s \notin {x \in Scans : task[x].pc \notin {"none", "begin"}}
      BY <1>2, <2>2
    <3> QED BY <1>3, <1>4, <2>2, <3>1 DEF Begun
  <2>3. CASE t.pc # "begin"
    BY <1>3, <1>4, <2>1, <2>3 DEF Begun
  <2> QED BY <2>2, <2>3
<1>8. LogInv'
  <2>1. CASE t.pc = "begin"
    BY <1>2, <1>7, <2>1 DEF DiagInv, LogInv
  <2>2. CASE t.pc # "begin"
    BY <1>4, <1>7, <2>2 DEF DiagInv, LogInv
  <2> QED BY <2>1, <2>2
<1>9. TableInv' /\ CheckInv'
  <2>1. TableInv'
    BY <1>3 DEF DiagInv, TableInv, NameOfMac
  <2>2. CheckInv'
    BY <1>3 DEF DiagInv, CheckInv
  <2> QED BY <2>1, <2>2
<1> QED BY <1>5, <1>6, <1>8, <1>9 DEF DiagInv

(* A step that moves one validation only.                                  *)
CheckMoves(c) ==
    \E k \in CheckRec :
        /\ check' = [check EXCEPT ![c] = k]
        /\ CheckOK(k, past) /\ k.pc # "none"

LEMMA CheckMoved ==
    ASSUME DiagInv, ScanAssumption, NEW c \in Checks, CheckMoves(c),
           UNCHANGED <<hosts, edits, now, connected, task, progress, past>>,
           mdnsNames' \in Maps,
           LogPart', open' \subseteq open \cup {c}, ToSet(files') \subseteq ToSet(files) \cup {c}
    PROVE  DiagInv' /\ AllGrow
<1>1. PICK k \in CheckRec :
        /\ check' = [check EXCEPT ![c] = k] /\ CheckOK(k, past) /\ k.pc # "none"
  BY DEF CheckMoves
<1>2. /\ hosts' = hosts /\ edits' = edits /\ now' = now /\ connected' = connected
      /\ past' = past /\ task' = task /\ progress' = progress
      /\ check \in [Checks -> CheckRec] /\ \A x \in Checks : CheckOK(check[x], past)
  BY DEF DiagInv, CheckInv
<1>3. /\ check' \in [Checks -> CheckRec] /\ check'[c] = k
      /\ \A x \in Checks : x # c => check'[x] = check[x]
  BY <1>1, <1>2
<1>4. CheckInv'
  BY <1>1, <1>2, <1>3 DEF CheckInv
<1>5. AllGrow
  BY <1>2, GrowsSame DEF AllGrow, DiagInv, TableInv
<1>6. Begun \subseteq Begun' /\ c \in Begun'
  BY <1>1, <1>2, <1>3 DEF Begun
<1>7. LogInv'
  BY <1>6 DEF DiagInv, LogInv
<1>8. TableInv' /\ ScanInv'
  <2>1. TableInv'
    BY <1>2 DEF DiagInv, TableInv, NameOfMac
  <2>2. ScanInv'
    BY <1>2 DEF DiagInv, ScanInv
  <2> QED BY <2>1, <2>2
<1> QED BY <1>4, <1>5, <1>7, <1>8 DEF DiagInv

-----------------------------------------------------------------------------
(* The steps of a scan, up to the naming of what it found.                 *)

LEMMA ScanHere ==
    ASSUME DiagInv, ScanAssumption, NEW s \in Scans
    PROVE  /\ task[s] \in TaskRec /\ progress[s] \in Entry \cup {Null}
           /\ ScanOK(task[s], progress[s], now, past) /\ now \in Nat /\ s \in Jobs
           /\ progress[s] = Null <=> task[s].pc = "none"
           /\ task[s].pc # "none" => progress[s] \in Entry
<1>1. /\ task[s] \in TaskRec /\ progress[s] \in Entry \cup {Null}
      /\ ScanOK(task[s], progress[s], now, past)
  BY DEF DiagInv, ScanInv
<1>2. now \in Nat /\ s \in Jobs
  BY DEF DiagInv, TableInv, ScanAssumption
<1>3. progress[s] = Null <=> task[s].pc = "none"
  BY <1>1 DEF ScanOK, EntryOK
<1> QED BY <1>1, <1>2, <1>3

LEMMA LogSame ==
    ASSUME LogPart, UNCHANGED logVars
    PROVE  LogPart' /\ open' = open /\ files' = files
BY DEF LogPart, LogTypeOK, logVars

LEMMA StartScanKeeps ==
    ASSUME DiagInv, ScanAssumption, NEW s \in Scans, StartScan(s), check' = check
    PROVE  DiagInv' /\ AllGrow
<1>1. PICK wants \in BOOLEAN : task' = [task EXCEPT ![s].pc = "begin", ![s].wantsPorts = wants]
  BY DEF StartScan
<1>2. /\ task[s] \in TaskRec /\ task[s].pc = "none" /\ progress[s] = Null
      /\ ScanOK(task[s], progress[s], now, past) /\ now \in Nat /\ s \in Jobs
  BY ScanHere DEF StartScan
<1> DEFINE t == [task[s] EXCEPT !.pc = "begin", !.wantsPorts = wants]
           e == [start |-> now, status |-> "starting", rows |-> {}, scanned |-> 0,
                 error |-> FALSE, final |-> Null]
<1>3. t \in TaskRec /\ t.pc = "begin" /\ t.rows = task[s].rows /\ t.named = task[s].named
  BY <1>2 DEF TaskRec, Pcs
<1>4. /\ e \in Entry /\ e.start = now /\ e.rows = {} /\ e.scanned = 0 /\ e.error = FALSE
      /\ e.final = Null /\ e.status = "starting"
  BY <1>2 DEF Entry
<1>5. task' = [task EXCEPT ![s] = t] /\ progress' = [progress EXCEPT ![s] = e]
  <2>1. task \in [Scans -> TaskRec]
    BY DEF DiagInv, ScanInv
  <2>2. task' = [task EXCEPT ![s] = t]
    BY <1>1, <2>1
  <2> QED BY <2>2 DEF StartScan
<1> HIDE DEF t, e
<1>6. ScanOK(t, e, now, past)
  <2>1. EntryOK(t, e, now)
    <3>1. now =< now
      BY <1>2
    <3>2. e # Null
      BY <1>4 DEF ScanAssumption
    <3> QED BY <1>3, <1>4, <3>1, <3>2 DEF EntryOK
  <2>2. NamedOK(t, e, past)
    BY <1>3, <1>4 DEF NamedOK, RowsNamed
  <2>3. CountOK(t, e) /\ WholeOK(t, e)
    BY <1>3 DEF CountOK, WholeOK
  <2> QED BY <1>2, <1>3, <2>1, <2>2, <2>3 DEF ScanOK
<1>7. LogPart' /\ open' = open /\ files' = files
  BY LogSame DEF StartScan, DiagInv, LogInv
<1>8. ScanMoves(s)
  BY <1>2, <1>3, <1>4, <1>5, <1>6, <1>7 DEF ScanMoves, Grows
<1>9. /\ UNCHANGED <<hosts, edits, now, past, check>>
      /\ mdnsNames' \in Maps /\ connected' \subseteq Scans
  BY DEF StartScan, DiagInv, TableInv
<1> QED BY <1>7, <1>8, <1>9, ScanMoved

LEMMA RequestEndsKeeps ==
    ASSUME DiagInv, NEW s \in Scans, RequestEnds(s), check' = check
    PROVE  DiagInv' /\ AllGrow
<1>1. /\ hosts' = hosts /\ mdnsNames' = mdnsNames /\ edits' = edits /\ now' = now
      /\ connected' = connected \ {s} /\ task' = task /\ progress' = progress /\ past' = past
      /\ bytes' = bytes /\ open' = open /\ files' = files
  BY DEF RequestEnds, logVars
<1>2. LogInv'
  BY <1>1 DEF DiagInv, LogInv, LogPart, LogTypeOK, Begun
<1>3. TableInv'
  BY <1>1 DEF DiagInv, TableInv
<1>4. ScanInv' /\ CheckInv'
  BY <1>1 DEF DiagInv, ScanInv, CheckInv
<1>5. AllGrow
  BY <1>1, GrowsSame DEF AllGrow, DiagInv, TableInv
<1> QED BY <1>2, <1>3, <1>4, <1>5 DEF DiagInv

(* Until it publishes, a task leaves its entry alone.                      *)
LEMMA WaitingMoves ==
    ASSUME DiagInv, ScanAssumption, NEW s \in Scans, NEW t \in TaskRec,
           task[s].pc \in Waiting, t.pc \in Waiting, t.pc # "begin", IsFiniteSet(t.rows),
           \A r \in t.rows : r.ports = Null,
           t.named /\ t.pc \in {"knownByIp", "cached", "publish"} => NamesOf(t.src.known, past),
           task' = [task EXCEPT ![s] = t], progress' = progress
    PROVE  ScanMoves(s)
<1> DEFINE e == progress[s]
<1>1. task[s].pc # "none" /\ t.pc \notin {"none", "ports", "over"}
  BY DEF Waiting
<1>1a. task[s].pc \notin {"ports", "over"}
  BY DEF Waiting
<1>2. e \in Entry /\ e # Null /\ ScanOK(task[s], e, now, past)
  BY <1>1, ScanHere
<1>3. EntryOK(t, e, now)
  <2>1. EntryOK(task[s], e, now)
    BY <1>2 DEF ScanOK
  <2> HIDE DEF e
  <2> QED BY <1>1, <1>1a, <1>2, <2>1 DEF EntryOK
<1>4. e.rows = {}
  BY <1>2 DEF ScanOK, EntryOK
<1>5. NamedOK(t, e, past) /\ CountOK(t, e) /\ WholeOK(t, e)
  <2> HIDE DEF e
  <2> QED BY <1>1, <1>4 DEF NamedOK, RowsNamed, CountOK, WholeOK
<1>6. ScanOK(t, e, now, past)
  BY <1>3, <1>5 DEF ScanOK
<1>7. progress' = [progress EXCEPT ![s] = e]
  BY DEF DiagInv, ScanInv
<1> QED BY <1>2, <1>6, <1>7, GrowsSame DEF ScanMoves

LEMMA BeginTaskKeeps ==
    ASSUME DiagInv, ScanAssumption, ScanLogAssumption, DiagnosticsAssumption,
           NEW s \in Scans, BeginTask(s), check' = check
    PROVE  DiagInv' /\ AllGrow
<1> DEFINE t == [task[s] EXCEPT !.pc = "sweep"]
<1>1. /\ task[s] \in TaskRec /\ task[s].pc = "begin" /\ s \in Jobs
      /\ ScanOK(task[s], progress[s], now, past)
  BY ScanHere DEF BeginTask
<1>2. t \in TaskRec /\ t.pc = "sweep" /\ t.rows = task[s].rows
  BY <1>1 DEF TaskRec, Pcs
<1>3. task' = [task EXCEPT ![s] = t] /\ progress' = progress
  BY DEF BeginTask, DiagInv, ScanInv
<1> HIDE DEF t
<1>4. IsFiniteSet(t.rows) /\ \A r \in t.rows : r.ports = Null
  BY <1>1, <1>2 DEF ScanOK
<1>5. ScanMoves(s)
  BY <1>1, <1>2, <1>3, <1>4, WaitingMoves DEF Waiting
<1>6. s \notin open /\ s \notin ToSet(files)
  <2>1. s \notin Begun
    BY <1>1 DEF Begun, DiagnosticsAssumption
  <2> QED BY <2>1 DEF DiagInv, LogInv
<1>7. LogPart' /\ open' = open \cup {s} /\ ToSet(files') \subseteq ToSet(files) \cup {s}
  BY <1>1, <1>6, OpenLogKeeps DEF BeginTask, DiagInv, LogInv
<1>8. /\ UNCHANGED <<hosts, edits, now, past, check>>
      /\ mdnsNames' \in Maps /\ connected' \subseteq Scans
  BY DEF BeginTask, DiagInv, TableInv
<1> QED BY <1>5, <1>7, <1>8, ScanMoved

LEMMA DiscoverKeeps ==
    ASSUME DiagInv, ScanAssumption, ScanLogAssumption, NamesAssumption,
           NEW s \in Scans, Discover(s), check' = check
    PROVE  DiagInv' /\ AllGrow
<1>1. PICK seen \in SUBSET Responders : \E heard \in Hearings :
          task' = [task EXCEPT
            ![s].pc = "remember",
            ![s].rows = {[ip |-> r.ip, mac |-> r.mac, ports |-> Null,
                          name |-> ReverseDns[r.ip]] : r \in seen},
            ![s].src.mdnsIp = ByIp(heard),
            ![s].src.mdnsMac = ByMac(heard)]
  BY DEF Discover
<1>2. PICK heard \in Hearings :
          task' = [task EXCEPT
            ![s].pc = "remember",
            ![s].rows = {[ip |-> r.ip, mac |-> r.mac, ports |-> Null,
                          name |-> ReverseDns[r.ip]] : r \in seen},
            ![s].src.mdnsIp = ByIp(heard),
            ![s].src.mdnsMac = ByMac(heard)]
  BY <1>1
<1> DEFINE rows == {[ip |-> r.ip, mac |-> r.mac, ports |-> Null,
                     name |-> ReverseDns[r.ip]] : r \in seen}
           src  == [task[s].src EXCEPT !.mdnsIp = ByIp(heard), !.mdnsMac = ByMac(heard)]
           t    == [task[s] EXCEPT !.pc = "remember", !.rows = rows, !.src = src]
<1>3. task[s] \in TaskRec /\ task[s].pc = "sweep" /\ s \in Jobs
  BY ScanHere DEF Discover
<1>4. rows \subseteq Row /\ IsFiniteSet(rows) /\ \A r \in rows : r.ports = Null
  <2>1. \A r \in seen : r.ip \in IPs /\ r.mac \in Macs \cup {Null}
    BY DEF ScanAssumption
  <2>2. \A r \in seen : ReverseDns[r.ip] \in NameSet \cup {Null}
    BY <2>1 DEF NamesAssumption
  <2>3. rows \subseteq Row
    BY <2>1, <2>2 DEF Row
  <2>4. IsFiniteSet(seen)
    BY FS_Subset DEF ScanAssumption
  <2>5. IsFiniteSet(rows)
    <3> DEFINE f == [r \in seen |-> [ip |-> r.ip, mac |-> r.mac, ports |-> Null,
                                     name |-> ReverseDns[r.ip]]]
    <3>1. f = [r \in seen |-> f[r]] /\ rows = {f[r] : r \in seen}
      OBVIOUS
    <3> HIDE DEF f, rows
    <3> QED BY <2>4, <3>1, ImageOf
  <2> QED BY <2>3, <2>5
<1> HIDE DEF rows
<1>5. src \in Srcs
  <2>1. task[s].src \in Srcs
    BY <1>3 DEF TaskRec
  <2>2. ByIp(heard) \in Maps /\ ByMac(heard) \in Maps
    BY HeardIsMap
  <2> QED BY <2>1, <2>2 DEF Srcs
<1> HIDE DEF src
<1>6. t \in TaskRec /\ t.pc = "remember" /\ t.rows = rows
  BY <1>3, <1>4, <1>5 DEF TaskRec, Pcs
<1>7. task' = [task EXCEPT ![s] = t]
  <2>1. task \in [Scans -> TaskRec]
    BY DEF DiagInv, ScanInv
  <2>2. task' = [task EXCEPT ![s].pc = "remember", ![s].rows = rows,
                             ![s].src.mdnsIp = ByIp(heard), ![s].src.mdnsMac = ByMac(heard)]
    BY <1>2 DEF rows
  <2> QED BY <1>3, <2>1, <2>2 DEF src, TaskRec, Srcs
<1> HIDE DEF t
<1>8. ScanMoves(s)
  BY <1>3, <1>4, <1>6, <1>7, WaitingMoves DEF Waiting, Discover
<1>9. LogPart' /\ open' = open /\ ToSet(files') \subseteq ToSet(files)
  BY <1>3, EmitKeeps DEF Discover, DiagInv, LogInv
<1>10. /\ UNCHANGED <<hosts, edits, now, past, check>>
       /\ mdnsNames' \in Maps /\ connected' \subseteq Scans
  BY DEF Discover, DiagInv, TableInv
<1> QED BY <1>8, <1>9, <1>10, ScanMoved

LEMMA RememberKeeps ==
    ASSUME DiagInv, ScanAssumption, NEW s \in Scans, Remember(s), check' = check
    PROVE  DiagInv' /\ AllGrow
<1> DEFINE t == [task[s] EXCEPT !.pc = "known"]
<1>1. /\ task[s] \in TaskRec /\ task[s].pc = "remember"
      /\ ScanOK(task[s], progress[s], now, past)
  BY ScanHere DEF Remember
<1>2. t \in TaskRec /\ t.pc = "known" /\ t.rows = task[s].rows
  BY <1>1 DEF TaskRec, Pcs
<1>3. task' = [task EXCEPT ![s] = t] /\ progress' = progress
  BY DEF Remember, DiagInv, ScanInv
<1> HIDE DEF t
<1>4. IsFiniteSet(t.rows) /\ \A r \in t.rows : r.ports = Null
  BY <1>1, <1>2 DEF ScanOK
<1>5. ScanMoves(s)
  BY <1>1, <1>2, <1>3, <1>4, WaitingMoves DEF Waiting
<1>6. mdnsNames' \in Maps
  <2>1. mdnsNames \in Maps /\ task[s].src.mdnsMac \in Maps
    BY <1>1 DEF DiagInv, TableInv, TaskRec, Srcs
  <2> QED BY <2>1, RememberedIsMap DEF Remember
<1>7. LogPart' /\ open' = open /\ files' = files
  BY LogSame DEF Remember, DiagInv, LogInv
<1>8. UNCHANGED <<hosts, edits, now, past, check>> /\ connected' \subseteq Scans
  BY DEF Remember, DiagInv, TableInv
<1> QED BY <1>5, <1>6, <1>7, <1>8, ScanMoved

LEMMA ReadIsMap ==
    ASSUME NEW s, NEW map \in Maps
    PROVE  Read(s, map) \in Maps
BY EmptyIsMap DEF Read

(* If the names are read at all, they are those hosts holds now.           *)
LEMMA LoadKnownKeeps ==
    ASSUME DiagInv, ScanAssumption, NamesAssumption, NEW s \in Scans, LoadKnown(s), check' = check
    PROVE  DiagInv' /\ AllGrow
<1> DEFINE known == Read(s, LoadKnownHostnames(hosts))
           named == s \in connected
           src == [task[s].src EXCEPT !.known = known]
           t == [task[s] EXCEPT !.pc = "knownByIp", !.named = named, !.src = src]
<1>1. /\ task[s] \in TaskRec /\ task[s].pc = "known"
      /\ ScanOK(task[s], progress[s], now, past)
  BY ScanHere DEF LoadKnown
<1>2. known \in Maps
  <2>1. LoadKnownHostnames(hosts) \in Maps
    BY KnownIsMap DEF DiagInv, TableInv
  <2> QED BY <2>1, ReadIsMap
<1>3. named \in BOOLEAN /\ (named => NamesOf(known, past))
  BY DEF Read, NamesOf, DiagInv, TableInv, NameOfMac
<1> HIDE DEF known, named
<1>4. src \in Srcs /\ src.known = known
  BY <1>1, <1>2 DEF TaskRec, Srcs
<1>5. task' = [task EXCEPT ![s] = t] /\ progress' = progress
  <2>1. task \in [Scans -> TaskRec]
    BY DEF DiagInv, ScanInv
  <2>2. task' = [task EXCEPT ![s].pc = "knownByIp", ![s].named = named,
                             ![s].src.known = known]
    BY DEF LoadKnown, known, named
  <2> QED BY <1>1, <2>1, <2>2 DEF TaskRec, Srcs, LoadKnown
<1> HIDE DEF src
<1>6. t \in TaskRec
  BY <1>1, <1>3, <1>4 DEF TaskRec, Pcs
<1>6a. t.pc = "knownByIp" /\ t.rows = task[s].rows /\ t.named = named /\ t.src = src
  BY <1>1 DEF TaskRec
<1> HIDE DEF t
<1>7. IsFiniteSet(t.rows) /\ \A r \in t.rows : r.ports = Null
  BY <1>1, <1>6a DEF ScanOK
<1>8. t.named => NamesOf(t.src.known, past)
  BY <1>3, <1>4, <1>6a
<1>9. ScanMoves(s)
  BY <1>1, <1>5, <1>6, <1>6a, <1>7, <1>8, WaitingMoves DEF Waiting
<1>10. LogPart' /\ open' = open /\ files' = files
  BY LogSame DEF LoadKnown, DiagInv, LogInv
<1>11. /\ UNCHANGED <<hosts, edits, now, past, check>>
       /\ mdnsNames' \in Maps /\ connected' \subseteq Scans
  BY DEF LoadKnown, DiagInv, TableInv
<1> QED BY <1>9, <1>10, <1>11, ScanMoved

LEMMA LoadKnownByIpKeeps ==
    ASSUME DiagInv, ScanAssumption, NamesAssumption, NEW s \in Scans, LoadKnownByIp(s), check' = check
    PROVE  DiagInv' /\ AllGrow
<1> DEFINE known == Read(s, LoadKnownHostnamesByIp(hosts))
           src == [task[s].src EXCEPT !.knownByIp = known]
           t == [task[s] EXCEPT !.pc = "cached", !.src = src]
<1>1. /\ task[s] \in TaskRec /\ task[s].pc = "knownByIp"
      /\ ScanOK(task[s], progress[s], now, past)
  BY ScanHere DEF LoadKnownByIp
<1>2. known \in Maps
  <2>1. LoadKnownHostnamesByIp(hosts) \in Maps
    BY KnownByIpIsMap DEF DiagInv, TableInv
  <2> QED BY <2>1, ReadIsMap
<1> HIDE DEF known
<1>3. src \in Srcs /\ src.known = task[s].src.known
  BY <1>1, <1>2 DEF TaskRec, Srcs
<1>4. task' = [task EXCEPT ![s] = t] /\ progress' = progress
  <2>1. task \in [Scans -> TaskRec]
    BY DEF DiagInv, ScanInv
  <2>2. task' = [task EXCEPT ![s].pc = "cached", ![s].src.knownByIp = known]
    BY DEF LoadKnownByIp, known
  <2> QED BY <1>1, <2>1, <2>2 DEF TaskRec, Srcs, LoadKnownByIp
<1> HIDE DEF src
<1>5. t \in TaskRec
  BY <1>1, <1>3 DEF TaskRec, Pcs
<1>5a. t.pc = "cached" /\ t.rows = task[s].rows /\ t.named = task[s].named /\ t.src = src
  BY <1>1 DEF TaskRec
<1> HIDE DEF t
<1>6. IsFiniteSet(t.rows) /\ \A r \in t.rows : r.ports = Null
  BY <1>1, <1>5a DEF ScanOK
<1>7. t.named => NamesOf(t.src.known, past)
  BY <1>1, <1>3, <1>5a DEF ScanOK, NamedOK
<1>8. ScanMoves(s)
  BY <1>1, <1>4, <1>5, <1>5a, <1>6, <1>7, WaitingMoves DEF Waiting
<1>9. LogPart' /\ open' = open /\ files' = files
  BY LogSame DEF LoadKnownByIp, DiagInv, LogInv
<1>10. /\ UNCHANGED <<hosts, edits, now, past, check>>
       /\ mdnsNames' \in Maps /\ connected' \subseteq Scans
  BY DEF LoadKnownByIp, DiagInv, TableInv
<1> QED BY <1>8, <1>9, <1>10, ScanMoved

LEMMA LoadCachedKeeps ==
    ASSUME DiagInv, ScanAssumption, NEW s \in Scans, LoadCached(s), check' = check
    PROVE  DiagInv' /\ AllGrow
<1> DEFINE cached == Read(s, mdnsNames)
           src == [task[s].src EXCEPT !.cached = cached]
           t == [task[s] EXCEPT !.pc = "publish", !.src = src]
<1>1. /\ task[s] \in TaskRec /\ task[s].pc = "cached"
      /\ ScanOK(task[s], progress[s], now, past)
  BY ScanHere DEF LoadCached
<1>2. cached \in Maps
  BY ReadIsMap DEF DiagInv, TableInv
<1> HIDE DEF cached
<1>3. src \in Srcs /\ src.known = task[s].src.known
  BY <1>1, <1>2 DEF TaskRec, Srcs
<1>4. task' = [task EXCEPT ![s] = t] /\ progress' = progress
  <2>1. task \in [Scans -> TaskRec]
    BY DEF DiagInv, ScanInv
  <2>2. task' = [task EXCEPT ![s].pc = "publish", ![s].src.cached = cached]
    BY DEF LoadCached, cached
  <2> QED BY <1>1, <2>1, <2>2 DEF TaskRec, Srcs, LoadCached
<1> HIDE DEF src
<1>5. t \in TaskRec
  BY <1>1, <1>3 DEF TaskRec, Pcs
<1>5a. t.pc = "publish" /\ t.rows = task[s].rows /\ t.named = task[s].named /\ t.src = src
  BY <1>1 DEF TaskRec
<1> HIDE DEF t
<1>6. IsFiniteSet(t.rows) /\ \A r \in t.rows : r.ports = Null
  BY <1>1, <1>5a DEF ScanOK
<1>7. t.named => NamesOf(t.src.known, past)
  BY <1>1, <1>3, <1>5a DEF ScanOK, NamedOK
<1>8. ScanMoves(s)
  BY <1>1, <1>4, <1>5, <1>5a, <1>6, <1>7, WaitingMoves DEF Waiting
<1>9. LogPart' /\ open' = open /\ files' = files
  BY LogSame DEF LoadCached, DiagInv, LogInv
<1>10. /\ UNCHANGED <<hosts, edits, now, past, check>>
       /\ mdnsNames' \in Maps /\ connected' \subseteq Scans
  BY DEF LoadCached, DiagInv, TableInv
<1> QED BY <1>8, <1>9, <1>10, ScanMoved

-----------------------------------------------------------------------------
(* The end of a task.                                                      *)

WithPorts(r, portMap) ==
    [r EXCEPT !.ports = IF r.ip \in DOMAIN portMap THEN portMap[r.ip] ELSE {}]

(* The entry Complete leaves.                                              *)
Finished(e, portMap, failed) ==
    [e EXCEPT !.status = "complete", !.error = failed, !.final = now - e.start,
              !.rows = IF e.status # "scanning_ports" THEN e.rows
                       ELSE {WithPorts(r, portMap) : r \in e.rows}]

LEMMA PortMapElim ==
    ASSUME NEW portMap \in PortMaps
    PROVE  /\ DOMAIN portMap \subseteq IPs
           /\ \A i \in DOMAIN portMap : portMap[i] \in SUBSET Ports /\ portMap[i] # {}
<1>1. PICK D \in SUBSET IPs : portMap \in [D -> (SUBSET Ports) \ {{}}]
  BY DEF PortMaps
<1> QED BY <1>1

LEMMA OverIsTask ==
    ASSUME NEW s \in Scans, task[s] \in TaskRec
    PROVE  /\ Over(s) \in TaskRec /\ Over(s).pc = "over" /\ Over(s).rows = {}
           /\ Over(s).wantsPorts = task[s].wantsPorts /\ Over(s).named = task[s].named
<1>1. task[s].wantsPorts \in BOOLEAN /\ task[s].named \in BOOLEAN
  BY DEF TaskRec
<1>2. NoNames \in Srcs
  BY EmptyIsMap
<1>3. <<>> \in PortMaps
  <2>1. <<>> \in [{} -> (SUBSET Ports) \ {{}}]
    BY EmptyMap
  <2> QED BY <2>1 DEF PortMaps
<1>4. Idle \in TaskRec /\ Idle.rows = {}
  BY <1>2, <1>3 DEF Idle, TaskRec, Pcs
<1>5. Over(s) = [Idle EXCEPT !.pc = "over", !.wantsPorts = task[s].wantsPorts,
                             !.named = task[s].named]
  BY DEF Over
<1> QED BY <1>1, <1>4, <1>5 DEF TaskRec, Pcs

(* Rows that keep their keys stay as many, and named as they were.         *)
LEMMA RowsKeep ==
    ASSUME NEW rows \in SUBSET Row, IsFiniteSet(rows), Keyed(rows),
           NEW g, g = [r \in rows |-> g[r]], NEW rows2, rows2 = {g[r] : r \in rows},
           \A r \in rows : g[r] \in Row /\ g[r].ip = r.ip /\ g[r].mac = r.mac /\ g[r].name = r.name
    PROVE  /\ rows2 \subseteq Row /\ IsFiniteSet(rows2) /\ Keyed(rows2)
           /\ Cardinality(rows2) = Cardinality(rows)
           /\ RowsNamed(rows, past) => RowsNamed(rows2, past)
<1>1. \A r, q \in rows : g[r] = g[q] => r = q
  BY DEF Keyed
<1>2. IsFiniteSet(rows2) /\ Cardinality(rows2) = Cardinality(rows)
  BY <1>1, ImageOf
<1>3. Keyed(rows2)
  <2>1. SUFFICES ASSUME NEW r \in rows, NEW q \in rows, g[r].ip = g[q].ip, g[r].mac = g[q].mac,
                        g[r].name = g[q].name
                 PROVE  g[r] = g[q]
    BY DEF Keyed
  <2>2. r = q
    BY <2>1 DEF Keyed
  <2> QED BY <2>2
<1>4. RowsNamed(rows, past) => RowsNamed(rows2, past)
  BY DEF RowsNamed
<1>5. rows2 \subseteq Row
  OBVIOUS
<1> QED BY <1>2, <1>3, <1>4, <1>5

(* A task that ends with entry e, which it has brought as far as that.     *)
LEMMA CompleteMoves ==
    ASSUME DiagInv, ScanAssumption, NEW s \in Scans, NEW e \in Entry, NEW portMap \in PortMaps,
           NEW failed \in BOOLEAN, task[s].pc \in {"publish", "ports"},
           e.start = progress[s].start, e.status \in {"starting", "scanning_ports"},
           task[s].named => RowsNamed(e.rows, past),
           e.status = "scanning_ports" =>
              IsFiniteSet(e.rows) /\ Keyed(e.rows) /\ Mapped(e.rows, portMap),
           \A ip \in IPs : HasPorts(progress[s], ip) => HasPorts(e, ip),
           task[s].wantsPorts /\ ~ failed => e.scanned = Cardinality(e.rows),
           task[s].wantsPorts /\ e.status = "starting" => e.rows = {},
           task' = [task EXCEPT ![s] = Over(s)], Complete(s, e, portMap, failed)
    PROVE  ScanMoves(s)
<1> DEFINE t  == Over(s)
           e2 == Finished(e, portMap, failed)
           g  == [r \in e.rows |-> WithPorts(r, portMap)]
<1>1. /\ task[s] \in TaskRec /\ progress[s] \in Entry /\ now \in Nat
      /\ ScanOK(task[s], progress[s], now, past)
  BY ScanHere
<1>2. e.start \in Nat /\ e.start =< now /\ now - e.start \in Nat /\ progress[s].final = Null
  <2>1. progress[s].start =< now /\ progress[s].start \in Nat /\ progress[s].final = Null
    <3>1. progress[s] # Null
      BY <1>1 DEF ScanAssumption
    <3> QED BY <1>1, <3>1 DEF ScanOK, EntryOK, Entry
  <2> QED BY <1>1, <2>1
<1>3. /\ t \in TaskRec /\ t.pc = "over" /\ t.rows = {}
      /\ t.wantsPorts = task[s].wantsPorts /\ t.named = task[s].named
  BY <1>1, OverIsTask
<1>4. \A r \in e.rows : /\ g[r] \in Row /\ g[r].ip = r.ip /\ g[r].mac = r.mac /\ g[r].name = r.name
                        /\ g[r].ports \in SUBSET Ports
                        /\ r.ip \in DOMAIN portMap => g[r].ports # {}
  <2>1. SUFFICES ASSUME NEW r \in e.rows
                 PROVE  /\ g[r] \in Row /\ g[r].ip = r.ip /\ g[r].mac = r.mac /\ g[r].name = r.name
                        /\ g[r].ports \in SUBSET Ports
                        /\ r.ip \in DOMAIN portMap => g[r].ports # {}
    OBVIOUS
  <2>2. r \in Row
    BY DEF Entry
  <2> DEFINE p == IF r.ip \in DOMAIN portMap THEN portMap[r.ip] ELSE {}
  <2>3. p \in SUBSET Ports /\ (r.ip \in DOMAIN portMap => p # {})
    BY PortMapElim
  <2>4. g[r] = [r EXCEPT !.ports = p]
    BY DEF WithPorts
  <2> HIDE DEF p, g
  <2> QED BY <2>2, <2>3, <2>4 DEF Row
<1>5. g = [r \in e.rows |-> g[r]]
  OBVIOUS
<1>6. e2.rows = IF e.status # "scanning_ports" THEN e.rows ELSE {g[r] : r \in e.rows}
  <2> DEFINE rows == IF e.status # "scanning_ports" THEN e.rows
                     ELSE {WithPorts(r, portMap) : r \in e.rows}
  <2>1. e2 = [e EXCEPT !.status = "complete", !.error = failed, !.final = now - e.start,
                       !.rows = rows]
    BY DEF Finished
  <2>2. rows = IF e.status # "scanning_ports" THEN e.rows ELSE {g[r] : r \in e.rows}
    OBVIOUS
  <2> HIDE DEF rows, e2, g
  <2>3. e2.rows = rows
    BY <2>1 DEF Entry
  <2> QED BY <2>2, <2>3
<1>7. e2.rows \subseteq Row
  <2>1. e.rows \subseteq Row
    BY DEF Entry
  <2>2. \A r \in e.rows : g[r] \in Row
    BY <1>4
  <2> HIDE DEF g, e2
  <2> QED BY <1>6, <2>1, <2>2
<1>8. /\ e2 \in Entry /\ e2.start = e.start /\ e2.status = "complete" /\ e2.error = failed
      /\ e2.final = now - e.start /\ e2.scanned = e.scanned
  <2> DEFINE rows == IF e.status # "scanning_ports" THEN e.rows
                     ELSE {WithPorts(r, portMap) : r \in e.rows}
  <2>1. e2 = [e EXCEPT !.status = "complete", !.error = failed, !.final = now - e.start,
                       !.rows = rows]
    BY DEF Finished
  <2>2. rows \subseteq Row
    BY <1>7, <2>1 DEF Entry
  <2> HIDE DEF rows, e2
  <2> QED BY <1>2, <2>1, <2>2 DEF Entry
<1>9. progress' = [progress EXCEPT ![s] = e2]
  BY DEF Complete, Finished, WithPorts
<1> HIDE DEF g, e2
<1>10. e.status = "scanning_ports" =>
          /\ Cardinality(e2.rows) = Cardinality(e.rows)
          /\ RowsNamed(e.rows, past) => RowsNamed(e2.rows, past)
          /\ \A r \in e2.rows : r.ports # Null
  <2>1. SUFFICES ASSUME e.status = "scanning_ports"
                 PROVE  /\ Cardinality(e2.rows) = Cardinality(e.rows)
                        /\ RowsNamed(e.rows, past) => RowsNamed(e2.rows, past)
                        /\ \A r \in e2.rows : r.ports # Null
    OBVIOUS
  <2>2. e.rows \in SUBSET Row
    BY DEF Entry
  <2>3. /\ Cardinality(e2.rows) = Cardinality(e.rows)
        /\ RowsNamed(e.rows, past) => RowsNamed(e2.rows, past)
    <3>1. e2.rows = {g[r] : r \in e.rows}
      BY <1>6, <2>1
    <3>2. IsFiniteSet(e.rows) /\ Keyed(e.rows)
      BY <2>1
    <3>3. \A r \in e.rows : /\ g[r] \in Row /\ g[r].ip = r.ip /\ g[r].mac = r.mac
                            /\ g[r].name = r.name
      BY <1>4
    <3> DEFINE rows == e.rows
               rows2 == e2.rows
    <3>4. /\ rows \in SUBSET Row /\ IsFiniteSet(rows) /\ Keyed(rows) /\ g = [r \in rows |-> g[r]]
          /\ rows2 = {g[r] : r \in rows}
          /\ \A r \in rows : /\ g[r] \in Row /\ g[r].ip = r.ip /\ g[r].mac = r.mac
                            /\ g[r].name = r.name
      BY <1>5, <2>2, <3>1, <3>2, <3>3
    <3> HIDE DEF rows, rows2
    <3>5. Cardinality(rows2) = Cardinality(rows)
      BY <3>4, RowsKeep
    <3>6. RowsNamed(rows, past) => RowsNamed(rows2, past)
      BY <3>4, RowsKeep
    <3> QED BY <3>5, <3>6 DEF rows, rows2
  <2>4. \A r \in e2.rows : r.ports # Null
    BY <1>4, <1>6, <2>1 DEF ScanAssumption
  <2> QED BY <2>3, <2>4
<1>11. e2 # Null /\ e2.final # Null
  BY <1>2, <1>8 DEF ScanAssumption
<1>12. EntryOK(t, e2, now)
  BY <1>2, <1>3, <1>8, <1>11 DEF EntryOK, Waiting
<1>13. NamedOK(t, e2, past)
  BY <1>3, <1>6, <1>10 DEF NamedOK
<1>14. CountOK(t, e2)
  BY <1>3 DEF CountOK
<1>15. WholeOK(t, e2)
  <2>1. SUFFICES ASSUME t.wantsPorts, ~ e2.error
                 PROVE  e2.scanned = Cardinality(e2.rows) /\ \A r \in e2.rows : r.ports # Null
    BY DEF WholeOK
  <2>2. task[s].wantsPorts /\ ~ failed
    BY <1>3, <1>8, <2>1
  <2>3. CASE e.status = "scanning_ports"
    BY <1>8, <1>10, <2>2, <2>3
  <2>4. CASE e.status = "starting"
    <3>1. e.rows = {} /\ e2.rows = e.rows
      BY <1>6, <2>2, <2>4
    <3> QED BY <1>8, <2>2, <3>1
  <2> QED BY <2>3, <2>4
<1>16. ScanOK(t, e2, now, past)
  <2>1. IsFiniteSet(t.rows) /\ \A r \in t.rows : r.ports = Null
    BY <1>3, FS_EmptySet
  <2> QED BY <1>12, <1>13, <1>14, <1>15, <2>1 DEF ScanOK
<1>17. \A ip \in IPs : HasPorts(e, ip) => HasPorts(e2, ip)
  <2>1. SUFFICES ASSUME NEW ip \in IPs, NEW r \in e.rows, r.ip = ip, r.ports \notin {Null, {}}
                 PROVE  \E q \in e2.rows : q.ip = ip /\ q.ports \notin {Null, {}}
    BY <1>11 DEF HasPorts
  <2>2. CASE e.status # "scanning_ports"
    BY <1>6, <2>1, <2>2
  <2>3. CASE e.status = "scanning_ports"
    <3>1. r.ip \in DOMAIN portMap
      BY <2>1, <2>3 DEF Mapped
    <3>2. g[r] \in e2.rows /\ g[r].ip = ip /\ g[r].ports # {} /\ g[r].ports \in SUBSET Ports
      BY <1>4, <1>6, <2>1, <2>3, <3>1
    <3>3. g[r].ports # Null
      BY <3>2 DEF ScanAssumption
    <3> QED BY <3>2, <3>3
  <2> QED BY <2>2, <2>3
<1>18. Grows(progress[s], e2, now)
  <2>1. e2.start = progress[s].start /\ e2.final \in {Null, now - progress[s].start}
    BY <1>8
  <2>2. \A ip \in IPs : HasPorts(progress[s], ip) => HasPorts(e2, ip)
    BY <1>17
  <2> QED BY <1>2, <1>11, <2>1, <2>2 DEF Grows
<1> HIDE DEF t
<1>19. task' = [task EXCEPT ![s] = t]
  BY DEF t
<1> QED BY <1>3, <1>8, <1>9, <1>16, <1>18, <1>19 DEF ScanMoves

-----------------------------------------------------------------------------
(* Publishing, and the scan of the ports.                                  *)

(* The rows as the naming leaves them.                                     *)
Renamed(s) == {[r EXCEPT !.name = ApplyHostnames(r, task[s].src)] : r \in task[s].rows}

LEMMA RenamedRows ==
    ASSUME DiagInv, ScanAssumption, NamesAssumption, NEW s \in Scans, task[s].pc = "publish"
    PROVE  /\ Renamed(s) \subseteq Row /\ IsFiniteSet(Renamed(s)) /\ Keyed(Renamed(s))
           /\ \A r \in Renamed(s) : r.ports = Null
           /\ task[s].named => RowsNamed(Renamed(s), past)
<1> DEFINE t == task[s]
           g == [r \in t.rows |-> [r EXCEPT !.name = ApplyHostnames(r, t.src)]]
<1>1. /\ t \in TaskRec /\ t.rows \subseteq Row /\ t.src \in Srcs
      /\ IsFiniteSet(t.rows) /\ \A r \in t.rows : r.ports = Null
      /\ t.named => NamesOf(t.src.known, past)
  BY ScanHere DEF ScanOK, NamedOK, TaskRec
<1>2. ASSUME NEW r \in t.rows
      PROVE  /\ g[r] \in Row /\ g[r].ip = r.ip /\ g[r].mac = r.mac /\ g[r].ports = Null
             /\ g[r].name = ApplyHostnames(r, t.src)
  <2>1. r \in Row /\ r.ports = Null
    BY <1>1
  <2> DEFINE n == ApplyHostnames(r, t.src)
  <2>2. n \in Names
    BY <1>1, <2>1, RowIsNamed
  <2>3. g[r] = [r EXCEPT !.name = n]
    OBVIOUS
  <2> HIDE DEF n, g
  <2>4. g[r] \in Row /\ g[r].ip = r.ip /\ g[r].mac = r.mac /\ g[r].ports = Null /\ g[r].name = n
    BY <2>1, <2>2, <2>3 DEF Row, Names
  <2> QED BY <2>4 DEF n
<1> DEFINE found == t.rows
           rows  == Renamed(s)
<1>3. g = [r \in found |-> g[r]] /\ rows = {g[r] : r \in found} /\ IsFiniteSet(found)
  BY <1>1 DEF Renamed
<1>3a. \A r \in found : g[r] \in Row /\ g[r].ports = Null
  BY <1>2
<1> HIDE DEF g, t, found, rows
<1>4. Renamed(s) \subseteq Row /\ \A r \in Renamed(s) : r.ports = Null
  BY <1>3, <1>3a DEF rows
<1>5. IsFiniteSet(Renamed(s))
  <2>1. IsFiniteSet(rows)
    BY <1>3, ImageOf
  <2> QED BY <2>1 DEF rows
<1>6. Keyed(Renamed(s))
  BY <1>4 DEF Keyed, Row
<1>7. t.named => RowsNamed(Renamed(s), past)
  <2>1. SUFFICES ASSUME t.named, NEW r \in t.rows, g[r].mac # Null, Null \notin past[g[r].mac]
                 PROVE  g[r].name \in past[g[r].mac]
    BY <1>3 DEF RowsNamed, rows, found
  <2>2. r \in Row /\ r.mac \in Macs /\ g[r].mac = r.mac
    BY <1>1, <1>2, <2>1 DEF Row
  <2>3. Lookup(t.src.known, r.mac) \in past[r.mac]
    BY <1>1, <2>1, <2>2 DEF NamesOf
  <2>4. Lookup(t.src.known, r.mac) # Null
    BY <2>1, <2>2, <2>3
  <2>5. ApplyHostnames(r, t.src) = Lookup(t.src.known, r.mac)
    BY <1>1, <2>2, <2>4, RowIsNamed
  <2> QED BY <1>2, <2>2, <2>3, <2>5
<1> QED BY <1>4, <1>5, <1>6, <1>7 DEF t

LEMMA PublishKeeps ==
    ASSUME DiagInv, ScanAssumption, ScanLogAssumption, NamesAssumption,
           NEW s \in Scans, Publish(s), check' = check
    PROVE  DiagInv' /\ AllGrow
<1> DEFINE rows  == Renamed(s)
           entry == Published(s, rows)
<1>1. /\ task[s] \in TaskRec /\ task[s].pc = "publish" /\ progress[s] \in Entry
      /\ ScanOK(task[s], progress[s], now, past) /\ now \in Nat /\ s \in Jobs
  BY ScanHere DEF Publish
<1>2. /\ progress[s].rows = {} /\ progress[s].scanned = 0 /\ ~ progress[s].error
      /\ progress[s].final = Null /\ progress[s].status = "starting"
      /\ progress[s].start =< now
  <2>1. progress[s] # Null
    BY <1>1 DEF ScanAssumption
  <2> QED BY <1>1, <2>1 DEF ScanOK, EntryOK, Waiting, Entry
<1>3. /\ rows \subseteq Row /\ IsFiniteSet(rows) /\ Keyed(rows)
      /\ \A r \in rows : r.ports = Null
      /\ task[s].named => RowsNamed(rows, past)
  BY <1>1, RenamedRows
<1>4. /\ IF task[s].wantsPorts /\ rows # {}
           THEN /\ task' = [task EXCEPT ![s].pc = "ports", ![s].rows = {}, ![s].todo = rows]
                /\ progress' = [progress EXCEPT ![s] = [entry EXCEPT !.status = "scanning_ports"]]
                /\ Emit(s)
           ELSE /\ task' = [task EXCEPT ![s] = Over(s)]
                /\ Complete(s, entry, <<>>, FALSE)
      /\ UNCHANGED <<hosts, mdnsNames, edits, now, connected, past>>
  BY DEF Publish, Renamed
<1> HIDE DEF rows
<1>5. /\ entry \in Entry /\ entry.rows = rows /\ entry.scanned = 0 /\ entry.error = FALSE
      /\ entry.final = Null /\ entry.status = "starting" /\ entry.start = progress[s].start
  <2>1. entry = [progress[s] EXCEPT !.rows = rows]
    BY DEF Published
  <2> HIDE DEF entry
  <2> QED BY <1>1, <1>2, <1>3, <2>1 DEF Entry
<1> HIDE DEF entry
<1>6. UNCHANGED <<hosts, edits, now, past, check>> /\ mdnsNames' \in Maps /\ connected' \subseteq Scans
  BY <1>4 DEF DiagInv, TableInv
<1>7. CASE task[s].wantsPorts /\ rows # {}
  <2> DEFINE t == [task[s] EXCEPT !.pc = "ports", !.rows = {}, !.todo = rows]
             e == [entry EXCEPT !.status = "scanning_ports"]
  <2>1. t \in TaskRec
    BY <1>1, <1>3 DEF TaskRec, Pcs
  <2>2. /\ t.pc = "ports" /\ t.rows = {} /\ t.todo = rows /\ t.wantsPorts
        /\ t.named = task[s].named
    BY <1>1, <1>7 DEF TaskRec
  <2>3. /\ e \in Entry /\ e.rows = rows /\ e.scanned = 0 /\ e.error = FALSE /\ e.final = Null
        /\ e.status = "scanning_ports" /\ e.start = progress[s].start
    BY <1>5 DEF Entry
  <2>4. task' = [task EXCEPT ![s] = t] /\ progress' = [progress EXCEPT ![s] = e]
    <3>1. task \in [Scans -> TaskRec]
      BY DEF DiagInv, ScanInv
    <3> QED BY <1>4, <1>7, <3>1
  <2> HIDE DEF t, e
  <2>5. e # Null
    BY <2>3 DEF ScanAssumption
  <2>6. EntryOK(t, e, now)
    BY <1>2, <2>2, <2>3, <2>5 DEF EntryOK, Waiting
  <2>7. NamedOK(t, e, past)
    BY <1>3, <2>2, <2>3 DEF NamedOK
  <2>8. CountOK(t, e)
    <3>1. e.scanned + Cardinality(t.todo) = Cardinality(e.rows)
      <4>1. Cardinality(rows) \in Nat
        BY <1>3, FS_CardinalityType
      <4>2. 0 + Cardinality(rows) = Cardinality(rows)
        BY <4>1
      <4> QED BY <2>2, <2>3, <4>2
    <3>2. Mapped(e.rows, t.portMap)
      BY <1>3, <2>3 DEF Mapped
    <3> QED BY <1>3, <2>2, <2>3, <3>1, <3>2 DEF CountOK
  <2>9. WholeOK(t, e)
    BY <2>2 DEF WholeOK
  <2>10. ScanOK(t, e, now, past)
    BY <2>2, <2>6, <2>7, <2>8, <2>9, FS_EmptySet DEF ScanOK
  <2>11. Grows(progress[s], e, now)
    BY <1>2, <2>3, <2>5 DEF Grows, HasPorts
  <2>12. ScanMoves(s)
    BY <2>1, <2>2, <2>3, <2>4, <2>10, <2>11 DEF ScanMoves
  <2>13. LogPart' /\ open' = open /\ ToSet(files') \subseteq ToSet(files)
    BY <1>1, <1>4, <1>7, EmitKeeps DEF DiagInv, LogInv
  <2> QED BY <1>6, <2>12, <2>13, ScanMoved
<1>8. CASE ~ (task[s].wantsPorts /\ rows # {})
  <2>1. task' = [task EXCEPT ![s] = Over(s)] /\ Complete(s, entry, <<>>, FALSE)
    BY <1>4, <1>8
  <2>2. <<>> \in PortMaps
    <3>1. <<>> \in [{} -> (SUBSET Ports) \ {{}}]
      BY EmptyMap
    <3> QED BY <3>1 DEF PortMaps
  <2>3. \A ip \in IPs : HasPorts(progress[s], ip) => HasPorts(entry, ip)
    BY <1>2 DEF HasPorts
  <2>4. task[s].wantsPorts => entry.scanned = Cardinality(entry.rows) /\ entry.rows = {}
    BY <1>5, <1>8, FS_EmptySet
  <2>5. entry.status # "scanning_ports"
    BY <1>5
  <2>6. ScanMoves(s)
    <3>1. task[s].pc \in {"publish", "ports"} /\ entry.status \in {"starting", "scanning_ports"}
      BY <1>1, <1>5
    <3>2. task[s].named => RowsNamed(entry.rows, past)
      BY <1>3, <1>5
    <3>3. entry \in Entry /\ entry.start = progress[s].start /\ FALSE \in BOOLEAN
      BY <1>5
    <3> QED BY <2>1, <2>2, <2>3, <2>4, <2>5, <3>1, <3>2, <3>3, CompleteMoves
  <2>7. LogPart' /\ open' \subseteq open /\ ToSet(files') \subseteq ToSet(files)
    BY <1>1, <2>1, CloseLogKeeps DEF Complete, DiagInv, LogInv
  <2> QED BY <1>6, <2>6, <2>7, ScanMoved
<1> QED BY <1>7, <1>8

(* The ports of the row just scanned, in the map of them all and in entry  *)
(* e.                                                                      *)
PortsWith(portMap, row, opened) ==
    IF opened = {} THEN portMap
    ELSE [i \in DOMAIN portMap \cup {row.ip} |-> IF i = row.ip THEN opened ELSE portMap[i]]

RowWith(r, row, opened) ==
    IF r.ip = row.ip /\ opened # {} THEN [r EXCEPT !.ports = opened] ELSE r

EntryWith(e, row, opened) ==
    [e EXCEPT !.scanned = e.scanned + 1, !.rows = {RowWith(r, row, opened) : r \in e.rows}]

LEMMA PortsWithIsMap ==
    ASSUME NEW portMap \in PortMaps, NEW row \in Row, NEW opened \in SUBSET Ports
    PROVE  /\ PortsWith(portMap, row, opened) \in PortMaps
           /\ DOMAIN portMap \subseteq DOMAIN PortsWith(portMap, row, opened)
           /\ opened # {} => row.ip \in DOMAIN PortsWith(portMap, row, opened)
<1>1. CASE opened = {}
  BY <1>1 DEF PortsWith
<1>2. CASE opened # {}
  <2> DEFINE D == DOMAIN portMap \cup {row.ip}
             f == [i \in D |-> IF i = row.ip THEN opened ELSE portMap[i]]
  <2>1. PortsWith(portMap, row, opened) = f
    BY <1>2 DEF PortsWith
  <2>2. DOMAIN portMap \subseteq IPs /\ \A i \in DOMAIN portMap : portMap[i] \in (SUBSET Ports) \ {{}}
    BY PortMapElim
  <2>3. D \in SUBSET IPs
    BY <2>2 DEF Row
  <2>4. f \in [D -> (SUBSET Ports) \ {{}}]
    BY <1>2, <2>2
  <2>5. f \in PortMaps
    BY <2>3, <2>4 DEF PortMaps
  <2> QED BY <2>1, <2>5
<1> QED BY <1>1, <1>2

(* Showing the ports of one row changes no other row, and counts one more. *)
LEMMA HostIsShown ==
    ASSUME DiagInv, ScanAssumption, NEW s \in Scans, task[s].pc = "ports",
           NEW row \in task[s].todo, NEW opened \in SUBSET Ports
    PROVE  LET e == EntryWith(progress[s], row, opened)
               portMap == PortsWith(task[s].portMap, row, opened)
           IN  /\ e \in Entry /\ portMap \in PortMaps
               /\ e.start = progress[s].start /\ e.status = "scanning_ports"
               /\ e.final = Null /\ e.error = FALSE
               /\ IsFiniteSet(e.rows) /\ Keyed(e.rows) /\ Mapped(e.rows, portMap)
               /\ e.scanned + Cardinality(task[s].todo \ {row}) = Cardinality(e.rows)
               /\ task[s].named => RowsNamed(e.rows, past)
               /\ \A ip \in IPs : HasPorts(progress[s], ip) => HasPorts(e, ip)
<1> DEFINE t  == task[s]
           e0 == progress[s]
           e  == EntryWith(e0, row, opened)
           portMap == PortsWith(t.portMap, row, opened)
           g  == [r \in e0.rows |-> RowWith(r, row, opened)]
           rows  == e0.rows
           rows2 == {g[r] : r \in rows}
<1>1. /\ t \in TaskRec /\ e0 \in Entry /\ e0 # Null
      /\ EntryOK(t, e0, now) /\ NamedOK(t, e0, past) /\ CountOK(t, e0)
  <2>1. t \in TaskRec /\ e0 \in Entry /\ ScanOK(t, e0, now, past)
    BY ScanHere
  <2> QED BY <2>1 DEF ScanOK, ScanAssumption
<1>2. /\ t.named => RowsNamed(e0.rows, past)
      /\ e0.final = Null /\ e0.status = "scanning_ports"
  BY <1>1 DEF EntryOK, NamedOK
<1>3. /\ e0.error = FALSE /\ IsFiniteSet(t.todo) /\ IsFiniteSet(e0.rows) /\ Keyed(e0.rows)
      /\ e0.scanned + Cardinality(t.todo) = Cardinality(e0.rows)
      /\ Mapped(e0.rows, t.portMap)
  BY <1>1 DEF CountOK, Entry
<1>4. t.portMap \in PortMaps /\ t.todo \subseteq Row /\ row \in Row /\ e0.rows \subseteq Row
  BY <1>1 DEF TaskRec, Entry
<1>5. /\ portMap \in PortMaps /\ DOMAIN t.portMap \subseteq DOMAIN portMap
      /\ opened # {} => row.ip \in DOMAIN portMap
  BY <1>4, PortsWithIsMap
<1> HIDE DEF portMap
<1>6. ASSUME NEW r \in e0.rows
      PROVE  /\ g[r] \in Row /\ g[r].ip = r.ip /\ g[r].mac = r.mac /\ g[r].name = r.name
             /\ g[r].ports \notin {Null, {}} => r.ip \in DOMAIN portMap
             /\ r.ports \notin {Null, {}} => g[r].ports \notin {Null, {}}
  <2>1. r \in Row /\ g[r] = RowWith(r, row, opened)
    BY <1>4
  <2> HIDE DEF g
  <2>2. CASE r.ip = row.ip /\ opened # {}
    <3>1. g[r] = [r EXCEPT !.ports = opened]
      BY <2>1, <2>2 DEF RowWith
    <3>2. /\ g[r] \in Row /\ g[r].ip = r.ip /\ g[r].mac = r.mac /\ g[r].name = r.name
          /\ g[r].ports = opened
      BY <2>1, <3>1 DEF Row
    <3>3. opened # Null /\ row.ip \in DOMAIN portMap
      BY <1>5, <2>2 DEF ScanAssumption
    <3> QED BY <2>2, <3>2, <3>3
  <2>3. CASE ~ (r.ip = row.ip /\ opened # {})
    <3>1. g[r] = r
      BY <2>1, <2>3 DEF RowWith
    <3>2. r.ports \notin {Null, {}} => r.ip \in DOMAIN portMap
      BY <1>3, <1>5 DEF Mapped
    <3> QED BY <2>1, <3>1, <3>2
  <2> QED BY <2>2, <2>3
<1>7. /\ g = [r \in rows |-> g[r]] /\ rows \in SUBSET Row /\ IsFiniteSet(rows) /\ Keyed(rows)
      /\ \A r \in rows : g[r] \in Row /\ g[r].ip = r.ip /\ g[r].mac = r.mac /\ g[r].name = r.name
  <2>1. \A r \in rows : g[r] \in Row /\ g[r].ip = r.ip /\ g[r].mac = r.mac /\ g[r].name = r.name
    BY <1>6
  <2> QED BY <1>3, <1>4, <2>1
<1>8. e = [e0 EXCEPT !.scanned = e0.scanned + 1, !.rows = rows2]
  <2>1. rows2 = {RowWith(r, row, opened) : r \in e0.rows}
    OBVIOUS
  <2>2. e = [e0 EXCEPT !.scanned = e0.scanned + 1, !.rows = {RowWith(r, row, opened) : r \in e0.rows}]
    BY DEF EntryWith
  <2> HIDE DEF e, rows2
  <2> QED BY <2>1, <2>2
<1>9. \A r \in rows : /\ g[r].ports \notin {Null, {}} => r.ip \in DOMAIN portMap
                      /\ r.ports \notin {Null, {}} => g[r].ports \notin {Null, {}}
                      /\ g[r].ip = r.ip
  BY <1>6
<1>10. \A q \in rows2 : \E r \in rows : q = g[r]
  OBVIOUS
<1>11. \A r \in rows : g[r] \in rows2
  OBVIOUS
<1>12. rows2 = {g[r] : r \in rows}
  OBVIOUS
<1> HIDE DEF g, e, rows, rows2
<1>13. rows2 \subseteq Row /\ IsFiniteSet(rows2) /\ Keyed(rows2)
  BY <1>7, <1>12, RowsKeep
<1>14. Cardinality(rows2) = Cardinality(rows)
  BY <1>7, <1>12, RowsKeep
<1>15. RowsNamed(rows, past) => RowsNamed(rows2, past)
  BY <1>7, <1>12, RowsKeep
<1>16. /\ e \in Entry /\ e.start = e0.start /\ e.status = "scanning_ports" /\ e.final = Null
       /\ e.error = FALSE /\ e.rows = rows2 /\ e.scanned = e0.scanned + 1 /\ e0.scanned \in Nat
  <2> HIDE DEF e0
  <2>1. e0 \in Entry /\ e0.scanned \in Nat /\ e0.scanned + 1 \in Nat
    BY <1>1 DEF Entry
  <2>2. rows2 \in SUBSET Row
    BY <1>13
  <2>3. e \in Entry
    BY <1>8, <2>1, <2>2 DEF Entry
  <2>4. /\ e.start = e0.start /\ e.status = e0.status /\ e.final = e0.final
        /\ e.error = e0.error /\ e.rows = rows2 /\ e.scanned = e0.scanned + 1
    BY <1>8, <2>1 DEF Entry
  <2> QED BY <1>2, <1>3, <2>1, <2>3, <2>4
<1>17. Mapped(e.rows, portMap)
  <2>1. SUFFICES ASSUME NEW r \in rows, g[r].ports \notin {Null, {}}
                 PROVE  g[r].ip \in DOMAIN portMap
    BY <1>10, <1>16 DEF Mapped
  <2> QED BY <1>9, <2>1
<1>18. e.scanned + Cardinality(t.todo \ {row}) = Cardinality(e.rows)
  <2>1. Cardinality(t.todo \ {row}) = Cardinality(t.todo) - 1
    BY <1>3, FS_RemoveElement
  <2>2. Cardinality(t.todo) \in Nat
    BY <1>3, FS_CardinalityType
  <2>3. e0.scanned + Cardinality(t.todo) = Cardinality(e.rows)
    BY <1>3, <1>14, <1>16 DEF rows
  <2> QED BY <1>16, <2>1, <2>2, <2>3
<1>19. t.named => RowsNamed(e.rows, past)
  BY <1>2, <1>15, <1>16 DEF rows
<1>20. \A ip \in IPs : HasPorts(e0, ip) => HasPorts(e, ip)
  <2>1. SUFFICES ASSUME NEW ip \in IPs, NEW r \in rows, r.ip = ip, r.ports \notin {Null, {}}
                 PROVE  \E q \in e.rows : q.ip = ip /\ q.ports \notin {Null, {}}
    <3>1. e # Null
      BY <1>16 DEF ScanAssumption
    <3> QED BY <3>1 DEF HasPorts, rows
  <2> QED BY <1>9, <1>11, <1>16, <2>1
<1> QED BY <1>5, <1>13, <1>16, <1>17, <1>18, <1>19, <1>20 DEF e, portMap

LEMMA HostScannedKeeps ==
    ASSUME DiagInv, ScanAssumption, ScanLogAssumption,
           NEW s \in Scans, HostScanned(s), check' = check
    PROVE  DiagInv' /\ AllGrow
<1>1. /\ task[s] \in TaskRec /\ task[s].pc = "ports" /\ progress[s] \in Entry
      /\ ScanOK(task[s], progress[s], now, past) /\ now \in Nat /\ s \in Jobs
  BY ScanHere DEF HostScanned
<1>2. PICK row \in task[s].todo : \E opened \in SUBSET Ports :
        LET portMap == PortsWith(task[s].portMap, row, opened)
            entry == EntryWith(progress[s], row, opened)
            last == task[s].todo = {row}
        IN  /\ task' = [task EXCEPT ![s] =
                  IF last THEN Over(s)
                  ELSE [task[s] EXCEPT !.todo = task[s].todo \ {row}, !.portMap = portMap]]
            /\ IF last THEN Complete(s, entry, portMap, FALSE)
                       ELSE progress' = [progress EXCEPT ![s] = entry] /\ Emit(s)
  BY DEF HostScanned, PortsWith, EntryWith, RowWith
<1>3. PICK opened \in SUBSET Ports :
        LET portMap == PortsWith(task[s].portMap, row, opened)
            entry == EntryWith(progress[s], row, opened)
            last == task[s].todo = {row}
        IN  /\ task' = [task EXCEPT ![s] =
                  IF last THEN Over(s)
                  ELSE [task[s] EXCEPT !.todo = task[s].todo \ {row}, !.portMap = portMap]]
            /\ IF last THEN Complete(s, entry, portMap, FALSE)
                       ELSE progress' = [progress EXCEPT ![s] = entry] /\ Emit(s)
  BY <1>2
<1> DEFINE e == EntryWith(progress[s], row, opened)
           portMap == PortsWith(task[s].portMap, row, opened)
<1>4. /\ e \in Entry /\ portMap \in PortMaps
      /\ e.start = progress[s].start /\ e.status = "scanning_ports"
      /\ e.final = Null /\ e.error = FALSE
      /\ IsFiniteSet(e.rows) /\ Keyed(e.rows) /\ Mapped(e.rows, portMap)
      /\ e.scanned + Cardinality(task[s].todo \ {row}) = Cardinality(e.rows)
      /\ task[s].named => RowsNamed(e.rows, past)
      /\ \A ip \in IPs : HasPorts(progress[s], ip) => HasPorts(e, ip)
  BY <1>1, HostIsShown
<1>5. /\ task' = [task EXCEPT ![s] =
            IF task[s].todo = {row} THEN Over(s)
            ELSE [task[s] EXCEPT !.todo = task[s].todo \ {row}, !.portMap = portMap]]
      /\ IF task[s].todo = {row} THEN Complete(s, e, portMap, FALSE)
         ELSE progress' = [progress EXCEPT ![s] = e] /\ Emit(s)
  BY <1>3
<1> HIDE DEF e, portMap
<1>6. UNCHANGED <<hosts, edits, now, past, check>> /\ mdnsNames' \in Maps /\ connected' \subseteq Scans
  BY DEF HostScanned, DiagInv, TableInv
<1>7. task[s].wantsPorts /\ IsFiniteSet(task[s].todo) /\ IsFiniteSet(task[s].rows)
  BY <1>1 DEF ScanOK, CountOK
<1>8. CASE task[s].todo = {row}
  <2>1. task' = [task EXCEPT ![s] = Over(s)] /\ Complete(s, e, portMap, FALSE)
    BY <1>5, <1>8
  <2>2. e.scanned = Cardinality(e.rows)
    <3>1. task[s].todo \ {row} = {}
      BY <1>8
    <3>2. e.scanned + 0 = Cardinality(e.rows) /\ e.scanned \in Nat
      BY <1>4, <3>1, FS_EmptySet DEF Entry
    <3> QED BY <3>2
  <2>3. ScanMoves(s)
    <3>1. /\ task[s].pc \in {"publish", "ports"} /\ e.status \in {"starting", "scanning_ports"}
          /\ e.status # "starting" /\ FALSE \in BOOLEAN
      BY <1>1, <1>4
    <3> QED BY <1>4, <2>1, <2>2, <3>1, CompleteMoves
  <2>4. LogPart' /\ open' \subseteq open /\ ToSet(files') \subseteq ToSet(files)
    BY <1>1, <2>1, CloseLogKeeps DEF Complete, DiagInv, LogInv
  <2> QED BY <1>6, <2>3, <2>4, ScanMoved
<1>9. CASE task[s].todo # {row}
  <2> DEFINE t == [task[s] EXCEPT !.todo = task[s].todo \ {row}, !.portMap = portMap]
  <2>1. /\ t \in TaskRec /\ t.pc = "ports" /\ t.rows = task[s].rows /\ t.named = task[s].named
        /\ t.todo = task[s].todo \ {row} /\ t.portMap = portMap
        /\ t.wantsPorts = task[s].wantsPorts
    BY <1>1, <1>4 DEF TaskRec
  <2>2. task' = [task EXCEPT ![s] = t] /\ progress' = [progress EXCEPT ![s] = e]
    <3>1. task \in [Scans -> TaskRec]
      BY DEF DiagInv, ScanInv
    <3>2. task' = [task EXCEPT ![s] = [task[s] EXCEPT !.todo = task[s].todo \ {row}, !.portMap = portMap]]
      BY <1>5, <1>9
    <3>3. progress' = [progress EXCEPT ![s] = e]
      BY <1>5, <1>9
    <3> QED BY <3>2, <3>3
  <2> HIDE DEF t
  <2>3. e # Null /\ progress[s] # Null /\ progress[s].final = Null /\ progress[s].start =< now
    <3>1. e # Null /\ progress[s] # Null
      BY <1>1, <1>4 DEF ScanAssumption
    <3> QED BY <1>1, <3>1 DEF ScanOK, EntryOK
  <2>4. EntryOK(t, e, now)
    BY <1>4, <2>1, <2>3 DEF EntryOK, Waiting
  <2>5. NamedOK(t, e, past)
    BY <1>4, <2>1 DEF NamedOK
  <2>6. CountOK(t, e)
    <3>1. IsFiniteSet(t.todo)
      BY <1>7, <2>1, FS_RemoveElement
    <3> QED BY <1>4, <1>7, <2>1, <3>1 DEF CountOK
  <2>7. WholeOK(t, e)
    BY <2>1 DEF WholeOK
  <2>8. ScanOK(t, e, now, past)
    BY <1>1, <2>1, <2>4, <2>5, <2>6, <2>7 DEF ScanOK
  <2>9. Grows(progress[s], e, now)
    BY <1>4, <2>3 DEF Grows
  <2>10. ScanMoves(s)
    BY <1>4, <2>1, <2>2, <2>8, <2>9 DEF ScanMoves
  <2>11. LogPart' /\ open' = open /\ ToSet(files') \subseteq ToSet(files)
    BY <1>1, <1>5, <1>9, EmitKeeps DEF DiagInv, LogInv
  <2> QED BY <1>6, <2>10, <2>11, ScanMoved
<1> QED BY <1>8, <1>9

LEMMA PortScanFailsKeeps ==
    ASSUME DiagInv, ScanAssumption, ScanLogAssumption,
           NEW s \in Scans, PortScanFails(s), check' = check
    PROVE  DiagInv' /\ AllGrow
<1> DEFINE e == progress[s]
           portMap == task[s].portMap
<1>1. /\ task[s] \in TaskRec /\ task[s].pc = "ports" /\ e \in Entry /\ e # Null
      /\ EntryOK(task[s], e, now) /\ NamedOK(task[s], e, past) /\ CountOK(task[s], e)
      /\ s \in Jobs
  <2>1. /\ task[s] \in TaskRec /\ task[s].pc = "ports" /\ e \in Entry
        /\ ScanOK(task[s], e, now, past) /\ s \in Jobs
    BY ScanHere DEF PortScanFails
  <2> QED BY <2>1 DEF ScanOK, ScanAssumption
<1>2. e.status = "scanning_ports" /\ portMap \in PortMaps
  BY <1>1 DEF EntryOK, TaskRec
<1>3. task' = [task EXCEPT ![s] = Over(s)] /\ Complete(s, e, portMap, TRUE)
  BY DEF PortScanFails
<1>4. task[s].named => RowsNamed(e.rows, past)
  BY <1>1 DEF NamedOK
<1>5. ScanMoves(s)
  <2>1. /\ task[s].pc \in {"publish", "ports"} /\ e.status \in {"starting", "scanning_ports"}
        /\ e.status # "starting" /\ TRUE \in BOOLEAN /\ e.start = progress[s].start
        /\ \A ip \in IPs : HasPorts(progress[s], ip) => HasPorts(e, ip)
    BY <1>1, <1>2
  <2>2. IsFiniteSet(e.rows) /\ Keyed(e.rows) /\ Mapped(e.rows, portMap)
    BY <1>1 DEF CountOK
  <2> HIDE DEF e, portMap
  <2> QED BY <1>1, <1>2, <1>3, <1>4, <2>1, <2>2, CompleteMoves
<1>6. LogPart' /\ open' \subseteq open /\ ToSet(files') \subseteq ToSet(files)
  BY <1>1, <1>3, CloseLogKeeps DEF Complete, DiagInv, LogInv
<1>7. UNCHANGED <<hosts, edits, now, past, check>> /\ mdnsNames' \in Maps /\ connected' \subseteq Scans
  BY DEF PortScanFails, DiagInv, TableInv
<1> QED BY <1>5, <1>6, <1>7, ScanMoved

-----------------------------------------------------------------------------
(* Edits and the clock move no scan and no validation.                     *)

LEMMA HostRecordMac ==
    ASSUME NEW table \in [Records -> Hosts], NamesAssumption, NEW m \in Macs
    PROVE  NameOfMac(table, m) \in Names
<1>1. LoadKnownHostnames(table) \in Maps
  BY KnownIsMap
<1> QED BY <1>1, MapElim DEF NameOfMac

LEMMA RenameHostKeeps ==
    ASSUME DiagInv, ScanAssumption, NamesAssumption,
           NEW r \in Records, NEW name \in Given, RenameHost(r, name), check' = check
    PROVE  DiagInv' /\ AllGrow
<1>1. /\ mdnsNames' = mdnsNames /\ now' = now /\ connected' = connected /\ task' = task
      /\ progress' = progress /\ bytes' = bytes /\ open' = open /\ files' = files
      /\ edits < MaxEdits /\ edits' = edits + 1
      /\ hosts' = [hosts EXCEPT ![r].name = name]
      /\ past' = [m \in Macs |-> past[m] \cup {NameOfMac(hosts', m)}]
  BY DEF RenameHost, logVars
<1>2. /\ hosts \in [Records -> Hosts] /\ past \in [Macs -> SUBSET Names]
      /\ edits \in 0..MaxEdits /\ now \in Nat
  BY DEF DiagInv, TableInv, ScanAssumption
<1>3. hosts' \in [Records -> Hosts]
  <2>1. name \in NameSet
    BY DEF ScanAssumption
  <2> QED BY <1>1, <1>2, <2>1 DEF Hosts
<1>4. \A m \in Macs : NameOfMac(hosts', m) \in Names
  BY <1>3, HostRecordMac
<1>5. /\ past' \in [Macs -> SUBSET Names]
      /\ \A m \in Macs : past[m] \subseteq past'[m] /\ NameOfMac(hosts', m) \in past'[m]
  <2> DEFINE new(m) == NameOfMac(hosts', m)
  <2>1. past' = [m \in Macs |-> past[m] \cup {new(m)}] /\ \A m \in Macs : new(m) \in Names
    BY <1>1, <1>4
  <2> HIDE DEF new
  <2>2. past' \in [Macs -> SUBSET Names] /\ \A m \in Macs : past[m] \subseteq past'[m] /\ new(m) \in past'[m]
    BY <1>2, <2>1
  <2> QED BY <2>2 DEF new
<1>6. edits' \in 0..MaxEdits
  BY <1>1, <1>2 DEF ScanAssumption
<1>7. TableInv'
  <2>1. \A m \in Macs : NameOfMac(hosts, m)' = NameOfMac(hosts', m)
    BY DEF NameOfMac
  <2> QED BY <1>1, <1>3, <1>5, <1>6, <2>1 DEF DiagInv, TableInv
<1>8. LogInv'
  BY <1>1 DEF DiagInv, LogInv, LogPart, LogTypeOK, Begun
<1>9. ScanInv'
  <2>1. ASSUME NEW s \in Scans PROVE ScanOK(task[s], progress[s], now, past')
    <3>1. /\ task[s] \in TaskRec /\ progress[s] \in Entry \cup {Null}
          /\ ScanOK(task[s], progress[s], now, past)
      BY ScanHere
    <3>2. now =< now
      BY <1>2
    <3>3. \A m \in Macs : past[m] \subseteq past'[m]
      BY <1>5
    <3> QED BY <1>2, <3>1, <3>2, <3>3, ScanLater
  <2> QED BY <1>1, <2>1 DEF DiagInv, ScanInv
<1>10. CheckInv'
  <2>1. ASSUME NEW c \in Checks PROVE CheckOK(check[c], past')
    <3>1. check[c] \in CheckRec /\ CheckOK(check[c], past)
      BY DEF DiagInv, CheckInv
    <3>2. \A m \in Macs : past[m] \subseteq past'[m]
      BY <1>5
    <3> QED BY <3>1, <3>2, CheckLater
  <2> QED BY <2>1 DEF DiagInv, CheckInv
<1>11. AllGrow
  <2>1. now =< now'
    BY <1>1, <1>2
  <2> QED BY <1>1, <2>1, GrowsSame DEF AllGrow
<1> QED BY <1>7, <1>8, <1>9, <1>10, <1>11 DEF DiagInv

LEMMA TickKeeps ==
    ASSUME DiagInv, ScanAssumption, Tick, check' = check
    PROVE  DiagInv' /\ AllGrow
<1>1. /\ hosts' = hosts /\ mdnsNames' = mdnsNames /\ edits' = edits /\ connected' = connected
      /\ task' = task /\ progress' = progress /\ past' = past
      /\ bytes' = bytes /\ open' = open /\ files' = files
      /\ now < MaxTime /\ now' = now + 1
  BY DEF Tick, logVars
<1>2. now \in 0..MaxTime /\ MaxTime \in Nat
  BY DEF DiagInv, TableInv, ScanAssumption
<1>3. now \in Nat /\ now' \in Nat /\ now =< now' /\ now' \in 0..MaxTime
  BY <1>1, <1>2
<1>4. TableInv'
  <2>1. \A m \in Macs : NameOfMac(hosts, m)' = NameOfMac(hosts, m)
    BY <1>1 DEF NameOfMac
  <2> QED BY <1>1, <1>3, <2>1 DEF DiagInv, TableInv
<1>5. LogInv'
  BY <1>1 DEF DiagInv, LogInv, LogPart, LogTypeOK, Begun
<1>6. ScanInv'
  <2>1. ASSUME NEW s \in Scans PROVE ScanOK(task[s], progress[s], now', past)
    <3>1. /\ task[s] \in TaskRec /\ progress[s] \in Entry \cup {Null}
          /\ ScanOK(task[s], progress[s], now, past)
      BY ScanHere
    <3>2. \A m \in Macs : past[m] \subseteq past[m]
      OBVIOUS
    <3> QED BY <1>3, <3>1, <3>2, ScanLater
  <2> QED BY <1>1, <2>1 DEF DiagInv, ScanInv
<1>7. CheckInv'
  BY <1>1 DEF DiagInv, CheckInv
<1>8. AllGrow
  BY <1>1, <1>3, GrowsSame DEF AllGrow
<1> QED BY <1>4, <1>5, <1>6, <1>7, <1>8 DEF DiagInv

-----------------------------------------------------------------------------
(* The steps of a validation.                                              *)

LEMMA CheckHere ==
    ASSUME DiagInv, DiagnosticsAssumption, NEW c \in Checks
    PROVE  check[c] \in CheckRec /\ CheckOK(check[c], past) /\ c \in Jobs
BY DEF DiagInv, CheckInv, DiagnosticsAssumption

LEMMA BeginKeeps ==
    ASSUME DiagInv, ScanAssumption, ScanLogAssumption, DiagnosticsAssumption, NEW c \in Checks,
           NEW mac \in Macs \cup {Null}, NEW ip \in IPs \cup {Null}, Begin(c, mac, ip)
    PROVE  DiagInv' /\ AllGrow
<1> DEFINE k == [check[c] EXCEPT !.pc = "sweep", !.mac = mac, !.ip = ip]
<1>1. /\ check[c] \in CheckRec /\ CheckOK(check[c], past) /\ c \in Jobs /\ check[c].pc = "none"
  BY CheckHere DEF Begin
<1>2. k \in CheckRec
  BY <1>1 DEF CheckRec, CheckPcs
<1>3. /\ k.pc = "sweep" /\ k.ip = ip /\ k.foundMac = check[c].foundMac
      /\ k.names = check[c].names /\ k.probed = check[c].probed
  BY <1>1 DEF CheckRec
<1>4. check' = [check EXCEPT ![c] = k]
  <2>1. check \in [Checks -> CheckRec]
    BY DEF DiagInv, CheckInv
  <2> QED BY <2>1 DEF Begin
<1> HIDE DEF k
<1>5. CheckOK(k, past)
  BY <1>1, <1>3 DEF CheckOK
<1>6. CheckMoves(c)
  BY <1>2, <1>3, <1>4, <1>5 DEF CheckMoves
<1>7. c \notin open /\ c \notin ToSet(files)
  <2>1. c \notin Begun
    BY <1>1 DEF Begun, DiagnosticsAssumption
  <2> QED BY <2>1 DEF DiagInv, LogInv
<1>8. LogPart' /\ open' = open \cup {c} /\ ToSet(files') \subseteq ToSet(files) \cup {c}
  BY <1>1, <1>7, OpenLogKeeps DEF Begin, DiagInv, LogInv
<1>9. UNCHANGED <<hosts, edits, now, connected, task, progress, past>> /\ mdnsNames' \in Maps
  BY DEF Begin, DiagInv, TableInv
<1> QED BY <1>6, <1>8, <1>9, CheckMoved

LEMMA SweepRespondersKeeps ==
    ASSUME DiagInv, ScanAssumption, ScanLogAssumption, DiagnosticsAssumption, NEW c \in Checks,
           SweepResponders(c)
    PROVE  DiagInv' /\ AllGrow
<1>1. /\ check[c] \in CheckRec /\ CheckOK(check[c], past) /\ c \in Jobs /\ check[c].pc = "sweep"
  BY CheckHere DEF SweepResponders
<1>2. PICK seen \in SUBSET Responders :
       LET byMac == {r.ip : r \in {s \in seen : s.mac # Null /\ s.mac = check[c].mac}}
           byIp  == {r.mac : r \in {s \in seen : s.ip = check[c].ip}}
       IN  \E foundIp \in IF byMac = {} THEN {Null} ELSE byMac,
              foundMac \in IF byIp = {} THEN {Null} ELSE byIp :
              check' = [check EXCEPT ![c].pc = "listen", ![c].foundIp = foundIp,
                                     ![c].foundMac = foundMac]
  BY DEF SweepResponders
<1> DEFINE byMac == {r.ip : r \in {s \in seen : s.mac # Null /\ s.mac = check[c].mac}}
           byIp  == {r.mac : r \in {s \in seen : s.ip = check[c].ip}}
<1>3. PICK foundIp \in IF byMac = {} THEN {Null} ELSE byMac :
        \E foundMac \in IF byIp = {} THEN {Null} ELSE byIp :
           check' = [check EXCEPT ![c].pc = "listen", ![c].foundIp = foundIp,
                                  ![c].foundMac = foundMac]
  BY <1>2
<1>4. PICK foundMac \in IF byIp = {} THEN {Null} ELSE byIp :
           check' = [check EXCEPT ![c].pc = "listen", ![c].foundIp = foundIp,
                                  ![c].foundMac = foundMac]
  BY <1>3
<1>5. \A r \in seen : r.ip \in IPs /\ r.mac \in Macs \cup {Null}
  BY DEF ScanAssumption
<1>6. foundIp \in IPs \cup {Null} /\ foundMac \in Macs \cup {Null}
  BY <1>5
<1>7. foundMac # Null => check[c].ip \in IPs
  BY <1>5
<1> HIDE DEF byMac, byIp
<1> DEFINE k == [check[c] EXCEPT !.pc = "listen", !.foundIp = foundIp, !.foundMac = foundMac]
<1>8. k \in CheckRec
  BY <1>1, <1>6 DEF CheckRec, CheckPcs
<1>9. /\ k.pc = "listen" /\ k.ip = check[c].ip /\ k.foundMac = foundMac
      /\ k.names = check[c].names /\ k.probed = check[c].probed
  BY <1>1 DEF CheckRec
<1>10. check' = [check EXCEPT ![c] = k]
  <2>1. check \in [Checks -> CheckRec]
    BY DEF DiagInv, CheckInv
  <2> QED BY <1>4, <2>1
<1> HIDE DEF k
<1>11. CheckOK(k, past)
  BY <1>1, <1>7, <1>9 DEF CheckOK
<1>12. CheckMoves(c)
  BY <1>8, <1>9, <1>10, <1>11 DEF CheckMoves
<1>13. LogPart' /\ open' = open /\ ToSet(files') \subseteq ToSet(files)
  BY <1>1, EmitKeeps DEF SweepResponders, DiagInv, LogInv
<1>14. UNCHANGED <<hosts, edits, now, connected, task, progress, past>> /\ mdnsNames' \in Maps
  BY DEF SweepResponders, DiagInv, TableInv
<1> QED BY <1>12, <1>13, <1>14, CheckMoved

LEMMA ListenKeeps ==
    ASSUME DiagInv, ScanAssumption, ScanLogAssumption, DiagnosticsAssumption, NEW c \in Checks,
           Listen(c)
    PROVE  DiagInv' /\ AllGrow
<1>1. /\ check[c] \in CheckRec /\ CheckOK(check[c], past) /\ check[c].pc = "listen"
  BY CheckHere DEF Listen
<1>2. PICK heard \in Hearings :
          /\ check' = [check EXCEPT ![c].pc = "probe",
                                    ![c].src.mdnsIp = ByIp(heard),
                                    ![c].src.mdnsMac = ByMac(heard)]
          /\ mdnsNames' = RememberMdnsNames(mdnsNames, ByMac(heard))
  BY DEF Listen
<1>3. ByIp(heard) \in Maps /\ ByMac(heard) \in Maps
  BY HeardIsMap
<1> DEFINE src == [check[c].src EXCEPT !.mdnsIp = ByIp(heard), !.mdnsMac = ByMac(heard)]
           k   == [check[c] EXCEPT !.pc = "probe", !.src = src]
<1>4. src \in Srcs
  BY <1>1, <1>3 DEF CheckRec, Srcs
<1>5. check' = [check EXCEPT ![c] = k]
  <2>1. check \in [Checks -> CheckRec]
    BY DEF DiagInv, CheckInv
  <2> QED BY <1>1, <1>2, <2>1 DEF CheckRec, Srcs
<1> HIDE DEF src
<1>6. k \in CheckRec
  BY <1>1, <1>4 DEF CheckRec, CheckPcs
<1>7. /\ k.pc = "probe" /\ k.ip = check[c].ip /\ k.foundMac = check[c].foundMac
      /\ k.names = check[c].names /\ k.probed = check[c].probed
  BY <1>1 DEF CheckRec
<1> HIDE DEF k
<1>8. CheckOK(k, past)
  BY <1>1, <1>7 DEF CheckOK
<1>9. CheckMoves(c)
  BY <1>5, <1>6, <1>7, <1>8 DEF CheckMoves
<1>10. LogPart' /\ open' = open /\ files' = files
  BY LogSame DEF Listen, DiagInv, LogInv
<1>11. mdnsNames' \in Maps
  BY <1>2, <1>3, RememberedIsMap DEF DiagInv, TableInv
<1>12. UNCHANGED <<hosts, edits, now, connected, task, progress, past>>
  BY DEF Listen
<1> QED BY <1>9, <1>10, <1>11, <1>12, CheckMoved

LEMMA ProbeKeeps ==
    ASSUME DiagInv, ScanAssumption, ScanLogAssumption, DiagnosticsAssumption, NamesAssumption,
           NEW c \in Checks, Probe(c)
    PROVE  DiagInv' /\ AllGrow
<1> DEFINE targets == {check[c].ip, check[c].foundIp} \ {Null}
           pc == IF targets = {} THEN "answer" ELSE "known"
           k  == [check[c] EXCEPT !.probed = targets, !.pc = pc]
<1>1. /\ check[c] \in CheckRec /\ CheckOK(check[c], past) /\ check[c].pc = "probe" /\ c \in Jobs
  BY CheckHere DEF Probe
<1>2. targets \in SUBSET IPs
  BY <1>1 DEF CheckRec
<1>3. pc \in {"answer", "known"} /\ (pc = "answer" => targets = {})
  OBVIOUS
<1>4. check' = [check EXCEPT ![c] = k]
  <2>1. check \in [Checks -> CheckRec]
    BY DEF DiagInv, CheckInv
  <2> QED BY <1>1, <2>1 DEF Probe, CheckRec
<1> HIDE DEF pc
<1>5. k \in CheckRec
  <2> HIDE DEF targets
  <2> QED BY <1>1, <1>2, <1>3 DEF CheckRec, CheckPcs
<1>6. /\ k.pc = pc /\ k.ip = check[c].ip /\ k.foundIp = check[c].foundIp
      /\ k.foundMac = check[c].foundMac /\ k.names = check[c].names /\ k.probed = targets
  <2> HIDE DEF targets
  <2> QED BY <1>1 DEF CheckRec
<1> HIDE DEF k
<1>7. CheckOK(k, past)
  <2>1. DOMAIN k.names = {} /\ k.probed = {k.ip, k.foundIp} \ {Null}
    BY <1>1, <1>6 DEF CheckOK
  <2>2. k.foundMac # Null => k.ip \in IPs
    BY <1>1, <1>6 DEF CheckOK
  <2>3. k.pc = "answer" => k.probed = {}
    BY <1>3, <1>6
  <2> HIDE DEF targets
  <2> QED BY <1>3, <1>6, <2>1, <2>2, <2>3 DEF CheckOK
<1>8. CheckMoves(c)
  BY <1>3, <1>4, <1>5, <1>6, <1>7 DEF CheckMoves
<1>9. LogPart' /\ open' = open /\ ToSet(files') \subseteq ToSet(files)
  BY <1>1, EmitKeeps DEF Probe, DiagInv, LogInv
<1>10. UNCHANGED <<hosts, edits, now, connected, task, progress, past>> /\ mdnsNames' \in Maps
  BY DEF Probe, DiagInv, TableInv
<1> QED BY <1>8, <1>9, <1>10, CheckMoved

LEMMA ReadKnownKeeps ==
    ASSUME DiagInv, ScanAssumption, DiagnosticsAssumption, NamesAssumption,
           NEW c \in Checks, ReadKnown(c)
    PROVE  DiagInv' /\ AllGrow
<1> DEFINE known == LoadKnownHostnames(hosts)
           src == [check[c].src EXCEPT !.known = known]
           k   == [check[c] EXCEPT !.pc = "cached", !.src = src]
<1>1. check[c] \in CheckRec /\ CheckOK(check[c], past) /\ check[c].pc = "known"
  BY CheckHere DEF ReadKnown
<1>2. known \in Maps /\ NamesOf(known, past)
  <2>1. known \in Maps
    BY KnownIsMap DEF DiagInv, TableInv
  <2>2. NamesOf(known, past)
    BY DEF NamesOf, DiagInv, TableInv, NameOfMac
  <2> QED BY <2>1, <2>2
<1> HIDE DEF known
<1>3. src \in Srcs /\ src.known = known
  BY <1>1, <1>2 DEF CheckRec, Srcs
<1>4. check' = [check EXCEPT ![c] = k]
  <2>1. check \in [Checks -> CheckRec]
    BY DEF DiagInv, CheckInv
  <2>2. check' = [check EXCEPT ![c].pc = "cached", ![c].src.known = known]
    BY DEF ReadKnown, known
  <2> QED BY <1>1, <2>1, <2>2 DEF CheckRec, Srcs
<1> HIDE DEF src
<1>5. k \in CheckRec
  BY <1>1, <1>3 DEF CheckRec, CheckPcs
<1>6. /\ k.pc = "cached" /\ k.ip = check[c].ip /\ k.foundIp = check[c].foundIp
      /\ k.foundMac = check[c].foundMac /\ k.names = check[c].names
      /\ k.probed = check[c].probed /\ k.src = src
  BY <1>1 DEF CheckRec
<1> HIDE DEF k
<1>7. CheckOK(k, past)
  BY <1>1, <1>2, <1>3, <1>6 DEF CheckOK
<1>8. CheckMoves(c)
  BY <1>4, <1>5, <1>6, <1>7 DEF CheckMoves
<1>9. LogPart' /\ open' = open /\ files' = files
  BY LogSame DEF ReadKnown, DiagInv, LogInv
<1>10. UNCHANGED <<hosts, edits, now, connected, task, progress, past>> /\ mdnsNames' \in Maps
  BY DEF ReadKnown, DiagInv, TableInv
<1> QED BY <1>8, <1>9, <1>10, CheckMoved

LEMMA NameTargetKeeps ==
    ASSUME DiagInv, ScanAssumption, DiagnosticsAssumption, NamesAssumption,
           NEW c \in Checks, NameTarget(c)
    PROVE  DiagInv' /\ AllGrow
<1>1. check[c] \in CheckRec /\ CheckOK(check[c], past) /\ check[c].pc = "cached"
  BY CheckHere DEF NameTarget
<1>2. PICK ip \in check[c].probed \ DOMAIN check[c].names :
       LET src == [check[c].src EXCEPT !.cached = mdnsNames]
           names == [i \in DOMAIN check[c].names \cup {ip} |->
                       IF i = ip THEN ResolveHostname(ip, check[c].foundMac, src)
                                 ELSE check[c].names[i]]
       IN  check' = [check EXCEPT ![c].src = src, ![c].names = names,
               ![c].pc = IF DOMAIN names = check[c].probed
                           THEN "answer" ELSE "known"]
  BY DEF NameTarget
<1> DEFINE src   == [check[c].src EXCEPT !.cached = mdnsNames]
           mac   == check[c].foundMac
           old   == check[c].names
           D     == DOMAIN old \cup {ip}
           name  == ResolveHostname(ip, mac, src)
           names == [i \in D |-> IF i = ip THEN name ELSE old[i]]
           pc    == IF DOMAIN names = check[c].probed THEN "answer" ELSE "known"
           k     == [check[c] EXCEPT !.src = src, !.names = names, !.pc = pc]
<1>3. src \in Srcs /\ src.known = check[c].src.known
  <2>1. mdnsNames \in Maps
    BY DEF DiagInv, TableInv
  <2> QED BY <1>1, <2>1 DEF CheckRec, Srcs
<1>4. check' = [check EXCEPT ![c] = k]
  <2>1. check \in [Checks -> CheckRec]
    BY DEF DiagInv, CheckInv
  <2>2. check' = [check EXCEPT ![c].src = src, ![c].names = names, ![c].pc = pc]
    BY <1>2
  <2> HIDE DEF src, names, pc
  <2> QED BY <1>1, <2>1, <2>2 DEF CheckRec
<1> HIDE DEF src
<1>5. ip \in IPs /\ check[c].probed \subseteq IPs /\ ip \in check[c].probed
  BY <1>1 DEF CheckRec
<1>6. name \in Names
  BY <1>3, <1>5, AddressIsNamed
<1>7. mac # Null /\ Null \notin past[mac] => name \in past[mac]
  <2>1. SUFFICES ASSUME mac # Null, Null \notin past[mac]
                 PROVE  name \in past[mac]
    OBVIOUS
  <2>2. mac \in Macs
    BY <1>1, <2>1 DEF CheckRec
  <2>3. Lookup(src.known, mac) \in past[mac]
    BY <1>1, <1>3, <2>2 DEF CheckOK, NamesOf
  <2>4. Lookup(src.known, mac) # Null
    BY <2>1, <2>3
  <2> HIDE DEF mac
  <2>5. name = Lookup(src.known, mac)
    BY <1>3, <1>5, <2>4, AddressIsNamed
  <2> QED BY <2>3, <2>5
<1> HIDE DEF name
<1>8. PICK E \in SUBSET IPs : old \in [E -> Names]
  BY <1>1 DEF CheckRec, NameMaps
<1>9. names \in [D -> Names] /\ D \in SUBSET IPs /\ DOMAIN names = D
  BY <1>5, <1>6, <1>8
<1>10. names \in NameMaps
  <2> HIDE DEF names, D
  <2> QED BY <1>9 DEF NameMaps
<1>11. \A i \in D : names[i] = name \/ (i \in DOMAIN old /\ names[i] = old[i])
  OBVIOUS
<1>12. D \subseteq check[c].probed
  BY <1>1, <1>5 DEF CheckOK
<1>13. pc \in {"answer", "known"} /\ (pc = "answer" => DOMAIN names = check[c].probed)
  OBVIOUS
<1> HIDE DEF names, pc
<1>14. k \in CheckRec
  BY <1>1, <1>3, <1>10, <1>13 DEF CheckRec, CheckPcs
<1>15. /\ k.pc = pc /\ k.ip = check[c].ip /\ k.foundIp = check[c].foundIp
       /\ k.foundMac = mac /\ k.names = names /\ k.probed = check[c].probed
  BY <1>1 DEF CheckRec
<1> HIDE DEF k
<1>16. mac # Null /\ Null \notin past[mac] => \A i \in D : names[i] \in past[mac]
  <2>1. mac # Null /\ Null \notin past[mac] => \A i \in DOMAIN old : old[i] \in past[mac]
    BY <1>1 DEF CheckOK
  <2> QED BY <1>7, <1>11, <2>1
<1>17. CheckOK(k, past)
  <2>1. check[c].foundMac # Null => check[c].ip \in IPs
    BY <1>1 DEF CheckOK
  <2>2. check[c].probed = {check[c].ip, check[c].foundIp} \ {Null}
    BY <1>1 DEF CheckOK
  <2> HIDE DEF D, old
  <2> QED BY <1>9, <1>12, <1>13, <1>15, <1>16, <2>1, <2>2 DEF CheckOK
<1>18. CheckMoves(c)
  BY <1>4, <1>13, <1>14, <1>15, <1>17 DEF CheckMoves
<1>19. LogPart' /\ open' = open /\ files' = files
  BY LogSame DEF NameTarget, DiagInv, LogInv
<1>20. UNCHANGED <<hosts, edits, now, connected, task, progress, past>> /\ mdnsNames' \in Maps
  BY DEF NameTarget, DiagInv, TableInv
<1> QED BY <1>18, <1>19, <1>20, CheckMoved

LEMMA UnaskedIsCheck ==
    /\ Unasked \in CheckRec /\ Unasked.pc = "none" /\ Unasked.foundMac = Null
    /\ Unasked.probed = {} /\ DOMAIN Unasked.names = {}
<1>1. NoNames \in Srcs
  BY EmptyIsMap
<1>2. <<>> \in NameMaps /\ DOMAIN <<>> = {}
  <2>1. <<>> \in [{} -> Names]
    BY EmptyMap
  <2> QED BY <2>1 DEF NameMaps
<1> QED BY <1>1, <1>2 DEF Unasked, CheckRec, CheckPcs

LEMMA AnswerKeeps ==
    ASSUME DiagInv, ScanAssumption, ScanLogAssumption, DiagnosticsAssumption, NEW c \in Checks,
           Answer(c)
    PROVE  DiagInv' /\ AllGrow
<1> DEFINE k == [Unasked EXCEPT !.pc = "over"]
<1>1. k \in CheckRec
  BY UnaskedIsCheck DEF CheckRec, CheckPcs
<1>2. k.pc = "over" /\ k.foundMac = Null /\ k.probed = {} /\ DOMAIN k.names = {}
  BY UnaskedIsCheck DEF CheckRec
<1>3. check' = [check EXCEPT ![c] = k]
  BY DEF Answer
<1> HIDE DEF k
<1>4. CheckOK(k, past)
  BY <1>2 DEF CheckOK
<1>5. CheckMoves(c)
  BY <1>1, <1>2, <1>3, <1>4 DEF CheckMoves
<1>6. LogPart' /\ open' \subseteq open /\ ToSet(files') \subseteq ToSet(files)
  BY CheckHere, CloseLogKeeps DEF Answer, DiagInv, LogInv
<1>7. UNCHANGED <<hosts, edits, now, connected, task, progress, past>> /\ mdnsNames' \in Maps
  BY DEF Answer, DiagInv, TableInv
<1> QED BY <1>5, <1>6, <1>7, CheckMoved

-----------------------------------------------------------------------------
(* The invariant holds at first, and every step keeps it.                  *)

LEMMA InvAtFirst ==
    ASSUME DiagInit, NamesAssumption, ScanLogAssumption, ScanAssumption
    PROVE  DiagInv
<1>1. /\ bytes = [j \in Jobs |-> 0] /\ open = {} /\ files = <<>> /\ hosts = Table
      /\ mdnsNames = <<>> /\ edits = 0 /\ now = 0 /\ connected = {}
      /\ task = [s \in Scans |-> Idle] /\ progress = [s \in Scans |-> Null]
      /\ past = [m \in Macs |-> {NameOfMac(Table, m)}]
      /\ check = [c \in Checks |-> Unasked]
  BY DEF DiagInit, ScanInit, LogInit
<1>2. LogInv
  <2>1. bytes \in [Jobs -> 0..MaxBytes]
    BY <1>1 DEF ScanLogAssumption
  <2>2. files \in Seq(Jobs) /\ Len(files) = 0 /\ DOMAIN files = {}
    BY <1>1
  <2>3. IsFiniteSet(open) /\ Cardinality(open) = 0
    BY <1>1, FS_EmptySet
  <2>4. Len(files) =< Keep + Cardinality(open)
    BY <2>2, <2>3 DEF ScanLogAssumption
  <2>5. ToSet(files) = {}
    BY <2>2 DEF ToSet
  <2> QED BY <1>1, <2>1, <2>2, <2>3, <2>4, <2>5 DEF LogInv, LogPart, LogTypeOK
<1>3. TableInv
  <2>1. hosts \in [Records -> Hosts]
    BY <1>1 DEF NamesAssumption, Hosts
  <2>2. \A m \in Macs : NameOfMac(Table, m) \in Names
    BY <1>1, <2>1, HostRecordMac
  <2>3. past \in [Macs -> SUBSET Names] /\ \A m \in Macs : NameOfMac(hosts, m) \in past[m]
    BY <1>1, <2>2
  <2>4. mdnsNames \in Maps
    BY <1>1, EmptyIsMap
  <2>5. edits \in 0..MaxEdits /\ now \in 0..MaxTime
    BY <1>1 DEF ScanAssumption
  <2> QED BY <1>1, <2>1, <2>3, <2>4, <2>5 DEF TableInv
<1>4. ScanInv
  <2>1. Idle \in TaskRec /\ Idle.pc = "none" /\ Idle.rows = {} /\ Idle.named = FALSE
    <3>1. NoNames \in Srcs
      BY EmptyIsMap
    <3>2. <<>> \in PortMaps
      <4>1. <<>> \in [{} -> (SUBSET Ports) \ {{}}]
        BY EmptyMap
      <4> QED BY <4>1 DEF PortMaps
    <3> QED BY <3>1, <3>2 DEF Idle, TaskRec, Pcs
  <2>2. EntryOK(Idle, Null, now)
    BY <2>1 DEF EntryOK, Waiting
  <2>3. NamedOK(Idle, Null, past) /\ CountOK(Idle, Null) /\ WholeOK(Idle, Null)
    BY <2>1 DEF NamedOK, CountOK, WholeOK
  <2>4. ScanOK(Idle, Null, now, past)
    BY <2>1, <2>2, <2>3, FS_EmptySet DEF ScanOK
  <2> QED BY <1>1, <2>1, <2>4 DEF ScanInv
<1>5. CheckInv
  <2>1. CheckOK(Unasked, past)
    BY UnaskedIsCheck DEF CheckOK
  <2> QED BY <1>1, <2>1, UnaskedIsCheck DEF CheckInv
<1> QED BY <1>2, <1>3, <1>4, <1>5 DEF DiagInv

LEMMA NullIsNothing ==
    ASSUME NamesAssumption, NEW r \in Records, hosts \in [Records -> Hosts], NEW form \in Forms,
           DiagnosticsAssumption
    PROVE  /\ FirstOf(<<form.mac, hosts[r].mac>>) \in Macs \cup {Null}
           /\ FirstOf(<<form.ip, hosts[r].ip>>) \in IPs \cup {Null}
<1>1. /\ form.mac \in Macs \cup {Null} /\ form.ip \in IPs \cup {Null}
      /\ hosts[r].mac \in Macs /\ hosts[r].ip \in IPs \cup {Null}
  BY DEF DiagnosticsAssumption, Hosts
<1>2. ASSUME NEW a, NEW b
      PROVE  FirstOf(<<a, b>>) \in {Null, a, b}
  <2> DEFINE names == <<a, b>>
  <2>1. 2 \in Nat /\ DOMAIN names = 1..2 /\ names[1] = a /\ names[2] = b
    OBVIOUS
  <2> HIDE DEF names
  <2>2. FirstOf(names) = Null \/ \E i \in 1..2 : FirstOf(names) = names[i]
    BY <2>1, FirstOfIsOne
  <2>3. \A i \in 1..2 : i = 1 \/ i = 2
    OBVIOUS
  <2>4. FirstOf(names) \in {Null, a, b}
    BY <2>1, <2>2, <2>3
  <2> QED BY <2>4 DEF names
<1>3. FirstOf(<<form.mac, hosts[r].mac>>) \in {Null, form.mac, hosts[r].mac}
  BY <1>2
<1>4. FirstOf(<<form.ip, hosts[r].ip>>) \in {Null, form.ip, hosts[r].ip}
  BY <1>2
<1> QED BY <1>1, <1>3, <1>4

LEMMA ScanStepKeeps ==
    ASSUME DiagInv, NamesAssumption, ScanLogAssumption, ScanAssumption, DiagnosticsAssumption,
           ScanStep, check' = check
    PROVE  DiagInv' /\ AllGrow
<1>1. ASSUME NEW s \in Scans, StartScan(s) PROVE DiagInv' /\ AllGrow
  BY <1>1, StartScanKeeps
<1>2. ASSUME NEW s \in Scans, RequestEnds(s) PROVE DiagInv' /\ AllGrow
  BY <1>2, RequestEndsKeeps
<1>3. ASSUME NEW s \in Scans, TaskStep(s) PROVE DiagInv' /\ AllGrow
  <2>0. CASE BeginTask(s)
    BY <2>0, BeginTaskKeeps
  <2>1. CASE Discover(s)
    BY <2>1, DiscoverKeeps
  <2>2. CASE Remember(s)
    BY <2>2, RememberKeeps
  <2>3. CASE LoadKnown(s)
    BY <2>3, LoadKnownKeeps
  <2>4. CASE LoadKnownByIp(s)
    BY <2>4, LoadKnownByIpKeeps
  <2>5. CASE LoadCached(s)
    BY <2>5, LoadCachedKeeps
  <2>6. CASE Publish(s)
    BY <2>6, PublishKeeps
  <2>7. CASE HostScanned(s)
    BY <2>7, HostScannedKeeps
  <2>8. CASE PortScanFails(s)
    BY <2>8, PortScanFailsKeeps
  <2> QED BY <1>3, <2>0, <2>1, <2>2, <2>3, <2>4, <2>5, <2>6, <2>7, <2>8 DEF TaskStep
<1>4. ASSUME NEW r \in Records, NEW name \in Given, RenameHost(r, name) PROVE DiagInv' /\ AllGrow
  BY <1>4, RenameHostKeeps
<1>5. CASE Tick
  BY <1>5, TickKeeps
<1> QED BY <1>1, <1>2, <1>3, <1>4, <1>5 DEF ScanStep

LEMMA DiagStepKeeps ==
    ASSUME DiagInv, NamesAssumption, ScanLogAssumption, ScanAssumption, DiagnosticsAssumption,
           [DiagNext]_diagVars
    PROVE  DiagInv' /\ AllGrow
<1>1. CASE ScanStep /\ UNCHANGED check
  BY <1>1, ScanStepKeeps
<1>2. ASSUME NEW c \in Checks, ValidateNewHost(c) PROVE DiagInv' /\ AllGrow
  <2>1. PICK form \in Forms : Begin(c, form.mac, form.ip)
    BY <1>2 DEF ValidateNewHost
  <2>2. form.mac \in Macs \cup {Null} /\ form.ip \in IPs \cup {Null}
    BY DEF DiagnosticsAssumption
  <2> QED BY <2>1, <2>2, BeginKeeps
<1>3. ASSUME NEW c \in Checks, ValidateHost(c) PROVE DiagInv' /\ AllGrow
  <2>1. PICK form \in Forms : \E r \in Records :
          Begin(c, FirstOf(<<form.mac, hosts[r].mac>>), FirstOf(<<form.ip, hosts[r].ip>>))
    BY <1>3 DEF ValidateHost
  <2>2. PICK r \in Records :
          Begin(c, FirstOf(<<form.mac, hosts[r].mac>>), FirstOf(<<form.ip, hosts[r].ip>>))
    BY <2>1
  <2>3. hosts \in [Records -> Hosts]
    BY DEF DiagInv, TableInv
  <2>4. /\ FirstOf(<<form.mac, hosts[r].mac>>) \in Macs \cup {Null}
        /\ FirstOf(<<form.ip, hosts[r].ip>>) \in IPs \cup {Null}
    BY <2>3, NullIsNothing
  <2> QED BY <2>2, <2>4, BeginKeeps
<1>4. ASSUME NEW c \in Checks, CheckStep(c) PROVE DiagInv' /\ AllGrow
  <2>1. CASE SweepResponders(c)
    BY <2>1, SweepRespondersKeeps
  <2>2. CASE Listen(c)
    BY <2>2, ListenKeeps
  <2>3. CASE Probe(c)
    BY <2>3, ProbeKeeps
  <2>4. CASE ReadKnown(c)
    BY <2>4, ReadKnownKeeps
  <2>5. CASE NameTarget(c)
    BY <2>5, NameTargetKeeps
  <2>6. CASE Answer(c)
    BY <2>6, AnswerKeeps
  <2> QED BY <1>4, <2>1, <2>2, <2>3, <2>4, <2>5, <2>6 DEF CheckStep
<1>5. CASE UNCHANGED diagVars
  BY <1>5, InvKept
<1> QED BY <1>1, <1>2, <1>3, <1>4, <1>5 DEF DiagNext

LEMMA DiagInvHolds == DiagSpec => []DiagInv
<1>1. DiagInit => DiagInv
  BY InvAtFirst, NamesAssumption, ScanLogAssumption, ScanAssumption
<1>2. DiagInv /\ [DiagNext]_diagVars => DiagInv'
  BY DiagStepKeeps, NamesAssumption, ScanLogAssumption, ScanAssumption, DiagnosticsAssumption
<1> QED BY <1>1, <1>2, PTL DEF DiagSpec

-----------------------------------------------------------------------------
(* What follows from it.                                                   *)

(* Every job, entry and validation of the diagnostic pages is well formed, *)
(* and a scan has an entry from the request that started it.               *)
THEOREM DiagTypeHolds == DiagSpec => []DiagTypeOK
<1>1. ASSUME DiagInv PROVE DiagTypeOK
  <2>1. LogTypeOK /\ connected \subseteq Scans /\ now \in 0..MaxTime /\ edits \in 0..MaxEdits
    BY <1>1 DEF DiagInv, LogInv, LogPart, TableInv
  <2>2. ASSUME NEW s \in Scans
        PROVE  /\ task[s].pc \in Pcs
               /\ task[s].rows \subseteq Row /\ task[s].todo \subseteq Row
               /\ DOMAIN task[s].portMap \subseteq IPs
               /\ progress[s] = Null <=> task[s].pc = "none"
               /\ progress[s] # Null => progress[s] \in Entry /\ progress[s].start <= now
    <3>1. task[s] \in TaskRec /\ progress[s] \in Entry \cup {Null} /\ EntryOK(task[s], progress[s], now)
      BY <1>1, ScanHere, ScanAssumption DEF ScanOK
    <3>2. DOMAIN task[s].portMap \subseteq IPs
      BY <3>1, PortMapElim DEF TaskRec
    <3> QED BY <3>1, <3>2 DEF TaskRec, EntryOK
  <2>3. CheckTypeOK
    <3>1. ASSUME NEW c \in Checks
          PROVE  /\ check[c].pc \in {"none", "sweep", "listen", "probe", "known",
                                     "cached", "answer", "over"}
                 /\ {check[c].ip, check[c].foundIp} \subseteq IPs \cup {Null}
                 /\ {check[c].mac, check[c].foundMac} \subseteq Macs \cup {Null}
                 /\ check[c].probed \subseteq IPs
                 /\ DOMAIN check[c].names \subseteq check[c].probed
      <4>1. check[c] \in CheckRec /\ CheckOK(check[c], past)
        BY <1>1, CheckHere, DiagnosticsAssumption
      <4> QED BY <4>1 DEF CheckRec, CheckPcs, CheckOK
    <3> QED BY <3>1 DEF CheckTypeOK
  <2> QED BY <2>1, <2>2, <2>3 DEF DiagTypeOK, ScanTypeOK
<1>2. DiagInv => DiagTypeOK
  BY <1>1
<1> QED BY <1>2, DiagInvHolds, PTL

(* Whatever number of scans and validations has come and gone, the         *)
(* directory of debug logs holds Keep files and those still written to.    *)
THEOREM LogsBoundedHolds == DiagSpec => []LogsBounded
<1>1. ASSUME DiagInv PROVE LogsBounded
  <2>1. Len(files) <= Keep + Cardinality(open) /\ bytes \in [Jobs -> 0..MaxBytes] /\ MaxBytes \in Nat
    BY <1>1, ScanLogAssumption DEF DiagInv, LogInv, LogPart, LogTypeOK, ScanLogAssumption
  <2>2. \A j \in Jobs : bytes[j] <= MaxBytes
    BY <2>1
  <2> QED BY <2>1, <2>2 DEF LogsBounded
<1>2. DiagInv => LogsBounded
  BY <1>1
<1> QED BY <1>2, DiagInvHolds, PTL

(* A scan whose names were read while its request was open shows every     *)
(* device that has a record under a name of the record.                    *)
THEOREM CuratedNameHolds == DiagSpec => []CuratedNameIfConnected
<1>1. ASSUME DiagInv PROVE CuratedNameIfConnected
  <2>1. SUFFICES ASSUME NEW s \in Scans, progress[s] # Null, task[s].named,
                        NEW r \in progress[s].rows, r.mac # Null, Null \notin past[r.mac]
                 PROVE  r.name \in past[r.mac]
    BY DEF CuratedNameIfConnected, Shown
  <2>2. NamedOK(task[s], progress[s], past)
    BY <1>1, ScanHere, ScanAssumption DEF ScanOK
  <2> QED BY <2>1, <2>2 DEF NamedOK, RowsNamed
<1>2. DiagInv => CuratedNameIfConnected
  BY <1>1
<1> QED BY <1>2, DiagInvHolds, PTL

(* A scan that reports no error has scanned all it was asked for.          *)
THEOREM CompleteIsWholeHolds == DiagSpec => []CompleteIsWhole
<1>1. ASSUME DiagInv PROVE CompleteIsWhole
  <2>1. \A s \in Scans : WholeOK(task[s], progress[s])
    BY <1>1, ScanHere, ScanAssumption DEF ScanOK
  <2> QED BY <2>1 DEF WholeOK, CompleteIsWhole
<1>2. DiagInv => CompleteIsWhole
  BY <1>1
<1> QED BY <1>2, DiagInvHolds, PTL

(* What answers at the entered address of a validation with a MAC that has *)
(* a record is shown there under a name of that record, whatever it        *)
(* announces and whichever MAC was entered.                                *)
THEOREM ValidationNamesRecordHolds == DiagSpec => []ValidationNamesRecord
<1>1. ASSUME DiagInv PROVE ValidationNamesRecord
  <2>1. SUFFICES ASSUME NEW c \in Checks, check[c].pc = "answer", check[c].foundMac # Null,
                        Null \notin past[check[c].foundMac]
                 PROVE  check[c].names[check[c].ip] \in past[check[c].foundMac]
    BY DEF ValidationNamesRecord
  <2>2. check[c] \in CheckRec /\ CheckOK(check[c], past)
    BY <1>1, CheckHere, DiagnosticsAssumption
  <2>3. check[c].ip \in IPs
    BY <2>1, <2>2 DEF CheckOK
  <2>4. check[c].ip # Null
    BY <2>3, NamesAssumption DEF NamesAssumption
  <2>5. check[c].ip \in DOMAIN check[c].names
    BY <2>1, <2>2, <2>4 DEF CheckOK
  <2> QED BY <2>1, <2>2, <2>5 DEF CheckOK
<1>2. DiagInv => ValidationNamesRecord
  BY <1>1
<1> QED BY <1>2, DiagInvHolds, PTL

(* The elapsed time a scan shows never goes back, and stands still once    *)
(* the scan is complete.                                                   *)
THEOREM ElapsedIsHonestHolds == DiagSpec => ElapsedIsHonest
<1> DEFINE Honest == \A s \in Scans : progress[s] # Null =>
                       /\ Elapsed(s)' >= Elapsed(s)
                       /\ progress[s].status = "complete" => Elapsed(s)' = Elapsed(s)
<1>1. ASSUME DiagInv, DiagInv', AllGrow PROVE Honest
  <2>1. SUFFICES ASSUME NEW s \in Scans, progress[s] # Null
                 PROVE  /\ Elapsed(s)' >= Elapsed(s)
                        /\ progress[s].status = "complete" => Elapsed(s)' = Elapsed(s)
    OBVIOUS
  <2> DEFINE e  == progress[s]
             e2 == progress'[s]
  <2>2. /\ e \in Entry /\ e.start \in Nat /\ e.start =< now /\ now \in Nat
        /\ e.final \in Nat \cup {Null}
        /\ e.status = "complete" => e.final # Null
    <3>1. e \in Entry /\ EntryOK(task[s], e, now) /\ now \in Nat
      BY <1>1, <2>1, ScanHere, ScanAssumption DEF ScanOK
    <3> QED BY <2>1, <3>1 DEF EntryOK, Entry
  <2>3. now' \in Nat /\ now =< now' /\ Grows(e, e2, now')
    <3>1. now' \in 0..MaxTime /\ MaxTime \in Nat
      BY <1>1, ScanAssumption DEF DiagInv, TableInv, ScanAssumption
    <3> QED BY <1>1, <3>1 DEF AllGrow
  <2>4. Elapsed(s) = IF e.final # Null THEN e.final ELSE now - e.start
    BY DEF Elapsed
  <2>5. Elapsed(s)' = IF e2.final # Null THEN e2.final ELSE now' - e2.start
    BY DEF Elapsed
  <2>6. CASE e.final # Null
    <3>1. e2.final = e.final
      BY <2>1, <2>3, <2>6 DEF Grows
    <3>2. Elapsed(s) = e.final /\ Elapsed(s)' = e.final
      BY <2>4, <2>5, <2>6, <3>1
    <3>3. e.final \in Nat
      BY <2>2, <2>6
    <3>4. e.final >= e.final
      <4> HIDE DEF e
      <4> QED BY <3>3
    <3> QED BY <3>2, <3>4
  <2>7. CASE e.final = Null
    <3>1. e2.start = e.start /\ e2.final \in {Null, now' - e.start}
      BY <2>1, <2>3, <2>7 DEF Grows
    <3>2. Elapsed(s)' = now' - e.start
      BY <2>5, <3>1
    <3>3. Elapsed(s) = now - e.start
      BY <2>4, <2>7
    <3>4. now' - e.start >= now - e.start
      <4> HIDE DEF e
      <4> QED BY <2>2, <2>3
    <3>5. e.status # "complete"
      BY <2>2, <2>7
    <3> QED BY <3>2, <3>3, <3>4, <3>5
  <2> QED BY <2>6, <2>7
<1>2. DiagInv /\ DiagInv' /\ [DiagNext]_diagVars => [Honest]_scanVars
  BY <1>1, DiagStepKeeps, NamesAssumption, ScanLogAssumption, ScanAssumption, DiagnosticsAssumption
<1>3. [][Honest]_scanVars => ElapsedIsHonest
  BY DEF ElapsedIsHonest
<1> HIDE DEF Honest
<1> QED BY <1>2, <1>3, DiagInvHolds, PTL DEF DiagSpec

(* Ports that were shown stay shown.                                       *)
THEOREM PortsStayShownHolds == DiagSpec => PortsStayShown
<1> DEFINE Stay == \A s \in Scans, ip \in IPs :
                     HasPorts(progress[s], ip) => HasPorts(progress[s], ip)'
<1>1. ASSUME AllGrow PROVE Stay
  <2>1. SUFFICES ASSUME NEW s \in Scans, NEW ip \in IPs, HasPorts(progress[s], ip)
                 PROVE  HasPorts(progress[s], ip)'
    OBVIOUS
  <2>2. progress[s] # Null
    BY <2>1 DEF HasPorts
  <2>3. HasPorts(progress'[s], ip)
    BY <1>1, <2>1, <2>2 DEF AllGrow, Grows
  <2> QED BY <2>3 DEF HasPorts
<1>2. DiagInv /\ [DiagNext]_diagVars => [Stay]_scanVars
  BY <1>1, DiagStepKeeps, NamesAssumption, ScanLogAssumption, ScanAssumption, DiagnosticsAssumption
<1>3. [][Stay]_scanVars => PortsStayShown
  BY DEF PortsStayShown
<1> HIDE DEF Stay
<1> QED BY <1>2, <1>3, DiagInvHolds, PTL DEF DiagSpec
=============================================================================
