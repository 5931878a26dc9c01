------------------------ MODULE NameResolutionProofs ------------------------
(***************************************************************************)
(* Proofs about NameResolution for any hosts, addresses and network        *)
(* interfaces, and any number of mounts and answers.                       *)
(***************************************************************************)
EXTENDS NameResolution, Queues, FiniteSetTheorems, WellFoundedInduction

-----------------------------------------------------------------------------
(* The interfaces in the order Chrome lists them.  That there is a list of *)
(* the chosen entries takes induction over their number; here it is the    *)
(* least number of entries without one that cannot exist.                  *)

UpTo(n) == {e \in Chosen : e <= n}
Increasing(S) == {list \in [1..Cardinality(S) -> S] :
                    \A i, j \in 1..Cardinality(S) : i < j => list[i] < list[j]}

LEMMA LeastNatural ==
    ASSUME NEW T \in SUBSET Nat, T # {}
    PROVE  \E n \in T : \A m \in T : n <= m
  <1>1. PICK n \in T : \A m \in T : ~ (<<m, n>> \in OpToRel(<, Nat))
    BY NatLessThanWellFounded, WFMin
  <1>2. \A m \in T : ~ (m < n)
    BY <1>1 DEF OpToRel
  <1>. QED
    BY <1>2

LEMMA EntriesFinite ==
    /\ Len(Addressed) \in Nat /\ Entries \subseteq Nat
    /\ \A n \in Nat : IsFiniteSet(UpTo(n)) /\ Cardinality(UpTo(n)) \in Nat
    /\ IsFiniteSet(Chosen) /\ Cardinality(Chosen) \in 0..Len(Addressed)
  <1>1. Len(Addressed) \in Nat
    BY NetworkAssumption
  <1>2. IsFiniteSet(Entries) /\ Cardinality(Entries) = Len(Addressed)
    BY <1>1, FS_Interval DEF Entries
  <1>3. Chosen \in SUBSET Entries /\ \A n \in Nat : UpTo(n) \in SUBSET Entries
    BY DEF Chosen, UpTo
  <1>4. IsFiniteSet(Chosen) /\ Cardinality(Chosen) <= Len(Addressed) /\ Cardinality(Chosen) \in Nat
    BY <1>2, <1>3, FS_Subset, FS_CardinalityType
  <1>5. \A n \in Nat : IsFiniteSet(UpTo(n)) /\ Cardinality(UpTo(n)) \in Nat
    BY <1>2, <1>3, FS_Subset, FS_CardinalityType
  <1>. QED
    BY <1>1, <1>4, <1>5 DEF Entries

LEMMA OneMoreEntry ==
    ASSUME NEW n \in Nat, Increasing(UpTo(n)) # {}
    PROVE  Increasing(UpTo(n + 1)) # {}
  <1>. DEFINE k == Cardinality(UpTo(n))
  <1>1. PICK list \in [1..k -> UpTo(n)] : \A i, j \in 1..k : i < j => list[i] < list[j]
    BY DEF Increasing
  <1>2. IsFiniteSet(UpTo(n)) /\ k \in Nat
    BY EntriesFinite
  <1>3. CASE n + 1 \notin Chosen
    <2>1. UpTo(n + 1) = UpTo(n)
      <3>1. \A e \in Chosen : e \in Nat /\ e # n + 1
        BY <1>3, EntriesFinite DEF Chosen
      <3>2. \A e \in Chosen : e <= n + 1 <=> e <= n
        BY <3>1
      <3>. QED
        BY <3>2 DEF UpTo
    <2>. QED
      BY <2>1
  <1>4. CASE n + 1 \in Chosen
    <2>1. UpTo(n + 1) = UpTo(n) \cup {n + 1} /\ n + 1 \notin UpTo(n)
      <3>1. \A e \in Chosen : e \in Nat
        BY EntriesFinite DEF Chosen
      <3>2. \A e \in Chosen : e <= n + 1 <=> e <= n \/ e = n + 1
        BY <3>1
      <3>3. ~ (n + 1 <= n)
        OBVIOUS
      <3>. QED
        BY <1>4, <3>2, <3>3 DEF UpTo
    <2>2. Cardinality(UpTo(n + 1)) = k + 1
      BY <1>2, <2>1, FS_AddElement
    <2>. DEFINE longer == [i \in 1 .. k + 1 |-> IF i = k + 1 THEN n + 1 ELSE list[i]]
    <2>3. \A i \in 1..k : list[i] \in UpTo(n) /\ list[i] \in Nat /\ list[i] <= n
      BY <1>1, EntriesFinite DEF UpTo, Chosen
    <2>4. longer \in [1 .. k + 1 -> UpTo(n + 1)]
      BY <1>2, <2>1, <2>3
    <2>5. ASSUME NEW i \in 1 .. k + 1, NEW j \in 1 .. k + 1, i < j
          PROVE  longer[i] < longer[j]
      <3>. HIDE DEF k
      <3>1. CASE j = k + 1
        <4>1. i \in 1..k /\ longer[i] = list[i] /\ longer[j] = n + 1
          BY <1>2, <2>5, <3>1
        <4>. QED
          BY <4>1, <2>3
      <3>2. CASE j # k + 1
        <4>1. i \in 1..k /\ j \in 1..k /\ longer[i] = list[i] /\ longer[j] = list[j]
          BY <1>2, <2>5, <3>2
        <4>. QED
          BY <4>1, <1>1, <2>5
      <3>. QED
        BY <3>1, <3>2
    <2>6. longer \in Increasing(UpTo(n + 1))
      <3>. HIDE DEF longer
      <3>. QED
        BY <2>2, <2>4, <2>5 DEF Increasing
    <2>. QED
      BY <2>6
  <1>. QED
    BY <1>3, <1>4

LEMMA ListExists == Increasing(Chosen) # {}
  <1>. DEFINE Without == {n \in Nat : Increasing(UpTo(n)) = {}}
  <1>1. Without = {}
    <2>. SUFFICES ASSUME Without # {}  PROVE FALSE
      OBVIOUS
    <2>1. PICK n \in Without : \A m \in Without : n <= m
      BY LeastNatural
    <2>2. CASE n = 0
      <3>1. UpTo(0) = {}
        BY EntriesFinite DEF UpTo, Chosen, Entries
      <3>2. Cardinality(UpTo(0)) = 0
        BY <3>1, FS_EmptySet
      <3>3. <<>> \in Increasing(UpTo(0))
        BY <3>1, <3>2 DEF Increasing
      <3>. QED
        BY <2>1, <2>2, <3>3
    <2>3. CASE n # 0
      <3>1. n \in Nat /\ n - 1 \in Nat /\ (n - 1) + 1 = n /\ ~ (n <= n - 1)
        BY <2>3
      <3>2. Increasing(UpTo(n - 1)) # {}
        BY <2>1, <3>1
      <3>3. Increasing(UpTo((n - 1) + 1)) # {}
        BY <3>1, <3>2, OneMoreEntry
      <3>. QED
        BY <3>1, <3>3
    <2>. QED
      BY <2>2, <2>3
  <1>2. UpTo(Len(Addressed)) = Chosen
    BY EntriesFinite DEF UpTo, Chosen, Entries
  <1>. QED
    BY <1>1, <1>2, EntriesFinite

\* What a scan goes through: chosen entries, each once, at most one for an entry.
LEMMA InterfacesListedOnce ==
    /\ InterfaceList \in Seq(Entries) /\ Len(InterfaceList) \in 0..Len(Addressed)
    /\ \A i, j \in 1..Len(InterfaceList) : InterfaceList[i] = InterfaceList[j] => i = j
  <1>. DEFINE k == Cardinality(Chosen)
  <1>1. InterfaceList \in [1..k -> Chosen] /\ \A i, j \in 1..k : i < j => InterfaceList[i] < InterfaceList[j]
    <2>1. \E list \in [1..k -> Chosen] : \A i, j \in DOMAIN list : i < j => list[i] < list[j]
      BY ListExists DEF Increasing
    <2>2. /\ InterfaceList \in [1..k -> Chosen]
          /\ \A i, j \in DOMAIN InterfaceList : i < j => InterfaceList[i] < InterfaceList[j]
      BY <2>1 DEF InterfaceList
    <2>. QED
      BY <2>2
  <1>2. k \in 0..Len(Addressed) /\ k \in Nat
    BY EntriesFinite
  <1>3. Chosen \subseteq Entries /\ Entries \subseteq Nat
    BY EntriesFinite DEF Chosen
  <1>. HIDE DEF k
  <1>4. InterfaceList \in [1..k -> Entries]
    BY <1>1, <1>3
  <1>5. InterfaceList \in Seq(Entries) /\ Len(InterfaceList) = k
    BY <1>2, <1>4
  <1>6. \A i \in 1..k : InterfaceList[i] \in Nat
    BY <1>1, <1>3
  <1>7. ASSUME NEW i \in 1..k, NEW j \in 1..k, InterfaceList[i] = InterfaceList[j]
        PROVE  i = j
    <2>1. ~ (i < j) /\ ~ (j < i)
      BY <1>1, <1>6, <1>7
    <2>. QED
      BY <1>2, <2>1
  <1>. QED
    BY <1>2, <1>5, <1>7

-----------------------------------------------------------------------------
(* Helpers.                                                                *)

Table == [Hosts -> Addresses \cup {None}]

LEMMA UnknownIsTable == Unknown \in Table /\ \A h \in Hosts : Unknown[h] = None
  BY DEF Unknown, Table

LEMMA UpdateIsTable ==
    ASSUME NEW old \in Table, NEW new \in Table
    PROVE  /\ Update(old, new) \in Table
           /\ \A h \in Hosts : Update(old, new)[h] = IF new[h] # None THEN new[h] ELSE old[h]
  BY DEF Update, Table

LEMMA GreatestPosition ==
    ASSUME NEW n \in Nat, NEW P \in SUBSET (1..n), P # {}
    PROVE  \E i \in P : \A j \in P : j <= i
  <1>. DEFINE Q == {n - i : i \in P}
  <1>0. \A i \in P : n - i \in Nat
    OBVIOUS
  <1>1. Q \in SUBSET Nat /\ Q # {}
    BY <1>0
  <1>2. PICK q \in Q : \A m \in Q : q <= m
    BY <1>1, LeastNatural
  <1>3. PICK i \in P : q = n - i
    BY <1>2
  <1>4. \A j \in P : n - i <= n - j
    BY <1>2, <1>3
  <1>. QED
    BY <1>4

\* The tables of a scan are merged to one that has only what one of them has, and
\* something of every host that one of them has.
LEMMA MergedIsOneOfThem ==
    ASSUME NEW s \in Scans, NEW resolved \in Seq(Entries), NEW h \in Hosts
    PROVE  \/ /\ Merged(s, resolved)[h] = None
              /\ \A i \in 1..Len(resolved) : nameLookup[<<s, resolved[i]>>][h] = None
           \/ \E i \in 1..Len(resolved) :
                 /\ Merged(s, resolved)[h] = nameLookup[<<s, resolved[i]>>][h]
                 /\ nameLookup[<<s, resolved[i]>>][h] # None
  <1>. DEFINE Last == {i \in 1..Len(resolved) : nameLookup[<<s, resolved[i]>>][h] # None}
  <1>1. CASE Last = {}
    <2>1. Merged(s, resolved)[h] = None
      BY <1>1 DEF Merged
    <2>. QED
      BY <1>1, <2>1
  <1>2. CASE Last # {}
    <2>. DEFINE i == CHOOSE i \in Last : \A j \in Last : j <= i
    <2>1. i \in Last
      <3>1. \E k \in Last : \A j \in Last : j <= k
        <4>1. Len(resolved) \in Nat /\ Last \in SUBSET (1..Len(resolved))
          OBVIOUS
        <4>. HIDE DEF Last
        <4>. QED
          BY <1>2, <4>1, GreatestPosition
      <3>. QED
        BY <3>1
    <2>2. Merged(s, resolved)[h] = nameLookup[<<s, resolved[i]>>][h]
      BY <1>2 DEF Merged
    <2>. HIDE DEF i
    <2>. QED
      BY <2>1, <2>2
  <1>. QED
    BY <1>1, <1>2

LEMMA MergedIsTable ==
    ASSUME nameLookup \in [Lookups -> Table], NEW s \in Scans, NEW resolved \in Seq(Entries)
    PROVE  Merged(s, resolved) \in Table
  <1>1. \A i \in 1..Len(resolved) : <<s, resolved[i]>> \in Lookups
    BY DEF Lookups
  <1>2. \A h \in Hosts : Merged(s, resolved)[h] \in Addresses \cup {None}
    BY <1>1, MergedIsOneOfThem DEF Table
  <1>3. Merged(s, resolved) = [h \in Hosts |-> Merged(s, resolved)[h]]
    BY DEF Merged
  <1>. QED
    BY <1>2, <1>3 DEF Table

-----------------------------------------------------------------------------
(* The scans, their lookups and the mounts that wait for them.             *)

Idle(s) == scan[s] \in {"none", "listing", "stuck"}
TimersOf(s) == {l \in Elements(timers) : l[1] = s}

\* A scan counts the lookups whose timers are still to fire.
TimersCounted ==
    /\ \A i, j \in 1..Len(timers) : timers[i] = timers[j] => i = j
    /\ \A s \in Scans : remaining[s] = Cardinality(TimersOf(s))

\* Only the entries that were chosen have lookups, and only in a scan that has
\* listed them.
LookupsNamed ==
    /\ \A l \in Elements(timers) : l \in LookupsOf(l[1]) /\ ~ Idle(l[1])
    /\ \A s \in Scans : \A i \in 1..Len(results[s]) : <<s, results[s][i]>> \in LookupsOf(s)

\* No one answers for a name that is an address.
LiteralsUnheard == \A l \in Lookups, h \in Literals : nameLookup[l][h] = None

\* How far a mount is tells how far the scan made for it is.
ScansAsked ==
    \A r \in Resolutions :
        /\ resolution[r] = "none" => scan[r] = "none"
        /\ resolution[r] = "waiting" => scan[r] \in {"listing", "waiting", "stuck"}
        /\ resolution[r] = "answered" => scan[r] \in {"none", "done"}
        /\ resolution[r] # "none" => wanted[r] \in Hosts

Typed == TypeOK /\ TimersCounted /\ LookupsNamed /\ LiteralsUnheard /\ ScansAsked

LEMMA LookupsAreLookups ==
    ASSUME NEW s \in Scans
    PROVE  /\ LookupsOf(s) \subseteq Lookups
           /\ \A l \in LookupsOf(s) : l[1] = s
           /\ \A i \in 1..Len(InterfaceList) : InterfaceList[i] \in Entries
  <1>1. \A i \in 1..Len(InterfaceList) : InterfaceList[i] \in Entries
    BY InterfacesListedOnce
  <1>. QED
    BY <1>1 DEF LookupsOf, Lookups

LEMMA TimersAreLookups ==
    ASSUME TypeOK, NEW l \in Elements(timers)
    PROVE  l \in Lookups /\ l[1] \in Scans
  <1>1. timers \in Seq(Lookups)
    BY DEF TypeOK
  <1>2. l \in Lookups
    BY <1>1 DEF Elements
  <1>. QED
    BY <1>2 DEF Lookups

LEMMA ScansOrResolutions == 0 \in Scans /\ \A s \in Scans : s # 0 => s \in Resolutions
  BY NetworkAssumption DEF Scans, Resolutions

LEMMA ResolutionsAreScans == \A r \in Resolutions : r \in Scans /\ r # 0
  BY NetworkAssumption DEF Scans, Resolutions

LEMMA InitTyped == Init => Typed
  <1>. SUFFICES ASSUME Init  PROVE Typed
    OBVIOUS
  <1>1. Elements(timers) = {}
    BY ElementsEmpty DEF Init
  <1>2. TypeOK
    <2>1. Unknown \in [Hosts -> Addresses \cup {None}]
      BY UnknownIsTable DEF Table
    <2>. QED
      BY <2>1, EntriesFinite, NetworkAssumption DEF Init, TypeOK, ScanStates
  <1>3. TimersCounted
    <2>1. \A s \in Scans : remaining[s] = 0 /\ Cardinality(TimersOf(s)) = 0
      BY <1>1, FS_EmptySet DEF Init, TimersOf
    <2>2. Len(timers) = 0
      BY DEF Init
    <2>. QED
      BY <2>1, <2>2 DEF TimersCounted
  <1>4. LookupsNamed
    BY <1>1 DEF Init, LookupsNamed
  <1>5. LiteralsUnheard
    BY UnknownIsTable, NetworkAssumption DEF Init, LiteralsUnheard
  <1>6. ScansAsked
    BY ResolutionsAreScans DEF Init, ScansAsked
  <1>. QED
    BY <1>2, <1>3, <1>4, <1>5, <1>6 DEF Typed

\* What the end of a scan does to the tables and to those who wait for it.
LEMMA FinishTyped ==
    ASSUME Typed, NEW s \in Scans, scan[s] \in {"listing", "waiting"}, NEW found \in Table,
           \A h \in Literals : found[h] = None, Finish(s, found), UNCHANGED wanted
    PROVE  /\ scan' \in [Scans -> ScanStates] /\ scan'[s] = "done"
           /\ \A q \in Scans \ {s} : scan'[q] = scan[q]
           /\ ipCache' \in Table
           /\ enumerating' \subseteq enumerating \cup (Hosts \ Literals)
           /\ dropdown' \in {"loading", "reading", "shown"}
           /\ resolution' \in [Resolutions -> {"none", "waiting", "answered"}]
           /\ answer' \in [Resolutions -> Addresses \cup {None}]
           /\ ScansAsked'
  <1>1. /\ scan' = [scan EXCEPT ![s] = "done"] /\ scan \in [Scans -> ScanStates]
        /\ ipCache' = Update(ipCache, found)
        /\ ipCache \in Table /\ dropdown \in {"loading", "reading", "shown"}
        /\ resolution \in [Resolutions -> {"none", "waiting", "answered"}]
        /\ answer \in [Resolutions -> Addresses \cup {None}]
    BY DEF Finish, Typed, TypeOK, Table
  <1>2. /\ scan' \in [Scans -> ScanStates] /\ scan'[s] = "done"
        /\ \A q \in Scans \ {s} : scan'[q] = scan[q]
    BY <1>1 DEF ScanStates
  <1>3. ipCache' \in Table
    BY <1>1, UpdateIsTable
  <1>4. CASE s = 0
    <2>1. /\ enumerating' = Known(found) /\ dropdown' = "reading"
          /\ resolution' = resolution /\ answer' = answer
      BY <1>4 DEF Finish
    <2>2. Known(found) \subseteq Hosts \ Literals
      BY DEF Known
    <2>3. ScansAsked'
      BY <1>2, <1>4, <2>1, ResolutionsAreScans DEF Typed, ScansAsked
    <2>. QED
      BY <1>1, <1>2, <1>3, <2>1, <2>2, <2>3
  <1>5. CASE s # 0
    <2>1. /\ resolution' = [resolution EXCEPT ![s] = "answered"]
          /\ answer' = [answer EXCEPT ![s] = AddressFound(s, found)]
          /\ enumerating' = enumerating /\ dropdown' = dropdown
      BY <1>5 DEF Finish
    <2>2. s \in Resolutions
      BY <1>5, ScansOrResolutions
    <2>3. resolution[s] = "waiting" /\ wanted[s] \in Hosts
      <3>1. resolution[s] \in {"none", "waiting", "answered"}
        BY <1>1, <2>2
      <3>. QED
        BY <2>2, <3>1 DEF Typed, ScansAsked
    <2>4. AddressFound(s, found) \in Addresses \cup {None}
      BY <1>1, <2>3, UpdateIsTable DEF AddressFound, Table
    <2>5. /\ resolution' \in [Resolutions -> {"none", "waiting", "answered"}]
          /\ answer' \in [Resolutions -> Addresses \cup {None}]
      BY <1>1, <2>1, <2>4
    <2>6. ASSUME NEW r \in Resolutions
          PROVE  /\ resolution'[r] = "none" => scan'[r] = "none"
                 /\ resolution'[r] = "waiting" => scan'[r] \in {"listing", "waiting", "stuck"}
                 /\ resolution'[r] = "answered" => scan'[r] \in {"none", "done"}
                 /\ resolution'[r] # "none" => wanted'[r] \in Hosts
      <3>1. CASE r = s
        BY <1>1, <1>2, <2>1, <2>2, <2>3, <3>1
      <3>2. CASE r # s
        <4>1. resolution'[r] = resolution[r] /\ scan'[r] = scan[r] /\ wanted'[r] = wanted[r]
          BY <1>1, <1>2, <2>1, <3>2, ResolutionsAreScans
        <4>. QED
          BY <4>1 DEF Typed, ScansAsked
      <3>. QED
        BY <3>1, <3>2
    <2>7. ScansAsked'
      BY <2>6 DEF ScansAsked
    <2>. QED
      BY <1>1, <1>2, <1>3, <2>1, <2>5, <2>7
  <1>. QED
    BY <1>4, <1>5

LEMMA LookupsCounted ==
    ASSUME NEW s \in Scans
    PROVE  IsFiniteSet(LookupsOf(s)) /\ Cardinality(LookupsOf(s)) = Len(InterfaceList)
  <1>. DEFINE n == Len(InterfaceList)
              lookup == [i \in 1..n |-> <<s, InterfaceList[i]>>]
  <1>1. n \in Nat /\ \A i, j \in 1..n : InterfaceList[i] = InterfaceList[j] => i = j
    BY InterfacesListedOnce, EntriesFinite
  <1>2. lookup \in Bijection(1..n, LookupsOf(s))
    BY <1>1 DEF LookupsOf, Bijection, Injection, Surjection, IsInjective
  <1>3. ExistsBijection(1..n, LookupsOf(s))
    BY <1>2 DEF ExistsBijection
  <1>4. IsFiniteSet(1..n) /\ Cardinality(1..n) = n
    <2>. HIDE DEF n
    <2>1. IsFiniteSet(1..n) /\ Cardinality(1..n) = IF 1 > n THEN 0 ELSE n - 1 + 1
      BY <1>1, FS_Interval
    <2>. QED
      BY <1>1, <2>1
  <1>. QED
    BY <1>3, <1>4, FS_Bijection

\* The timers that a scan sets once its interfaces are listed.
LEMMA ListedEffect ==
    ASSUME Typed, NEW s \in Scans, InterfacesListed(s)
    PROVE  /\ timers' \in Seq(Lookups) /\ TimersCounted'
           /\ Elements(timers') = Elements(timers) \cup LookupsOf(s)
           /\ scan'[s] \in {"waiting", "done"} /\ scan[s] = "listing"
           /\ \A q \in Scans \ {s} : scan'[q] = scan[q]
  <1>. DEFINE made == [i \in 1..Len(InterfaceList) |-> <<s, InterfaceList[i]>>]
  <1>1. Len(InterfaceList) \in Nat
    BY InterfacesListedOnce, EntriesFinite
  <1>2. \A i \in 1..Len(InterfaceList) : made[i] \in LookupsOf(s) /\ made[i] \in Lookups /\ made[i][1] = s
    BY LookupsAreLookups DEF LookupsOf
  <1>3. /\ made \in Seq(Lookups) /\ Len(made) = Len(InterfaceList)
        /\ Elements(made) = LookupsOf(s)
    <2>1. Elements(made) = LookupsOf(s)
      BY <1>1 DEF Elements, LookupsOf
    <2>2. made \in [1..Len(InterfaceList) -> Lookups]
      BY <1>2
    <2>. HIDE DEF made
    <2>. QED
      BY <1>1, <2>1, <2>2
  <1>4. \A i, j \in 1..Len(made) : made[i] = made[j] => i = j
    <2>1. \A i, j \in 1..Len(InterfaceList) : made[i] = made[j] => InterfaceList[i] = InterfaceList[j]
      OBVIOUS
    <2>. HIDE DEF made
    <2>. QED
      BY <1>3, <2>1, InterfacesListedOnce
  <1>5. timers' = timers \o made /\ timers \in Seq(Lookups) /\ scan[s] = "listing"
    BY DEF InterfacesListed, Typed, TypeOK
  <1>6. /\ scan \in [Scans -> ScanStates] /\ remaining \in [Scans -> 0..Len(Addressed)]
        /\ remaining' = [remaining EXCEPT ![s] = Len(InterfaceList)]
    BY DEF InterfacesListed, Typed, TypeOK
  <1>7. scan'[s] \in {"waiting", "done"} /\ \A q \in Scans \ {s} : scan'[q] = scan[q]
    <2>1. scan' = [scan EXCEPT ![s] = "done"] \/ scan' = [scan EXCEPT ![s] = "waiting"]
      BY DEF InterfacesListed, Finish
    <2>. QED
      BY <1>6, <2>1
  <1>. HIDE DEF made
  <1>8. timers' \in Seq(Lookups) /\ Elements(timers') = Elements(timers) \cup LookupsOf(s)
    BY <1>3, <1>5, ConcatJoins, ElementsConcat
  <1>9. \A l \in Elements(timers) : l[1] # s
    BY <1>5 DEF Typed, LookupsNamed, Idle
  <1>10. \A q \in Scans : TimersOf(q)' = IF q = s THEN LookupsOf(s) ELSE TimersOf(q)
    <2>1. TimersOf(s)' = LookupsOf(s)
      BY <1>8, <1>9, LookupsAreLookups DEF TimersOf
    <2>2. \A q \in Scans \ {s} : TimersOf(q)' = TimersOf(q)
      BY <1>8, LookupsAreLookups DEF TimersOf
    <2>. QED
      BY <2>1, <2>2
  <1>11. \A q \in Scans : remaining'[q] = Cardinality(TimersOf(q)')
    <2>1. \A q \in Scans : remaining'[q] = IF q = s THEN Len(InterfaceList) ELSE remaining[q]
      BY <1>6
    <2>. QED
      BY <1>10, <2>1, LookupsCounted DEF Typed, TimersCounted
  <1>12. ASSUME NEW i \in 1..Len(timers'), NEW j \in 1..Len(timers'), timers'[i] = timers'[j]
         PROVE  i = j
    <2>1. \A k \in 1..Len(timers) : timers'[k] = timers[k] /\ timers[k] \in Elements(timers)
      BY <1>3, <1>5, ConcatJoins DEF Elements
    <2>2. \A k \in 1..Len(made) : timers'[Len(timers) + k] = made[k] /\ made[k] \in LookupsOf(s)
      BY <1>3, <1>5, ConcatJoins DEF Elements
    <2>3. \A k \in 1..Len(made) : made[k][1] = s
      BY <2>2, LookupsAreLookups
    <2>4. \A k \in 1..Len(timers') : k \in 1..Len(timers) \/ k - Len(timers) \in 1..Len(made)
      BY <1>3, <1>5, ConcatJoins
    <2>5. \A k \in 1..Len(timers') : k = Len(timers) + (k - Len(timers))
      BY <1>5
    <2>6. CASE i \in 1..Len(timers) /\ j \in 1..Len(timers)
      BY <1>12, <2>1, <2>6 DEF Typed, TimersCounted
    <2>7. CASE i - Len(timers) \in 1..Len(made) /\ j - Len(timers) \in 1..Len(made)
      <3>1. made[i - Len(timers)] = made[j - Len(timers)]
        BY <1>12, <2>2, <2>5, <2>7
      <3>2. i - Len(timers) = j - Len(timers)
        BY <1>4, <2>7, <3>1
      <3>. QED
        BY <2>5, <3>2
    <2>8. CASE i \in 1..Len(timers) /\ j - Len(timers) \in 1..Len(made)
      <3>1. timers'[i] # made[j - Len(timers)]
        BY <1>9, <2>1, <2>3, <2>8
      <3>. QED
        BY <1>12, <2>2, <2>5, <2>8, <3>1
    <2>9. CASE i - Len(timers) \in 1..Len(made) /\ j \in 1..Len(timers)
      <3>1. timers'[j] # made[i - Len(timers)]
        BY <1>9, <2>1, <2>3, <2>9
      <3>. QED
        BY <1>12, <2>2, <2>5, <2>9, <3>1
    <2>. QED
      BY <2>4, <2>6, <2>7, <2>8, <2>9
  <1>13. TimersCounted'
    BY <1>11, <1>12 DEF TimersCounted
  <1>. QED
    BY <1>5, <1>7, <1>8, <1>13

\* The timer that fires is counted, and no other.
LEMMA FiresEffect ==
    ASSUME Typed, TimerFires, NEW l, l = Head(timers)
    PROVE  /\ l \in Lookups /\ l[1] \in Scans /\ l[2] \in Entries /\ l = <<l[1], l[2]>>
           /\ l \in LookupsOf(l[1]) /\ scan[l[1]] \in {"waiting", "done"}
           /\ timers' \in Seq(Lookups) /\ TimersCounted'
           /\ Elements(timers') = Elements(timers) \ {l}
           /\ remaining[l[1]] \in 1..Len(Addressed)
           /\ remaining' = [remaining EXCEPT ![l[1]] = remaining[l[1]] - 1]
  <1>1. /\ timers \in Seq(Lookups) /\ timers # <<>> /\ timers' = Tail(timers)
        /\ scan \in [Scans -> ScanStates] /\ remaining \in [Scans -> 0..Len(Addressed)]
        /\ remaining' = [remaining EXCEPT ![l[1]] = remaining[l[1]] - 1]
    BY DEF TimerFires, CountDown, Typed, TypeOK
  <1>2. l \in Elements(timers) /\ l \in Lookups
    BY <1>1, ElementsTail
  <1>3. l[1] \in Scans /\ l[2] \in Entries /\ l = <<l[1], l[2]>>
    BY <1>2 DEF Lookups
  <1>4. l \in LookupsOf(l[1]) /\ scan[l[1]] \in {"waiting", "done"}
    BY <1>1, <1>2, <1>3 DEF Typed, LookupsNamed, Idle, ScanStates
  <1>. DEFINE self == [x \in Lookups |-> x]
  <1>5. \A k \in Elements(timers) : self[k] = k
    BY <1>1, ElementsTail
  <1>6. Distinct(timers, self)
    BY <1>1, <1>5 DEF Distinct, Elements, Typed, TimersCounted
  <1>7. timers' \in Seq(Lookups)
    BY <1>1, TailShifts
  <1>8. /\ \A i, j \in 1..Len(timers') : self[timers'[i]] = self[timers'[j]] => i = j
        /\ \A x \in Elements(timers') : self[x] # self[l]
    <2>. HIDE DEF self
    <2>. QED
      BY SMTT(30), <1>1, <1>6, DistinctTail DEF Distinct
  <1>9. \A i, j \in 1..Len(timers') : timers'[i] = timers'[j] => i = j
    BY <1>8
  <1>10. l \notin Elements(timers')
    BY <1>8
  <1>11. Elements(timers') = Elements(timers) \ {l}
    BY <1>1, <1>10, ElementsTail
  <1>12. TimersOf(l[1])' = TimersOf(l[1]) \ {l} /\ l \in TimersOf(l[1])
    BY <1>2, <1>11 DEF TimersOf
  <1>13. \A q \in Scans \ {l[1]} : TimersOf(q)' = TimersOf(q)
    BY <1>11 DEF TimersOf
  <1>14. /\ remaining[l[1]] = Cardinality(TimersOf(l[1])) /\ IsFiniteSet(TimersOf(l[1]))
    <2>1. TimersOf(l[1]) \in SUBSET LookupsOf(l[1])
      BY DEF TimersOf, Typed, LookupsNamed
    <2>. QED
      BY <1>3, <2>1, LookupsCounted, FS_Subset DEF Typed, TimersCounted
  <1>15. Cardinality(TimersOf(l[1])') = remaining[l[1]] - 1
    BY <1>12, <1>14, FS_RemoveElement
  <1>16. remaining[l[1]] # 0
    BY <1>12, <1>14, FS_EmptySet
  <1>17. \A q \in Scans : remaining'[q] = Cardinality(TimersOf(q)')
    <2>1. \A q \in Scans : remaining'[q] = IF q = l[1] THEN remaining[l[1]] - 1 ELSE remaining[q]
      BY <1>1
    <2>. QED
      BY <1>13, <1>15, <2>1 DEF Typed, TimersCounted
  <1>18. TimersCounted'
    BY <1>9, <1>17 DEF TimersCounted
  <1>19. remaining[l[1]] \in 1..Len(Addressed)
    BY <1>1, <1>3, <1>16, EntriesFinite
  <1>. QED
    BY <1>1, <1>2, <1>3, <1>4, <1>7, <1>11, <1>18, <1>19

LEMMA ListedTyped ==
    ASSUME Typed, NEW s \in Scans, InterfacesListed(s)
    PROVE  Typed'
  <1>1. /\ timers' \in Seq(Lookups) /\ TimersCounted'
        /\ Elements(timers') = Elements(timers) \cup LookupsOf(s)
        /\ scan'[s] \in {"waiting", "done"} /\ scan[s] = "listing"
        /\ \A q \in Scans \ {s} : scan'[q] = scan[q]
    BY ListedEffect
  <1>2. /\ TypeOK
        /\ UNCHANGED <<results, nameLookup, lmHosts, loading, wanted, shares, answers, heard, late,
                       unreadable>>
        /\ listening' = listening \cup LookupsOf(s)
        /\ socket' = [l \in Lookups |-> IF l \in LookupsOf(s) THEN "creating" ELSE socket[l]]
        /\ remaining' = [remaining EXCEPT ![s] = Len(InterfaceList)]
    BY DEF InterfacesListed, historyVars, Typed
  <1>3. /\ scan' \in [Scans -> ScanStates]
        /\ ipCache' \in Table
        /\ enumerating' \subseteq enumerating \cup (Hosts \ Literals)
        /\ dropdown' \in {"loading", "reading", "shown"}
        /\ resolution' \in [Resolutions -> {"none", "waiting", "answered"}]
        /\ answer' \in [Resolutions -> Addresses \cup {None}]
        /\ ScansAsked'
    <2>1. CASE InterfaceList = <<>>
      <3>1. Finish(s, Unknown)
        BY <2>1 DEF InterfacesListed
      <3>2. \A h \in Literals : Unknown[h] = None
        BY UnknownIsTable, NetworkAssumption
      <3>. QED
        BY <1>1, <1>2, <3>1, <3>2, UnknownIsTable, FinishTyped
    <2>2. CASE InterfaceList # <<>>
      <3>1. /\ scan' = [scan EXCEPT ![s] = "waiting"]
            /\ UNCHANGED <<ipCache, enumerating, dropdown, resolution, answer>>
        BY <2>2 DEF InterfacesListed
      <3>2. scan' \in [Scans -> ScanStates] /\ scan'[s] = "waiting"
        BY <1>2, <3>1 DEF TypeOK, ScanStates
      <3>3. ASSUME NEW r \in Resolutions
            PROVE  /\ resolution'[r] = "none" => scan'[r] = "none"
                   /\ resolution'[r] = "waiting" => scan'[r] \in {"listing", "waiting", "stuck"}
                   /\ resolution'[r] = "answered" => scan'[r] \in {"none", "done"}
                   /\ resolution'[r] # "none" => wanted'[r] \in Hosts
        <4>1. resolution[r] \in {"none", "waiting", "answered"}
          BY <1>2 DEF TypeOK
        <4>2. CASE r = s
          BY <1>1, <1>2, <3>1, <3>2, <4>1, <4>2 DEF Typed, ScansAsked
        <4>3. CASE r # s
          BY <1>1, <1>2, <3>1, <4>3, ResolutionsAreScans DEF Typed, ScansAsked
        <4>. QED
          BY <4>2, <4>3
      <3>4. ScansAsked'
        BY <3>3 DEF ScansAsked
      <3>. QED
        BY <1>2, <3>1, <3>2, <3>4 DEF TypeOK, Table
    <2>. QED
      BY <2>1, <2>2
  <1>4. TypeOK'
    <2>1. listening' \subseteq Lookups
      BY <1>2, LookupsAreLookups DEF TypeOK
    <2>2. remaining' \in [Scans -> 0..Len(Addressed)]
      BY <1>2, InterfacesListedOnce DEF TypeOK
    <2>3. socket' \in [Lookups -> {"none", "creating", "open", "closed"}]
      BY <1>2 DEF TypeOK
    <2>4. enumerating' \cup shares' \cup unreadable' \subseteq Hosts \ Literals
      BY <1>2, <1>3 DEF TypeOK
    <2>. QED
      BY <1>1, <1>2, <1>3, <2>1, <2>2, <2>3, <2>4 DEF TypeOK, Table
  <1>5. LookupsNamed'
    <2>1. \A l \in Elements(timers') : l \in LookupsOf(l[1]) /\ ~ Idle(l[1])'
      <3>1. ASSUME NEW l \in Elements(timers)  PROVE l \in LookupsOf(l[1]) /\ ~ Idle(l[1])'
        <4>1. l \in LookupsOf(l[1]) /\ ~ Idle(l[1]) /\ l[1] \in Scans
          BY <1>2, TimersAreLookups DEF Typed, LookupsNamed
        <4>. QED
          BY <1>1, <4>1 DEF Idle
      <3>2. ASSUME NEW l \in LookupsOf(s)  PROVE l \in LookupsOf(l[1]) /\ ~ Idle(l[1])'
        BY <1>1, LookupsAreLookups DEF Idle
      <3>. QED
        BY <1>1, <3>1, <3>2
    <2>. QED
      BY <1>2, <2>1 DEF Typed, LookupsNamed
  <1>6. LiteralsUnheard'
    BY <1>2 DEF Typed, LiteralsUnheard
  <1>. QED
    BY <1>1, <1>3, <1>4, <1>5, <1>6 DEF Typed

LEMMA FiresTyped ==
    ASSUME Typed, TimerFires
    PROVE  Typed'
  <1>. DEFINE l == Head(timers)
              s == l[1]
              resolved == Append(results[s], l[2])
  <1>1. /\ l \in Lookups /\ s \in Scans /\ l[2] \in Entries /\ l = <<s, l[2]>>
        /\ l \in LookupsOf(s) /\ scan[s] \in {"waiting", "done"}
        /\ timers' \in Seq(Lookups) /\ TimersCounted'
        /\ Elements(timers') = Elements(timers) \ {l}
        /\ remaining[s] \in 1..Len(Addressed)
        /\ remaining' = [remaining EXCEPT ![s] = remaining[s] - 1]
    BY FiresEffect
  <1>2. /\ TypeOK /\ results' = [results EXCEPT ![s] = resolved]
        /\ socket' = [socket EXCEPT ![l] = IF @ = "open" THEN "closed" ELSE @]
        /\ UNCHANGED <<nameLookup, listening, lmHosts, loading, wanted, shares, answers, heard, late,
                       unreadable>>
        /\ \/ scan[s] = "waiting" /\ Finish(s, Merged(s, resolved))
           \/ UNCHANGED <<scan, ipCache, enumerating, dropdown, resolution, answer>>
    BY DEF TimerFires, CloseUdpSocket, historyVars, Typed
  <1>. HIDE DEF l, s
  <1>3. resolved \in Seq(Entries) /\ results[s] \in Seq(Entries)
    BY <1>1, <1>2, AppendExtends DEF TypeOK
  <1>4. /\ nameLookup \in [Lookups -> Table] /\ Merged(s, resolved) \in Table
        /\ \A h \in Literals : Merged(s, resolved)[h] = None
    <2>1. nameLookup \in [Lookups -> Table]
      BY <1>2 DEF TypeOK, Table
    <2>2. Merged(s, resolved) \in Table
      BY <1>1, <1>3, <2>1, MergedIsTable
    <2>3. \A i \in 1..Len(resolved) : <<s, resolved[i]>> \in Lookups
      BY <1>1, <1>3 DEF Lookups
    <2>4. \A h \in Literals : h \in Hosts
      BY NetworkAssumption
    <2>5. \A h \in Literals : Merged(s, resolved)[h] = None
      <3>. HIDE DEF resolved
      <3>. QED
        <4>1. ASSUME NEW h \in Literals  PROVE Merged(s, resolved)[h] = None
          <5>1. \A i \in 1..Len(resolved) : nameLookup[<<s, resolved[i]>>][h] = None
            BY <2>3 DEF Typed, LiteralsUnheard
          <5>2. h \in Hosts
            BY <2>4
          <5>3. \/ Merged(s, resolved)[h] = None
                \/ \E i \in 1..Len(resolved) : nameLookup[<<s, resolved[i]>>][h] # None
            BY <1>1, <1>3, <5>2, MergedIsOneOfThem
          <5>. QED
            BY <5>1, <5>3
        <4>. QED
          BY <4>1
    <2>. QED
      BY <2>1, <2>2, <2>5
  <1>5. /\ scan' \in [Scans -> ScanStates] /\ \A q \in Scans : ~ Idle(q) => ~ Idle(q)'
        /\ ipCache' \in Table
        /\ enumerating' \subseteq enumerating \cup (Hosts \ Literals)
        /\ dropdown' \in {"loading", "reading", "shown"}
        /\ resolution' \in [Resolutions -> {"none", "waiting", "answered"}]
        /\ answer' \in [Resolutions -> Addresses \cup {None}]
        /\ ScansAsked'
    <2>1. CASE scan[s] = "waiting" /\ Finish(s, Merged(s, resolved))
      <3>. HIDE DEF resolved
      <3>1. /\ scan' \in [Scans -> ScanStates] /\ scan'[s] = "done"
            /\ \A q \in Scans \ {s} : scan'[q] = scan[q]
            /\ ipCache' \in Table
            /\ enumerating' \subseteq enumerating \cup (Hosts \ Literals)
            /\ dropdown' \in {"loading", "reading", "shown"}
            /\ resolution' \in [Resolutions -> {"none", "waiting", "answered"}]
            /\ answer' \in [Resolutions -> Addresses \cup {None}]
            /\ ScansAsked'
        BY <1>1, <1>2, <1>4, <2>1, FinishTyped
      <3>2. \A q \in Scans : ~ Idle(q) => ~ Idle(q)'
        BY <3>1 DEF Idle
      <3>. QED
        BY <3>1, <3>2
    <2>2. CASE UNCHANGED <<scan, ipCache, enumerating, dropdown, resolution, answer>>
      BY <1>2, <2>2 DEF TypeOK, Table, Idle, Typed, ScansAsked
    <2>. QED
      BY <1>2, <2>1, <2>2
  <1>6. TypeOK'
    <2>1. remaining' \in [Scans -> 0..Len(Addressed)]
      <3>1. remaining[s] - 1 \in 0..Len(Addressed)
        <4>1. Len(Addressed) \in Nat
          BY EntriesFinite
        <4>2. \A n \in 1..Len(Addressed) : n - 1 \in 0..Len(Addressed)
          BY <4>1
        <4>. QED
          BY <1>1, <4>2
      <3>. QED
        BY <1>1, <1>2, <3>1 DEF TypeOK
    <2>2. results' \in [Scans -> Seq(Entries)]
      <3>. HIDE DEF resolved
      <3>. QED
        BY <1>2, <1>3 DEF TypeOK
    <2>3. socket' \in [Lookups -> {"none", "creating", "open", "closed"}]
      BY <1>2 DEF TypeOK
    <2>4. enumerating' \cup shares' \cup unreadable' \subseteq Hosts \ Literals
      BY <1>2, <1>5 DEF TypeOK
    <2>. QED
      BY <1>1, <1>2, <1>5, <2>1, <2>2, <2>3, <2>4 DEF TypeOK, Table
  <1>7. LookupsNamed'
    <2>1. ASSUME NEW k \in Elements(timers')  PROVE k \in LookupsOf(k[1]) /\ ~ Idle(k[1])'
      <3>1. k \in Elements(timers) /\ k[1] \in Scans
        BY <1>1, <1>2, TimersAreLookups
      <3>. QED
        BY <1>5, <3>1 DEF Typed, LookupsNamed
    <2>2. ASSUME NEW q \in Scans, NEW i \in 1..Len(results'[q])
          PROVE  <<q, results'[q][i]>> \in LookupsOf(q)
      <3>1. CASE q # s
        <4>1. results'[q] = results[q]
          BY <1>2, <3>1 DEF TypeOK
        <4>. QED
          BY <2>2, <4>1 DEF Typed, LookupsNamed
      <3>2. CASE q = s
        <4>1. results'[s] = resolved
          BY <1>1, <1>2 DEF TypeOK
        <4>2. \/ i \in 1..Len(results[s]) /\ results'[s][i] = results[s][i]
              \/ results'[s][i] = l[2]
          BY <1>1, <1>3, <2>2, <3>2, <4>1, AppendExtends
        <4>. QED
          BY <1>1, <3>2, <4>2 DEF Typed, LookupsNamed
      <3>. QED
        BY <3>1, <3>2
    <2>. QED
      BY <2>1, <2>2 DEF LookupsNamed
  <1>8. LiteralsUnheard'
    BY <1>2 DEF Typed, LiteralsUnheard
  <1>. QED
    BY <1>1, <1>5, <1>6, <1>7, <1>8 DEF Typed

LEMMA ReceiveTyped ==
    ASSUME Typed, NEW l \in Lookups, NEW h \in Hosts \ Literals, NEW a \in Addresses, Receive(l, h, a)
    PROVE  Typed'
  <1>1. /\ TypeOK
        /\ UNCHANGED <<scan, remaining, results, listening, timers, socket, cacheVars, userVars,
                       popupVars, late, unreadable>>
        /\ answers' = answers + 1 /\ answers < MaxAnswers
        /\ nameLookup' = [k \in Lookups |-> IF k \in Hearers(l) THEN [nameLookup[k] EXCEPT ![h] = a]
                                                                ELSE nameLookup[k]]
        /\ heard' = [s \in Scans |-> IF scan[s] = "waiting" THEN [heard[s] EXCEPT ![h] = a]
                                                            ELSE heard[s]]
    BY DEF Receive, Typed
  <1>2. nameLookup' \in [Lookups -> [Hosts -> Addresses \cup {None}]]
    BY <1>1 DEF TypeOK
  <1>3. heard' \in [Scans -> [Hosts -> Addresses \cup {None}]]
    BY <1>1 DEF TypeOK
  <1>4. answers' \in 0..MaxAnswers
    BY <1>1, NetworkAssumption DEF TypeOK
  <1>5. TypeOK'
    BY <1>1, <1>2, <1>3, <1>4 DEF TypeOK, cacheVars, userVars, popupVars
  <1>6. TimersCounted' /\ LookupsNamed' /\ ScansAsked'
    BY <1>1 DEF Typed, TimersCounted, TimersOf, LookupsNamed, Idle, ScansAsked, userVars
  <1>7. LiteralsUnheard'
    <2>1. ASSUME NEW k \in Lookups, NEW g \in Literals  PROVE nameLookup'[k][g] = None
      <3>1. g \in Hosts /\ g # h /\ nameLookup[k] \in [Hosts -> Addresses \cup {None}]
        BY <1>1, NetworkAssumption DEF TypeOK
      <3>2. nameLookup'[k][g] = nameLookup[k][g]
        BY <1>1, <3>1
      <3>. QED
        BY <3>2 DEF Typed, LiteralsUnheard
    <2>. QED
      BY <2>1 DEF LiteralsUnheard
  <1>. QED
    BY <1>5, <1>6, <1>7 DEF Typed

\* An address that is known without a scan.
LEMMA CachedIsAddress ==
    ASSUME TypeOK, NEW h \in Hosts
    PROVE  /\ Cached(h) \in Addresses \cup {None}
           /\ Cached(h) # None => \/ h \in Literals /\ Cached(h) = h
                                  \/ Cached(h) = Stored[h]
                                  \/ Cached(h) = ipCache[h]
  BY UnknownIsTable, NetworkAssumption DEF TypeOK, Cached

LEMMA ResolveTyped ==
    ASSUME Typed, NEW r \in Resolutions, NEW h \in Hosts, Resolve(r, h)
    PROVE  Typed'
  <1>1. /\ TypeOK /\ resolution[r] = "none" /\ scan[r] = "none" /\ r \in Scans
        /\ wanted' = [wanted EXCEPT ![r] = h]
        /\ UNCHANGED <<remaining, results, nameLookup, listening, timers, socket, cacheVars,
                       popupVars, historyVars>>
    BY ResolutionsAreScans DEF Resolve, Typed, ScansAsked
  <1>2. \/ /\ resolution' = [resolution EXCEPT ![r] = "answered"]
           /\ answer' = [answer EXCEPT ![r] = Cached(h)]
           /\ UNCHANGED scan
        \/ /\ resolution' = [resolution EXCEPT ![r] = "waiting"]
           /\ scan' = [scan EXCEPT ![r] = "listing"]
           /\ UNCHANGED answer
    BY DEF Resolve
  <1>3. TypeOK'
    <2>1. scan' \in [Scans -> ScanStates]
      BY <1>1, <1>2 DEF TypeOK, ScanStates
    <2>2. resolution' \in [Resolutions -> {"none", "waiting", "answered"}]
      BY <1>1, <1>2 DEF TypeOK
    <2>3. answer' \in [Resolutions -> Addresses \cup {None}]
      BY <1>1, <1>2, CachedIsAddress DEF TypeOK
    <2>4. wanted' \in [Resolutions -> Hosts \cup {None}]
      BY <1>1 DEF TypeOK
    <2>. QED
      BY <1>1, <2>1, <2>2, <2>3, <2>4 DEF TypeOK, cacheVars, popupVars, historyVars
  <1>4. TimersCounted' /\ LiteralsUnheard'
    BY <1>1 DEF Typed, TimersCounted, TimersOf, LiteralsUnheard
  <1>5. LookupsNamed'
    <2>1. ASSUME NEW k \in Elements(timers)  PROVE ~ Idle(k[1])'
      <3>1. ~ Idle(k[1]) /\ k[1] \in Scans
        BY <1>1, TimersAreLookups DEF Typed, LookupsNamed
      <3>. QED
        BY <1>1, <1>2, <3>1 DEF Idle, TypeOK
    <2>. QED
      BY <1>1, <2>1 DEF Typed, LookupsNamed
  <1>6. ScansAsked'
    <2>1. ASSUME NEW q \in Resolutions
          PROVE  /\ resolution'[q] = "none" => scan'[q] = "none"
                 /\ resolution'[q] = "waiting" => scan'[q] \in {"listing", "waiting", "stuck"}
                 /\ resolution'[q] = "answered" => scan'[q] \in {"none", "done"}
                 /\ resolution'[q] # "none" => wanted'[q] \in Hosts
      <3>1. CASE q = r
        BY <1>1, <1>2, <3>1 DEF TypeOK
      <3>2. CASE q # r
        <4>1. resolution'[q] = resolution[q] /\ scan'[q] = scan[q] /\ wanted'[q] = wanted[q]
          BY <1>1, <1>2, <3>2, ResolutionsAreScans DEF TypeOK
        <4>. QED
          BY <4>1 DEF Typed, ScansAsked
      <3>. QED
        BY <3>1, <3>2
    <2>. QED
      BY <2>1 DEF ScansAsked
  <1>. QED
    BY <1>3, <1>4, <1>5, <1>6 DEF Typed

LEMMA ListingFailsTyped ==
    ASSUME Typed, NEW s \in Scans, ListingFails(s)
    PROVE  Typed'
  <1>1. /\ TypeOK /\ scan[s] = "listing" /\ scan' = [scan EXCEPT ![s] = "stuck"]
        /\ UNCHANGED <<remaining, results, nameLookup, listening, timers, socket, cacheVars,
                       userVars, popupVars, historyVars>>
    BY DEF ListingFails, Typed
  <1>2. \A q \in Scans : scan'[q] = IF q = s THEN "stuck" ELSE scan[q]
    BY <1>1 DEF TypeOK
  <1>3. TypeOK'
    <2>1. scan' \in [Scans -> ScanStates]
      BY <1>1 DEF TypeOK, ScanStates
    <2>. QED
      BY <1>1, <2>1 DEF TypeOK, cacheVars, userVars, popupVars, historyVars
  <1>4. TimersCounted' /\ LiteralsUnheard'
    BY <1>1 DEF Typed, TimersCounted, TimersOf, LiteralsUnheard
  <1>5. LookupsNamed'
    <2>1. ASSUME NEW k \in Elements(timers)  PROVE ~ Idle(k[1])'
      <3>1. ~ Idle(k[1]) /\ k[1] \in Scans
        BY <1>1, TimersAreLookups DEF Typed, LookupsNamed
      <3>. QED
        BY <1>1, <1>2, <3>1 DEF Idle
    <2>. QED
      BY <1>1, <2>1 DEF Typed, LookupsNamed
  <1>6. ScansAsked'
    <2>1. ASSUME NEW r \in Resolutions
          PROVE  /\ resolution'[r] = resolution[r] /\ wanted'[r] = wanted[r]
                 /\ scan'[r] = scan[r] \/ (scan[r] = "listing" /\ scan'[r] = "stuck")
      BY <1>1, <1>2, ResolutionsAreScans DEF userVars
    <2>. QED
      BY <2>1 DEF Typed, ScansAsked
  <1>. QED
    BY <1>3, <1>4, <1>5, <1>6 DEF Typed

\* The steps that neither begin nor end a scan and touch no table.
LEMMA OthersTyped ==
    ASSUME Typed, \/ \E l \in Lookups : SocketCreated(l)
                  \/ LmHostsLoaded
                  \/ Enumerate
                  \/ UNCHANGED vars
    PROVE  Typed'
  <1>1. /\ TypeOK
        /\ UNCHANGED <<scan, remaining, results, nameLookup, listening, timers, ipCache, userVars,
                       answers, heard>>
    BY DEF Typed, SocketCreated, LmHostsLoaded, Enumerate, ReadShares, AddFoundShares, vars, scanVars,
           cacheVars, historyVars
  <1>2. TimersCounted' /\ LookupsNamed' /\ LiteralsUnheard' /\ ScansAsked'
    BY <1>1 DEF Typed, TimersCounted, TimersOf, LookupsNamed, Idle, LiteralsUnheard, ScansAsked,
                userVars
  <1>3. TypeOK'
    <2>1. ASSUME NEW l \in Lookups, SocketCreated(l)  PROVE TypeOK'
      <3>1. socket' \in [Lookups -> {"none", "creating", "open", "closed"}] /\ late' \subseteq Lookups
        BY <1>1, <2>1 DEF SocketCreated, TypeOK
      <3>. QED
        BY <1>1, <2>1, <3>1 DEF SocketCreated, TypeOK, cacheVars, userVars, popupVars
    <2>2. CASE LmHostsLoaded
      BY <1>1, <2>2 DEF LmHostsLoaded, TypeOK, scanVars, userVars, popupVars, historyVars
    <2>3. CASE Enumerate
      <3>1. /\ enumerating' \cup shares' \cup unreadable' \subseteq Hosts \ Literals
            /\ dropdown' \in {"loading", "reading", "shown"}
        BY <1>1, <2>3 DEF Enumerate, ReadShares, AfterUnreadable, AddFoundShares, TypeOK, historyVars
      <3>2. UNCHANGED <<scanVars, cacheVars, userVars, answers, heard, late>>
        BY <2>3 DEF Enumerate, ReadShares, AddFoundShares, historyVars
      <3>. QED
        BY <1>1, <3>1, <3>2 DEF TypeOK, scanVars, cacheVars, userVars
    <2>4. CASE UNCHANGED vars
      BY <1>1, <2>4 DEF TypeOK, vars, scanVars, cacheVars, userVars, popupVars, historyVars
    <2>. QED
      BY <2>1, <2>2, <2>3, <2>4
  <1>. QED
    BY <1>2, <1>3 DEF Typed

LEMMA NextTyped == Typed /\ [Next]_vars => Typed'
  BY ListedTyped, FiresTyped, ReceiveTyped, ResolveTyped, ListingFailsTyped, OthersTyped
     DEF Next, Network, List

\* The inductive invariant that the others build on.
THEOREM ScansTyped == Spec => []Typed
  BY InitTyped, NextTyped, PTL DEF Spec

\* Every variable keeps its type, for any interfaces and any number of mounts: the
\* count of a scan's open lookups stays between none and one for each address
\* entry, and no host is listed that is an address.
THEOREM TypeCorrect == Spec => []TypeOK
  BY ScansTyped, PTL DEF Typed

-----------------------------------------------------------------------------
(* The sockets.                                                            *)

LEMMA InitSocketsClosed == Init => SocketsClosed
  BY DEF Init, SocketsClosed

LEMMA NextSocketsClosed == Typed /\ SocketsClosed /\ [Next]_vars => SocketsClosed'
  <1>. SUFFICES ASSUME Typed, SocketsClosed, [Next]_vars  PROVE SocketsClosed'
    OBVIOUS
  <1>0. socket \in [Lookups -> {"none", "creating", "open", "closed"}]
    BY DEF Typed, TypeOK
  <1>1. \A l \in Lookups : socket[l] = "open" => l \in late \/ l \in Elements(timers)
    BY DEF SocketsClosed, Elements
  <1>2. SUFFICES ASSUME NEW l \in Lookups, socket'[l] = "open"
                 PROVE  l \in late' \/ l \in Elements(timers')
    BY DEF SocketsClosed, Elements
  <1>3. ASSUME NEW s \in Scans, InterfacesListed(s)
        PROVE  l \in late' \/ l \in Elements(timers')
    <2>1. /\ socket' = [k \in Lookups |-> IF k \in LookupsOf(s) THEN "creating" ELSE socket[k]]
          /\ late' = late
      BY <1>3 DEF InterfacesListed, historyVars
    <2>2. socket[l] = "open"
      BY <1>2, <2>1
    <2>. QED
      BY <1>1, <1>3, <2>1, <2>2, ListedEffect
  <1>4. CASE TimerFires
    <2>. DEFINE first == Head(timers)
    <2>1. Elements(timers') = Elements(timers) \ {first} /\ first \in Lookups
      BY <1>4, FiresEffect
    <2>2. /\ socket' = [socket EXCEPT ![first] = IF @ = "open" THEN "closed" ELSE @]
          /\ late' = late
      BY <1>4 DEF TimerFires, CloseUdpSocket, historyVars
    <2>. HIDE DEF first
    <2>3. socket[l] = "open" /\ l # first
      BY <1>0, <1>2, <2>1, <2>2
    <2>. QED
      BY <1>1, <2>1, <2>2, <2>3
  <1>5. ASSUME NEW k \in Lookups, SocketCreated(k)
        PROVE  l \in late' \/ l \in Elements(timers')
    <2>1. /\ socket' = [socket EXCEPT ![k] = "open"] /\ timers' = timers
          /\ late' = IF k \in Elements(timers) THEN late ELSE late \cup {k}
      BY <1>5 DEF SocketCreated, Elements
    <2>2. l = k \/ socket[l] = "open"
      BY <1>0, <1>2, <2>1
    <2>. QED
      BY <1>1, <2>1, <2>2
  <1>6. CASE UNCHANGED <<socket, late, timers>>
    BY <1>1, <1>2, <1>6
  <1>7. \/ \E s \in Scans : InterfacesListed(s)
        \/ TimerFires
        \/ \E k \in Lookups : SocketCreated(k)
        \/ UNCHANGED <<socket, late, timers>>
    BY DEF Next, Network, List, Enumerate, Receive, LmHostsLoaded, ListingFails, ReadShares,
           AddFoundShares, Resolve, vars, scanVars, historyVars
  <1>. QED
    BY <1>3, <1>4, <1>5, <1>6, <1>7

\* Whatever order sockets and timers come in, a socket that is open has its timer
\* still to fire, unless it was created after its timer had fired.
THEOREM OpenSocketsHaveTimers == Spec => []SocketsClosed
  BY ScansTyped, InitSocketsClosed, NextSocketsClosed, PTL DEF Spec

-----------------------------------------------------------------------------
(* What the lookups of a scan have heard.                                  *)

\* Before a scan has listed its interfaces none of its lookups listens.
SilentBefore ==
    \A s \in Scans : Idle(s) =>
        /\ heard[s] = Unknown
        /\ \A e \in Entries : <<s, e>> \notin listening /\ nameLookup[<<s, e>>] = Unknown

\* While a scan waits every one of its lookups has heard the same: all there was
\* to hear.
ListenersAgree ==
    \A s \in Scans : scan[s] = "waiting" =>
        \A l \in LookupsOf(s) : l \in listening /\ nameLookup[l] = heard[s]

Heard == SilentBefore /\ ListenersAgree

LEMMA InitHeard == Init => Heard
  <1>. SUFFICES ASSUME Init  PROVE Heard
    OBVIOUS
  <1>1. \A s \in Scans : scan[s] # "waiting" /\ heard[s] = Unknown
    BY DEF Init
  <1>2. \A s \in Scans, e \in Entries : nameLookup[<<s, e>>] = Unknown /\ <<s, e>> \notin listening
    BY DEF Init, Lookups
  <1>. QED
    BY <1>1, <1>2 DEF Heard, SilentBefore, ListenersAgree

LEMMA ListedHeard ==
    ASSUME Typed, Heard, NEW s \in Scans, InterfacesListed(s)
    PROVE  Heard'
  <1>1. /\ scan'[s] \in {"waiting", "done"} /\ scan[s] = "listing"
        /\ \A q \in Scans \ {s} : scan'[q] = scan[q]
    BY ListedEffect
  <1>2. UNCHANGED <<nameLookup, heard>> /\ listening' = listening \cup LookupsOf(s)
    BY DEF InterfacesListed, historyVars
  <1>3. SilentBefore'
    <2>1. ASSUME NEW q \in Scans, Idle(q)'
          PROVE  /\ heard'[q] = Unknown
                 /\ \A e \in Entries : <<q, e>> \notin listening' /\ nameLookup'[<<q, e>>] = Unknown
      <3>1. q # s /\ Idle(q)
        BY <1>1, <2>1 DEF Idle
      <3>2. \A e \in Entries : <<q, e>> \notin LookupsOf(s)
        BY <3>1 DEF LookupsOf
      <3>. QED
        BY <1>2, <3>1, <3>2 DEF Heard, SilentBefore
    <2>. QED
      BY <2>1 DEF SilentBefore
  <1>4. ListenersAgree'
    <2>1. ASSUME NEW q \in Scans, scan'[q] = "waiting", NEW l \in LookupsOf(q)
          PROVE  l \in listening' /\ nameLookup'[l] = heard'[q]
      <3>1. CASE q # s
        BY <1>1, <1>2, <2>1, <3>1 DEF Heard, ListenersAgree
      <3>2. CASE q = s
        <4>1. Idle(s) /\ heard[s] = Unknown
          BY <1>1 DEF Idle, Heard, SilentBefore
        <4>2. \E e \in Entries : l = <<s, e>>
          BY <3>2, LookupsAreLookups DEF LookupsOf
        <4>3. nameLookup[l] = Unknown
          BY <4>1, <4>2 DEF Heard, SilentBefore
        <4>. QED
          BY <1>2, <3>2, <4>1, <4>3
      <3>. QED
        BY <3>1, <3>2
    <2>. QED
      BY <2>1 DEF ListenersAgree
  <1>. QED
    BY <1>3, <1>4 DEF Heard

LEMMA ReceiveHeard ==
    ASSUME Typed, Heard, NEW l \in Lookups, NEW h \in Hosts \ Literals, NEW a \in Addresses,
           Receive(l, h, a)
    PROVE  Heard'
  <1>1. /\ UNCHANGED <<scan, listening>>
        /\ nameLookup' = [k \in Lookups |-> IF k \in listening THEN [nameLookup[k] EXCEPT ![h] = a]
                                                               ELSE nameLookup[k]]
        /\ heard' = [s \in Scans |-> IF scan[s] = "waiting" THEN [heard[s] EXCEPT ![h] = a]
                                                            ELSE heard[s]]
    BY DEF Receive, Hearers
  <1>2. ASSUME NEW s \in Scans, Idle(s)
        PROVE  /\ heard'[s] = Unknown
               /\ \A e \in Entries : <<s, e>> \notin listening' /\ nameLookup'[<<s, e>>] = Unknown
    <2>1. heard'[s] = heard[s]
      BY <1>1, <1>2 DEF Idle
    <2>2. \A e \in Entries : <<s, e>> \in Lookups /\ <<s, e>> \notin listening
      BY <1>2 DEF Lookups, Heard, SilentBefore
    <2>3. \A e \in Entries : nameLookup'[<<s, e>>] = nameLookup[<<s, e>>]
      BY <1>1, <2>2
    <2>. QED
      BY <1>1, <1>2, <2>1, <2>2, <2>3 DEF Heard, SilentBefore
  <1>3. ASSUME NEW s \in Scans, scan[s] = "waiting", NEW k \in LookupsOf(s)
        PROVE  k \in listening' /\ nameLookup'[k] = heard'[s]
    <2>1. k \in listening /\ nameLookup[k] = heard[s] /\ k \in Lookups
      BY <1>3, LookupsAreLookups DEF Heard, ListenersAgree
    <2>. QED
      BY <1>1, <1>3, <2>1
  <1>. QED
    BY <1>1, <1>2, <1>3 DEF Heard, SilentBefore, ListenersAgree, Idle

\* The steps that neither list interfaces nor receive an answer: no scan begins
\* to wait, and one that was not idle is not idle again.
LEMMA OthersHeard ==
    ASSUME Typed, Heard, UNCHANGED <<nameLookup, listening, heard>>,
           \A s \in Scans : /\ Idle(s)' => Idle(s)
                            /\ scan'[s] = "waiting" => scan[s] = "waiting"
    PROVE  Heard'
  BY DEF Heard, SilentBefore, ListenersAgree

LEMMA NextHeard == Typed /\ Heard /\ [Next]_vars => Heard'
  <1>. SUFFICES ASSUME Typed, Heard, [Next]_vars  PROVE Heard'
    OBVIOUS
  <1>0. scan \in [Scans -> ScanStates]
    BY DEF Typed, TypeOK
  <1>1. CASE TimerFires
    <2>1. UNCHANGED <<nameLookup, listening, heard>>
      BY <1>1 DEF TimerFires, historyVars
    <2>2. Head(timers)[1] \in Scans /\ scan[Head(timers)[1]] \in {"waiting", "done"}
      BY <1>1, FiresEffect
    <2>3. \/ UNCHANGED scan
          \/ scan' = [scan EXCEPT ![Head(timers)[1]] = "done"]
      BY <1>1 DEF TimerFires, Finish
    <2>4. \A s \in Scans : /\ Idle(s)' => Idle(s)
                           /\ scan'[s] = "waiting" => scan[s] = "waiting"
      BY <1>0, <2>2, <2>3 DEF Idle
    <2>. QED
      BY <2>1, <2>4, OthersHeard
  <1>2. ASSUME NEW s \in Scans, ListingFails(s)  PROVE Heard'
    <2>1. UNCHANGED <<nameLookup, listening, heard>>
      BY <1>2 DEF ListingFails, historyVars
    <2>2. scan' = [scan EXCEPT ![s] = "stuck"] /\ scan[s] = "listing"
      BY <1>2 DEF ListingFails
    <2>3. \A q \in Scans : /\ Idle(q)' => Idle(q)
                           /\ scan'[q] = "waiting" => scan[q] = "waiting"
      BY <1>0, <2>2 DEF Idle
    <2>. QED
      BY <2>1, <2>3, OthersHeard
  <1>3. ASSUME NEW r \in Resolutions, NEW h \in Hosts, Resolve(r, h)  PROVE Heard'
    <2>1. UNCHANGED <<nameLookup, listening, heard>>
      BY <1>3 DEF Resolve, historyVars
    <2>2. r \in Scans /\ scan[r] = "none"
      BY <1>3, ResolutionsAreScans DEF Resolve, Typed, ScansAsked
    <2>3. UNCHANGED scan \/ scan' = [scan EXCEPT ![r] = "listing"]
      BY <1>3 DEF Resolve
    <2>4. \A q \in Scans : /\ Idle(q)' => Idle(q)
                           /\ scan'[q] = "waiting" => scan[q] = "waiting"
      BY <1>0, <2>2, <2>3 DEF Idle
    <2>. QED
      BY <2>1, <2>4, OthersHeard
  <1>4. CASE UNCHANGED <<scan, nameLookup, listening, heard>>
    BY <1>4, OthersHeard DEF Idle
  <1>5. \/ \E s \in Scans : InterfacesListed(s) \/ ListingFails(s)
        \/ \E l \in Lookups, h \in Hosts \ Literals, a \in Addresses : Receive(l, h, a)
        \/ TimerFires
        \/ \E r \in Resolutions, h \in Hosts : Resolve(r, h)
        \/ UNCHANGED <<scan, nameLookup, listening, heard>>
    BY DEF Next, Network, List, Enumerate, SocketCreated, LmHostsLoaded, ReadShares, AddFoundShares,
           vars, scanVars, historyVars
  <1>. QED
    BY <1>1, <1>2, <1>3, <1>4, <1>5, ListedHeard, ReceiveHeard

LEMMA TablesHeard == Spec => [](Typed /\ Heard)
  BY InitTyped, NextTyped, InitHeard, NextHeard, PTL DEF Spec

LEMMA MergedIsHeard ==
    ASSUME Typed, Heard, NEW s \in Scans, scan[s] = "waiting",
           NEW resolved \in Seq(Entries), resolved # <<>>,
           \A i \in 1..Len(resolved) : <<s, resolved[i]>> \in LookupsOf(s)
    PROVE  Merged(s, resolved) = heard[s]
  <1>1. \A i \in 1..Len(resolved) : nameLookup[<<s, resolved[i]>>] = heard[s]
    BY DEF Heard, ListenersAgree
  <1>2. 1 \in 1..Len(resolved)
    OBVIOUS
  <1>3. ASSUME NEW h \in Hosts  PROVE Merged(s, resolved)[h] = heard[s][h]
    BY <1>1, <1>2, MergedIsOneOfThem
  <1>4. Merged(s, resolved) = [h \in Hosts |-> Merged(s, resolved)[h]]
    BY DEF Merged
  <1>5. heard[s] \in Table
    BY DEF Typed, TypeOK, Table
  <1>6. heard[s] = [h \in Hosts |-> heard[s][h]]
    BY <1>5 DEF Table
  <1>. QED
    BY <1>3, <1>4, <1>6

-----------------------------------------------------------------------------
(* What scans tell.                                                        *)

\* A step that ends the scan s; it takes what was heard during s, and no more.
Ends(s) ==
    /\ scan[s] \in {"listing", "waiting"}
    /\ Finish(s, heard[s])
    /\ UNCHANGED <<heard, wanted, shares, unreadable, lmHosts>>

\* A step that ends none.
GoesOn ==
    /\ \A s \in Scans : /\ scan'[s] = "done" <=> scan[s] = "done"
                        /\ scan[s] = "done" => heard'[s] = heard[s]
    /\ ipCache' = ipCache
    /\ lmHosts' \in {lmHosts, Stored}
    /\ UNCHANGED userVars \/ \E r \in Resolutions, h \in Hosts : Resolve(r, h)
    /\ UNCHANGED <<enumerating, shares, dropdown, unreadable>> \/ Enumerate

LEMMA EveryStepEndsOrGoesOn ==
    ASSUME Typed, Heard, [Next]_vars
    PROVE  GoesOn \/ \E s \in Scans : Ends(s)
  <1>0. scan \in [Scans -> ScanStates]
    BY DEF Typed, TypeOK
  <1>1. ASSUME NEW s \in Scans, InterfacesListed(s)
        PROVE  GoesOn \/ Ends(s)
    <2>1. /\ scan[s] = "listing" /\ UNCHANGED <<lmHosts, wanted, shares, heard, unreadable>>
      BY <1>1 DEF InterfacesListed, historyVars
    <2>2. CASE InterfaceList = <<>>
      <3>1. heard[s] = Unknown
        BY <2>1 DEF Heard, SilentBefore, Idle
      <3>2. Finish(s, heard[s])
        BY <1>1, <2>2, <3>1 DEF InterfacesListed
      <3>. QED
        BY <2>1, <3>2 DEF Ends
    <2>3. CASE InterfaceList # <<>>
      <3>1. /\ scan' = [scan EXCEPT ![s] = "waiting"]
            /\ UNCHANGED <<ipCache, enumerating, dropdown, resolution, answer>>
        BY <1>1, <2>3 DEF InterfacesListed
      <3>2. \A q \in Scans : scan'[q] = "done" <=> scan[q] = "done"
        BY <1>0, <2>1, <3>1
      <3>. QED
        BY <2>1, <3>1, <3>2 DEF GoesOn, userVars
    <2>. QED
      BY <2>2, <2>3
  <1>2. CASE TimerFires
    <2>. DEFINE l == Head(timers)
                resolved == Append(results[l[1]], l[2])
    <2>1. /\ l[1] \in Scans /\ l[2] \in Entries /\ l = <<l[1], l[2]>>
          /\ l \in LookupsOf(l[1])
      BY <1>2, FiresEffect
    <2>2. /\ UNCHANGED <<lmHosts, wanted, shares, heard, unreadable>>
          /\ \/ scan[l[1]] = "waiting" /\ Finish(l[1], Merged(l[1], resolved))
             \/ UNCHANGED <<scan, ipCache, enumerating, dropdown, resolution, answer>>
      BY <1>2 DEF TimerFires, historyVars
    <2>3. CASE scan[l[1]] = "waiting" /\ Finish(l[1], Merged(l[1], resolved))
      <3>1. results[l[1]] \in Seq(Entries)
        BY <2>1 DEF Typed, TypeOK
      <3>2. /\ resolved \in Seq(Entries) /\ resolved # <<>>
            /\ \A i \in 1..Len(resolved) : resolved[i] = l[2]
                                           \/ (i \in 1..Len(results[l[1]]) /\ resolved[i] = results[l[1]][i])
        <4>. HIDE DEF l
        <4>. QED
          BY <2>1, <3>1, AppendExtends
      <3>3. \A i \in 1..Len(resolved) : <<l[1], resolved[i]>> \in LookupsOf(l[1])
        <4>. HIDE DEF resolved
        <4>. QED
          BY <2>1, <3>2 DEF Typed, LookupsNamed
      <3>4. Merged(l[1], resolved) = heard[l[1]]
        <4>. HIDE DEF resolved, l
        <4>. QED
          BY <2>1, <2>3, <3>2, <3>3, MergedIsHeard
      <3>5. Finish(l[1], heard[l[1]])
        BY <2>3, <3>4
      <3>6. Ends(l[1])
        BY <2>2, <2>3, <3>5 DEF Ends
      <3>. QED
        BY <2>1, <3>6
    <2>4. CASE UNCHANGED <<scan, ipCache, enumerating, dropdown, resolution, answer>>
      BY <2>2, <2>4 DEF GoesOn, userVars
    <2>. QED
      BY <2>2, <2>3, <2>4
  <1>3. ASSUME NEW s \in Scans, ListingFails(s)  PROVE GoesOn
    <2>1. /\ scan[s] = "listing" /\ scan' = [scan EXCEPT ![s] = "stuck"]
          /\ UNCHANGED <<cacheVars, userVars, popupVars, historyVars>>
      BY <1>3 DEF ListingFails
    <2>2. \A q \in Scans : scan'[q] = "done" <=> scan[q] = "done"
      BY <1>0, <2>1
    <2>. QED
      BY <2>1, <2>2 DEF GoesOn, cacheVars, popupVars, historyVars
  <1>4. ASSUME NEW l \in Lookups, NEW h \in Hosts, NEW a \in Addresses, Receive(l, h, a)  PROVE GoesOn
    <2>1. /\ UNCHANGED <<scan, cacheVars, userVars, popupVars, unreadable>>
          /\ heard' = [s \in Scans |-> IF scan[s] = "waiting" THEN [heard[s] EXCEPT ![h] = a]
                                                              ELSE heard[s]]
      BY <1>4 DEF Receive
    <2>. QED
      BY <2>1 DEF GoesOn, cacheVars, popupVars
  <1>5. ASSUME NEW r \in Resolutions, NEW h \in Hosts, Resolve(r, h)  PROVE GoesOn
    <2>1. scan[r] = "none" /\ UNCHANGED <<cacheVars, popupVars, historyVars>>
      BY <1>5 DEF Resolve, Typed, ScansAsked
    <2>2. UNCHANGED scan \/ scan' = [scan EXCEPT ![r] = "listing"]
      BY <1>5 DEF Resolve
    <2>3. \A q \in Scans : scan'[q] = "done" <=> scan[q] = "done"
      BY <1>0, <2>1, <2>2
    <2>. QED
      BY <1>5, <2>1, <2>3 DEF GoesOn, cacheVars, popupVars, historyVars
  <1>6. CASE Enumerate
    <2>1. UNCHANGED <<scan, ipCache, lmHosts, userVars, heard>>
      BY <1>6 DEF Enumerate, ReadShares, AddFoundShares, scanVars, cacheVars, historyVars
    <2>. QED
      BY <1>6, <2>1 DEF GoesOn
  <1>7. CASE LmHostsLoaded
    BY <1>7 DEF LmHostsLoaded, GoesOn, scanVars, popupVars, historyVars
  <1>8. ASSUME NEW l \in Lookups, SocketCreated(l)  PROVE GoesOn
    BY <1>8 DEF SocketCreated, GoesOn, cacheVars, popupVars
  <1>9. CASE UNCHANGED vars
    BY <1>9 DEF GoesOn, vars, scanVars, cacheVars, popupVars, historyVars
  <1>. QED
    BY <1>1, <1>2, <1>3, <1>4, <1>5, <1>6, <1>7, <1>8, <1>9 DEF Next, Network, List

\* What a scan that ends leaves behind.
LEMMA EndsEffect ==
    ASSUME Typed, NEW s \in Scans, Ends(s)
    PROVE  /\ \A q \in Scans : scan'[q] = IF q = s THEN "done" ELSE scan[q]
           /\ \A h \in Hosts : ipCache'[h] = IF heard[s][h] # None THEN heard[s][h] ELSE ipCache[h]
           /\ heard' = heard
  <1>1. scan \in [Scans -> ScanStates] /\ scan' = [scan EXCEPT ![s] = "done"]
    BY DEF Ends, Finish, Typed, TypeOK
  <1>2. ipCache' = Update(ipCache, heard[s]) /\ heard' = heard
    BY DEF Ends, Finish
  <1>. QED
    BY <1>1, <1>2 DEF Update

\* Every address in ipCache was the last that some scan heard of the host.
CacheHeard ==
    \A h \in Hosts : ipCache[h] # None =>
        \E s \in Scans : scan[s] = "done" /\ ipCache[h] = heard[s][h]

LEMMA InitCacheHeard == Init => CacheHeard
  BY UnknownIsTable DEF Init, CacheHeard

LEMMA NextCacheHeard == Typed /\ Heard /\ CacheHeard /\ [Next]_vars => CacheHeard'
  <1>. SUFFICES ASSUME Typed, Heard, CacheHeard, [Next]_vars  PROVE CacheHeard'
    OBVIOUS
  <1>1. CASE GoesOn
    BY <1>1 DEF GoesOn, CacheHeard
  <1>2. ASSUME NEW s \in Scans, Ends(s)  PROVE CacheHeard'
    BY <1>2, EndsEffect DEF CacheHeard
  <1>. QED
    BY <1>1, <1>2, EveryStepEndsOrGoesOn

\* The step that ends a scan puts the last address heard of every host into
\* ipCache: the tables of the lookups that were merged, each overwriting the one
\* before, are all the same.
THEOREM ScansSeeAll == Spec => ScanSeesAll
  <1>1. Typed /\ Heard /\ [Next]_vars =>
          [\A s \in Scans : scan[s] = "waiting" /\ scan'[s] = "done" =>
              \A h \in Known(heard[s]) : ipCache'[h] = heard[s][h]]_vars
    <2>. SUFFICES ASSUME Typed, Heard, [Next]_vars, NEW s \in Scans,
                         scan[s] = "waiting", scan'[s] = "done", NEW h \in Known(heard[s])
                  PROVE  ipCache'[h] = heard[s][h]
      OBVIOUS
    <2>1. ~ GoesOn
      BY DEF GoesOn
    <2>2. PICK q \in Scans : Ends(q)
      BY <2>1, EveryStepEndsOrGoesOn
    <2>3. q = s
      BY <2>2, EndsEffect
    <2>. QED
      BY <2>2, <2>3, EndsEffect DEF Known
  <1>. QED
    BY <1>1, TablesHeard, PTL DEF Spec, ScanSeesAll

-----------------------------------------------------------------------------
(* What mounts are told.                                                   *)

LEMMA InitResolutionsTrue == Init => ResolutionsTrue
  BY DEF Init, ResolutionsTrue

\* ResolutionsTrue of one mount.
ResolutionTrue(r) ==
    resolution[r] = "answered" =>
        /\ answer[r] # None =>
              \/ wanted[r] \in Literals /\ answer[r] = wanted[r]
              \/ answer[r] = Stored[wanted[r]]
              \/ \E s \in Scans : scan[s] = "done" /\ answer[r] = heard[s][wanted[r]]
        /\ answer[r] = None => scan[r] = "done"
        /\ scan[r] = "done" /\ heard[r][wanted[r]] # None => answer[r] = heard[r][wanted[r]]

\* What has been told stays true.
LEMMA ToldStaysTrue ==
    ASSUME NEW r \in Resolutions, ResolutionTrue(r),
           resolution'[r] = "answered" => resolution[r] = "answered",
           wanted'[r] = wanted[r], answer'[r] = answer[r],
           scan[r] # "done" /\ resolution[r] = "answered" => scan'[r] # "done",
           \A s \in Scans : scan[s] = "done" => scan'[s] = "done" /\ heard'[s] = heard[s]
    PROVE  ResolutionTrue(r)'
  BY ResolutionsAreScans DEF ResolutionTrue

LEMMA EndsTellsTrue ==
    ASSUME Typed, CacheHeard, ResolutionsTrue, NEW s \in Scans, Ends(s)
    PROVE  ResolutionsTrue'
  <1>1. /\ \A q \in Scans : scan'[q] = IF q = s THEN "done" ELSE scan[q]
        /\ \A h \in Hosts : ipCache'[h] = IF heard[s][h] # None THEN heard[s][h] ELSE ipCache[h]
        /\ heard' = heard
    BY EndsEffect
  <1>2. /\ resolution \in [Resolutions -> {"none", "waiting", "answered"}]
        /\ answer \in [Resolutions -> Addresses \cup {None}]
        /\ wanted' = wanted /\ scan[s] \in {"listing", "waiting"}
    BY DEF Typed, TypeOK, Ends
  <1>3. ASSUME NEW r \in Resolutions  PROVE ResolutionTrue(r)'
    <2>1. CASE r # s
      <3>1. resolution'[r] = resolution[r] /\ answer'[r] = answer[r]
        BY <1>2, <2>1 DEF Ends, Finish
      <3>2. ResolutionTrue(r)
        BY DEF ResolutionTrue, ResolutionsTrue
      <3>3. scan'[r] = scan[r]
        BY <1>1, <2>1, ResolutionsAreScans
      <3>. QED
        BY <1>1, <1>2, <3>1, <3>2, <3>3, ToldStaysTrue
    <2>2. CASE r = s
      <3>1. resolution[s] # "none" /\ wanted[s] \in Hosts
        BY <1>2, <2>2 DEF Typed, ScansAsked
      <3>2. answer'[s] = Update(ipCache, heard[s])[wanted[s]]
        BY <1>2, <2>2, ResolutionsAreScans DEF Ends, Finish, AddressFound
      <3>3. answer'[s] = IF heard[s][wanted[s]] # None THEN heard[s][wanted[s]] ELSE ipCache[wanted[s]]
        BY <3>1, <3>2 DEF Update
      <3>4. answer'[s] # None => \E q \in Scans : scan'[q] = "done" /\ answer'[s] = heard[q][wanted[s]]
        <4>1. CASE heard[s][wanted[s]] # None
          BY <1>1, <3>3, <4>1
        <4>2. CASE heard[s][wanted[s]] = None
          <5>1. answer'[s] = ipCache[wanted[s]]
            BY <3>3, <4>2
          <5>. QED
            BY <1>1, <3>1, <5>1 DEF CacheHeard
        <4>. QED
          BY <4>1, <4>2
      <3>. QED
        BY <1>1, <1>2, <2>2, <3>3, <3>4 DEF ResolutionTrue
    <2>. QED
      BY <2>1, <2>2
  <1>. QED
    BY <1>3 DEF ResolutionsTrue, ResolutionTrue

LEMMA GoesOnTellsTrue ==
    ASSUME Typed, CacheHeard, ResolutionsTrue, GoesOn
    PROVE  ResolutionsTrue'
  <1>1. /\ \A s \in Scans : /\ scan'[s] = "done" <=> scan[s] = "done"
                            /\ scan[s] = "done" => heard'[s] = heard[s]
        /\ UNCHANGED userVars \/ \E r \in Resolutions, h \in Hosts : Resolve(r, h)
    BY DEF GoesOn
  <1>2. \A r \in Resolutions : ResolutionTrue(r)
    BY DEF ResolutionTrue, ResolutionsTrue
  <1>3. CASE UNCHANGED userVars
    <2>1. \A r \in Resolutions : ResolutionTrue(r)'
      BY <1>1, <1>2, <1>3, ToldStaysTrue, ResolutionsAreScans DEF userVars
    <2>. QED
      BY <2>1 DEF ResolutionsTrue, ResolutionTrue
  <1>4. ASSUME NEW r \in Resolutions, NEW h \in Hosts, Resolve(r, h)  PROVE ResolutionsTrue'
    <2>1. /\ TypeOK /\ resolution[r] = "none" /\ scan[r] = "none" /\ r \in Scans
          /\ wanted' = [wanted EXCEPT ![r] = h]
      BY <1>4, ResolutionsAreScans DEF Resolve, Typed, ScansAsked
    <2>2. \/ /\ resolution' = [resolution EXCEPT ![r] = "answered"] /\ Cached(h) # None
             /\ answer' = [answer EXCEPT ![r] = Cached(h)]
          \/ /\ resolution' = [resolution EXCEPT ![r] = "waiting"]
             /\ answer' = answer
      BY <1>4 DEF Resolve
    <2>3. ASSUME NEW q \in Resolutions  PROVE ResolutionTrue(q)'
      <3>1. CASE q # r
        <4>1. wanted'[q] = wanted[q] /\ answer'[q] = answer[q] /\ resolution'[q] = resolution[q]
          BY <2>1, <2>2, <3>1 DEF TypeOK
        <4>. QED
          BY <1>1, <1>2, <4>1, ToldStaysTrue, ResolutionsAreScans
      <3>2. CASE q = r /\ resolution'[r] # "answered"
        BY <3>2 DEF ResolutionTrue
      <3>3. CASE q = r /\ resolution'[r] = "answered"
        <4>1. answer'[r] = Cached(h) /\ Cached(h) # None /\ wanted'[r] = h /\ scan'[r] # "done"
          BY <1>1, <2>1, <2>2, <3>3 DEF TypeOK
        <4>2. \/ h \in Literals /\ Cached(h) = h
              \/ Cached(h) = Stored[h]
              \/ Cached(h) = ipCache[h]
          BY <2>1, <4>1, CachedIsAddress
        <4>3. Cached(h) = ipCache[h] =>
                \E s \in Scans : scan'[s] = "done" /\ Cached(h) = heard'[s][h]
          BY <1>1, <4>1 DEF CacheHeard
        <4>. QED
          BY <3>3, <4>1, <4>2, <4>3 DEF ResolutionTrue
      <3>. QED
        BY <3>1, <3>2, <3>3
    <2>. QED
      BY <2>3 DEF ResolutionsTrue, ResolutionTrue
  <1>. QED
    BY <1>1, <1>3, <1>4

\* A mount is never told an address that nobody gave, nor that there is no such
\* host when the host was heard: the address is the name itself, lmHosts', or the
\* last that a scan heard, and what its own scan heard comes first.
THEOREM MountsToldTrue == Spec => []ResolutionsTrue
  <1>1. Typed /\ Heard /\ CacheHeard /\ ResolutionsTrue /\ [Next]_vars => ResolutionsTrue'
    BY EveryStepEndsOrGoesOn, EndsTellsTrue, GoesOnTellsTrue
  <1>. QED
    BY <1>1, TablesHeard, InitCacheHeard, NextCacheHeard, InitResolutionsTrue, PTL DEF Spec

-----------------------------------------------------------------------------
(* The drop-down list.                                                     *)

\* The hosts of the list are those the scan heard, each of them still to be read,
\* read, or found unreadable; and ipCache knows them all.
ListHeard ==
    /\ scan[0] = "done" <=> dropdown # "loading"
    /\ dropdown = "loading" => enumerating = {} /\ shares = {} /\ unreadable = {}
    /\ dropdown # "loading" =>
          /\ enumerating \cup shares = Known(heard[0]) \ unreadable
          /\ enumerating \cap shares = {}
          /\ \A h \in Known(heard[0]) : ipCache[h] # None
    /\ dropdown = "shown" => enumerating = {}

LEMMA InitListHeard == Init => ListHeard
  BY ScansOrResolutions DEF Init, ListHeard

LEMMA NextListHeard == Typed /\ Heard /\ ListHeard /\ [Next]_vars => ListHeard'
  <1>. SUFFICES ASSUME Typed, Heard, ListHeard, [Next]_vars  PROVE ListHeard'
    OBVIOUS
  <1>1. ASSUME NEW s \in Scans, Ends(s)  PROVE ListHeard'
    <2>1. /\ \A q \in Scans : scan'[q] = IF q = s THEN "done" ELSE scan[q]
          /\ \A h \in Hosts : ipCache'[h] = IF heard[s][h] # None THEN heard[s][h] ELSE ipCache[h]
          /\ heard' = heard /\ UNCHANGED <<shares, unreadable>> /\ scan[s] # "done"
      BY <1>1, EndsEffect DEF Ends
    <2>2. CASE s = 0
      <3>1. enumerating' = Known(heard[0]) /\ dropdown' = "reading" /\ scan'[0] = "done"
        BY <1>1, <2>1, <2>2 DEF Ends, Finish
      <3>2. shares = {} /\ unreadable = {}
        BY <2>1, <2>2 DEF ListHeard
      <3>. QED
        BY <2>1, <2>2, <3>1, <3>2 DEF ListHeard, Known
    <2>3. CASE s # 0
      <3>1. UNCHANGED <<enumerating, dropdown>> /\ scan'[0] = scan[0]
        BY <1>1, <2>1, <2>3, ScansOrResolutions DEF Ends, Finish
      <3>. QED
        BY <2>1, <3>1 DEF ListHeard, Known
    <2>. QED
      BY <2>2, <2>3
  <1>2. CASE GoesOn
    <2>1. /\ scan'[0] = "done" <=> scan[0] = "done"
          /\ scan[0] = "done" => heard'[0] = heard[0]
          /\ ipCache' = ipCache
          /\ UNCHANGED <<enumerating, shares, dropdown, unreadable>> \/ Enumerate
      BY <1>2, ScansOrResolutions DEF GoesOn
    <2>2. CASE UNCHANGED <<enumerating, shares, dropdown, unreadable>>
      BY <2>1, <2>2 DEF ListHeard, Known
    <2>3. ASSUME NEW h \in Hosts, ReadShares(h)  PROVE ListHeard'
      <3>1. /\ dropdown = "reading" /\ dropdown' = "reading" /\ h \in enumerating
            /\ enumerating' = enumerating \ {h}
            /\ \/ shares' = shares \cup {h} /\ unreadable' = unreadable
               \/ shares' = shares /\ unreadable' = unreadable \cup {h}
        BY <2>3 DEF ReadShares, AfterUnreadable
      <3>2. /\ enumerating \cup shares = Known(heard[0]) \ unreadable
            /\ enumerating \cap shares = {}
            /\ \A g \in Known(heard[0]) : ipCache[g] # None
            /\ scan[0] = "done" /\ Known(heard'[0]) = Known(heard[0])
        BY <2>1, <3>1 DEF ListHeard
      <3>3. enumerating' \cup shares' = Known(heard[0]) \ unreadable' /\ enumerating' \cap shares' = {}
        BY <3>1, <3>2
      <3>. QED
        BY <2>1, <3>1, <3>2, <3>3 DEF ListHeard
    <2>4. CASE AddFoundShares
      <3>1. /\ dropdown = "reading" /\ dropdown' = "shown" /\ enumerating = {} /\ enumerating' = {}
            /\ shares' = shares /\ unreadable' = unreadable
        BY <2>4 DEF AddFoundShares, historyVars
      <3>. QED
        BY <2>1, <3>1 DEF ListHeard
    <2>. QED
      BY <2>1, <2>2, <2>3, <2>4 DEF Enumerate
  <1>. QED
    BY <1>1, <1>2, EveryStepEndsOrGoesOn

LEMMA ListedKnown == TypeOK /\ ListHeard => ShownCanBeMounted
  <1>. SUFFICES ASSUME TypeOK, ListHeard, dropdown = "shown"
                PROVE  shares = Known(heard[0]) \ unreadable /\ \A h \in shares : Cached(h) # None
    BY DEF ShownCanBeMounted
  <1>1. shares = Known(heard[0]) \ unreadable /\ \A h \in Known(heard[0]) : ipCache[h] # None
    BY DEF ListHeard
  <1>2. ASSUME NEW h \in shares  PROVE Cached(h) # None
    <2>1. h \in Hosts \ Literals /\ ipCache[h] # None
      BY <1>1, <1>2 DEF TypeOK
    <2>. QED
      BY <2>1 DEF Cached
  <1>. QED
    BY <1>1, <1>2

\* However many hosts cannot be read, the list shows all the others that were
\* heard, and every host on it has an address that a mount finds without a scan.
THEOREM ListCanBeMounted == Spec => []ShownCanBeMounted
  <1>1. Typed /\ ListHeard => ShownCanBeMounted
    BY ListedKnown DEF Typed
  <1>. QED
    BY <1>1, TablesHeard, InitListHeard, NextListHeard, PTL DEF Spec
=============================================================================
