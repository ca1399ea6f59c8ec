----------------------- MODULE GraphRequest_proofs -----------------------
(***************************************************************************)
(* What a graph request answers: MergeDuplicateHosts finds the connected   *)
(* components; each address, MAC and instance is then at one host of the   *)
(* answer.  For every registry, every way of comparing addresses, every    *)
(* content of the ARP cache and however often it is reloaded, and in       *)
(* whatever order the maps of groups are walked.                           *)
(***************************************************************************)
EXTENDS GraphRequest, FiniteSetTheorems, WellFoundedInduction, TLAPS

-----------------------------------------------------------------------------
(* Connected hosts                                                         *)

LEMMA ConnectedToItself == \A a : Connected(a, a)
BY DEF Connected

LEMMA ConnectedTransitive ==
  ASSUME NEW a, NEW b, NEW c, Connected(a, b), Connected(b, c)
  PROVE  Connected(a, c)
BY DEF Connected

LEMMA SharingConnects ==
  ASSUME NEW a, NEW b \in DOMAIN merging, Shares(a, b)
  PROVE  Connected(a, b)
BY DEF Connected

\* A set of hosts that is closed under sharing holds all that is connected to
\* what is in it.
LEMMA ClosedUnderSharing ==
  ASSUME NEW S \in SUBSET DOMAIN merging, NEW a \in S, NEW b, Connected(a, b),
         \A x \in S : \A y \in DOMAIN merging : Shares(x, y) => y \in S
  PROVE  b \in S
BY DEF Connected

-----------------------------------------------------------------------------
(* Finite orders                                                           *)

\* A finite set that is not empty has a first element.
LEMMA FiniteHasFirst ==
  ASSUME NEW S, IsFiniteSet(S), S # {}, NEW R,
         \A x \in S : <<x, x>> \notin R,
         \A x, y, z \in S : <<x, y>> \in R /\ <<y, z>> \in R => <<x, z>> \in R
  PROVE  \E x \in S : \A y \in S : <<y, x>> \notin R
<1> DEFINE Below(x) == {y \in S : <<y, x>> \in R}
           All == {Below(x) : x \in S}
<1>1. All \subseteq FiniteSubsetsOf(S) /\ All # {}
  <2>1. ASSUME NEW x \in S
        PROVE  Below(x) \in FiniteSubsetsOf(S)
    <3>1. Below(x) \in SUBSET S
      OBVIOUS
    <3> HIDE DEF Below
    <3> QED
      BY <3>1, FS_Subset DEF FiniteSubsetsOf
  <2> HIDE DEF Below
  <2> QED
    BY <2>1
<1>2. PICK B \in All : \A D \in All : <<D, B>> \notin StrictSubsetOrdering(S)
  BY <1>1, FS_StrictSubsetOrderingWellFounded, WFMin
<1>3. PICK x \in S : B = Below(x)
  OBVIOUS
<1>4. ASSUME NEW y \in S, <<y, x>> \in R
      PROVE  FALSE
  <2>1. Below(y) \subseteq Below(x) /\ y \in Below(x) /\ y \notin Below(y)
    BY <1>4
  <2>2. Below(y) \in SUBSET S /\ Below(x) \in SUBSET S /\ Below(y) \in All
    OBVIOUS
  <2> HIDE DEF Below, All
  <2>3. <<Below(y), Below(x)>> \in StrictSubsetOrdering(S)
    BY <2>1, <2>2 DEF StrictSubsetOrdering
  <2> QED
    BY <1>2, <1>3, <2>2, <2>3
<1> QED
  BY <1>4

\* The elements of a finite set, in order.
LEMMA FiniteHasEnumeration ==
  ASSUME NEW S, IsFiniteSet(S), NEW R,
         \A x \in S : <<x, x>> \notin R,
         \A x, y, z \in S : <<x, y>> \in R /\ <<y, z>> \in R => <<x, z>> \in R,
         \A x, y \in S : x # y => <<x, y>> \in R \/ <<y, x>> \in R
  PROVE  \E s \in [1 .. Cardinality(S) -> S] :
           \A m, n \in 1 .. Cardinality(S) : m < n => <<s[m], s[n]>> \in R
<1> DEFINE N == Cardinality(S)
           Below(x) == {y \in S : <<y, x>> \in R}
           rank == [x \in S |-> Cardinality(Below(x)) + 1]
<1>1. N \in Nat /\ IsFiniteSet(1 .. N) /\ Cardinality(1 .. N) = N
  <2>1. N \in Nat
    BY FS_CardinalityType
  <2>2. /\ IsFiniteSet(1 .. N)
        /\ Cardinality(1 .. N) = IF 1 > N THEN 0 ELSE N - 1 + 1
    BY <2>1, FS_Interval
  <2> QED
    BY <2>1, <2>2
<1>2. ASSUME NEW x \in S
      PROVE  /\ IsFiniteSet(Below(x)) /\ Cardinality(Below(x)) \in Nat
             /\ Cardinality(Below(x)) < N
  <2>1. Below(x) \in SUBSET S /\ x \notin Below(x)
    OBVIOUS
  <2> HIDE DEF Below
  <2>2. /\ IsFiniteSet(Below(x)) /\ Cardinality(Below(x)) <= N
        /\ (Cardinality(S) = Cardinality(Below(x)) => S = Below(x))
    BY <2>1, FS_Subset
  <2>3. Cardinality(Below(x)) \in Nat
    BY <2>2, FS_CardinalityType
  <2> QED
    BY <1>1, <2>1, <2>2, <2>3
<1>3. ASSUME NEW x \in S, NEW y \in S, <<x, y>> \in R
      PROVE  Cardinality(Below(x)) < Cardinality(Below(y))
  <2>1. Below(x) \in SUBSET Below(y) /\ x \in Below(y) /\ x \notin Below(x)
    BY <1>3
  <2>2. IsFiniteSet(Below(y)) /\ Cardinality(Below(x)) \in Nat /\ Cardinality(Below(y)) \in Nat
    BY <1>2
  <2> HIDE DEF Below
  <2>3. /\ Cardinality(Below(x)) <= Cardinality(Below(y))
        /\ (Cardinality(Below(y)) = Cardinality(Below(x)) => Below(y) = Below(x))
    BY <2>1, <2>2, FS_Subset
  <2> QED
    BY <2>1, <2>2, <2>3
<1> HIDE DEF Below
<1>4. /\ rank \in [S -> 1 .. N]
      /\ \A x, y \in S : <<x, y>> \in R => rank[x] < rank[y]
  BY <1>1, <1>2, <1>3
<1> HIDE DEF rank, N
<1>5. rank \in Injection(S, 1 .. N)
  <2>1. \A x \in S : rank[x] \in Int
    BY <1>1, <1>4
  <2>2. \A x, y \in S : rank[x] = rank[y] => x = y
    <3> SUFFICES ASSUME NEW x \in S, NEW y \in S, rank[x] = rank[y], x # y
                 PROVE  FALSE
      OBVIOUS
    <3>1. CASE <<x, y>> \in R
      BY <1>4, <2>1, <3>1
    <3>2. CASE <<y, x>> \in R
      BY <1>4, <2>1, <3>2
    <3> QED
      BY <3>1, <3>2
  <2> QED
    BY <1>4, <2>2 DEF Injection, IsInjective
<1>6. rank \in Surjection(S, 1 .. N)
  BY <1>1, <1>5, FS_Injection DEF N
<1> DEFINE s == [n \in 1 .. N |-> CHOOSE x \in S : rank[x] = n]
<1>7. \A n \in 1 .. N : s[n] \in S /\ rank[s[n]] = n
  BY <1>6 DEF Surjection
<1>8. s \in [1 .. N -> S]
  BY <1>7
<1>9. ASSUME NEW m \in 1 .. N, NEW n \in 1 .. N, m < n
      PROVE  <<s[m], s[n]>> \in R
  <2>1. s[m] \in S /\ s[n] \in S /\ rank[s[m]] = m /\ rank[s[n]] = n
    BY <1>7
  <2> HIDE DEF s
  <2>2. s[m] # s[n] /\ m \in Int /\ n \in Int
    BY <1>9, <2>1
  <2>3. <<s[n], s[m]>> \notin R
    BY <1>4, <1>9, <2>1, <2>2
  <2> QED
    BY <2>1, <2>2, <2>3
<1> HIDE DEF s
<1> QED
  BY <1>8, <1>9 DEF N

\* An enumeration in order leaves out none.
LEMMA EnumerationIsComplete ==
  ASSUME NEW S, IsFiniteSet(S), NEW R, \A x \in S : <<x, x>> \notin R,
         NEW s \in [1 .. Cardinality(S) -> S],
         \A m, n \in 1 .. Cardinality(S) : m < n => <<s[m], s[n]>> \in R
  PROVE  \A x \in S : \E n \in 1 .. Cardinality(S) : s[n] = x
<1> DEFINE N == Cardinality(S)
<1>1. N \in Nat
  BY FS_CardinalityType
<1>2. /\ IsFiniteSet(1 .. N)
      /\ Cardinality(1 .. N) = IF 1 > N THEN 0 ELSE N - 1 + 1
  BY <1>1, FS_Interval
<1>3. Cardinality(1 .. N) = N
  BY <1>1, <1>2
<1>4. \A m, n \in 1 .. N : s[m] = s[n] => m = n
  <2> SUFFICES ASSUME NEW m \in 1 .. N, NEW n \in 1 .. N, s[m] = s[n]
               PROVE  m = n
    OBVIOUS
  <2>1. s[m] \in S /\ m \in Int /\ n \in Int
    BY <1>1
  <2>2. ~(m < n) /\ ~(n < m)
    BY <2>1
  <2> QED
    BY <2>1, <2>2
<1>5. s \in Injection(1 .. N, S)
  BY <1>4 DEF Injection, IsInjective
<1> HIDE DEF N
<1>6. s \in Surjection(1 .. N, S)
  BY <1>3, <1>5, FS_Injection DEF N
<1> QED
  BY <1>6 DEF Surjection, N

\* A set of numbers has a least one and, if it is finite, a greatest.
LEMMA MinIs ==
  ASSUME NEW S \in SUBSET Nat, S # {}
  PROVE  Min(S) \in S /\ \A y \in S : Min(S) <= y
<1> DEFINE R == OpToRel(<, Nat)
<1>0. \A x, y \in Nat : x < y => <<x, y>> \in R
  BY DEF OpToRel
<1>1. PICK x \in S : \A y \in S : <<y, x>> \notin R
  BY NatLessThanWellFounded, WFMin
<1> HIDE DEF R
<1>2. ASSUME NEW y \in S
      PROVE  x <= y
  <2>1. x \in Nat /\ y \in Nat
    OBVIOUS
  <2>2. <<y, x>> \notin R
    BY <1>1
  <2>3. ~(y < x)
    BY <1>0, <2>1, <2>2
  <2> QED
    BY <2>1, <2>3
<1> QED
  BY <1>2 DEF Min

LEMMA MaxIs ==
  ASSUME NEW S \in SUBSET Nat, IsFiniteSet(S), S # {}
  PROVE  Max(S) \in S
<1> DEFINE R == {p \in S \X S : p[1] > p[2]}
<1>1. \A x, y \in S : <<x, y>> \in R <=> x > y
  OBVIOUS
<1>2. \A x \in S : x \in Nat
  OBVIOUS
<1> HIDE DEF R
<1>3. PICK x \in S : \A y \in S : <<y, x>> \notin R
  <2>1. \A y \in S : <<y, y>> \notin R
    BY <1>1, <1>2
  <2>2. \A y, z, u \in S : <<y, z>> \in R /\ <<z, u>> \in R => <<y, u>> \in R
    BY <1>1, <1>2
  <2> QED
    BY <2>1, <2>2, FiniteHasFirst
<1>4. \A y \in S : x >= y
  <2> SUFFICES ASSUME NEW y \in S
               PROVE  x >= y
    OBVIOUS
  <2>1. ~(y > x) /\ x \in Nat /\ y \in Nat
    BY <1>1, <1>2, <1>3
  <2> QED
    BY <2>1
<1> QED
  BY <1>4 DEF Max

-----------------------------------------------------------------------------
(* The hosts of a snapshot                                                 *)

\* What is used of them until they are merged.
HostsFit ==
    /\ DOMAIN hosts \subseteq Host /\ IsFiniteSet(DOMAIN hosts)
    /\ \A h \in DOMAIN hosts : hosts[h] \in HostEntry

LEMMA RegistryFits ==
  ASSUME registered \in RegistryHosts, known \in RegistryServices
  PROVE  /\ DOMAIN registered \subseteq Host /\ IsFiniteSet(DOMAIN registered)
         /\ \A h \in DOMAIN registered : registered[h].ips \in Seq(Ip)
         /\ DOMAIN known \subseteq Instance
         /\ \A k \in DOMAIN known : known[k].target \in Host \cup {NoHost}
BY GraphAssumption DEF RegisteredHost, RegisteredService

LEMMA HostsFitUntilMerged ==
  ASSUME TypeOK, registered \in RegistryHosts, Unmerged
  PROVE  HostsFit
BY GraphAssumption DEF TypeOK, Unmerged, HostsFit

-----------------------------------------------------------------------------
(* The groups                                                              *)

LEMMA GroupShares ==
  ASSUME merging = hosts, NEW group \in MacGroups \cup IpGroups
  PROVE  /\ group # {} /\ group \subseteq DOMAIN hosts
         /\ \A x, y \in group : Shares(x, y)
<1>1. CASE group \in MacGroups
  BY <1>1, GraphAssumption DEF MacGroups, SameMac, Shares
<1>2. CASE group \in IpGroups
  <2>1. PICK key \in IpKey : group = SameAddress(key)
    BY <1>2 DEF IpGroups
  <2>2. key # NoKey
    BY GraphAssumption
  <2> QED
    BY <1>2, <2>1, <2>2 DEF IpGroups, SameAddress, Shares
<1> QED
  BY <1>1, <1>2

LEMMA SharingHostsAreInAGroup ==
  ASSUME merging = hosts, HostsFit, NEW x \in DOMAIN hosts, NEW y \in DOMAIN hosts,
         Shares(x, y)
  PROVE  \E group \in MacGroups \cup IpGroups : x \in group /\ y \in group
<1>1. CASE merging[x].mac = merging[y].mac /\ merging[x].mac # NoMac
  <2> DEFINE m == hosts[x].mac
  <2>1. m \in Mac
    BY <1>1 DEF HostsFit, HostEntry
  <2>2. x \in SameMac(m) /\ y \in SameMac(m)
    BY <1>1 DEF SameMac
  <2>3. SameMac(m) \in MacGroups
    BY <2>1, <2>2 DEF MacGroups
  <2> QED
    BY <2>2, <2>3
<1>2. CASE \E i \in ToSet(merging[x].ips), j \in ToSet(merging[y].ips) :
             MergeKey[i] = MergeKey[j] /\ MergeKey[i] # NoKey
  <2>1. PICK i \in ToSet(hosts[x].ips), j \in ToSet(hosts[y].ips) :
               MergeKey[i] = MergeKey[j] /\ MergeKey[i] # NoKey
    BY <1>2
  <2> DEFINE key == MergeKey[i]
  <2>2. i \in Ip
    <3>1. hosts[x].ips \in Seq(Ip)
      BY DEF HostsFit, HostEntry
    <3> QED
      BY <3>1 DEF ToSet
  <2>3. key \in IpKey
    BY <2>1, <2>2, GraphAssumption
  <2>4. x \in SameAddress(key) /\ y \in SameAddress(key)
    BY <2>1 DEF SameAddress
  <2>5. SameAddress(key) \in IpGroups
    BY <2>3, <2>4 DEF IpGroups
  <2> QED
    BY <2>4, <2>5
<1> QED
  BY <1>1, <1>2 DEF Shares

-----------------------------------------------------------------------------
(* pickCanonicalKey                                                        *)

LEMMA CanonicalKeyIsMember ==
  ASSUME NEW c \in SUBSET Host, IsFiniteSet(c), c # {}
  PROVE  CanonicalKey(c) \in c
<1> DEFINE Better(g, h) == Score[g] > Score[h] \/ (Score[g] = Score[h] /\ g < h)
           R == {p \in c \X c : Better(p[1], p[2])}
<1>1. \A h \in c : Score[h] \in Int /\ h \in Int
  BY GraphAssumption
<1>2. \A g, h \in c : <<g, h>> \in R <=> Better(g, h)
  OBVIOUS
<1> HIDE DEF R
<1>3. PICK h \in c : \A g \in c : <<g, h>> \notin R
  <2>1. \A x \in c : <<x, x>> \notin R
    BY <1>1, <1>2
  <2>2. \A x, y, z \in c : <<x, y>> \in R /\ <<y, z>> \in R => <<x, z>> \in R
    BY <1>1, <1>2
  <2> QED
    BY <2>1, <2>2, FiniteHasFirst
<1>4. ASSUME NEW g \in c
      PROVE  Score[g] < Score[h] \/ (Score[g] = Score[h] /\ h <= g)
  <2>1. ~Better(g, h)
    BY <1>2, <1>3
  <2>2. Score[g] \in Int /\ Score[h] \in Int /\ g \in Int /\ h \in Int
    BY <1>1
  <2> QED
    BY <2>1, <2>2
<1> QED
  BY <1>4 DEF CanonicalKey

-----------------------------------------------------------------------------
(* unionAll                                                                *)

LEMMA UnionAllDividesUp ==
  ASSUME Partition, NEW group, group # {}, group \subseteq DOMAIN hosts
  PROVE  /\ UNION UnionAll(group) = DOMAIN hosts
         /\ \A c, d \in UnionAll(group) : c # {} /\ (c # d => c \cap d = {})
<1> DEFINE M == {class \in classes : class \cap group # {}}
           U == UNION M
           Rest == {class \in classes : ~(class \cap group # {})}
<1>1. UnionAll(group) = Rest \cup {U}
  BY DEF UnionAll
<1>2. group \subseteq U
  BY DEF Partition
<1>3. U # {}
  BY <1>2
<1>4. UNION (Rest \cup {U}) = UNION classes
  OBVIOUS
<1>5. \A c \in Rest : c # {} /\ c \cap U = {}
  BY DEF Partition
<1>6. \A c, d \in Rest : c # d => c \cap d = {}
  BY DEF Partition
<1>7. UNION UnionAll(group) = DOMAIN hosts
  BY <1>1, <1>4 DEF Partition
<1> HIDE DEF U, Rest
<1>8. \A c, d \in UnionAll(group) : c # {} /\ (c # d => c \cap d = {})
  BY <1>1, <1>3, <1>5, <1>6
<1> QED
  BY <1>7, <1>8

LEMMA UnionAllUnites ==
  ASSUME UNION classes = DOMAIN hosts, NEW group, group \subseteq DOMAIN hosts
  PROVE  \E c \in UnionAll(group) : group \subseteq c
<1>1. group \subseteq UNION {class \in classes : class \cap group # {}}
  OBVIOUS
<1> QED
  BY <1>1 DEF UnionAll

LEMMA UnionAllConnects ==
  ASSUME Partition, ClassesConnected, merging = hosts,
         NEW group, group \subseteq DOMAIN hosts, \A x, y \in group : Shares(x, y),
         NEW c \in UnionAll(group), NEW a \in c, NEW b \in c
  PROVE  Connected(a, b)
<1>1. CASE c \in classes
  BY <1>1 DEF ClassesConnected
<1>2. CASE c = UNION {class \in classes : class \cap group # {}}
  <2>1. PICK ca \in classes : a \in ca /\ ca \cap group # {}
    BY <1>2
  <2>2. PICK cb \in classes : b \in cb /\ cb \cap group # {}
    BY <1>2
  <2>3. PICK x \in ca : x \in group
    BY <2>1
  <2>4. PICK y \in cb : y \in group
    BY <2>2
  <2>5. Connected(a, x)
    BY <2>1, <2>3 DEF ClassesConnected
  <2>6. Connected(y, b)
    BY <2>2, <2>4 DEF ClassesConnected
  <2>7. Connected(x, y)
    BY <2>3, <2>4, SharingConnects
  <2> QED
    BY <2>5, <2>6, <2>7, ConnectedTransitive
<1> QED
  BY <1>1, <1>2 DEF UnionAll

LEMMA UnionAllKeepsTogether ==
  ASSUME NEW group, NEW other, NEW c \in classes, other \subseteq c
  PROVE  \E d \in UnionAll(group) : other \subseteq d
<1>1. CASE c \cap group = {}
  BY <1>1 DEF UnionAll
<1>2. CASE c \cap group # {}
  <2> DEFINE U == UNION {class \in classes : class \cap group # {}}
  <2>1. c \subseteq U
    BY <1>2
  <2>2. U \in UnionAll(group)
    BY DEF UnionAll
  <2> QED
    BY <2>1, <2>2
<1> QED
  BY <1>1, <1>2

\* When every group lies in a set of the union-find, the sets are the components.
LEMMA SetsAreComponents ==
  ASSUME merging = hosts, HostsFit, Partition, ClassesConnected,
         \A group \in MacGroups \cup IpGroups : \E c \in classes : group \subseteq c,
         NEW c \in classes, NEW a \in c
  PROVE  c = {b \in DOMAIN merging : Connected(a, b)}
<1>1. c \subseteq DOMAIN merging
  BY DEF Partition
<1>2. \A b \in c : Connected(a, b)
  BY DEF ClassesConnected
<1>3. ASSUME NEW x \in c, NEW y \in DOMAIN merging, Shares(x, y)
      PROVE  y \in c
  <2>1. PICK group \in MacGroups \cup IpGroups : x \in group /\ y \in group
    BY <1>1, <1>3, SharingHostsAreInAGroup
  <2>2. PICK d \in classes : group \subseteq d
    OBVIOUS
  <2>3. c = d
    BY <2>1, <2>2 DEF Partition
  <2> QED
    BY <2>1, <2>2, <2>3
<1>4. ASSUME NEW b \in DOMAIN merging, Connected(a, b)
      PROVE  b \in c
  BY <1>1, <1>3, <1>4, ClosedUnderSharing
<1> QED
  BY <1>1, <1>2, <1>4

-----------------------------------------------------------------------------
(* The walk of mergeHostGroup over the addresses                           *)

LEMMA PlacesAre ==
  ASSUME HostsFit, NEW class \in SUBSET DOMAIN hosts
  PROVE  /\ IsFiniteSet(class) /\ IsFiniteSet(Places(class))
         /\ \A p \in Places(class) :
              /\ p = <<p[1], p[2]>> /\ p[1] \in class /\ p[1] \in Nat
              /\ p[2] \in DOMAIN hosts[p[1]].ips /\ p[2] \in Nat
              /\ AddressAt(p) \in Ip
         /\ \A h \in class : \A i \in DOMAIN hosts[h].ips : <<h, i>> \in Places(class)
<1> DEFINE Of(h) == {h} \X DOMAIN hosts[h].ips
           All == {Of(h) : h \in class}
<1>1. IsFiniteSet(class)
  BY FS_Subset DEF HostsFit
<1>2. ASSUME NEW h \in class
      PROVE  /\ hosts[h].ips \in Seq(Ip)
             /\ DOMAIN hosts[h].ips \subseteq Nat
             /\ IsFiniteSet(DOMAIN hosts[h].ips)
  <2>1. hosts[h].ips \in Seq(Ip)
    BY DEF HostsFit, HostEntry
  <2>2. Len(hosts[h].ips) \in Nat /\ DOMAIN hosts[h].ips = 1 .. Len(hosts[h].ips)
    BY <2>1
  <2>3. IsFiniteSet(1 .. Len(hosts[h].ips))
    BY <2>2, FS_Interval
  <2> QED
    BY <2>1, <2>2, <2>3
<1>3. IsFiniteSet(UNION All)
  <2>1. \A h \in class : IsFiniteSet(Of(h))
    BY <1>2, FS_Product, FS_Singleton
  <2>2. IsFiniteSet(All)
    <3> DEFINE f == [h \in class |-> Of(h)]
    <3> HIDE DEF Of
    <3>1. f \in Surjection(class, All)
      BY DEF Surjection
    <3> QED
      BY <1>1, <3>1, FS_Surjection
  <2> HIDE DEF Of
  <2>3. \A T \in All : IsFiniteSet(T)
    BY <2>1
  <2> QED
    BY <2>2, <2>3, FS_UNION
<1>4. Places(class) = UNION All
  BY DEF Places
<1>5. ASSUME NEW p \in Places(class)
      PROVE  /\ p = <<p[1], p[2]>> /\ p[1] \in class /\ p[1] \in Nat
             /\ p[2] \in DOMAIN hosts[p[1]].ips /\ p[2] \in Nat
             /\ AddressAt(p) \in Ip
  <2>1. PICK h \in class : p \in {h} \X DOMAIN hosts[h].ips
    BY DEF Places
  <2>2. p = <<h, p[2]>> /\ p[1] = h /\ p[2] \in DOMAIN hosts[h].ips
    BY <2>1
  <2>3. h \in Nat
    BY GraphAssumption DEF HostsFit
  <2>4. hosts[h].ips[p[2]] \in Ip /\ p[2] \in Nat
    BY <1>2, <2>2
  <2> QED
    BY <2>2, <2>3, <2>4 DEF AddressAt
<1>6. \A h \in class : \A i \in DOMAIN hosts[h].ips : <<h, i>> \in Places(class)
  BY DEF Places
<1> QED
  BY <1>1, <1>3, <1>4, <1>5, <1>6

\* "Before" as a set of pairs.
WalkOrder(class) == {pq \in Places(class) \X Places(class) : Before(pq[1], pq[2])}

LEMMA WalkOrderIs ==
  ASSUME HostsFit, NEW class \in SUBSET DOMAIN hosts
  PROVE  /\ \A p, q \in Places(class) : <<p, q>> \in WalkOrder(class) <=> Before(p, q)
         /\ \A p \in Places(class) : <<p, p>> \notin WalkOrder(class)
         /\ \A p, q, r \in Places(class) :
              <<p, q>> \in WalkOrder(class) /\ <<q, r>> \in WalkOrder(class)
                => <<p, r>> \in WalkOrder(class)
         /\ \A p, q \in Places(class) :
              p # q => <<p, q>> \in WalkOrder(class) \/ <<q, p>> \in WalkOrder(class)
<1>1. \A p, q \in Places(class) : <<p, q>> \in WalkOrder(class) <=> Before(p, q)
  BY DEF WalkOrder
<1>2. \A p \in Places(class) : p[1] \in Nat /\ p[2] \in Nat /\ p = <<p[1], p[2]>>
  BY PlacesAre
<1>3. \A p \in Places(class) : ~Before(p, p)
  BY <1>2 DEF Before
<1>4. \A p, q, r \in Places(class) : Before(p, q) /\ Before(q, r) => Before(p, r)
  BY <1>2 DEF Before
<1>5. ASSUME NEW p \in Places(class), NEW q \in Places(class), p # q
      PROVE  Before(p, q) \/ Before(q, p)
  <2>1. p[1] # q[1] \/ p[2] # q[2]
    BY <1>2, <1>5
  <2> QED
    BY <1>2, <2>1 DEF Before
<1> QED
  BY <1>1, <1>3, <1>4, <1>5

\* An address is met at a first place, there or earlier.
LEMMA FirstPlaceOf ==
  ASSUME HostsFit, NEW class \in SUBSET DOMAIN hosts, NEW p \in Places(class)
  PROVE  \E q \in FirstPlaces(class) :
           AddressAt(q) = AddressAt(p) /\ (q = p \/ Before(q, p))
<1> DEFINE S == {q \in Places(class) : AddressAt(q) = AddressAt(p)}
<1>1. S \in SUBSET Places(class) /\ p \in S
  OBVIOUS
<1> DEFINE R == WalkOrder(class)
<1>2. /\ \A x \in S : <<x, x>> \notin R
      /\ \A x, y, z \in S : <<x, y>> \in R /\ <<y, z>> \in R => <<x, z>> \in R
  BY WalkOrderIs
<1>3. IsFiniteSet(Places(class))
  BY PlacesAre
<1> HIDE DEF S, R
<1>4. IsFiniteSet(S) /\ S # {}
  BY <1>1, <1>3, FS_Subset
<1>5. PICK q \in S : \A y \in S : <<y, q>> \notin R
  BY <1>2, <1>4, FiniteHasFirst
<1>6. q \in Places(class) /\ AddressAt(q) = AddressAt(p)
  BY DEF S
<1>7. \A y \in Places(class) : AddressAt(y) = AddressAt(q) => ~Before(y, q)
  BY <1>5, <1>6, WalkOrderIs DEF S, R
<1>8. q = p \/ Before(q, p)
  BY <1>1, <1>5, <1>6, WalkOrderIs DEF R
<1> QED
  BY <1>6, <1>7, <1>8 DEF FirstPlaces

LEMMA InOrderIs ==
  ASSUME HostsFit, NEW class \in SUBSET DOMAIN hosts
  PROVE  LET N == Cardinality(FirstPlaces(class))
             walk == InOrder(FirstPlaces(class))
         IN  /\ N \in Nat
             /\ walk \in [1 .. N -> FirstPlaces(class)]
             /\ \A m, n \in 1 .. N : m < n => Before(walk[m], walk[n])
             /\ \A p \in FirstPlaces(class) : \E n \in 1 .. N : walk[n] = p
<1> DEFINE F == FirstPlaces(class)
           N == Cardinality(F)
           R == WalkOrder(class)
<1>1. F \in SUBSET Places(class) /\ IsFiniteSet(Places(class))
  BY PlacesAre DEF FirstPlaces
<1>2. /\ \A x, y \in F : <<x, y>> \in R <=> Before(x, y)
      /\ \A x \in F : <<x, x>> \notin R
      /\ \A x, y, z \in F : <<x, y>> \in R /\ <<y, z>> \in R => <<x, z>> \in R
      /\ \A x, y \in F : x # y => <<x, y>> \in R \/ <<y, x>> \in R
  BY <1>1, WalkOrderIs
<1> HIDE DEF F, R
<1>3. IsFiniteSet(F) /\ N \in Nat
  BY <1>1, FS_Subset, FS_CardinalityType
<1>4. PICK s \in [1 .. N -> F] : \A m, n \in 1 .. N : m < n => <<s[m], s[n]>> \in R
  BY <1>2, <1>3, FiniteHasEnumeration
<1>5. \A m, n \in 1 .. N : m < n => Before(s[m], s[n])
  BY <1>2, <1>4
<1> DEFINE walk == InOrder(F)
<1> HIDE DEF N
<1>6. walk \in [1 .. N -> F] /\ \A m, n \in DOMAIN walk : m < n => Before(walk[m], walk[n])
  BY <1>4, <1>5 DEF InOrder, N
<1> HIDE DEF walk
<1>7. \A m, n \in 1 .. N : m < n => Before(walk[m], walk[n])
  BY <1>6
<1>8. \A m, n \in 1 .. N : m < n => <<walk[m], walk[n]>> \in R
  BY <1>2, <1>6, <1>7
<1>9. \A p \in F : \E n \in 1 .. N : walk[n] = p
  BY <1>2, <1>3, <1>6, <1>8, EnumerationIsComplete DEF N
<1> QED
  BY <1>3, <1>6, <1>7, <1>9 DEF F, N, walk

-----------------------------------------------------------------------------
(* What mergeHostGroup makes of a class                                    *)

LEMMA MacForIpType ==
  ASSUME arp \in ArpTable, NEW ip
  PROVE  MACForIP(ip) \in Mac \cup {NoMac}
BY GraphAssumption DEF MACForIP

\* The least index with a MAC decides.
LEMMA FirstMacIs ==
  ASSUME arp \in ArpTable, NEW ips \in Seq(Ip)
  PROVE  /\ FirstMac(ips) \in Mac \cup {NoMac}
         /\ FirstMac(ips) # NoMac =>
              \E i \in DOMAIN ips :
                /\ FirstMac(ips) = MACForIP(ips[i])
                /\ \A j \in DOMAIN ips : j < i => MACForIP(ips[j]) = NoMac
         /\ \A i \in DOMAIN ips :
              /\ MACForIP(ips[i]) # NoMac
              /\ \A j \in DOMAIN ips : j < i => MACForIP(ips[j]) = NoMac
              => FirstMac(ips) = MACForIP(ips[i])
<1> DEFINE found == {i \in DOMAIN ips : MACForIP(ips[i]) # NoMac}
<1>1. DOMAIN ips \subseteq Nat
  OBVIOUS
<1>2. found \in SUBSET Nat /\ found \subseteq DOMAIN ips
  BY <1>1
<1>3. FirstMac(ips) = IF found = {} THEN NoMac ELSE MACForIP(ips[Min(found)])
  BY DEF FirstMac
<1>4. \A i \in DOMAIN ips : MACForIP(ips[i]) # NoMac <=> i \in found
  OBVIOUS
<1> HIDE DEF found
<1>5. CASE found = {}
  BY <1>3, <1>4, <1>5
<1>6. CASE found # {}
  <2>1. Min(found) \in found /\ \A y \in found : Min(found) <= y
    BY <1>2, <1>6, MinIs
  <2> DEFINE n == Min(found)
  <2>2. n \in found /\ n \in DOMAIN ips /\ n \in Nat /\ \A y \in found : n <= y
    BY <1>2, <2>1
  <2>3. FirstMac(ips) = MACForIP(ips[n])
    BY <1>3, <1>6
  <2> HIDE DEF n
  <2>4. \A j \in DOMAIN ips : j < n => MACForIP(ips[j]) = NoMac
    BY <1>1, <1>4, <2>2
  <2>5. ASSUME NEW i \in DOMAIN ips, MACForIP(ips[i]) # NoMac,
               \A j \in DOMAIN ips : j < i => MACForIP(ips[j]) = NoMac
        PROVE  i = n
    <3>1. n <= i /\ ~(n < i) /\ i \in Nat
      BY <1>1, <1>4, <2>2, <2>5
    <3> QED
      BY <2>2, <3>1
  <2> QED
    BY <2>2, <2>3, <2>4, <2>5, MacForIpType
<1> QED
  BY <1>5, <1>6

\* The addresses of the class, each once and no other.
LEMMA MergedAddresses ==
  ASSUME HostsFit, NEW class \in SUBSET DOMAIN hosts
  PROVE  /\ Merged(class).ips \in Seq(Ip)
         /\ ToSet(Merged(class).ips) = UNION {ToSet(hosts[h].ips) : h \in class}
<1> DEFINE F == FirstPlaces(class)
           N == Cardinality(F)
           walk == InOrder(F)
           ips == [n \in DOMAIN walk |-> AddressAt(walk[n])]
<1>1. /\ N \in Nat /\ walk \in [1 .. N -> F]
      /\ \A p \in F : \E n \in 1 .. N : walk[n] = p
  BY InOrderIs
<1>2. Merged(class).ips = ips
  BY DEF Merged
<1>3. \A p \in F : p \in Places(class) /\ AddressAt(p) \in Ip
  BY PlacesAre DEF FirstPlaces
<1> HIDE DEF F, N, walk
<1>4. ips \in [1 .. N -> Ip] /\ \A n \in 1 .. N : ips[n] = AddressAt(walk[n]) /\ walk[n] \in F
  BY <1>1, <1>3
<1>5. ips \in Seq(Ip) /\ DOMAIN ips = 1 .. N
  BY <1>1, <1>4
<1> HIDE DEF ips
<1>6. ASSUME NEW n \in 1 .. N
      PROVE  \E h \in class : ips[n] \in ToSet(hosts[h].ips)
  <2>1. walk[n] \in Places(class) /\ ips[n] = AddressAt(walk[n])
    BY <1>3, <1>4
  <2> QED
    BY <2>1, PlacesAre DEF AddressAt, ToSet
<1>7. ASSUME NEW h \in class, NEW i \in DOMAIN hosts[h].ips
      PROVE  \E n \in 1 .. N : ips[n] = hosts[h].ips[i]
  <2> DEFINE p == <<h, i>>
  <2>1. p \in Places(class) /\ AddressAt(p) = hosts[h].ips[i]
    BY PlacesAre DEF AddressAt
  <2> HIDE DEF p
  <2>2. PICK q \in F : AddressAt(q) = AddressAt(p)
    BY <2>1, FirstPlaceOf DEF F
  <2> QED
    BY <1>1, <1>4, <2>1, <2>2
<1>8. ToSet(ips) = UNION {ToSet(hosts[h].ips) : h \in class}
  <2>1. ToSet(ips) \subseteq UNION {ToSet(hosts[h].ips) : h \in class}
    BY <1>5, <1>6 DEF ToSet
  <2>2. \A h \in class : ToSet(hosts[h].ips) \subseteq ToSet(ips)
    BY <1>5, <1>7 DEF ToSet
  <2> QED
    BY <2>1, <2>2
<1> QED
  BY <1>2, <1>5, <1>8

\* The address whose MAC the second Apply will pick for the class is the one whose MAC
\* the first Apply has picked for a host of it.
LEMMA MergedFirstMac ==
  ASSUME HostsFit, arp \in ArpTable, NEW class \in SUBSET DOMAIN hosts,
         FirstMac(Merged(class).ips) # NoMac
  PROVE  \E h \in class : FirstMac(hosts[h].ips) = FirstMac(Merged(class).ips)
<1> DEFINE F == FirstPlaces(class)
           N == Cardinality(F)
           walk == InOrder(F)
           ips == Merged(class).ips
<1>1. /\ N \in Nat /\ walk \in [1 .. N -> F]
      /\ \A m, n \in 1 .. N : m < n => Before(walk[m], walk[n])
      /\ \A p \in F : \E n \in 1 .. N : walk[n] = p
  BY InOrderIs
<1>2. ips = [n \in DOMAIN walk |-> AddressAt(walk[n])] /\ ips \in Seq(Ip)
  BY MergedAddresses DEF Merged
<1>3. F \subseteq Places(class)
  BY DEF FirstPlaces
<1> HIDE DEF F, N, walk, ips
<1>4. DOMAIN ips = 1 .. N /\ \A n \in 1 .. N : ips[n] = AddressAt(walk[n]) /\ walk[n] \in F
  BY <1>1, <1>2
<1>5. PICK n \in 1 .. N : /\ FirstMac(ips) = MACForIP(ips[n])
                          /\ \A j \in 1 .. N : j < n => MACForIP(ips[j]) = NoMac
  BY <1>2, <1>4, FirstMacIs DEF ips
<1> DEFINE p == walk[n]
           h == p[1]
           i == p[2]
<1>6. /\ p \in Places(class) /\ h \in class /\ i \in DOMAIN hosts[h].ips /\ i \in Nat
      /\ h \in Nat /\ ips[n] = hosts[h].ips[i]
  BY <1>3, <1>4, PlacesAre DEF AddressAt
<1>7. hosts[h].ips \in Seq(Ip)
  BY <1>6 DEF HostsFit, HostEntry
<1>8. ASSUME NEW j \in DOMAIN hosts[h].ips, j < i
      PROVE  MACForIP(hosts[h].ips[j]) = NoMac
  <2> DEFINE r == <<h, j>>
  <2>1. r \in Places(class) /\ AddressAt(r) = hosts[h].ips[j] /\ Before(r, p)
    BY <1>6, <1>8, PlacesAre DEF AddressAt, Before
  <2> HIDE DEF r, p
  <2>2. PICK q \in F : AddressAt(q) = AddressAt(r) /\ (q = r \/ Before(q, r))
    BY <2>1, FirstPlaceOf DEF F
  <2>3. Before(q, p)
    <3>1. q \in Places(class) /\ p \in Places(class)
      BY <1>3, <1>6
    <3> QED
      BY <2>1, <2>2, <3>1, WalkOrderIs
  <2>4. PICK m \in 1 .. N : walk[m] = q
    BY <1>1
  <2>5. m < n
    <3>1. p \in Places(class) /\ q \in Places(class)
      BY <1>3, <1>6
    <3>2. ~Before(p, q) /\ p # q
      BY <2>3, <3>1, WalkOrderIs
    <3>3. m # n /\ ~(n < m)
      BY <1>1, <2>4, <3>2 DEF p
    <3> QED
      BY <1>1, <3>3
  <2>6. ips[m] = hosts[h].ips[j]
    BY <1>4, <2>1, <2>2, <2>4
  <2> QED
    BY <1>5, <2>5, <2>6
<1>9. FirstMac(ips) # NoMac
  BY DEF ips
<1>10. FirstMac(hosts[h].ips) = MACForIP(hosts[h].ips[i])
  <2> HIDE DEF h, i
  <2>1. MACForIP(hosts[h].ips[i]) # NoMac
    BY <1>5, <1>6, <1>9
  <2> QED
    BY <1>6, <1>7, <1>8, <2>1, FirstMacIs
<1>11. FirstMac(hosts[h].ips) = FirstMac(ips)
  BY <1>5, <1>6, <1>10
<1> HIDE DEF h
<1> QED
  BY <1>6, <1>11 DEF ips

\* The entry of a class.
LEMMA MergedIs ==
  ASSUME HostsFit, NEW class \in SUBSET DOMAIN hosts
  PROVE  /\ Merged(class) \in HostEntry
         /\ Merged(class).aliases = class \ {CanonicalKey(class)}
         /\ Merged(class).advertised = {}
         /\ Merged(class).mac \in {NoMac} \cup {hosts[h].mac : h \in class}
<1> DEFINE withMac == {h \in class : hosts[h].mac # NoMac}
           mac == IF withMac = {} THEN NoMac ELSE hosts[Max(withMac)].mac
           ips == Merged(class).ips
           aliases == class \ {CanonicalKey(class)}
<1>1. /\ Merged(class).aliases = aliases
      /\ Merged(class).advertised = {}
      /\ Merged(class).mac = mac
      /\ Merged(class) = [ips |-> ips, mac |-> mac, aliases |-> aliases, advertised |-> {}]
  BY DEF Merged
<1>2. mac \in {NoMac} \cup {hosts[h].mac : h \in class}
  <2>1. CASE withMac = {}
    BY <2>1
  <2>2. CASE withMac # {}
    <3>1. IsFiniteSet(class)
      BY PlacesAre
    <3>2. withMac \in SUBSET class /\ class \in SUBSET Nat
      BY GraphAssumption DEF HostsFit
    <3> HIDE DEF withMac
    <3>3. withMac \in SUBSET Nat /\ IsFiniteSet(withMac)
      BY <3>1, <3>2, FS_Subset
    <3>4. Max(withMac) \in class
      BY <2>2, <3>2, <3>3, MaxIs
    <3> QED
      BY <2>2, <3>4
  <2> QED
    BY <2>1, <2>2
<1>3. mac \in Mac \cup {NoMac}
  BY <1>2 DEF HostsFit, HostEntry
<1>4. ips \in Seq(Ip)
  BY MergedAddresses
<1>5. aliases \in SUBSET Host
  BY DEF HostsFit
<1> HIDE DEF mac, ips, aliases
<1> QED
  BY <1>1, <1>2, <1>3, <1>4, <1>5 DEF HostEntry, aliases

-----------------------------------------------------------------------------
(* The graph of a registry                                                 *)

\* An edge of the snapshot is that of an instance from its target, or that of an
\* instance to the parent of its type.
LEMMA SnapshotEdgesAre ==
  ASSUME NEW k \in Advertised(known)
  PROVE  /\ [source |-> <<"host", known[k].target>>, target |-> <<"service", k>>]
              \in SnapshotEdges
         /\ \A f \in SnapshotEdges :
              f.target = <<"service", k>> => f.source = <<"host", known[k].target>>
BY DEF SnapshotEdges

LEMMA SnapshotEdgesLinkNodes ==
  ASSUME NEW f \in SnapshotEdges
  PROVE  f.source \in SnapshotNodes /\ f.target \in SnapshotNodes
BY DEF SnapshotEdges, SnapshotNodes, Advertised, Subtyped

\* What merging leaves alone is answered as it was.
LEMMA UnmergedAnswer ==
  ASSUME registered \in RegistryHosts, known \in RegistryServices, Unmerged,
         UNCHANGED <<registered, known, hosts, services, nodes, edges>>,
         merging' = hosts, left' = DOMAIN hosts
  PROVE  AddressesUnited' /\ ServicesRedirected'
<1>1. AddressesUnited'
  BY DEF AddressesUnited, Unmerged, Names
<1>2. \A k \in Advertised(known) :
        {e.source : e \in {f \in edges : f.target = <<"service", k>>}}
          = {<<"host", services[k]>>}
  <2> SUFFICES ASSUME NEW k \in Advertised(known)
               PROVE  {e.source : e \in {f \in edges : f.target = <<"service", k>>}}
                        = {<<"host", services[k]>>}
    OBVIOUS
  <2>1. edges = SnapshotEdges /\ services[k] = known[k].target
    BY DEF Unmerged, Advertised
  <2>2. \A f \in edges : f.target = <<"service", k>> => f.source = <<"host", services[k]>>
    BY <2>1, SnapshotEdgesAre
  <2>3. \E f \in edges : f.target = <<"service", k>>
    BY <2>1, SnapshotEdgesAre
  <2> QED
    BY <2>2, <2>3
<1>3. \A k \in Advertised(known) :
        known[k].target \in DOMAIN registered =>
          services[k] \in DOMAIN hosts /\ known[k].target \in Names(services[k])
  BY DEF Unmerged, Advertised, Names
<1>4. Dangling = {}
  BY SnapshotEdgesLinkNodes DEF Dangling, Unmerged
<1>5. DOMAIN services = DOMAIN known
  BY DEF Unmerged
<1>6. /\ Dangling' = Dangling /\ Orphaned' = Orphaned
      /\ Advertised(known)' = Advertised(known)
  BY DEF Dangling, Orphaned, Advertised
<1>7. \A h : Names(h)' = Names(h)
  BY DEF Names
<1>8. ServicesRedirected'
  BY <1>2, <1>3, <1>4, <1>5, <1>6, <1>7 DEF ServicesRedirected
<1> QED
  BY <1>1, <1>8

-----------------------------------------------------------------------------
(* The invariant                                                           *)

\* The answer depends on the entries and on the hosts merged only.
LEMMA ComponentsKept ==
  ASSUME MergedIffConnected, pc \in {"again", "done"}, merging' = merging,
         DOMAIN hosts' = DOMAIN hosts,
         \A h \in DOMAIN hosts : hosts'[h].aliases = hosts[h].aliases
  PROVE  MergedIffConnected'
<1>1. \A h \in DOMAIN hosts : Names(h)' = Names(h)
  BY DEF Names
<1>2. \A a, b : Connected(a, b)' <=> Connected(a, b)
  BY DEF Connected, Shares
<1>3. UNION {Names(h)' : h \in DOMAIN hosts'} = DOMAIN merging'
  <2>1. {Names(h)' : h \in DOMAIN hosts'} = {Names(h) : h \in DOMAIN hosts}
    BY <1>1
  <2> QED
    BY <2>1 DEF MergedIffConnected
<1>4. ASSUME NEW h \in DOMAIN hosts', NEW a \in Names(h)'
      PROVE  Names(h)' = {b \in DOMAIN merging' : Connected(a, b)'}
  <2>1. Names(h) = {b \in DOMAIN merging : Connected(a, b)}
    BY <1>1, <1>4 DEF MergedIffConnected
  <2> QED
    BY <1>1, <1>2, <1>4, <2>1
<1> QED
  BY <1>3, <1>4 DEF MergedIffConnected

\* With what merging leaves alone, hosts are answered as they were.
LEMMA ComponentsOfSingletons ==
  ASSUME \A h \in DOMAIN hosts' : hosts'[h].aliases = {},
         \A a \in DOMAIN hosts' :
             {b \in DOMAIN merging' : Connected(a, b)'} = {a},
         DOMAIN merging' = DOMAIN hosts'
  PROVE  MergedIffConnected'
<1>1. \A h \in DOMAIN hosts' : Names(h)' = {h}
  BY DEF Names
<1> QED
  BY <1>1 DEF MergedIffConnected

\* The parts of the invariant depend on the snapshot only.
LEMMA GraphKept ==
  ASSUME UNCHANGED <<registered, known, hosts, services, nodes, edges, left, merging>>
  PROVE  /\ Unmerged' <=> Unmerged
         /\ AddressesUnited' <=> AddressesUnited
         /\ ServicesRedirected' <=> ServicesRedirected
         /\ \A a, b : Connected(a, b)' <=> Connected(a, b)
         /\ MacGroups' = MacGroups /\ IpGroups' = IpGroups
<1>1. Unmerged' <=> Unmerged
  BY DEF Unmerged, SnapshotNodes, SnapshotEdges, Advertised, Subtyped
<1>2. AddressesUnited' <=> AddressesUnited
  BY DEF AddressesUnited, Names
<1>3. ServicesRedirected' <=> ServicesRedirected
  BY DEF ServicesRedirected, Names, Dangling, Orphaned, Advertised
<1>4. \A a, b : Connected(a, b)' <=> Connected(a, b)
  BY DEF Connected, Shares
<1>5. MacGroups' = MacGroups /\ IpGroups' = IpGroups
  BY DEF MacGroups, IpGroups, SameMac, SameAddress
<1> QED
  BY <1>1, <1>2, <1>3, <1>4, <1>5

LEMMA InvariantInit == Init => IInv
<1> SUFFICES ASSUME Init
             PROVE  IInv
  OBVIOUS
<1>1. DOMAIN hosts = {} /\ DOMAIN services = {}
  BY DEF Init
<1>2. TypeOK
  BY <1>1, GraphAssumption DEF Init, TypeOK
<1> QED
  BY <1>1, <1>2 DEF Init, IInv, MacsFit, MergedIffConnected

LEMMA ReloadArpKeeps ==
  ASSUME IInv, ReloadArp
  PROVE  IInv'
<1>1. TypeOK'
  BY GraphAssumption DEF ReloadArp, IInv, TypeOK, unionFind
<1>2. reloads' # 0
  BY GraphAssumption DEF ReloadArp, IInv, TypeOK
<1>3. /\ pc = "enriching" => Unmerged'
      /\ pc = "again" => AddressesUnited' /\ ServicesRedirected'
  BY GraphKept DEF ReloadArp, IInv, unionFind
<1>4. MergedIffConnected'
  <2>1. CASE pc = "again"
    BY <2>1, ComponentsKept DEF ReloadArp, unionFind, IInv
  <2>2. CASE pc # "again"
    BY <2>2 DEF ReloadArp, IInv, MergedIffConnected
  <2> QED
    BY <2>1, <2>2
<1> QED
  BY <1>1, <1>2, <1>3, <1>4 DEF ReloadArp, IInv

LEMMA SnapshotKeeps ==
  ASSUME IInv, Snapshot
  PROVE  IInv'
<1>1. registered \in RegistryHosts /\ known \in RegistryServices /\ TypeOK
  BY DEF IInv
<1>2. /\ DOMAIN hosts' = DOMAIN registered
      /\ \A h \in DOMAIN registered :
           hosts'[h] = [ips |-> registered[h].ips, mac |-> NoMac, aliases |-> {},
                        advertised |-> {}]
  BY DEF Snapshot, SnapshotHosts
<1>3. TypeOK'
  BY <1>1, <1>2, RegistryFits DEF Snapshot, TypeOK, HostEntry
<1>4. Unmerged'
  BY <1>2 DEF Snapshot, Unmerged, SnapshotNodes, SnapshotEdges, Advertised, Subtyped
<1>5. MacsFit'
  BY <1>2 DEF Snapshot, MacsFit
<1> QED
  BY <1>1, <1>3, <1>4, <1>5 DEF Snapshot, IInv, MergedIffConnected

\* What a round of Apply changes of an entry.
LEMMA EnrichedIs ==
  ASSUME TypeOK, DOMAIN services \subseteq Instance, NEW h \in DOMAIN hosts
  PROVE  /\ Enriched(h) \in HostEntry
         /\ Enriched(h).ips = hosts[h].ips
         /\ Enriched(h).aliases = hosts[h].aliases
         /\ Enriched(h).mac = IF FirstMac(hosts[h].ips) = NoMac
                                THEN hosts[h].mac ELSE FirstMac(hosts[h].ips)
         /\ Enriched(h).advertised = {k \in DOMAIN services : services[k] = h}
<1> DEFINE mac == IF FirstMac(hosts[h].ips) = NoMac
                    THEN hosts[h].mac ELSE FirstMac(hosts[h].ips)
           advertised == {k \in DOMAIN services : services[k] = h}
<1>1. hosts[h] \in HostEntry /\ hosts[h].ips \in Seq(Ip) /\ arp \in ArpTable
  BY DEF TypeOK, HostEntry
<1>2. mac \in Mac \cup {NoMac}
  BY <1>1, FirstMacIs DEF HostEntry
<1>3. advertised \in SUBSET Instance
  OBVIOUS
<1>4. Enriched(h) = [hosts[h] EXCEPT !.mac = mac, !.advertised = advertised]
  BY DEF Enriched
<1> HIDE DEF mac, advertised
<1>5. Enriched(h) = [ips |-> hosts[h].ips, mac |-> mac, aliases |-> hosts[h].aliases,
                     advertised |-> advertised]
  BY <1>1, <1>4 DEF HostEntry
<1> QED
  BY <1>1, <1>2, <1>3, <1>5 DEF HostEntry, mac, advertised

LEMMA ApplyKeeps ==
  ASSUME IInv, NEW h \in left, Apply(h)
  PROVE  IInv'
<1>1. /\ pc \in {"enriching", "again"} /\ TypeOK /\ h \in DOMAIN hosts
      /\ registered \in RegistryHosts /\ known \in RegistryServices
  BY DEF IInv, Apply, TypeOK
<1>2. DOMAIN services = DOMAIN known
  BY <1>1 DEF IInv, Unmerged, ServicesRedirected
<1>3. DOMAIN services \subseteq Instance
  BY <1>1, <1>2, RegistryFits
<1>4. /\ DOMAIN hosts' = DOMAIN hosts
      /\ \A g \in DOMAIN hosts : g # h => hosts'[g] = hosts[g]
      /\ hosts'[h] = Enriched(h)
  BY <1>1 DEF Apply
<1>5. \A g \in DOMAIN hosts :
        hosts'[g].ips = hosts[g].ips /\ hosts'[g].aliases = hosts[g].aliases
  BY <1>1, <1>3, <1>4, EnrichedIs
<1>6. TypeOK'
  BY <1>1, <1>3, <1>4, EnrichedIs DEF Apply, TypeOK
<1>7. \A g \in DOMAIN hosts : Names(g)' = Names(g)
  BY <1>5 DEF Names
<1>8. reloads = 0 => MacsFit'
  <2> SUFFICES ASSUME reloads = 0
               PROVE  MacsFit'
    OBVIOUS
  <2>1. MacsFit
    BY DEF IInv
  <2>2. \A g \in DOMAIN hosts : FirstMac(hosts[g].ips)' = FirstMac(hosts[g].ips)
    BY <1>5 DEF Apply, FirstMac, MACForIP
  <2>3. hosts'[h].mac = IF FirstMac(hosts[h].ips) = NoMac
                          THEN hosts[h].mac ELSE FirstMac(hosts[h].ips)
    BY <1>1, <1>3, <1>4, EnrichedIs
  <2>4. ASSUME pc = "enriching", NEW g \in DOMAIN hosts
        PROVE  hosts'[g].mac = IF g \in left' THEN NoMac ELSE FirstMac(hosts[g].ips)'
    BY <1>4, <2>1, <2>2, <2>3, <2>4 DEF Apply, MacsFit
  <2>5. ASSUME pc = "again", NEW g \in DOMAIN hosts
        PROVE  {hosts'[g].mac, FirstMac(hosts[g].ips)'}
                 \subseteq {NoMac} \cup {merging[a].mac : a \in Names(g)}
    BY <1>1, <1>4, <2>1, <2>2, <2>3, <2>5 DEF MacsFit
  <2> QED
    BY <1>1, <1>4, <1>7, <2>4, <2>5 DEF Apply, MacsFit, unionFind
<1>9. CASE pc = "enriching"
  <2>1. Unmerged'
    BY <1>4, <1>5, <1>9 DEF Apply, IInv, Unmerged, SnapshotNodes, SnapshotEdges, Advertised, Subtyped
  <2> QED
    BY <1>1, <1>6, <1>8, <1>9, <2>1 DEF Apply, IInv, MergedIffConnected
<1>10. CASE pc = "again"
  <2>1. MergedIffConnected'
    BY <1>4, <1>5, <1>10, ComponentsKept DEF Apply, unionFind, IInv
  <2>2. AddressesUnited'
    BY <1>4, <1>5, <1>7, <1>10 DEF Apply, unionFind, IInv, AddressesUnited
  <2>3. ServicesRedirected'
    <3>1. ServicesRedirected
      BY <1>10 DEF IInv
    <3>2. ASSUME NEW g \in DOMAIN hosts \ left'
          PROVE  hosts'[g].advertised = {k \in DOMAIN services : services[k] = g}
      <4>1. CASE g = h
        BY <1>1, <1>3, <1>4, <4>1, EnrichedIs
      <4>2. CASE g # h
        BY <1>4, <3>1, <4>2 DEF Apply, ServicesRedirected
      <4> QED
        BY <4>1, <4>2
    <3>3. /\ Dangling' = Dangling /\ Orphaned' = Orphaned
          /\ Advertised(known)' = Advertised(known)
      BY DEF Apply, Dangling, Orphaned, Advertised
    <3>4. UNCHANGED <<registered, known, services, edges>>
      BY DEF Apply
    <3>5. DOMAIN services = DOMAIN known /\ Dangling \subseteq Orphaned
      BY <3>1 DEF ServicesRedirected
    <3>6. ASSUME NEW k \in Advertised(known), known[k].target \in DOMAIN registered
          PROVE  /\ services[k] \in DOMAIN hosts' /\ known[k].target \in Names(services[k])'
                 /\ {e.source : e \in {f \in edges : f.target = <<"service", k>>}}
                      = {<<"host", services[k]>>}
      <4>1. /\ services[k] \in DOMAIN hosts /\ known[k].target \in Names(services[k])
            /\ {e.source : e \in {f \in edges : f.target = <<"service", k>>}}
                 = {<<"host", services[k]>>}
        BY <3>1, <3>6 DEF ServicesRedirected
      <4> QED
        BY <1>4, <1>7, <3>4, <4>1
    <3>7. \A g \in DOMAIN hosts' \ left' :
            hosts'[g].advertised = {k \in DOMAIN services' : services'[k] = g}
      BY <1>4, <3>2, <3>4
    <3> QED
      BY <3>3, <3>4, <3>5, <3>6, <3>7 DEF ServicesRedirected
  <2> QED
    BY <1>1, <1>6, <1>8, <1>10, <2>1, <2>2, <2>3 DEF Apply, IInv
<1> QED
  BY <1>1, <1>9, <1>10

LEMMA GroupKeeps ==
  ASSUME IInv, Group
  PROVE  IInv'
<1>1. /\ registered \in RegistryHosts /\ known \in RegistryServices
      /\ TypeOK /\ Unmerged /\ HostsFit
  BY HostsFitUntilMerged DEF Group, IInv
<1>2. /\ merging' = hosts /\ left = {} /\ pc = "enriching"
      /\ UNCHANGED <<registered, known, arp, reloads, hosts, services, nodes, edges>>
  BY DEF Group
<1>3. Unmerged'
  BY <1>1, <1>2 DEF Unmerged, SnapshotNodes, SnapshotEdges, Advertised, Subtyped
<1>4. reloads = 0 => \A h \in DOMAIN hosts : hosts[h].mac = FirstMac(hosts[h].ips)
  BY <1>2 DEF IInv, MacsFit
<1>5. \A h : FirstMac(hosts[h].ips)' = FirstMac(hosts[h].ips)
  BY <1>2 DEF FirstMac, MACForIP
<1>6. CASE Cardinality(DOMAIN hosts) < 2
  <2>1. pc' = "again" /\ left' = DOMAIN hosts /\ UNCHANGED <<classes, macGroups, ipGroups>>
    BY <1>6 DEF Group
  <2>2. \A a \in DOMAIN hosts : DOMAIN hosts = {a}
    <3>1. Cardinality(DOMAIN hosts) \in Nat /\ IsFiniteSet(DOMAIN hosts)
      BY <1>1, FS_CardinalityType DEF HostsFit
    <3>2. Cardinality(DOMAIN hosts) = 0 \/ Cardinality(DOMAIN hosts) = 1
      BY <1>6, <3>1
    <3> QED
      <4>1. CASE Cardinality(DOMAIN hosts) = 0
        <5>1. DOMAIN hosts = {}
          BY <3>1, <4>1, FS_EmptySet
        <5> QED
          BY <5>1
      <4>2. CASE Cardinality(DOMAIN hosts) = 1
        <5>1. PICK x : DOMAIN hosts = {x}
          BY <3>1, <4>2, FS_Singleton
        <5> QED
          BY <5>1
      <4> QED
        BY <3>2, <4>1, <4>2
  <2>3. \A a \in DOMAIN hosts' : {b \in DOMAIN merging' : Connected(a, b)'} = {a}
    BY <1>2, <2>2 DEF Connected
  <2>4. MergedIffConnected'
    BY <1>1, <1>2, <2>3, ComponentsOfSingletons DEF Unmerged
  <2>5. AddressesUnited' /\ ServicesRedirected'
    BY <1>1, <1>2, <2>1, UnmergedAnswer
  <2>6. reloads = 0 => MacsFit'
    BY <1>2, <1>4, <1>5, <2>1 DEF MacsFit, Names
  <2>7. TypeOK'
    BY <1>1, <1>2, <2>1 DEF TypeOK
  <2> QED
    BY <1>1, <1>2, <2>1, <2>4, <2>5, <2>6, <2>7 DEF IInv
<1>7. CASE ~(Cardinality(DOMAIN hosts) < 2)
  <2>1. /\ classes' = {{h} : h \in DOMAIN hosts} /\ left' = {}
        /\ macGroups' = MacGroups /\ ipGroups' = IpGroups /\ pc' = "uniting"
    BY <1>2, <1>7 DEF Group
  <2>2. Partition'
    BY <1>2, <2>1 DEF Partition
  <2>3. ClassesConnected'
    BY <1>2, <2>1 DEF ClassesConnected, Connected
  <2>4. MacGroups' = MacGroups /\ IpGroups' = IpGroups
    BY <1>2 DEF MacGroups, IpGroups, SameMac, SameAddress
  <2>5. GroupsUnited'
    BY <2>1, <2>4 DEF GroupsUnited
  <2>6. reloads = 0 => MacsFit'
    BY <1>2, <1>4, <1>5, <2>1 DEF MacsFit
  <2>7. TypeOK'
    BY <1>1, <1>2, <2>1, <2>2 DEF TypeOK, Partition
  <2> QED
    BY <1>1, <1>2, <1>3, <2>1, <2>2, <2>3, <2>5, <2>6, <2>7 DEF IInv, MergedIffConnected
<1> QED
  BY <1>6, <1>7

\* One round of either loop.
LEMMA UniteKeeps ==
  ASSUME IInv, pc = "uniting", NEW group,
         group \in MacGroups \cup IpGroups,
         classes' = UnionAll(group),
         macGroups' \subseteq macGroups, ipGroups' \subseteq ipGroups,
         (macGroups \ macGroups') \cup (ipGroups \ ipGroups') \subseteq {group},
         UNCHANGED <<registered, known, arp, reloads, pc, hosts, services, nodes,
                     edges, left, merging>>
  PROVE  IInv'
<1>1. /\ merging = hosts /\ TypeOK /\ Unmerged /\ Partition /\ ClassesConnected
      /\ GroupsUnited
  BY DEF IInv
<1>2. group # {} /\ group \subseteq DOMAIN hosts /\ \A x, y \in group : Shares(x, y)
  BY <1>1, GroupShares
<1>3. Partition'
  BY <1>1, <1>2, UnionAllDividesUp DEF Partition
<1>4. ClassesConnected'
  BY <1>1, <1>2, GraphKept, UnionAllConnects DEF ClassesConnected
<1>5. GroupsUnited'
  <2>1. MacGroups' = MacGroups /\ IpGroups' = IpGroups
    BY GraphKept
  <2>2. macGroups' \subseteq MacGroups /\ ipGroups' \subseteq IpGroups
    BY <1>1 DEF GroupsUnited
  <2>3. ASSUME NEW other \in (MacGroups \ macGroups') \cup (IpGroups \ ipGroups')
        PROVE  \E d \in UnionAll(group) : other \subseteq d
    <3>1. CASE other = group
      <4>1. \E d \in UnionAll(group) : group \subseteq d
        BY <1>1, <1>2, UnionAllUnites DEF Partition
      <4> QED
        BY <3>1, <4>1
    <3>2. CASE other # group
      <4>1. other \in (MacGroups \ macGroups) \cup (IpGroups \ ipGroups)
        BY <3>2
      <4>2. PICK c \in classes : other \subseteq c
        BY <1>1, <4>1 DEF GroupsUnited
      <4> QED
        BY <4>2, UnionAllKeepsTogether
    <3> QED
      BY <3>1, <3>2
  <2> QED
    BY <2>1, <2>2, <2>3 DEF GroupsUnited
<1>6. TypeOK'
  BY <1>1, <1>3 DEF TypeOK, Partition
<1>7. Unmerged'
  BY <1>1, GraphKept
<1>8. MacsFit' <=> MacsFit
  <2>1. \A h : FirstMac(hosts[h].ips)' = FirstMac(hosts[h].ips) /\ Names(h)' = Names(h)
    BY DEF FirstMac, MACForIP, Names
  <2> QED
    BY <2>1 DEF MacsFit
<1> QED
  BY <1>1, <1>3, <1>4, <1>5, <1>6, <1>7, <1>8 DEF IInv, MergedIffConnected

\* An early return of MergeDuplicateHosts: no two hosts share anything.
LEMMA NothingToMergeKeeps ==
  ASSUME IInv, Merge, \A c \in classes : Cardinality(c) = 1
  PROVE  IInv'
<1>1. /\ registered \in RegistryHosts /\ known \in RegistryServices
      /\ TypeOK /\ Unmerged /\ HostsFit /\ Partition
      /\ left = {} /\ merging = hosts /\ pc = "uniting"
  BY HostsFitUntilMerged DEF Merge, IInv
<1>2. /\ left' = DOMAIN hosts /\ pc' = "again"
      /\ UNCHANGED <<registered, known, arp, reloads, hosts, services, nodes, edges, merging>>
  BY DEF Merge, unionFind
<1>3. ASSUME NEW a \in DOMAIN hosts
      PROVE  {b \in DOMAIN merging : Connected(a, b)} = {a}
  <2>1. PICK c \in classes : a \in c
    BY <1>1 DEF Partition
  <2>2. c \subseteq DOMAIN hosts /\ IsFiniteSet(c)
    BY <1>1, FS_Subset DEF Partition, HostsFit
  <2>3. c = {a}
    BY <2>1, <2>2, FS_Singleton
  <2>4. \A group \in MacGroups \cup IpGroups : \E d \in classes : group \subseteq d
    BY <1>1 DEF Merge, IInv, GroupsUnited
  <2> QED
    BY <1>1, <2>1, <2>3, <2>4, SetsAreComponents DEF IInv
<1>4. \A a, b : Connected(a, b)' <=> Connected(a, b)
  BY <1>2 DEF Connected, Shares
<1>5. MergedIffConnected'
  BY <1>1, <1>2, <1>3, <1>4, ComponentsOfSingletons DEF Unmerged
<1>6. AddressesUnited' /\ ServicesRedirected'
  BY <1>1, <1>2, UnmergedAnswer
<1>7. reloads = 0 => MacsFit'
  <2>1. reloads = 0 => \A h \in DOMAIN hosts : hosts[h].mac = FirstMac(hosts[h].ips)
    BY <1>1 DEF IInv, MacsFit
  <2>2. \A h : FirstMac(hosts[h].ips)' = FirstMac(hosts[h].ips)
    BY <1>2 DEF FirstMac, MACForIP
  <2> QED
    BY <1>1, <1>2, <2>1, <2>2 DEF MacsFit, Names
<1>8. TypeOK'
  BY <1>1, <1>2 DEF TypeOK
<1> QED
  BY <1>1, <1>2, <1>5, <1>6, <1>7, <1>8 DEF IInv

\* The classes when the loops are done, and the entries they are merged into.
LEMMA MergedEntries ==
  ASSUME IInv, Merge, ~(\A c \in classes : Cardinality(c) = 1)
  PROVE  /\ \A c \in classes :
              /\ c \subseteq DOMAIN hosts /\ CanonicalKey(c) \in c
              /\ \A a \in c : c = {b \in DOMAIN merging : Connected(a, b)}
         /\ DOMAIN hosts' = {CanonicalKey(c) : c \in classes}
         /\ \A c \in classes : /\ hosts'[CanonicalKey(c)] = Merged(c)
                               /\ Names(CanonicalKey(c))' = c
         /\ \A c \in classes : \A h \in c : Redirect(h) = CanonicalKey(c)
<1>1. /\ TypeOK /\ Unmerged /\ HostsFit /\ Partition /\ ClassesConnected
      /\ GroupsUnited /\ merging = hosts
  BY HostsFitUntilMerged DEF Merge, IInv
<1>2. \A group \in MacGroups \cup IpGroups : \E c \in classes : group \subseteq c
  BY <1>1 DEF Merge, GroupsUnited
<1>3. \A c \in classes : \A a \in c : c = {b \in DOMAIN merging : Connected(a, b)}
  BY <1>1, <1>2, SetsAreComponents
<1>4. \A c \in classes : c \subseteq DOMAIN hosts /\ c \subseteq Host /\ c # {}
  BY <1>1 DEF Partition, HostsFit
<1>5. \A c \in classes : IsFiniteSet(c)
  BY <1>1, <1>4, FS_Subset DEF HostsFit
<1>6. \A c \in classes : CanonicalKey(c) \in c
  BY <1>4, <1>5, CanonicalKeyIsMember
<1> DEFINE ClassOf(h) == CHOOSE class \in classes : h \in class
<1>7. hosts' = [h \in {CanonicalKey(class) : class \in classes} |-> Merged(ClassOf(h))]
  BY DEF Merge
<1>8. \A c \in classes : \A h \in c : ClassOf(h) = c
  BY <1>1 DEF Partition
<1>9. \A c \in classes : \A h \in c : Redirect(h) = CanonicalKey(c)
  BY <1>4, <1>8 DEF Redirect
<1> HIDE DEF ClassOf
<1>10. DOMAIN hosts' = {CanonicalKey(c) : c \in classes}
  BY <1>7
<1>11. \A c \in classes : hosts'[CanonicalKey(c)] = Merged(c)
  BY <1>6, <1>7, <1>8
<1>12. ASSUME NEW c \in classes
       PROVE  Names(CanonicalKey(c))' = c
  <2>1. Merged(c).aliases = c \ {CanonicalKey(c)}
    BY <1>1, <1>4, MergedIs
  <2>2. PICK h : h = CanonicalKey(c)
    OBVIOUS
  <2>3. Names(h)' = {h} \cup hosts'[h].aliases
    BY DEF Names
  <2>4. Names(h)' = c
    BY <1>6, <1>11, <2>1, <2>2, <2>3
  <2> QED
    BY <2>2, <2>4
<1> QED
  BY <1>3, <1>4, <1>6, <1>9, <1>10, <1>11, <1>12

\* Where the instances and their edges go.
LEMMA RedirectedServices ==
  ASSUME IInv, Merge, ~(\A c \in classes : Cardinality(c) = 1)
  PROVE  ServicesRedirected'
<1>1. /\ TypeOK /\ Unmerged /\ Partition /\ known \in RegistryServices
  BY DEF Merge, IInv
<1>2. UNCHANGED <<registered, known>> /\ left' = DOMAIN hosts'
  BY DEF Merge
<1>3. /\ services' = [k \in DOMAIN services |-> Redirect(services[k])]
      /\ edges' = {e \in {[source |-> RemapNode(f.source),
                           target |-> RemapNode(f.target)] : f \in SnapshotEdges} :
                     e.source # e.target}
      /\ nodes' = {n \in SnapshotNodes : n[1] # "host"}
                    \cup {<<"host", h>> : h \in DOMAIN hosts'}
  BY <1>1 DEF Merge, Unmerged
<1>4. /\ DOMAIN services = DOMAIN known
      /\ \A k \in DOMAIN known : services[k] = known[k].target
  BY <1>1 DEF Unmerged
<1>5. ASSUME NEW h \in DOMAIN hosts
      PROVE  \E g \in DOMAIN hosts' : g = Redirect(h) /\ h \in Names(g)'
  <2>1. PICK c \in classes : h \in c
    BY <1>1 DEF Partition
  <2>2. /\ Redirect(h) = CanonicalKey(c) /\ CanonicalKey(c) \in DOMAIN hosts'
        /\ Names(CanonicalKey(c))' = c
    BY <2>1, MergedEntries
  <2>3. PICK g : g = CanonicalKey(c)
    OBVIOUS
  <2>4. Names(g)' = c
    BY <2>2, <2>3
  <2> QED
    BY <2>1, <2>2, <2>3, <2>4
<1>6. \A h : RemapNode(<<"host", h>>) = <<"host", Redirect(h)>>
  BY DEF RemapNode
<1>7. \A k : /\ RemapNode(<<"service", k>>) = <<"service", k>>
             /\ RemapNode(<<"service_type", k>>) = <<"service_type", k>>
  BY DEF RemapNode
<1>8. \A k \in Advertised(known) : services'[k] = Redirect(known[k].target)
  BY <1>3, <1>4 DEF Advertised
<1>9. ASSUME NEW k \in Advertised(known)
      PROVE  {e.source : e \in {f \in edges' : f.target = <<"service", k>>}}
               = {<<"host", services'[k]>>}
  <2> DEFINE own == [source |-> <<"host", services'[k]>>, target |-> <<"service", k>>]
  <2>1. own \in edges'
    <3> DEFINE f == [source |-> <<"host", known[k].target>>, target |-> <<"service", k>>]
    <3>1. f \in SnapshotEdges
      BY SnapshotEdgesAre
    <3>2. own = [source |-> RemapNode(f.source), target |-> RemapNode(f.target)]
      BY <1>6, <1>7, <1>8
    <3>3. own.source # own.target
      OBVIOUS
    <3> HIDE DEF own, f
    <3> QED
      BY <1>3, <3>1, <3>2, <3>3
  <2>2. ASSUME NEW e \in edges', e.target = <<"service", k>>
        PROVE  e.source = <<"host", services'[k]>>
    <3>1. PICK f \in SnapshotEdges :
                 e.source = RemapNode(f.source) /\ e.target = RemapNode(f.target)
      BY <1>3
    <3>2. f.target = <<"service", k>>
      BY <1>7, <2>2, <3>1 DEF SnapshotEdges
    <3>3. f.source = <<"host", known[k].target>>
      BY <3>2, SnapshotEdgesAre
    <3> QED
      BY <1>6, <1>8, <3>1, <3>3
  <2> QED
    BY <2>1, <2>2
<1>10. ASSUME NEW e \in edges', e \notin Orphaned
       PROVE  e.source \in nodes' /\ e.target \in nodes'
  <2>1. PICK f \in SnapshotEdges :
               e.source = RemapNode(f.source) /\ e.target = RemapNode(f.target)
    BY <1>3
  <2>2. CASE \E k \in Advertised(known) :
               f = [source |-> <<"host", known[k].target>>, target |-> <<"service", k>>]
    <3>1. PICK k \in Advertised(known) :
                 f = [source |-> <<"host", known[k].target>>, target |-> <<"service", k>>]
      BY <2>2
    <3>2. e = [source |-> <<"host", Redirect(known[k].target)>>, target |-> <<"service", k>>]
      BY <1>3, <1>6, <1>7, <2>1, <3>1
    <3>3. known[k].target \in DOMAIN hosts
      <4> SUFFICES ASSUME known[k].target \notin DOMAIN hosts
                   PROVE  FALSE
        OBVIOUS
      <4>1. Redirect(known[k].target) = known[k].target
        BY DEF Redirect
      <4> QED
        BY <1>1, <1>10, <3>2, <4>1 DEF Orphaned, Unmerged
    <3>4. e.source \in nodes'
      BY <1>3, <1>5, <3>2, <3>3
    <3>5. <<"service", k>> \in SnapshotNodes
      BY DEF SnapshotNodes, Advertised
    <3> QED
      BY <1>3, <3>2, <3>4, <3>5
  <2>3. CASE \E k \in Subtyped(known) :
               f = [source |-> <<"service", k>>,
                    target |-> <<"service_type", known[k].parent>>]
    <3>1. PICK k \in Subtyped(known) :
                 f = [source |-> <<"service", k>>,
                      target |-> <<"service_type", known[k].parent>>]
      BY <2>3
    <3>2. e.source = <<"service", k>> /\ e.target = <<"service_type", known[k].parent>>
      BY <1>7, <2>1, <3>1
    <3>3. <<"service", k>> \in SnapshotNodes
          /\ <<"service_type", known[k].parent>> \in SnapshotNodes
      BY DEF SnapshotNodes, Subtyped
    <3> QED
      BY <1>3, <3>2, <3>3
  <2> QED
    BY <2>2, <2>3 DEF SnapshotEdges
<1>11. Dangling' \subseteq Orphaned
  BY <1>10 DEF Dangling
<1>12. Advertised(known)' = Advertised(known) /\ Orphaned' = Orphaned
  BY <1>2 DEF Advertised, Orphaned
<1>13. \A k \in Advertised(known) : known[k].target \in DOMAIN registered =>
         services'[k] \in DOMAIN hosts' /\ known[k].target \in Names(services[k])'
  <2> SUFFICES ASSUME NEW k \in Advertised(known), known[k].target \in DOMAIN registered
               PROVE  services'[k] \in DOMAIN hosts' /\ known[k].target \in Names(services[k])'
    OBVIOUS
  <2>1. known[k].target \in DOMAIN hosts
    BY <1>1 DEF Unmerged
  <2>2. PICK g \in DOMAIN hosts' :
               g = Redirect(known[k].target) /\ known[k].target \in Names(g)'
    BY <1>5, <2>1
  <2>3. services'[k] = g
    BY <1>8, <2>2
  <2> QED
    BY <2>2, <2>3
<1>14. DOMAIN services' = DOMAIN known'
  BY <1>2, <1>3, <1>4
<1> QED
  BY <1>2, <1>9, <1>11, <1>12, <1>13, <1>14 DEF ServicesRedirected

LEMMA MergeKeeps ==
  ASSUME IInv, Merge, ~(\A c \in classes : Cardinality(c) = 1)
  PROVE  IInv'
<1>1. /\ registered \in RegistryHosts /\ known \in RegistryServices
      /\ TypeOK /\ Unmerged /\ HostsFit /\ Partition
      /\ left = {} /\ merging = hosts /\ pc = "uniting"
  BY HostsFitUntilMerged DEF Merge, IInv
<1>2. /\ left' = DOMAIN hosts' /\ pc' = "again"
      /\ UNCHANGED <<registered, known, arp, reloads, merging>>
  BY DEF Merge, unionFind
<1>3. DOMAIN hosts' = {CanonicalKey(c) : c \in classes}
  BY MergedEntries
<1>4. ASSUME NEW c \in classes
      PROVE  /\ c \in SUBSET DOMAIN hosts /\ CanonicalKey(c) \in c
             /\ \A a \in c : c = {b \in DOMAIN merging : Connected(a, b)}
             /\ hosts'[CanonicalKey(c)] = Merged(c)
             /\ Names(CanonicalKey(c))' = c
  BY MergedEntries
<1>5. TypeOK'
  <2>1. DOMAIN hosts' \subseteq Host /\ \A h \in DOMAIN hosts' : hosts'[h] \in HostEntry
    BY <1>1, <1>3, <1>4, MergedIs DEF HostsFit
  <2>2. \A k \in DOMAIN services' : services'[k] \in Host \cup {NoHost}
    <3> SUFFICES ASSUME NEW k \in DOMAIN services
                 PROVE  Redirect(services[k]) \in Host \cup {NoHost}
      BY DEF Merge
    <3>1. CASE services[k] \in DOMAIN hosts
      <4>1. PICK c \in classes : services[k] \in c
        BY <1>1, <3>1 DEF Partition
      <4>2. Redirect(services[k]) = CanonicalKey(c)
        BY <4>1, MergedEntries
      <4> QED
        BY <1>1, <1>4, <4>2 DEF HostsFit
    <3>2. CASE services[k] \notin DOMAIN hosts
      BY <1>1, <3>2 DEF Redirect, TypeOK
    <3> QED
      BY <3>1, <3>2
  <2> QED
    BY <1>1, <1>2, <2>1, <2>2 DEF TypeOK
<1>6. AddressesUnited'
  <2>1. DOMAIN merging' = DOMAIN registered'
        /\ \A h \in DOMAIN merging' : merging'[h].ips = registered'[h].ips
    BY <1>1, <1>2 DEF Unmerged
  <2>2. ASSUME NEW g \in DOMAIN hosts', NEW h \in DOMAIN hosts',
               Names(g)' \cap Names(h)' # {}
        PROVE  g = h
    <3>1. PICK c \in classes : g = CanonicalKey(c)
      BY <1>3
    <3>2. PICK d \in classes : h = CanonicalKey(d)
      BY <1>3
    <3>3. Names(g)' = c /\ Names(h)' = d
      BY <1>4, <3>1, <3>2
    <3>4. c = d
      BY <1>1, <2>2, <3>3 DEF Partition
    <3> QED
      BY <3>1, <3>2, <3>4
  <2>3. ASSUME NEW h \in DOMAIN hosts'
        PROVE  ToSet(hosts'[h].ips) = UNION {ToSet(registered'[a].ips) : a \in Names(h)'}
    <3>1. PICK c \in classes : h = CanonicalKey(c)
      BY <1>3
    <3>2. Names(h)' = c /\ hosts'[h] = Merged(c) /\ c \in SUBSET DOMAIN hosts
      BY <1>4, <3>1
    <3>3. ToSet(Merged(c).ips) = UNION {ToSet(hosts[a].ips) : a \in c}
      BY <1>1, <3>2, MergedAddresses
    <3>4. \A a \in c : hosts[a].ips = registered'[a].ips
      BY <1>1, <1>2, <3>2 DEF Unmerged
    <3> QED
      BY <3>2, <3>3, <3>4
  <2> QED
    BY <2>1, <2>2, <2>3 DEF AddressesUnited
<1>7. ServicesRedirected'
  BY RedirectedServices
<1>8. reloads = 0 => MacsFit'
  <2> SUFFICES ASSUME reloads = 0, NEW h \in DOMAIN hosts'
               PROVE  {hosts'[h].mac, FirstMac(hosts[h].ips)'}
                        \subseteq {NoMac} \cup {merging'[a].mac : a \in Names(h)'}
    BY <1>2 DEF MacsFit
  <2>1. PICK c \in classes : h = CanonicalKey(c)
    BY <1>3
  <2>2. Names(h)' = c /\ hosts'[h] = Merged(c) /\ c \in SUBSET DOMAIN hosts
    BY <1>4, <2>1
  <2>3. \A a \in DOMAIN hosts : hosts[a].mac = FirstMac(hosts[a].ips)
    BY <1>1 DEF IInv, MacsFit
  <2>4. FirstMac(hosts[h].ips)' = FirstMac(Merged(c).ips)
    BY <1>2, <2>2 DEF FirstMac, MACForIP
  <2>5. hosts'[h].mac \in {NoMac} \cup {merging'[a].mac : a \in c}
    BY <1>1, <1>2, <2>2, MergedIs
  <2>6. FirstMac(Merged(c).ips) \in {NoMac} \cup {merging'[a].mac : a \in c}
    BY <1>1, <1>2, <2>2, <2>3, MergedFirstMac DEF TypeOK
  <2> QED
    BY <2>2, <2>4, <2>5, <2>6
<1>9. MergedIffConnected'
  <2>1. UNION {Names(h)' : h \in DOMAIN hosts'} = DOMAIN merging'
    <3>1. {Names(h)' : h \in DOMAIN hosts'} = classes
      BY <1>3, <1>4
    <3> QED
      BY <1>1, <1>2, <3>1 DEF Partition
  <2>2. ASSUME NEW h \in DOMAIN hosts', NEW a \in Names(h)'
        PROVE  Names(h)' = {b \in DOMAIN merging' : Connected(a, b)'}
    <3>1. PICK c \in classes : h = CanonicalKey(c)
      BY <1>3
    <3>2. \A x, y : Connected(x, y)' <=> Connected(x, y)
      BY <1>2 DEF Connected, Shares
    <3> QED
      BY <1>2, <1>4, <2>2, <3>1, <3>2
  <2> QED
    BY <2>1, <2>2 DEF MergedIffConnected
<1> QED
  BY <1>1, <1>2, <1>5, <1>6, <1>7, <1>8, <1>9 DEF IInv

LEMMA RespondKeeps ==
  ASSUME IInv, Respond
  PROVE  IInv'
<1>1. /\ pc = "again" /\ pc' = "done" /\ left = {} /\ TypeOK
      /\ UNCHANGED <<registered, known, arp, reloads, hosts, services, nodes,
                     edges, left, unionFind>>
  BY DEF Respond, IInv
<1>2. TypeOK'
  BY <1>1 DEF TypeOK
<1>3. AddressesUnited' /\ ServicesRedirected'
  BY <1>1, GraphKept DEF IInv, unionFind
<1>4. reloads = 0 => MacsFit'
  <2>1. \A h : FirstMac(hosts[h].ips)' = FirstMac(hosts[h].ips) /\ Names(h)' = Names(h)
    BY <1>1 DEF FirstMac, MACForIP, Names
  <2> QED
    BY <1>1, <2>1 DEF IInv, MacsFit, unionFind
<1>5. MergedIffConnected'
  BY <1>1, ComponentsKept DEF IInv, unionFind
<1> QED
  BY <1>1, <1>2, <1>3, <1>4, <1>5 DEF IInv

-----------------------------------------------------------------------------
(* The theorems                                                            *)

\* IInv is inductive: what a request holds between two steps of the handler.
THEOREM Invariance == Spec => []IInv
<1>1. ASSUME IInv, [Next]_vars
      PROVE  IInv'
  <2>1. CASE ReloadArp
    BY <1>1, <2>1, ReloadArpKeeps
  <2>2. CASE Snapshot
    BY <1>1, <2>2, SnapshotKeeps
  <2>3. CASE \E h \in left : Apply(h)
    BY <1>1, <2>3, ApplyKeeps
  <2>4. CASE Group
    BY <1>1, <2>4, GroupKeeps
  <2>5. CASE \E group \in macGroups : UniteByMac(group)
    <3>1. PICK group \in macGroups : UniteByMac(group)
      BY <2>5
    <3>2. group \in MacGroups \cup IpGroups
      BY <1>1, <3>1 DEF UniteByMac, IInv, GroupsUnited
    <3> QED
      BY <1>1, <3>1, <3>2, UniteKeeps DEF UniteByMac
  <2>6. CASE \E group \in ipGroups : UniteByAddress(group)
    <3>1. PICK group \in ipGroups : UniteByAddress(group)
      BY <2>6
    <3>2. group \in MacGroups \cup IpGroups
      BY <1>1, <3>1 DEF UniteByAddress, IInv, GroupsUnited
    <3> QED
      BY <1>1, <3>1, <3>2, UniteKeeps DEF UniteByAddress
  <2>7. CASE Merge
    BY <1>1, <2>7, NothingToMergeKeeps, MergeKeeps
  <2>8. CASE Respond
    BY <1>1, <2>8, RespondKeeps
  <2>9. CASE UNCHANGED vars
    <3>1. UNCHANGED <<registered, known, arp, reloads, pc, hosts, services, nodes,
                      edges, left, classes, macGroups, ipGroups, merging>>
      BY <2>9 DEF vars, unionFind
    <3>2. (TypeOK' <=> TypeOK) /\ (Partition' <=> Partition)
      BY <3>1 DEF TypeOK, Partition
    <3>3. MacsFit' <=> MacsFit
      BY <3>1 DEF MacsFit, FirstMac, MACForIP, Names
    <3>4. MergedIffConnected' <=> MergedIffConnected
      BY <3>1 DEF MergedIffConnected, Names, Connected, Shares
    <3>5. (ClassesConnected' <=> ClassesConnected) /\ (GroupsUnited' <=> GroupsUnited)
      BY <3>1, GraphKept DEF ClassesConnected, GroupsUnited
    <3> QED
      BY <1>1, <3>1, <3>2, <3>3, <3>4, <3>5, GraphKept DEF IInv
  <2> QED
    BY <1>1, <2>1, <2>2, <2>3, <2>4, <2>5, <2>6, <2>7, <2>8, <2>9 DEF Next
<1> QED
  BY <1>1, InvariantInit, PTL DEF Spec

\* The entries of the answer are well formed, and the sets of the union-find divide
\* up the hosts of the snapshot while groups are united.
THEOREM TypeCorrect == Spec => []TypeOK
<1>1. IInv => TypeOK
  BY DEF IInv
<1> QED
  BY <1>1, Invariance, PTL

\* MergeDuplicateHosts merges the hosts that are connected by shared addresses
\* and MACs, no more and no less, whatever the order of its loops.
THEOREM MergesComponents == Spec => []MergedIffConnected
<1>1. IInv => MergedIffConnected
  BY DEF IInv
<1> QED
  BY <1>1, Invariance, PTL

\* Hosts that share an address or a MAC are in one entry.
LEMMA SharedAtOneEntry ==
  ASSUME MergedIffConnected, pc \in {"again", "done"},
         NEW g \in DOMAIN hosts, NEW a \in Names(g), NEW b \in DOMAIN merging,
         Shares(a, b)
  PROVE  b \in Names(g)
<1>1. Names(g) = {c \in DOMAIN merging : Connected(a, c)}
  BY DEF MergedIffConnected
<1> QED
  BY <1>1, SharingConnects

LEMMA NamesWereMerged ==
  ASSUME MergedIffConnected, pc \in {"again", "done"}, NEW g \in DOMAIN hosts
  PROVE  Names(g) \subseteq DOMAIN merging
BY DEF MergedIffConnected

\* In the answer each address and each MAC is at one host: merging neither loses nor
\* spreads an address, and the second enrichment makes no two hosts alike unless the
\* ARP cache was reloaded meanwhile.
THEOREM IdentitiesAtOneHost == Spec => []IdentityAtOneHost
<1>1. ASSUME IInv
      PROVE  AddressAtOneHost
  <2> SUFFICES ASSUME pc = "done", NEW h \in DOMAIN registered,
                      NEW ip \in ToSet(registered[h].ips), MergeKey[ip] # NoKey
               PROVE  {g \in DOMAIN hosts : ip \in ToSet(hosts[g].ips)}
                        = {g \in DOMAIN hosts : h \in Names(g)}
    BY DEF AddressAtOneHost
  <2>1. AddressesUnited /\ MergedIffConnected
    BY <1>1 DEF IInv
  <2>2. ASSUME NEW g \in DOMAIN hosts, ip \in ToSet(hosts[g].ips)
        PROVE  h \in Names(g)
    <3>1. PICK a \in Names(g) : ip \in ToSet(registered[a].ips)
      BY <2>1, <2>2 DEF AddressesUnited
    <3>2. a \in DOMAIN merging /\ h \in DOMAIN merging
      BY <2>1, NamesWereMerged DEF AddressesUnited
    <3>3. ip \in ToSet(merging[a].ips) /\ ip \in ToSet(merging[h].ips)
      BY <2>1, <3>1, <3>2 DEF AddressesUnited
    <3>4. Shares(a, h)
      BY <3>3 DEF Shares
    <3> QED
      BY <2>1, <3>2, <3>4, SharedAtOneEntry
  <2>3. ASSUME NEW g \in DOMAIN hosts, h \in Names(g)
        PROVE  ip \in ToSet(hosts[g].ips)
    BY <2>1, <2>3 DEF AddressesUnited
  <2> QED
    BY <2>2, <2>3
<1>2. ASSUME IInv
      PROVE  MacAtOneHost
  <2> SUFFICES ASSUME pc = "done", reloads = 0, NEW g \in DOMAIN hosts,
                      NEW h \in DOMAIN hosts,
                      hosts[g].mac = hosts[h].mac, hosts[g].mac # NoMac
               PROVE  g = h
    BY DEF MacAtOneHost
  <2>1. AddressesUnited /\ MergedIffConnected /\ MacsFit
    BY <1>2 DEF IInv
  <2>2. PICK a \in Names(g) : hosts[g].mac = merging[a].mac
    BY <2>1 DEF MacsFit
  <2>3. PICK b \in Names(h) : hosts[h].mac = merging[b].mac
    BY <2>1 DEF MacsFit
  <2>4. Shares(a, b)
    BY <2>2, <2>3 DEF Shares
  <2>5. b \in DOMAIN merging
    BY <2>1, NamesWereMerged
  <2>6. b \in Names(g)
    BY <2>1, <2>4, <2>5, SharedAtOneEntry
  <2> QED
    BY <2>1, <2>6 DEF AddressesUnited
<1>3. IInv => IdentityAtOneHost
  BY <1>1, <1>2 DEF IdentityAtOneHost
<1> QED
  BY <1>3, Invariance, PTL

\* In the answer an instance with a registered host is advertised by one host, the one
\* its edge starts from and its target names; only an edge of an instance whose target is
\* not registered can be without a node at its end.
THEOREM ServicesAtOneHost == Spec => []ServiceAtOneHost
<1>1. ASSUME IInv
      PROVE  EdgesLinkNodes
  BY <1>1 DEF IInv, ServicesRedirected, EdgesLinkNodes
<1>2. ASSUME IInv, pc = "done", NEW k \in Advertised(known),
             known[k].target \in DOMAIN registered
      PROVE  LET home == {h \in DOMAIN hosts : known[k].target \in Names(h)}
             IN  /\ home = {services[k]}
                 /\ home = {h \in DOMAIN hosts : k \in hosts[h].advertised}
                 /\ {e.source : e \in {f \in edges : f.target = <<"service", k>>}}
                      = {<<"host", h>> : h \in home}
  <2> DEFINE home == {h \in DOMAIN hosts : known[k].target \in Names(h)}
  <2>1. AddressesUnited /\ ServicesRedirected /\ left = {}
    BY <1>2 DEF IInv
  <2>2. /\ services[k] \in DOMAIN hosts /\ known[k].target \in Names(services[k])
        /\ {e.source : e \in {f \in edges : f.target = <<"service", k>>}}
             = {<<"host", services[k]>>}
    BY <1>2, <2>1 DEF ServicesRedirected
  <2>3. home = {services[k]}
    BY <2>1, <2>2 DEF AddressesUnited
  <2>4. k \in DOMAIN services
    BY <2>1 DEF ServicesRedirected, Advertised
  <2>5. \A h \in DOMAIN hosts :
          hosts[h].advertised = {j \in DOMAIN services : services[j] = h}
    BY <2>1 DEF ServicesRedirected
  <2>6. {h \in DOMAIN hosts : k \in hosts[h].advertised} = {services[k]}
    BY <2>2, <2>4, <2>5
  <2> QED
    BY <2>2, <2>3, <2>6
<1>3. IInv => ServiceAtOneHost
  BY <1>1, <1>2 DEF ServiceAtOneHost
<1> QED
  BY <1>3, Invariance, PTL

=============================================================================
