-------------------------- MODULE EventFeed_proofs --------------------------
(***************************************************************************)
(* The histogram counts every event although old events leave the list and *)
(* old buckets are dropped: for every width and number of bars, every cap  *)
(* of the list, and any clocks that keep to the bounds.                    *)
(***************************************************************************)
EXTENDS EventFeed, FiniteSetTheorems, SequenceTheorems, TLAPS

-----------------------------------------------------------------------------
(* Division                                                                *)

LEMMA DivBounds ==
  ASSUME NEW x \in Int, NEW w \in Nat \ {0}
  PROVE  /\ x \div w \in Int
         /\ w * (x \div w) <= x
         /\ x < w * (x \div w) + w
OBVIOUS

LEMMA DivAtMost ==
  ASSUME NEW x \in Int, NEW w \in Nat \ {0}, NEW k \in Int, x < w * k + w
  PROVE  x \div w <= k
<1> DEFINE q == x \div w
<1>1. q \in Int /\ w * q <= x
  BY DivBounds
<1> HIDE DEF q
<1>2. ASSUME q >= k + 1
      PROVE  FALSE
  <2>1. w * q >= w * (k + 1)
    BY <1>1, <1>2
  <2>2. w * (k + 1) = w * k + w
    OBVIOUS
  <2> QED
    BY <1>1, <2>1, <2>2
<1>3. q <= k
  BY <1>1, <1>2
<1> QED
  BY <1>3 DEF q

LEMMA DivMonotone ==
  ASSUME NEW x \in Int, NEW y \in Int, NEW w \in Nat \ {0}, x <= y
  PROVE  x \div w <= y \div w
<1> DEFINE k == y \div w
<1>1. k \in Int /\ y < w * k + w
  BY DivBounds
<1> HIDE DEF k
<1>2. x < w * k + w
  BY <1>1
<1>3. x \div w <= k
  BY <1>1, <1>2, DivAtMost
<1> QED
  BY <1>3 DEF k

\* What is n widths earlier is at most n buckets earlier.
LEMMA DivShift ==
  ASSUME NEW x \in Int, NEW y \in Int, NEW w \in Nat \ {0}, NEW n \in Nat, y <= x + n * w
  PROVE  y \div w <= x \div w + n
<1> DEFINE k == x \div w
<1>1. k \in Int /\ x < w * k + w
  BY DivBounds
<1> HIDE DEF k
<1>2. w * (k + n) = w * k + n * w /\ n * w \in Int /\ w * k \in Int
  BY <1>1
<1>3. y < w * (k + n) + w
  BY <1>1, <1>2
<1>4. y \div w <= k + n
  BY <1>1, <1>3, DivAtMost
<1> QED
  BY <1>4 DEF k

\* What is d later is at most d, rounded up to buckets, later.
LEMMA DivAdd ==
  ASSUME NEW x \in Int, NEW d \in Nat, NEW w \in Nat \ {0}
  PROVE  /\ (d + w - 1) \div w \in Nat
         /\ (x + d) \div w <= x \div w + (d + w - 1) \div w
<1> DEFINE n == (d + w - 1) \div w
<1>1. n \in Int /\ d + w - 1 < w * n + w
  BY DivBounds
<1>2. n \in Nat
  <2>1. 0 \div w = 0
    OBVIOUS
  <2>2. 0 \div w <= n
    BY DivMonotone
  <2> QED
    BY <1>1, <2>1, <2>2
<1> HIDE DEF n
<1>3. w * n = n * w /\ n * w \in Int
  BY <1>1
<1>4. x + d <= x + n * w
  BY <1>1, <1>3
<1>5. (x + d) \div w <= x \div w + n
  BY <1>2, <1>4, DivShift
<1> QED
  BY <1>2, <1>5 DEF n

-----------------------------------------------------------------------------
(* Types                                                                   *)

LEMMA Constants ==
  /\ EventRingCap \in Nat \ {0} /\ Width \in Nat \ {0} /\ Buckets \in Nat \ {0}
  /\ PruneMargin \in Nat /\ Ahead \in Nat /\ MaxTime \in Nat /\ Lag \in Nat
  /\ Lag <= (PruneMargin + 1) * Width
BY FeedAssumption, LagAssumption

\* A list of histograms' entries: buckets and the counts in them.
LEMMA CountedIs ==
  ASSUME NEW c, DOMAIN c \subseteq Nat, \A k \in DOMAIN c : c[k] \in Nat \ {0}, NEW t \in Nat
  PROVE  /\ t \div Width \in Nat
         /\ DOMAIN Counted(t, c) = DOMAIN c \cup {t \div Width}
         /\ \A k \in DOMAIN Counted(t, c) :
              /\ Counted(t, c)[k] = Count(k, c) + (IF k = t \div Width THEN 1 ELSE 0)
              /\ Counted(t, c)[k] \in Nat \ {0}
<1>1. t \div Width \in Nat
  <2>1. 0 \div Width = 0 /\ 0 \div Width <= t \div Width /\ t \div Width \in Int
    BY Constants, DivMonotone, DivBounds
  <2> QED
    BY <2>1
<1> QED
  BY <1>1 DEF Counted, Count

\* The list of events stays within its cap.
LEMMA PrependIs ==
  ASSUME NEW ev \in DiscoveryEvent, NEW evs \in Seq(DiscoveryEvent), Len(evs) <= EventRingCap
  PROVE  /\ Prepend(ev, evs) \in Seq(DiscoveryEvent)
         /\ Len(Prepend(ev, evs)) <= EventRingCap
<1> DEFINE all == <<ev>> \o evs
           n == IF Len(evs) < EventRingCap THEN Len(evs) + 1 ELSE EventRingCap
<1>1. /\ all \in Seq(DiscoveryEvent) /\ Len(all) = 1 + Len(evs) /\ Len(evs) \in Nat
  BY ConcatProperties
<1>2. n \in Nat /\ 1 <= n /\ n <= Len(all) /\ n <= EventRingCap
  BY <1>1, Constants
<1> HIDE DEF all, n
<1>3. \A i \in 1 .. n : all[i] \in DiscoveryEvent
  BY <1>1, <1>2
<1>4. SubSeq(all, 1, n) \in Seq(DiscoveryEvent) /\ Len(SubSeq(all, 1, n)) = n
  BY <1>2, <1>3, SubSeqProperties
<1> QED
  BY <1>2, <1>4 DEF Prepend, all, n

LEMMA InitEstablishes == Init => IInv
<1> SUFFICES ASSUME Init
             PROVE  IInv
  OBVIOUS
<1>1. now \in Nat /\ highest = now /\ clock = now /\ counts = << >> /\ received = << >>
  BY Constants DEF Init
<1>2. DOMAIN counts = {} /\ DOMAIN received = {}
  BY <1>1
<1>3. TypeOK
  BY <1>1, <1>2, Constants DEF Init, TypeOK
<1> QED
  BY <1>1, <1>2, <1>3 DEF IInv, KeptExact, Spread

-----------------------------------------------------------------------------
(* The steps                                                               *)

\* An event is counted twice over: in the bars and in the history, alike.
LEMMA MessageStep ==
  ASSUME IInv, Message
  PROVE  IInv'
<1>1. PICK t \in 0 .. now + Ahead :
        /\ counts' = Pruned(Counted(t, counts))
        /\ received' = Counted(t, received)
  BY DEF Message
<1>2. /\ now \in Nat /\ highest \in Nat /\ clock \in Nat
      /\ now <= highest /\ highest <= now + Lag /\ highest <= clock + Lag
      /\ now' = now /\ highest' = highest /\ clock' = clock
      /\ t \in Nat /\ t <= now + Ahead
  BY Constants DEF Message, IInv, TypeOK
<1> DEFINE b == t \div Width
           low == now \div Width - Buckets - PruneMargin
           cc == Counted(t, counts)
           cr == Counted(t, received)
<1>3. /\ b \in Nat
      /\ DOMAIN cc = DOMAIN counts \cup {b} /\ DOMAIN cr = DOMAIN received \cup {b}
      /\ \A k \in DOMAIN cc : /\ cc[k] = Count(k, counts) + (IF k = b THEN 1 ELSE 0)
                              /\ cc[k] \in Nat \ {0}
      /\ \A k \in DOMAIN cr : /\ cr[k] = Count(k, received) + (IF k = b THEN 1 ELSE 0)
                              /\ cr[k] \in Nat \ {0}
  BY <1>2, CountedIs DEF IInv, TypeOK
<1>4. /\ DOMAIN counts' = {j \in DOMAIN cc : j >= low}
      /\ \A k \in DOMAIN counts' : counts'[k] = cc[k]
      /\ DOMAIN received' = DOMAIN cr
      /\ \A k \in DOMAIN received' : received'[k] = cr[k]
  BY <1>1 DEF Pruned
<1>5. /\ DOMAIN counts \subseteq Nat /\ DOMAIN received \subseteq Nat
      /\ \A k \in DOMAIN counts : counts[k] \in Nat \ {0}
      /\ \A k \in DOMAIN received : received[k] \in Nat \ {0}
      /\ DOMAIN counts \subseteq DOMAIN received
  BY DEF IInv, TypeOK, KeptExact
<1>6. now \div Width \in Int /\ highest \div Width \in Int /\ now \div Width <= highest \div Width
  BY <1>2, Constants, DivBounds, DivMonotone
<1> HIDE DEF b, cc, cr
<1>7. TypeOK'
  <2>1. /\ DOMAIN counts' \subseteq Nat /\ \A k \in DOMAIN counts' : counts'[k] \in Nat \ {0}
        /\ DOMAIN received' \subseteq Nat /\ \A k \in DOMAIN received' : received'[k] \in Nat \ {0}
    BY <1>3, <1>4, <1>5
  <2>2. events' \in Seq(DiscoveryEvent) /\ Len(events') <= EventRingCap
    BY PrependIs DEF Message, IInv, TypeOK
  <2>3. selected' \in DOMAIN Graph.nodes \cup {Nothing}
    BY DEF Message, IInv, TypeOK
  <2> QED
    BY <1>2, <2>1, <2>2, <2>3 DEF TypeOK
<1>8. KeptExact'
  <2>1. DOMAIN counts' \subseteq DOMAIN received'
    BY <1>3, <1>4, <1>5
  <2>2. ASSUME NEW k \in DOMAIN received', k >= highest \div Width - Buckets - PruneMargin
        PROVE  Count(k, counts)' = received'[k]
    <3>1. Count(k, counts) = Count(k, received)
      <4>1. CASE k \in DOMAIN received
        BY <2>2, <4>1 DEF IInv, KeptExact, Count
      <4>2. CASE k \notin DOMAIN received
        BY <1>5, <4>2 DEF Count
      <4> QED
        BY <4>1, <4>2
    <3>2. k \in Int /\ k >= low
      BY <1>3, <1>4, <1>5, <1>6, <2>2, Constants
    <3>3. CASE k \in DOMAIN cc
      BY <1>3, <1>4, <3>1, <3>2, <3>3 DEF Count
    <3>4. CASE k \notin DOMAIN cc
      <4>1. k # b /\ k \in DOMAIN received /\ Count(k, counts) = 0
        BY <1>3, <1>4, <3>4 DEF Count
      <4>2. Count(k, received) \in Nat \ {0}
        BY <1>5, <4>1 DEF Count
      <4> QED
        BY <3>1, <4>1, <4>2
    <3> QED
      BY <3>3, <3>4
  <2> QED
    BY <1>2, <2>1, <2>2 DEF KeptExact
<1>9. Spread'
  <2>1. /\ (now + Lag + Ahead) \div Width \in Int /\ (highest + Ahead) \div Width \in Int
        /\ b <= (highest + Ahead) \div Width
        /\ (highest + Ahead) \div Width <= (now + Lag + Ahead) \div Width
    BY <1>2, Constants, DivMonotone, DivBounds DEF b
  <2>2. \A k \in DOMAIN received' : k <= (highest + Ahead) \div Width
    BY <1>3, <1>4, <2>1 DEF IInv, Spread
  <2>3. DOMAIN counts' \subseteq low .. ((now + Lag + Ahead) \div Width)
    <3> SUFFICES ASSUME NEW k \in DOMAIN counts'
                 PROVE  k \in low .. ((now + Lag + Ahead) \div Width)
      OBVIOUS
    <3>1. k \in DOMAIN received' /\ k \in Int /\ k >= low
      BY <1>3, <1>4, <1>5
    <3> QED
      BY <1>6, <2>1, <2>2, <3>1, Constants
  <2> QED
    BY <1>2, <2>2, <2>3 DEF Spread
<1> QED
  BY <1>7, <1>8, <1>9 DEF IInv

\* When only clocks change, the latest time can only grow: fewer buckets have to be
\* exact, and more are allowed.
LEMMA ClockSteps ==
  ASSUME IInv, highest' \in Nat, highest <= highest', UNCHANGED <<counts, received>>, TypeOK'
  PROVE  IInv'
<1>1. /\ highest \in Nat
      /\ highest \div Width \in Int /\ highest' \div Width \in Int
      /\ highest \div Width <= highest' \div Width
      /\ (highest + Ahead) \div Width \in Int /\ (highest' + Ahead) \div Width \in Int
      /\ (highest + Ahead) \div Width <= (highest' + Ahead) \div Width
      /\ DOMAIN received \subseteq Nat
  <2>1. highest \in Nat /\ DOMAIN received \subseteq Nat
    BY DEF IInv, TypeOK
  <2>2. Width \in Nat \ {0} /\ Ahead \in Nat
    BY Constants
  <2>3. /\ highest + Ahead \in Int /\ highest' + Ahead \in Int
        /\ highest + Ahead <= highest' + Ahead
    <3>1. \A x, y, d \in Nat : x <= y => x + d \in Int /\ y + d \in Int /\ x + d <= y + d
      OBVIOUS
    <3> QED
      BY <2>1, <2>2, <3>1
  <2>4. /\ highest \div Width \in Int /\ highest' \div Width \in Int
        /\ (highest + Ahead) \div Width \in Int /\ (highest' + Ahead) \div Width \in Int
    <3>1. \A x \in Int : x \div Width \in Int
      BY <2>2, DivBounds
    <3>2. highest \in Int /\ highest' \in Int
      BY <2>1
    <3> QED
      BY <2>3, <3>1, <3>2
  <2>5. \A x, y \in Int : x <= y => x \div Width <= y \div Width
    BY <2>2, DivMonotone
  <2>6. highest \div Width <= highest' \div Width
    <3>1. highest \in Int /\ highest' \in Int
      BY <2>1
    <3> QED
      BY <2>5, <3>1
  <2>7. (highest + Ahead) \div Width <= (highest' + Ahead) \div Width
    BY <2>3, <2>5
  <2> QED
    BY <2>1, <2>4, <2>6, <2>7
<1>2. KeptExact'
  BY <1>1, Constants DEF IInv, KeptExact, Count
<1>3. Spread'
  <2>1. PICK t \in 0 .. highest :
          DOMAIN counts \subseteq
            (t \div Width - Buckets - PruneMargin) .. ((t + Lag + Ahead) \div Width)
    BY DEF IInv, Spread
  <2>2. t \in 0 .. highest'
    BY <1>1
  <2>3. \A k \in DOMAIN received : k <= (highest' + Ahead) \div Width
    BY <1>1 DEF IInv, Spread
  <2> QED
    BY <2>1, <2>2, <2>3 DEF Spread
<1> QED
  BY <1>2, <1>3 DEF IInv

LEMMA NextPreserves == IInv /\ [Next]_vars => IInv'
<1> SUFFICES ASSUME IInv, [Next]_vars
             PROVE  IInv'
  OBVIOUS
<1>0. now \in Nat /\ highest \in Nat /\ clock \in Nat /\ Lag \in Nat
  BY Constants DEF IInv, TypeOK
<1>1. CASE Message
  BY <1>1, MessageStep
<1>2. CASE Passes
  <2>1. highest' \in Nat /\ highest <= highest' /\ TypeOK'
    BY <1>0, <1>2 DEF Passes, IInv, TypeOK
  <2> QED
    BY <1>2, <2>1, ClockSteps DEF Passes
<1>3. CASE SetBack
  <2>1. highest' = highest /\ TypeOK'
    BY <1>0, <1>3 DEF SetBack, IInv, TypeOK
  <2> QED
    BY <1>0, <1>3, <2>1, ClockSteps DEF SetBack
<1>4. CASE TickClock
  <2>1. highest' = highest /\ TypeOK'
    BY <1>0, <1>4 DEF TickClock, IInv, TypeOK
  <2> QED
    BY <1>0, <1>4, <2>1, ClockSteps DEF TickClock
<1>5. CASE Select \/ UNCHANGED vars
  <2>1. highest' = highest /\ TypeOK' /\ UNCHANGED <<counts, received>>
    BY <1>5 DEF Select, vars, IInv, TypeOK
  <2> QED
    BY <1>0, <2>1, ClockSteps
<1> QED
  BY <1>1, <1>2, <1>3, <1>4, <1>5 DEF Next

\* The inductive invariant, for all clocks that keep to their bounds.
THEOREM Invariance == Spec => []IInv
  BY InitEstablishes, NextPreserves, PTL DEF Spec

\* The list stays within its cap and the clocks within their bounds.
THEOREM TypeCorrect == Spec => []TypeOK
<1>1. IInv => TypeOK
  BY DEF IInv
<1> QED
  BY Invariance, <1>1, PTL

\* A clock on the screen that is late by no more than the margin shows only buckets
\* that pruning has spared.
THEOREM BarsAreExact == Spec => []BarsExact
<1>1. IInv => BarsExact
  <2> SUFFICES ASSUME IInv, NEW k \in Shown
               PROVE  Count(k, counts) = Count(k, received)
    BY DEF BarsExact
  <2>1. /\ clock \in Nat /\ highest \in Nat /\ highest <= clock + Lag
        /\ DOMAIN counts \subseteq DOMAIN received
    BY DEF IInv, TypeOK, KeptExact
  <2>2. highest <= clock + (PruneMargin + 1) * Width
    <3>1. (PruneMargin + 1) * Width \in Int
      BY Constants
    <3> QED
      BY <2>1, <3>1, Constants
  <2>3. highest \div Width <= clock \div Width + (PruneMargin + 1)
    BY <2>1, <2>2, Constants, DivShift
  <2>4. highest \div Width \in Int /\ clock \div Width \in Int
    BY <2>1, Constants, DivBounds
  <2>5. k >= highest \div Width - Buckets - PruneMargin
    BY <2>3, <2>4, Constants DEF Shown
  <2> QED
    BY <2>1, <2>5 DEF IInv, KeptExact, Count
<1> QED
  BY Invariance, <1>1, PTL

\* The map of the buckets does not grow with the time a tab is open.
THEOREM BucketsAreBounded == Spec => []BucketsBounded
<1>1. IInv => BucketsBounded
  <2> SUFFICES ASSUME IInv
               PROVE  BucketsBounded
    OBVIOUS
  <2>1. PICK t \in 0 .. highest :
          DOMAIN counts \subseteq
            (t \div Width - Buckets - PruneMargin) .. ((t + Lag + Ahead) \div Width)
    BY DEF IInv, Spread
  <2> DEFINE q == t \div Width
             low == q - Buckets - PruneMargin
             high == (t + Lag + Ahead) \div Width
             n == (Lag + Ahead + Width - 1) \div Width
  <2>2. t \in Int /\ Lag + Ahead \in Nat /\ t + (Lag + Ahead) = t + Lag + Ahead
    BY Constants DEF IInv, TypeOK
  <2>3. q \in Int /\ high \in Int
    BY <2>2, Constants, DivBounds
  <2>4. n \in Nat /\ high <= q + n
    <3>1. (t + (Lag + Ahead)) \div Width <= t \div Width + ((Lag + Ahead) + Width - 1) \div Width
      BY <2>2, Constants, DivAdd
    <3>2. ((Lag + Ahead) + Width - 1) \div Width \in Nat
      BY <2>2, Constants, DivAdd
    <3> QED
      BY <2>2, <3>1, <3>2
  <2>5. DOMAIN counts \in SUBSET (low .. high)
    BY <2>1
  <2> HIDE DEF q, high, n
  <2>6. low \in Int /\ low <= q
    BY <2>3, Constants
  <2>7. /\ IsFiniteSet(low .. high)
        /\ Cardinality(low .. high) = IF low > high THEN 0 ELSE high - low + 1
    BY <2>3, <2>6, FS_Interval
  <2>8. IsFiniteSet(DOMAIN counts) /\ Cardinality(DOMAIN counts) <= Cardinality(low .. high)
    BY <2>5, <2>7, FS_Subset
  <2>9. Cardinality(low .. high) <= Buckets + PruneMargin + 1 + n
    BY <2>3, <2>4, <2>6, <2>7, Constants
  <2>10. Cardinality(DOMAIN counts) \in Nat /\ Cardinality(low .. high) \in Nat
    BY <2>7, <2>8, FS_CardinalityType
  <2>11. Cardinality(DOMAIN counts) <= Buckets + PruneMargin + 1 + n
    BY <2>4, <2>8, <2>9, <2>10, Constants
  <2> QED
    BY <2>11 DEF BucketsBounded, n
<1> QED
  BY Invariance, <1>1, PTL

\* Whatever the graph, the names and the addresses: the rule by which an event makes
\* a device pulse is no wider than the one by which it is filtered to the device.
THEOREM PulsesAreListed == Spec => []PulseIsListed
<1>1. IInv => PulseIsListed
  <2> DEFINE ev == events[1]
  <2> SUFFICES ASSUME IInv, events # << >>,
                      selected \in RelatedNodes(ev, Graph), selected.kind = "host",
                      selected.name \notin Short, Graph.nodes[selected].label \notin Short
               PROVE  1 \in FilteredEvents
    BY DEF PulseIsListed
  <2>1. 1 \in DOMAIN events
    <3>1. events \in Seq(DiscoveryEvent)
      BY DEF IInv, TypeOK
    <3> QED
      BY <3>1, EmptySeq
  <2>2. selected \in DOMAIN Graph.nodes
    BY DEF RelatedNodes
  <2>3. Graph.nodes[selected].label \in Needles(selected.name) \/
        Graph.nodes[selected].label = selected.name
    BY <2>2, LabelAssumption DEF Needles
  <2>4. selected.name \in Needles(selected.name)
    BY DEF Needles
  <2>5. EventRelatesToHost(ev, selected)
    <3>1. CASE ev.src \in Graph.nodes[selected].ips
      BY <3>1 DEF EventRelatesToHost
    <3>2. CASE selected.name \in ev.names
      BY <2>4, <3>2 DEF EventRelatesToHost
    <3>3. CASE Graph.nodes[selected].label \in ev.names
      BY <2>3, <2>4, <3>3 DEF EventRelatesToHost
    <3> QED
      BY <3>1, <3>2, <3>3 DEF RelatedNodes
  <2> QED
    BY <2>1, <2>5 DEF FilteredEvents
<1> QED
  BY Invariance, <1>1, PTL

=============================================================================
