-------------------------- MODULE EventRing_proofs --------------------------
(***************************************************************************)
(* Proofs about the event ring, for every configured capacity (zero and    *)
(* negative ones included) and every set of events.                        *)
(***************************************************************************)
EXTENDS EventRing, TLAPS

\* The ring always has at least one slot, because NewRing clamps.
LEMMA CapPositive == cap \in Nat /\ cap >= 1
BY CapacityAssumption DEF cap

\* The index arithmetic of Snapshot wraps at most once.
LEMMA IndexWrapsOnce ==
    ASSUME NEW s \in 0 .. cap - 1, NEW i \in 0 .. cap - 1
    PROVE  /\ s + i < cap => Index(s, i) = s + i
           /\ s + i >= cap => Index(s, i) = s + i - cap
           /\ Index(s, i) \in 0 .. cap - 1
BY CapPositive DEF Index

\* A snapshot visits retained slots only, each of which holds a real event.
LEMMA ContentsWritten ==
    ASSUME IInv
    PROVE  /\ RingLen \in 0 .. cap
           /\ Contents \in Seq(Event)
           /\ Len(Contents) = RingLen
<1> USE CapPositive
<1>1. RingLen \in 0 .. cap
  BY DEF IInv, TypeOK, RingLen, Slots
<1>2. ASSUME NEW i \in 1 .. RingLen
      PROVE  buf[Index(Start, i - 1)] \in Event
  <2>1. /\ Start \in 0 .. cap - 1 /\ i - 1 \in 0 .. cap - 1
        /\ ~full => Start + (i - 1) < head
        /\ head < cap
    BY <1>1, <1>2 DEF IInv, TypeOK, Start, RingLen, Slots
  <2>2. /\ Index(Start, i - 1) \in Slots
        /\ full \/ Index(Start, i - 1) < head
    <3>1. /\ Start + (i - 1) < cap => Index(Start, i - 1) = Start + (i - 1)
          /\ Index(Start, i - 1) \in 0 .. cap - 1
      BY <2>1, IndexWrapsOnce
    <3> QED
      BY <2>1, <3>1 DEF IInv, TypeOK, Slots
  <2> QED
    BY <2>2 DEF IInv, WrittenSlots
<1>3. Contents \in [1 .. RingLen -> Event]
  BY <1>2 DEF Contents
<1> QED
  BY <1>1, <1>3

-----------------------------------------------------------------------------
\* The inductive invariant holds initially ...
LEMMA InitEstablishes == Init => IInv
BY CapPositive, EventAssumption DEF Init, IInv, TypeOK, WrittenSlots, Slots

\* ... and Add and Snapshot preserve it.
LEMMA NextPreserves == IInv /\ [Next]_vars => IInv'
<1> SUFFICES ASSUME IInv, [Next]_vars
             PROVE  IInv'
  OBVIOUS
<1> USE CapPositive
<1>1. ASSUME NEW e \in Event, Add(e)
      PROVE  IInv'
  <2>1. TypeOK'
    <3>1. /\ buf' \in [Slots -> Event \cup {ZeroEvent}]
          /\ response' \in Seq(Event)
      BY <1>1 DEF IInv, TypeOK, Add
    <3>2. head' \in Slots
      BY <1>1 DEF IInv, TypeOK, Add, Slots
    <3>3. full' \in BOOLEAN
      BY <1>1 DEF IInv, TypeOK, Add
    <3>4. Slots' = Slots
      BY DEF Slots, cap
    <3> QED
      BY <3>1, <3>2, <3>3, <3>4 DEF TypeOK
  <2>2. WrittenSlots'
    BY <1>1, EventAssumption DEF IInv, TypeOK, WrittenSlots, Add, Slots
  <2> QED
    BY <2>1, <2>2 DEF IInv
<1>2. CASE Snapshot
  <2>1. TypeOK'
    BY <1>2, ContentsWritten DEF IInv, TypeOK, Snapshot, Slots
  <2>2. WrittenSlots'
    BY <1>2 DEF IInv, WrittenSlots, Snapshot, Slots
  <2> QED
    BY <2>1, <2>2 DEF IInv
<1>3. CASE UNCHANGED vars
  BY <1>3 DEF IInv, TypeOK, WrittenSlots, Slots, vars
<1> QED
  BY <1>1, <1>2, <1>3 DEF Next

\* For every capacity, the ring never serves a slot that was not written.
THEOREM TypeCorrect == Spec => []TypeOK
<1>1. IInv => TypeOK
  BY DEF IInv
<1> QED
  BY InitEstablishes, NextPreserves, <1>1, PTL DEF Spec

-----------------------------------------------------------------------------
\* Add to a full ring overwrites the oldest event and keeps the others in order.
LEMMA AddToFull ==
    ASSUME IInv, NEW e \in Event, Add(e), full
    PROVE  Contents' = Tail(Append(Contents, e))
<1> USE CapPositive
<1> DEFINE all == Append(Contents, e)
<1>1. /\ head \in 0 .. cap - 1
      /\ head' = IF head + 1 >= cap THEN 0 ELSE head + 1
      /\ head' \in 0 .. cap - 1
      /\ buf \in [0 .. cap - 1 -> Event \cup {ZeroEvent}]
      /\ buf' = [buf EXCEPT ![head] = e]
      /\ full'
  BY DEF IInv, TypeOK, Slots, Add
<1>2. /\ Contents = [i \in 1 .. cap |-> buf[Index(head, i - 1)]]
      /\ Contents' = [i \in 1 .. cap |-> buf'[Index(head', i - 1)]]
  BY <1>1 DEF Contents, RingLen, Start, Index, cap
<1>3. Contents \in Seq(Event) /\ Len(Contents) = cap
  BY ContentsWritten DEF RingLen
<1>4. /\ Tail(all) \in Seq(Event) /\ Len(Tail(all)) = cap
      /\ \A i \in 1 .. cap : Tail(all)[i] = all[i + 1]
      /\ \A i \in 1 .. cap : all[i] = Contents[i]
      /\ all[cap + 1] = e
  BY <1>3
<1>5. ASSUME NEW i \in 1 .. cap
      PROVE  buf'[Index(head', i - 1)] = Tail(all)[i]
  <2>1. CASE i = cap
    <3>1. Index(head', i - 1) = head
      <4>1. i - 1 \in 0 .. cap - 1
        OBVIOUS
      <4>2. /\ head' + (i - 1) < cap => Index(head', i - 1) = head' + (i - 1)
            /\ head' + (i - 1) >= cap => Index(head', i - 1) = head' + (i - 1) - cap
        BY <1>1, <4>1, IndexWrapsOnce
      <4>3. head' = IF head + 1 >= cap THEN 0 ELSE head + 1
        BY <1>1
      <4> QED
        BY <1>1, <2>1, <4>2, <4>3
    <3> QED
      BY <1>1, <1>4, <2>1, <3>1
  <2>2. CASE i < cap
    <3>1. Tail(all)[i] = buf[Index(head, i)]
      <4>1. i + 1 \in 1 .. cap /\ (i + 1) - 1 = i
        BY <2>2
      <4> QED
        BY <1>2, <1>4, <4>1
    <3>2. i \in 0 .. cap - 1 /\ i - 1 \in 0 .. cap - 1
      BY <2>2
    <3>3. /\ Index(head', i - 1) = Index(head, i)
          /\ Index(head, i) # head
          /\ Index(head, i) \in 0 .. cap - 1
      <4>1. /\ head + i < cap => Index(head, i) = head + i
            /\ head + i >= cap => Index(head, i) = head + i - cap
            /\ Index(head, i) \in 0 .. cap - 1
        BY <1>1, <3>2, IndexWrapsOnce
      <4>2. /\ head' + (i - 1) < cap => Index(head', i - 1) = head' + (i - 1)
            /\ head' + (i - 1) >= cap => Index(head', i - 1) = head' + (i - 1) - cap
        BY <1>1, <3>2, IndexWrapsOnce
      <4> QED
        BY <1>1, <2>2, <4>1, <4>2
    <3> QED
      BY <1>1, <3>1, <3>3
  <2>3. i = cap \/ i < cap
    OBVIOUS
  <2> QED
    BY ONLY <2>1, <2>2, <2>3
<1>6. Tail(all) = [i \in 1 .. cap |-> Tail(all)[i]]
  <2> DEFINE rest == Tail(all)
  <2>1. rest \in Seq(Event) /\ Len(rest) = cap
    BY <1>4
  <2> HIDE DEF rest
  <2>2. rest = [i \in 1 .. cap |-> rest[i]]
    BY <2>1
  <2> QED
    BY <2>2 DEF rest
<1> QED
  BY <1>2, <1>5, <1>6

\* Add to a ring with room keeps every event and appends the new one.
LEMMA AddWithRoom ==
    ASSUME IInv, NEW e \in Event, Add(e), ~full
    PROVE  Contents' = Append(Contents, e)
<1> USE CapPositive
<1> DEFINE all == Append(Contents, e)
<1>1. /\ head \in 0 .. cap - 1
      /\ head' = IF head + 1 >= cap THEN 0 ELSE head + 1
      /\ full' <=> head + 1 >= cap
      /\ buf \in [0 .. cap - 1 -> Event \cup {ZeroEvent}]
      /\ buf' = [buf EXCEPT ![head] = e]
  BY DEF IInv, TypeOK, Slots, Add
<1>2. /\ Contents = [i \in 1 .. head |-> buf[Index(0, i - 1)]]
      /\ Contents' = [i \in 1 .. head + 1 |-> buf'[Index(0, i - 1)]]
  <2>1. Start = 0 /\ RingLen = head
    BY DEF Start, RingLen
  <2>2. Start' = 0 /\ RingLen' = head + 1
    <3>1. CASE head + 1 >= cap
      <4>1. full' /\ head' = 0 /\ head + 1 = cap
        BY <1>1, <3>1
      <4> QED
        BY <4>1 DEF Start, RingLen, cap
    <3>2. CASE ~(head + 1 >= cap)
      <4>1. ~full' /\ head' = head + 1
        BY <1>1, <3>2
      <4> QED
        BY <4>1 DEF Start, RingLen
    <3> QED
      BY ONLY <3>1, <3>2
  <2> QED
    BY <2>1, <2>2 DEF Contents, Index, cap
<1>3. Contents \in Seq(Event) /\ Len(Contents) = head
  BY ContentsWritten DEF RingLen
<1>4. /\ all \in Seq(Event) /\ Len(all) = head + 1
      /\ \A i \in 1 .. head : all[i] = Contents[i]
      /\ all[head + 1] = e
  BY <1>1, <1>3
<1>5. ASSUME NEW i \in 1 .. head + 1
      PROVE  buf'[Index(0, i - 1)] = all[i]
  <2>1. i - 1 \in 0 .. cap - 1 /\ 0 \in 0 .. cap - 1
    BY <1>1
  <2>2. Index(0, i - 1) = i - 1
    BY <2>1, IndexWrapsOnce
  <2>3. CASE i = head + 1
    BY <1>1, <1>4, <2>2, <2>3
  <2>4. CASE i <= head
    <3>1. all[i] = buf[i - 1]
      BY <1>1, <1>2, <1>4, <2>2, <2>4
    <3> QED
      BY <1>1, <2>1, <2>2, <2>4, <3>1
  <2>5. i = head + 1 \/ i <= head
    BY <1>1
  <2> QED
    BY ONLY <2>3, <2>4, <2>5
<1>6. all = [i \in 1 .. head + 1 |-> all[i]]
  <2>1. \A s \in Seq(Event) : s = [i \in 1 .. Len(s) |-> s[i]]
    OBVIOUS
  <2>2. all \in Seq(Event) /\ Len(all) = head + 1
    BY <1>4
  <2> HIDE DEF all
  <2> QED
    BY <2>1, <2>2
<1> QED
  BY <1>2, <1>5, <1>6

\* So every Add is a Record of the abstract log.
LEMMA AddIsRecord ==
    ASSUME IInv, NEW e \in Event, Add(e)
    PROVE  Log!Record(e)
<1>1. /\ Contents \in Seq(Event)
      /\ Len(Contents) = RingLen
      /\ Len(Append(Contents, e)) = RingLen + 1
  BY ContentsWritten
<1>2. CASE full
  <2>1. Log!Newest(Append(Contents, e)) = Tail(Append(Contents, e))
    BY <1>1, <1>2, CapPositive DEF Log!Newest, RingLen
  <2> QED
    BY <1>2, <2>1, AddToFull DEF Log!Record, Add
<1>3. CASE ~full
  <2>1. Log!Newest(Append(Contents, e)) = Append(Contents, e)
    BY <1>1, <1>3, CapPositive DEF Log!Newest, RingLen, IInv, TypeOK, Slots
  <2> QED
    BY <1>3, <2>1, AddWithRoom DEF Log!Record, Add
<1> QED
  BY <1>2, <1>3

\* The ring implements the abstract event log: initially empty, and every Add
\* is a Record, every Snapshot a Serve of the abstract log.
THEOREM RingImplementsLog == Spec => RefinesLog
<1>1. Init => Log!Init
  BY CapPositive DEF Init, Log!Init, Contents, RingLen
<1>2. IInv /\ [Next]_vars => [Log!Next]_(Log!vars)
  <2> SUFFICES ASSUME IInv, [Next]_vars
               PROVE  [Log!Next]_(Log!vars)
    OBVIOUS
  <2>1. ASSUME NEW e \in Event, Add(e)
        PROVE  Log!Next
    BY <2>1, AddIsRecord DEF Log!Next
  <2>2. CASE Snapshot
    BY <2>2 DEF Snapshot, Log!Next, Log!Serve, Contents, RingLen, Start
  <2>3. CASE UNCHANGED vars
    BY <2>3 DEF vars, Log!vars, Contents, RingLen, Start
  <2> QED
    BY <2>1, <2>2, <2>3 DEF Next
<1> QED
  BY InitEstablishes, NextPreserves, <1>1, <1>2, PTL DEF Spec, RefinesLog, Log!Spec

=============================================================================
