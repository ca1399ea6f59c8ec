-------------------------- MODULE HubFanout_proofs --------------------------
(***************************************************************************)
(* The hub delivers the stream in order and without gaps, and implements   *)
(* EventStream: for every set of connections and listeners, every size of  *)
(* the send buffer and any number of events.                               *)
(***************************************************************************)
EXTENDS HubFanout, SequenceTheorems, TLAPS

LEMMA InitEstablishes == Init => IInv
<1> SUFFICES ASSUME Init
             PROVE  IInv
  OBVIOUS
<1>1. TypeOK
  BY HubAssumption DEF Init, TypeOK
<1>2. MutexHeld
  BY HubAssumption DEF Init, MutexHeld, Looping
<1>3. \A c \in Conn : InOrder(c) /\ Complete(c)
  BY DEF Init, InOrder, Complete
<1> QED
  BY <1>1, <1>2, <1>3 DEF IInv

-----------------------------------------------------------------------------
\* The mutex is free, so nobody is owed an event.
LEMMA NobodyOwed ==
  ASSUME IInv, mu = Nobody
  PROVE  \A c \in Conn : ~Owed(c)
BY HubAssumption DEF IInv, MutexHeld, Owed

\* The invariant, for one connection.
LEMMA OneConnection ==
  ASSUME IInv, NEW c \in Conn
  PROVE  /\ got[c] \in Seq(Event) /\ Len(got[c]) \in Nat
         /\ sock[c] \in Seq(Event) /\ Len(sock[c]) \in Nat
         /\ order \in Seq(Event) /\ Len(order) \in Nat
         /\ start[c] \in Nat
         /\ InOrder(c) /\ Complete(c)
BY DEF IInv, TypeOK

\* Steps of handlers and readers.
LEMMA ServeSteps ==
  ASSUME IInv, NEW c \in Conn, Serve(c)
  PROVE  IInv'
<1>1. CASE Upgrade(c)
  <2>1. TypeOK'
    BY <1>1 DEF Upgrade, hub, publisher, IInv, TypeOK
  <2>2. MutexHeld'
    BY <1>1 DEF Upgrade, hub, publisher, IInv, MutexHeld, Looping
  <2>3. \A d \in Conn : InOrder(d)' /\ Complete(d)'
    BY <1>1 DEF Upgrade, hub, publisher, IInv, TypeOK, InOrder, Complete, Owed
  <2> QED
    BY <2>1, <2>2, <2>3 DEF IInv
<1>2. CASE Add(c)
  <2>1. TypeOK'
    BY <1>2 DEF Add, publisher, IInv, TypeOK
  <2>2. MutexHeld'
    BY <1>2 DEF Add, publisher, IInv, MutexHeld, Looping
  <2>3. ASSUME NEW d \in Conn
        PROVE  InOrder(d)'
    BY <1>2 DEF Add, publisher, IInv, TypeOK, InOrder
  <2>4. ASSUME NEW d \in Conn
        PROVE  Complete(d)'
    <3>1. ~Owed(d) /\ ~Owed(d)'
      BY <1>2, NobodyOwed DEF Add, publisher, Owed
    <3>2. CASE d = c
      BY <1>2, <3>1, <3>2 DEF Add, publisher, IInv, TypeOK, InOrder, Complete
    <3>3. CASE d # c
      BY <1>2, <3>1, <3>3 DEF Add, publisher, IInv, TypeOK, Complete
    <3> QED
      BY <3>2, <3>3
  <2> QED
    BY <2>1, <2>2, <2>3, <2>4 DEF IInv
<1>3. CASE StartReader(c)
  <2>1. TypeOK'
    BY <1>3 DEF StartReader, hub, publisher, IInv, TypeOK
  <2>2. MutexHeld'
    BY <1>3 DEF StartReader, hub, publisher, IInv, MutexHeld, Looping
  <2>3. \A d \in Conn : InOrder(d)' /\ Complete(d)'
    BY <1>3 DEF StartReader, hub, publisher, IInv, TypeOK, InOrder, Complete, Owed
  <2> QED
    BY <2>1, <2>2, <2>3 DEF IInv
<1>4. CASE ReadFails(c)
  <2>1. TypeOK'
    BY <1>4 DEF ReadFails, hub, publisher, IInv, TypeOK
  <2>2. MutexHeld'
    BY <1>4 DEF ReadFails, hub, publisher, IInv, MutexHeld, Looping
  <2>3. \A d \in Conn : InOrder(d)' /\ Complete(d)'
    BY <1>4 DEF ReadFails, hub, publisher, IInv, InOrder, Complete, Owed
  <2> QED
    BY <2>1, <2>2, <2>3 DEF IInv
<1>5. CASE Remove(c)
  <2>1. TypeOK'
    BY <1>5 DEF Remove, publisher, IInv, TypeOK
  <2>2. MutexHeld'
    <3>1. \A l \in Listener : todo[l] = {}
      BY <1>5, HubAssumption DEF Remove, IInv, MutexHeld
    <3> QED
      BY <1>5, <3>1 DEF Remove, publisher, IInv, MutexHeld, Looping
  <2>3. \A d \in Conn : InOrder(d)' /\ Complete(d)'
    BY <1>5 DEF Remove, publisher, IInv, InOrder, Complete, Owed
  <2> QED
    BY <2>1, <2>2, <2>3 DEF IInv
<1> QED
  BY <1>1, <1>2, <1>3, <1>4, <1>5 DEF Serve

-----------------------------------------------------------------------------
\* Publish, up to the mutex.
LEMMA BeginStep ==
  ASSUME IInv, NEW l \in Listener, Begin(l)
  PROVE  IInv'
<1>1. issued + 1 \in Event
  BY HubAssumption DEF IInv, TypeOK, Begin, Event
<1>2. TypeOK'
  <2>1. issued' \in 0 .. MaxEvents
    BY <1>1 DEF Begin, Event
  <2>2. ev' \in [Listener -> Event \cup {0}] /\ pub' \in [Listener -> {"idle", "locking", "ranging", "writing"}]
    BY <1>1 DEF Begin, IInv, TypeOK
  <2> QED
    BY <2>1, <2>2 DEF Begin, hub, stream, IInv, TypeOK
<1>3. MutexHeld'
  BY <1>1 DEF Begin, hub, stream, IInv, TypeOK, MutexHeld, Looping
<1>4. \A d \in Conn : InOrder(d)' /\ Complete(d)'
  BY DEF Begin, hub, stream, IInv, InOrder, Complete, Owed
<1> QED
  BY <1>2, <1>3, <1>4 DEF IInv

\* The event takes its place in the order, and every subscriber is owed it.
LEMMA LockStep ==
  ASSUME IInv, NEW l \in Listener, Lock(l)
  PROVE  IInv'
<1>1. ev[l] \in Event
  BY DEF Lock, IInv, MutexHeld
<1>2. /\ order \in Seq(Event) /\ order' \in Seq(Event)
      /\ Len(order') = Len(order) + 1 /\ Len(order) \in Nat
      /\ order'[Len(order) + 1] = ev[l]
      /\ \A i \in 1 .. Len(order) : order'[i] = order[i]
  BY <1>1 DEF Lock, IInv, TypeOK
<1>3. TypeOK'
  BY <1>2 DEF Lock, stream, IInv, TypeOK
<1>4. MutexHeld'
  <2>1. \A m \in Listener : ~Looping(m)
    BY HubAssumption DEF Lock, IInv, MutexHeld
  <2>2. order' # << >> /\ ev[l] = order'[Len(order')]
    BY <1>2
  <2>3. /\ mu' = l /\ ev' = ev /\ subs' = subs
        /\ pub' = [pub EXCEPT ![l] = "ranging"] /\ DOMAIN pub = Listener
        /\ todo' = [todo EXCEPT ![l] = subs] /\ DOMAIN todo = Listener
    BY DEF Lock, IInv, TypeOK
  <2>4. ASSUME NEW m \in Listener
        PROVE  /\ mu' = m <=> Looping(m)'
               /\ Looping(m)' => order' # << >> /\ ev'[m] = order'[Len(order')]
               /\ ~Looping(m)' => todo'[m] = {}
               /\ todo'[m] \subseteq subs'
               /\ pub'[m] # "idle" => ev'[m] \in Event
    <3>1. CASE m = l
      BY <1>1, <2>2, <2>3, <3>1 DEF Looping
    <3>2. CASE m # l
      <4>1. pub'[m] = pub[m] /\ todo'[m] = todo[m]
        BY <2>3, <3>2
      <4> QED
        BY <2>1, <2>3, <3>2, <4>1 DEF IInv, MutexHeld, Looping
    <3> QED
      BY <3>1, <3>2
  <2> QED
    BY <2>4 DEF MutexHeld
<1>5. ASSUME NEW d \in Conn
      PROVE  InOrder(d)'
  <2>1. /\ start' = start /\ got' = got /\ sock' = sock /\ subs' = subs /\ handler' = handler
    BY DEF Lock, stream
  <2>2. ASSUME NEW i \in 1 .. Len(got[d])
        PROVE  got[d][i] = order'[start[d] + i]
    <3>1. start[d] + i \in 1 .. Len(order)
      BY OneConnection DEF InOrder
    <3> QED
      BY <1>2, <3>1, OneConnection DEF InOrder
  <2>3. ASSUME NEW i \in 1 .. Len(sock[d])
        PROVE  sock[d][i] = order'[start[d] + Len(got[d]) + i]
    <3>1. start[d] + Len(got[d]) + i \in 1 .. Len(order)
      BY OneConnection DEF InOrder
    <3> QED
      BY <1>2, <3>1, OneConnection DEF InOrder
  <2> QED
    BY <1>2, <2>1, <2>2, <2>3, OneConnection DEF InOrder
<1>6. ASSUME NEW d \in Conn
      PROVE  Complete(d)'
  <2>1. ~Owed(d)
    BY NobodyOwed DEF Lock
  <2>2. d \in subs => Owed(d)'
    BY DEF Lock, IInv, TypeOK, Owed
  <2> QED
    BY <1>2, <2>1, <2>2 DEF Lock, stream, IInv, TypeOK, Complete
<1> QED
  BY <1>3, <1>4, <1>5, <1>6 DEF IInv

-----------------------------------------------------------------------------
\* The range loop.
LEMMA PickStep ==
  ASSUME IInv, NEW l \in Listener, NEW c \in Conn, Pick(l, c)
  PROVE  IInv'
<1>1. TypeOK'
  BY DEF Pick, hub, stream, IInv, TypeOK
<1>2. MutexHeld'
  BY DEF Pick, hub, stream, IInv, TypeOK, MutexHeld, Looping
<1>3. \A d \in Conn : InOrder(d)' /\ Complete(d)'
  BY DEF Pick, hub, stream, IInv, InOrder, Complete, Owed
<1> QED
  BY <1>1, <1>2, <1>3 DEF IInv

\* Only the subscriber being written to is owed less afterwards.
LEMMA ReachedTarget ==
  ASSUME IInv, NEW l \in Listener, pub[l] = "writing", Reached(l), NEW t, t = target[l]
  PROVE  /\ t \in Conn /\ t \in subs
         /\ Owed(t) /\ ~Owed(t)'
         /\ \A d \in Conn \ {t} : Owed(d)' <=> Owed(d)
<1>1. t \in Conn /\ t \in subs /\ t \in todo[l]
  BY DEF IInv, TypeOK, MutexHeld
<1>2. mu = l /\ \A m \in Listener \ {l} : todo[m] = {}
  BY DEF IInv, MutexHeld, Looping
<1>3. todo' = [todo EXCEPT ![l] = todo[l] \ {t}] /\ todo \in [Listener -> SUBSET Conn]
  BY DEF Reached, IInv, TypeOK
<1> QED
  BY <1>1, <1>2, <1>3 DEF Owed

\* ... and only its connection has one frame more.
LEMMA WriteOkStep ==
  ASSUME IInv, NEW l \in Listener, WriteOk(l)
  PROVE  IInv'
<1>0. PICK t : t = target[l]
  OBVIOUS
<1>1. /\ t \in Conn /\ t \in subs /\ Owed(t) /\ ~Owed(t)'
      /\ \A d \in Conn \ {t} : (Owed(d)' <=> Owed(d))
  BY <1>0, ReachedTarget DEF WriteOk
<1>2. /\ ev[l] \in Event /\ ev[l] = order[Len(order)] /\ order' = order
      /\ order \in Seq(Event) /\ Len(order) \in Nat
  BY DEF WriteOk, Reached, IInv, TypeOK, MutexHeld, Looping
<1>3. /\ sock' = [sock EXCEPT ![t] = Append(sock[t], ev[l])]
      /\ sock \in [Conn -> Seq(Event)]
      /\ sock'[t] \in Seq(Event)
      /\ Len(sock'[t]) = Len(sock[t]) + 1 /\ Len(sock[t]) \in Nat
      /\ sock'[t][Len(sock[t]) + 1] = ev[l]
      /\ \A i \in 1 .. Len(sock[t]) : sock'[t][i] = sock[t][i]
      /\ \A d \in Conn \ {t} : sock'[d] = sock[d]
  BY <1>0, <1>1, <1>2 DEF WriteOk, IInv, TypeOK
<1>4. TypeOK'
  <2>1. sock' \in [Conn -> Seq(Event)] /\ \A c \in Conn : Len(sock'[c]) <= SendBuffer
    BY <1>0, <1>3, HubAssumption DEF WriteOk, IInv, TypeOK
  <2>2. /\ todo' \in [Listener -> SUBSET Conn]
        /\ target' \in [Listener -> Conn \cup {Nobody}]
        /\ pub' \in [Listener -> {"idle", "locking", "ranging", "writing"}]
        /\ \A m \in Listener : pub'[m] = "writing" => target'[m] \in todo'[m]
    BY DEF WriteOk, Reached, IInv, TypeOK
  <2> QED
    BY <2>1, <2>2 DEF WriteOk, Reached, hub, IInv, TypeOK
<1>5. MutexHeld'
  BY DEF WriteOk, Reached, hub, IInv, TypeOK, MutexHeld, Looping
<1>6. /\ start' = start /\ got' = got /\ subs' = subs /\ handler' = handler
      /\ start \in [Conn -> Nat] /\ \A d \in Conn : Len(got[d]) \in Nat
  BY DEF WriteOk, hub, IInv, TypeOK
<1>7. /\ start[t] + Len(got[t]) + Len(sock[t]) + 1 = Len(order)
      /\ start[t] \in Nat /\ Len(got[t]) \in Nat
  <2>1. /\ t \in Conn /\ t \in subs /\ Owed(t)
    BY <1>1
  <2> QED
    BY <2>1, OneConnection DEF Complete
<1>8. ASSUME NEW d \in Conn
      PROVE  InOrder(d)' /\ Complete(d)'
  <2>1. CASE d = t
    <3>1. handler[t] \notin {"none", "upgraded"}
      BY <1>1 DEF IInv, InOrder
    <3>2. ASSUME NEW i \in 1 .. Len(sock'[t])
          PROVE  sock'[t][i] = order[start[t] + Len(got[t]) + i]
      <4>1. CASE i = Len(sock[t]) + 1
        <5>1. start[t] + Len(got[t]) + i = Len(order) /\ sock'[t][i] = ev[l]
          BY <1>3, <1>7, <4>1
        <5> QED
          BY <1>2, <5>1
      <4>2. CASE i # Len(sock[t]) + 1
        <5>1. i \in 1 .. Len(sock[t])
          BY <1>3, <4>2
        <5> QED
          BY <1>1, <1>3, <5>1, OneConnection DEF InOrder
      <4> QED
        BY <4>1, <4>2
    <3>3. InOrder(t) /\ Complete(t) /\ start[t] \in Nat /\ Len(got[t]) \in Nat
      BY <1>1, OneConnection
    <3>4. InOrder(t)'
      BY <1>2, <1>3, <1>6, <1>7, <3>1, <3>2, <3>3 DEF InOrder
    <3>5. Complete(t)'
      BY <1>1, <1>2, <1>3, <1>6, <1>7, <3>3 DEF Complete
    <3> QED
      BY <2>1, <3>4, <3>5
  <2>2. CASE d # t
    <3>1. (Owed(d)' <=> Owed(d)) /\ sock'[d] = sock[d]
      BY <1>1, <1>3, <2>2
    <3> QED
      BY <1>2, <1>6, <3>1 DEF IInv, InOrder, Complete
  <2> QED
    BY <2>1, <2>2
<1> QED
  BY <1>4, <1>5, <1>8 DEF IInv

\* The error branch takes the subscriber out of the set and of the loop.
LEMMA WriteFailsStep ==
  ASSUME IInv, NEW l \in Listener, WriteFails(l)
  PROVE  IInv'
<1>0. PICK t : t = target[l]
  OBVIOUS
<1>1. /\ t \in Conn /\ t \in subs
      /\ \A d \in Conn \ {t} : (Owed(d)' <=> Owed(d))
  BY <1>0, ReachedTarget DEF WriteFails
<1>2. TypeOK'
  BY <1>0, <1>1 DEF WriteFails, Reached, IInv, TypeOK
<1>3. MutexHeld'
  <2>1. mu = l /\ \A m \in Listener \ {l} : todo[m] = {} /\ ~Looping(m)
    BY DEF WriteFails, IInv, MutexHeld, Looping
  <2> QED
    BY <1>0, <2>1 DEF WriteFails, Reached, IInv, TypeOK, MutexHeld, Looping
<1>4. ASSUME NEW d \in Conn
      PROVE  InOrder(d)' /\ Complete(d)'
  BY <1>0, <1>1 DEF WriteFails, Reached, IInv, InOrder, Complete
<1> QED
  BY <1>2, <1>3, <1>4 DEF IInv

LEMMA UnlockStep ==
  ASSUME IInv, NEW l \in Listener, Unlock(l)
  PROVE  IInv'
<1>1. TypeOK'
  BY DEF Unlock, stream, IInv, TypeOK
<1>2. MutexHeld'
  BY HubAssumption DEF Unlock, stream, IInv, TypeOK, MutexHeld, Looping
<1>3. \A d \in Conn : InOrder(d)' /\ Complete(d)'
  BY DEF Unlock, stream, IInv, InOrder, Complete, Owed
<1> QED
  BY <1>1, <1>2, <1>3 DEF IInv

LEMMA PublishSteps ==
  ASSUME IInv, NEW l \in Listener, Publish(l)
  PROVE  IInv'
BY BeginStep, LockStep, PickStep, WriteOkStep, WriteFailsStep, UnlockStep
DEF Publish, WriteClosed, WriteReset

-----------------------------------------------------------------------------
\* A frame goes from the connection to the client: together they stay the same.
LEMMA ClientReadsStep ==
  ASSUME IInv, NEW c \in Conn, ClientReads(c)
  PROVE  IInv'
<1>1. /\ sock[c] \in Seq(Event) /\ Len(sock[c]) \in Nat /\ Len(sock[c]) > 0
      /\ got[c] \in Seq(Event) /\ Len(got[c]) \in Nat /\ start[c] \in Nat
      /\ sock[c][1] \in Event
  BY DEF ClientReads, IInv, TypeOK
<1>2. /\ got' = [got EXCEPT ![c] = Append(got[c], sock[c][1])]
      /\ got'[c] \in Seq(Event) /\ Len(got'[c]) = Len(got[c]) + 1
      /\ got'[c][Len(got[c]) + 1] = sock[c][1]
      /\ \A i \in 1 .. Len(got[c]) : got'[c][i] = got[c][i]
      /\ \A d \in Conn \ {c} : got'[d] = got[d]
  BY <1>1 DEF ClientReads, IInv, TypeOK
<1>3. /\ sock' = [sock EXCEPT ![c] = Tail(sock[c])]
      /\ sock'[c] \in Seq(Event) /\ Len(sock'[c]) = Len(sock[c]) - 1
      /\ \A i \in 1 .. Len(sock[c]) - 1 : sock'[c][i] = sock[c][i + 1]
      /\ \A d \in Conn \ {c} : sock'[d] = sock[d]
  BY <1>1 DEF ClientReads, IInv, TypeOK
<1>4. TypeOK'
  <2>1. /\ sock' \in [Conn -> Seq(Event)] /\ got' \in [Conn -> Seq(Event)]
        /\ \A d \in Conn : Len(sock'[d]) <= SendBuffer
    BY <1>1, <1>2, <1>3, HubAssumption DEF IInv, TypeOK
  <2> QED
    BY <2>1 DEF ClientReads, hub, publisher, IInv, TypeOK
<1>5. MutexHeld'
  BY DEF ClientReads, hub, publisher, IInv, MutexHeld, Looping
<1>6. /\ start' = start /\ order' = order /\ subs' = subs /\ handler' = handler
      /\ \A d \in Conn : (Owed(d)' <=> Owed(d))
  BY DEF ClientReads, hub, publisher, Owed
<1>7. ASSUME NEW d \in Conn
      PROVE  InOrder(d)' /\ Complete(d)'
  <2>1. CASE d = c
    <3>1. handler[c] \notin {"none", "upgraded"}
      BY <1>1 DEF IInv, InOrder
    <3>2. ASSUME NEW i \in 1 .. Len(got'[c])
          PROVE  got'[c][i] = order[start[c] + i]
      <4>1. CASE i = Len(got[c]) + 1
        <5>1. sock[c][1] = order[start[c] + Len(got[c]) + 1]
          BY <1>1, OneConnection DEF InOrder
        <5>2. start[c] + Len(got[c]) + 1 = start[c] + i
          BY <1>1, <4>1
        <5> QED
          BY <1>2, <4>1, <5>1, <5>2
      <4>2. CASE i # Len(got[c]) + 1
        <5>1. i \in 1 .. Len(got[c])
          BY <1>1, <1>2, <4>2
        <5> QED
          BY <1>2, <5>1, OneConnection DEF InOrder
      <4> QED
        BY <4>1, <4>2
    <3>3. ASSUME NEW i \in 1 .. Len(sock'[c])
          PROVE  sock'[c][i] = order[start[c] + Len(got'[c]) + i]
      <4>1. i + 1 \in 1 .. Len(sock[c]) /\ sock'[c][i] = sock[c][i + 1]
        BY <1>1, <1>3
      <4>2. sock[c][i + 1] = order[start[c] + Len(got[c]) + (i + 1)]
        BY <4>1, OneConnection DEF InOrder
      <4>3. start[c] + Len(got[c]) + (i + 1) = start[c] + Len(got'[c]) + i
        <5>1. Len(got'[c]) = Len(got[c]) + 1 /\ i \in Int
          BY <1>2, <1>3
        <5>2. Len(got[c]) \in Int /\ start[c] \in Int
          BY <1>1
        <5> QED
          BY <5>1, <5>2
      <4> QED
        BY <4>1, <4>2, <4>3
    <3>4. start[c] + Len(got'[c]) + Len(sock'[c]) = start[c] + Len(got[c]) + Len(sock[c])
      <4>1. Len(got'[c]) = Len(got[c]) + 1 /\ Len(sock'[c]) = Len(sock[c]) - 1
        BY <1>2, <1>3
      <4>2. Len(got[c]) \in Int /\ Len(sock[c]) \in Int /\ start[c] \in Int
        BY <1>1
      <4> QED
        BY <4>1, <4>2
    <3>5. InOrder(c)'
      BY <1>6, <3>1, <3>2, <3>3, <3>4, OneConnection DEF InOrder
    <3>6. Complete(c)'
      BY <1>6, <3>4, OneConnection DEF Complete
    <3> QED
      BY <2>1, <3>5, <3>6
  <2>2. CASE d # c
    BY <1>2, <1>3, <1>6, <2>2 DEF IInv, InOrder, Complete
  <2> QED
    BY <2>1, <2>2
<1> QED
  BY <1>4, <1>5, <1>7 DEF IInv

LEMMA ClientLeavesStep ==
  ASSUME IInv, NEW c \in Conn, ClientLeaves(c)
  PROVE  IInv'
<1>1. TypeOK'
  BY DEF ClientLeaves, hub, publisher, IInv, TypeOK
<1>2. MutexHeld'
  BY DEF ClientLeaves, hub, publisher, IInv, MutexHeld, Looping
<1>3. \A d \in Conn : InOrder(d)' /\ Complete(d)'
  BY DEF ClientLeaves, hub, publisher, IInv, InOrder, Complete, Owed
<1> QED
  BY <1>1, <1>2, <1>3 DEF IInv

LEMMA NextPreserves == IInv /\ [Next]_vars => IInv'
<1> SUFFICES ASSUME IInv, [Next]_vars
             PROVE  IInv'
  OBVIOUS
<1>1. CASE Next
  BY <1>1, ServeSteps, PublishSteps, ClientReadsStep, ClientLeavesStep DEF Next
<1>2. CASE UNCHANGED vars
  <2>1. TypeOK' /\ MutexHeld'
    BY <1>2 DEF vars, hub, stream, publisher, IInv, TypeOK, MutexHeld, Looping
  <2>2. \A d \in Conn : InOrder(d)' /\ Complete(d)'
    BY <1>2 DEF vars, hub, stream, publisher, IInv, InOrder, Complete, Owed
  <2> QED
    BY <2>1, <2>2 DEF IInv
<1> QED
  BY <1>1, <1>2

\* The inductive invariant holds whatever listeners, handlers and clients do.
THEOREM Invariance == Spec => []IInv
  BY InitEstablishes, NextPreserves, PTL DEF Spec

\* The state of the hub keeps its shape, and Publish writes only to subscribers its
\* loop has not reached yet.
THEOREM TypeCorrect == Spec => []TypeOK
<1>1. IInv => TypeOK
  BY DEF IInv
<1> QED
  BY Invariance, <1>1, PTL

-----------------------------------------------------------------------------
\* The mutex of the hub admits one writer, whatever the connection.
THEOREM WritersExclude == Spec => []OneWriter
<1>1. IInv => OneWriter
  BY DEF IInv, MutexHeld, Looping, OneWriter
<1> QED
  BY Invariance, <1>1, PTL

\* A sequence cut in two, whose elements are those of another from a place on.
LEMMA TwoParts ==
  ASSUME NEW S, NEW o \in Seq(S), NEW g \in Seq(S), NEW s \in Seq(S),
         NEW m \in Nat, NEW n \in Nat, n = m + Len(g) + Len(s), n <= Len(o),
         \A i \in 1 .. Len(g) : g[i] = o[m + i],
         \A i \in 1 .. Len(s) : s[i] = o[m + Len(g) + i]
  PROVE  g \o s = SubSeq(o, m + 1, n)
<1> DEFINE part == SubSeq(o, m + 1, n)
<1>1. Len(g) \in Nat /\ Len(s) \in Nat /\ Len(o) \in Nat
  OBVIOUS
<1>2. /\ g \o s \in Seq(S)
      /\ Len(g \o s) = Len(g) + Len(s)
      /\ \A i \in 1 .. Len(g) + Len(s) :
           (g \o s)[i] = IF i <= Len(g) THEN g[i] ELSE s[i - Len(g)]
  BY ConcatProperties
<1>3. /\ part \in Seq(S)
      /\ Len(part) = Len(g) + Len(s)
      /\ \A i \in 1 .. Len(g) + Len(s) : part[i] = o[m + i]
  <2>1. \A i \in m + 1 .. n : o[i] \in S
    BY <1>1
  <2>2. /\ part \in Seq(S)
        /\ Len(part) = IF m + 1 <= n THEN n - (m + 1) + 1 ELSE 0
        /\ \A i \in 1 .. n - (m + 1) + 1 : part[i] = o[(m + 1) + i - 1]
    BY <1>1, <2>1, SubSeqProperties
  <2>3. /\ n - (m + 1) + 1 = Len(g) + Len(s)
        /\ m + 1 > n => Len(g) + Len(s) = 0
    BY <1>1
  <2>4. \A i \in 1 .. Len(g) + Len(s) : (m + 1) + i - 1 = m + i
    BY <1>1
  <2> HIDE DEF part
  <2> QED
    BY <2>2, <2>3, <2>4
<1>4. ASSUME NEW i \in 1 .. Len(g) + Len(s)
      PROVE  (g \o s)[i] = part[i]
  <2>1. i \in Int /\ 1 <= i /\ i <= Len(g) + Len(s)
    BY <1>1
  <2>2. CASE i <= Len(g)
    <3>1. i \in 1 .. Len(g)
      BY <1>1, <2>1, <2>2
    <3> HIDE DEF part
    <3> QED
      BY <1>2, <1>3, <2>2, <3>1
  <2>3. CASE i > Len(g)
    <3>1. i - Len(g) \in 1 .. Len(s) /\ m + Len(g) + (i - Len(g)) = m + i
      BY <1>1, <2>1, <2>3
    <3>2. s[i - Len(g)] = o[m + Len(g) + (i - Len(g))]
      BY <3>1
    <3>3. (g \o s)[i] = s[i - Len(g)]
      BY <1>1, <1>2, <2>1, <2>3
    <3> HIDE DEF part
    <3> QED
      BY <1>3, <3>1, <3>2, <3>3
  <2> QED
    BY <1>1, <2>1, <2>2, <2>3
<1> HIDE DEF part
<1>5. g \o s = part
  BY <1>2, <1>3, <1>4, SeqEqual
<1> QED
  BY <1>5 DEF part

\* Each subscriber receives the events since it was added, in order, once.
THEOREM StreamsHaveNoGaps == Spec => []NoGaps
<1>1. IInv => NoGaps
  <2> SUFFICES ASSUME IInv, NEW c \in subs
               PROVE  got[c] \o sock[c]
                        = SubSeq(order, start[c] + 1, Len(order) - (IF Owed(c) THEN 1 ELSE 0))
    BY DEF NoGaps
  <2>1. PICK due : due = Len(order) - (IF Owed(c) THEN 1 ELSE 0)
    OBVIOUS
  <2>2. /\ got[c] \in Seq(Event) /\ Len(got[c]) \in Nat
        /\ sock[c] \in Seq(Event) /\ Len(sock[c]) \in Nat
        /\ order \in Seq(Event) /\ Len(order) \in Nat /\ start[c] \in Nat
        /\ InOrder(c) /\ Complete(c)
    BY OneConnection DEF IInv, TypeOK
  <2>3. /\ due = start[c] + Len(got[c]) + Len(sock[c])
        /\ due <= Len(order) /\ due \in Nat
    BY <2>1, <2>2 DEF InOrder, Complete
  <2>4. /\ \A i \in 1 .. Len(got[c]) : got[c][i] = order[start[c] + i]
        /\ \A i \in 1 .. Len(sock[c]) : sock[c][i] = order[start[c] + Len(got[c]) + i]
    BY <2>2 DEF InOrder
  <2>5. got[c] \o sock[c] = SubSeq(order, start[c] + 1, due)
    <3> DEFINE Parts(g, s, m) ==
          /\ due = m + Len(g) + Len(s) /\ due <= Len(order)
          /\ \A i \in 1 .. Len(g) : g[i] = order[m + i]
          /\ \A i \in 1 .. Len(s) : s[i] = order[m + Len(g) + i]
    <3>1. Parts(got[c], sock[c], start[c])
      BY <2>3, <2>4
    <3>2. ASSUME NEW g \in Seq(Event), NEW s \in Seq(Event), NEW m \in Nat, Parts(g, s, m)
          PROVE  g \o s = SubSeq(order, m + 1, due)
      <4>1. due \in Nat /\ order \in Seq(Event)
        BY <2>2, <2>3
      <4>2. PICK o \in Seq(Event) : o = order
        BY <4>1
      <4>3. /\ due = m + Len(g) + Len(s) /\ due <= Len(o)
            /\ \A i \in 1 .. Len(g) : g[i] = o[m + i]
            /\ \A i \in 1 .. Len(s) : s[i] = o[m + Len(g) + i]
        BY <3>2, <4>2
      <4> HIDE DEF Parts
      <4>4. g \o s = SubSeq(o, m + 1, due)
        BY <4>1, <4>3, TwoParts
      <4> QED
        BY <4>2, <4>4
    <3> HIDE DEF Parts
    <3> QED
      BY <2>2, <3>1, <3>2
  <2> QED
    BY <2>1, <2>5
<1> QED
  BY Invariance, <1>1, PTL

-----------------------------------------------------------------------------
\* What a client reads is the next event of the stream, even when its connection
\* is no longer a subscriber: ClientReads implements Deliver.
LEMMA ReadsAreDeliveries ==
  ASSUME IInv, NEW c \in Conn, ClientReads(c)
  PROVE  Stream!Deliver(c)
<1>1. /\ sock[c] \in Seq(Event) /\ Len(sock[c]) \in Nat /\ Len(sock[c]) > 0
      /\ Len(got[c]) \in Nat /\ start[c] \in Nat /\ Len(order) \in Nat
  BY DEF ClientReads, IInv, TypeOK
<1>2. sock[c][1] = order[start[c] + Len(got[c]) + 1]
  BY <1>1 DEF IInv, InOrder
<1>3. start[c] + Len(got[c]) < Len(order)
  BY <1>1 DEF IInv, InOrder
<1>4. got' = [got EXCEPT ![c] = Append(got[c], order[start[c] + Len(got[c]) + 1])]
  <2>1. Head(sock[c]) = order[start[c] + Len(got[c]) + 1]
    BY <1>1, <1>2
  <2> QED
    BY <2>1 DEF ClientReads
<1> QED
  BY <1>3, <1>4 DEF ClientReads, publisher, Stream!Deliver

\* Every step of the hub is a step of the stream or leaves the stream alone.
LEMMA StepsRefine == IInv /\ [Next]_vars => [Stream!Next]_(Stream!vars)
<1> SUFFICES ASSUME IInv, [Next]_vars
             PROVE  [Stream!Next]_(Stream!vars)
  OBVIOUS
<1>1. ASSUME NEW c \in Conn, Add(c)
      PROVE  Stream!Join(c)
  BY <1>1 DEF Add, publisher, IInv, InOrder, Stream!Join
<1>2. ASSUME NEW l \in Listener, Lock(l)
      PROVE  ev[l] \in Event /\ Stream!Broadcast(ev[l])
  BY <1>2 DEF Lock, stream, IInv, MutexHeld, Stream!Broadcast
<1>3. ASSUME NEW c \in Conn, Upgrade(c) \/ StartReader(c) \/ ReadFails(c) \/ Remove(c) \/ ClientLeaves(c)
      PROVE  UNCHANGED Stream!vars
  BY <1>3 DEF Upgrade, StartReader, ReadFails, Remove, ClientLeaves, publisher, Stream!vars
<1>4. ASSUME NEW l \in Listener,
             \/ Begin(l) \/ WriteOk(l) \/ WriteClosed(l) \/ WriteReset(l) \/ Unlock(l)
             \/ \E c \in Conn : Pick(l, c)
      PROVE  UNCHANGED Stream!vars
  BY <1>4 DEF Begin, WriteOk, WriteClosed, WriteReset, WriteFails, Reached, Unlock, Pick, stream,
              Stream!vars
<1>5. CASE UNCHANGED vars
  BY <1>5 DEF vars, stream, publisher, Stream!vars
<1> QED
  BY <1>1, <1>2, <1>3, <1>4, <1>5, ReadsAreDeliveries DEF Next, Serve, Publish, Stream!Next

\* The hub implements the stream: one order of all events, from which every client
\* receives, from where it joined, each event once and without a gap.
THEOREM HubImplementsStream == Spec => ImplementsStream
<1>1. Init => Stream!Init
  BY DEF Init, Stream!Init
<1> QED
  BY <1>1, Invariance, StepsRefine, PTL DEF Spec, ImplementsStream, Stream!Spec

-----------------------------------------------------------------------------
(* The subscribers are the live connections; no deadlock over the mutex.   *)

\* Only the steps of a connection's own goroutines, its client's, and a failing write
\* to it touch what InStep is about.
LEMMA InStepPreserved ==
  ASSUME IInv, \A c \in Conn : InStep(c), [Next]_vars
  PROVE  \A c \in Conn : InStep(c)'
<1> USE DEF InStep, Subscribed
<1>0. /\ subs \subseteq Conn
      /\ handler \in [Conn -> {"none", "upgraded", "added", "returned"}]
      /\ reader \in [Conn -> {"none", "reading", "removing", "ended"}]
      /\ conn \in [Conn -> {"none", "open", "closed"}]
      /\ client \in [Conn -> {"none", "connected", "gone"}]
  BY DEF IInv, TypeOK
<1>1. ASSUME NEW c \in Conn, Serve(c)
      PROVE  \A d \in Conn : InStep(d)'
  <2>1. CASE Upgrade(c)
    BY <1>0, <2>1 DEF Upgrade, hub
  <2>2. CASE Add(c)
    <3>1. InStep(c)'
      BY <1>0, <2>2 DEF Add
    <3>2. ASSUME NEW d \in Conn, d # c
          PROVE  InStep(d)'
      BY <1>0, <2>2, <3>2 DEF Add
    <3> QED
      BY <3>1, <3>2
  <2>3. CASE StartReader(c)
    BY <1>0, <2>3 DEF StartReader, hub
  <2>4. CASE ReadFails(c)
    <3>1. InStep(c)'
      BY <1>0, <2>4 DEF ReadFails, hub
    <3>2. ASSUME NEW d \in Conn, d # c
          PROVE  InStep(d)'
      BY <1>0, <2>4, <3>2 DEF ReadFails, hub
    <3> QED
      BY <3>1, <3>2
  <2>5. CASE Remove(c)
    <3>1. InStep(c)'
      BY <1>0, <2>5 DEF Remove
    <3>2. ASSUME NEW d \in Conn, d # c
          PROVE  InStep(d)'
      BY <1>0, <2>5, <3>2 DEF Remove
    <3> QED
      BY <3>1, <3>2
  <2> QED
    BY <1>1, <2>1, <2>2, <2>3, <2>4, <2>5 DEF Serve
<1>2. ASSUME NEW c \in Conn, ClientReads(c) \/ ClientLeaves(c)
      PROVE  \A d \in Conn : InStep(d)'
  BY <1>0, <1>2 DEF ClientReads, ClientLeaves, hub
<1>3. ASSUME NEW l \in Listener, WriteFails(l)
      PROVE  \A d \in Conn : InStep(d)'
  <2>1. /\ handler' = handler /\ reader' = reader /\ client' = client
        /\ conn' = [conn EXCEPT ![target[l]] = "closed"]
        /\ subs' = subs \ {target[l]}
    BY <1>3 DEF WriteFails
  <2> QED
    BY <1>0, <2>1
<1>4. ASSUME NEW l \in Listener, Publish(l), ~WriteFails(l)
      PROVE  \A d \in Conn : InStep(d)'
  <2>1. /\ handler' = handler /\ reader' = reader /\ client' = client /\ conn' = conn
        /\ subs' = subs
    BY <1>4 DEF Publish, Begin, Lock, Pick, WriteOk, WriteClosed, WriteReset, Unlock,
         hub, stream
  <2> QED
    BY <2>1
<1>5. CASE UNCHANGED vars
  BY <1>5 DEF vars, hub, stream
<1> QED
  BY <1>1, <1>2, <1>3, <1>4, <1>5 DEF Next

\* So it holds in every state, with IInv.
LEMMA ConnectionsInStep == Spec => []\A c \in Conn : InStep(c)
<1> DEFINE J == \A c \in Conn : InStep(c)
<1>1. Init => J
  BY DEF Init, InStep, Subscribed
<1>2. IInv /\ J /\ [Next]_vars => J'
  BY InStepPreserved
<1> HIDE DEF J
<1>3. Spec => []J
  BY <1>1, <1>2, Invariance, PTL DEF Spec
<1> QED
  BY <1>3 DEF J

\* Hub.subs holds every connection that was added and is open, whatever failed on the
\* others, and none whose reader has ended (Add, Remove, the error branch of Publish).
THEOREM SubscribersAreLiveConnections == Spec => []SubscribersAreLive
<1>1. (\A c \in Conn : InStep(c)) => SubscribersAreLive
  BY DEF InStep, SubscribersAreLive
<1> QED
  BY <1>1, ConnectionsInStep, PTL

\* A write of Publish that is blocked waits for nobody who waits for the mutex of the
\* hub: the client reads, or the reader closes the connection without the mutex, or
\* is about to be started (handleStream and its deferred calls).
THEOREM MutexIsNotWaitedForInACycle == Spec => []NoMutexCycle
<1>1. IInv /\ (\A c \in Conn : InStep(c)) => NoMutexCycle
  <2> SUFFICES ASSUME IInv, \A c \in Conn : InStep(c), NEW l \in Listener, Blocked(l),
                      NEW c, c = target[l]
               PROVE  \/ client[c] = "connected"
                      \/ handler[c] = "added"
                      \/ reader[c] = "reading"
    BY DEF NoMutexCycle
  <2>1. c \in Conn /\ c \in subs
    BY DEF Blocked, IInv, TypeOK, MutexHeld
  <2>2. handler[c] \in {"added", "returned"}
    BY <2>1 DEF IInv, TypeOK, InOrder
  <2>3. client[c] \in {"connected", "gone"}
    BY <2>1, <2>2 DEF IInv, TypeOK, InStep
  <2>4. handler[c] = "returned" => reader[c] \in {"reading", "removing", "ended"}
    BY <2>1 DEF IInv, TypeOK, InStep
  <2> QED
    BY <2>1, <2>2, <2>4 DEF Blocked, InStep
<1> QED
  BY <1>1, Invariance, ConnectionsInStep, PTL

-----------------------------------------------------------------------------
(* The variant of the range loop.                                          *)

LEMMA LoopStep ==
  ASSUME IInv, [Next]_vars, NEW l \in Listener, Looping(l), Looping(l)'
  PROVE  /\ ev'[l] = ev[l]
         /\ todo'[l] \subseteq todo[l]
         /\ pub[l] = "writing" =>
              \/ pub'[l] = "writing" /\ target'[l] = target[l]
              \/ todo'[l] = todo[l] \ {target[l]} /\ todo'[l] # todo[l]
<1>1. /\ pub \in [Listener -> {"idle", "locking", "ranging", "writing"}]
      /\ ev \in [Listener -> Event \cup {0}]
      /\ todo \in [Listener -> SUBSET Conn]
      /\ target \in [Listener -> Conn \cup {Nobody}]
      /\ pub[l] = "writing" => target[l] \in todo[l]
      /\ mu = l /\ mu # Nobody
  BY HubAssumption DEF IInv, TypeOK, MutexHeld
<1>2. ASSUME NEW c \in Conn, Serve(c) \/ ClientReads(c) \/ ClientLeaves(c)
      PROVE  UNCHANGED publisher
  BY <1>2 DEF Serve, Upgrade, Add, StartReader, ReadFails, Remove, ClientReads, ClientLeaves
<1>3. ASSUME NEW m \in Listener, Begin(m) \/ Lock(m) \/ Unlock(m)
      PROVE  ev'[l] = ev[l] /\ todo'[l] = todo[l] /\ pub'[l] = pub[l] /\ target'[l] = target[l]
  BY <1>1, <1>3 DEF Begin, Lock, Unlock, Looping
<1>4. ASSUME NEW m \in Listener, NEW c \in Conn, Pick(m, c)
      PROVE  ev'[l] = ev[l] /\ todo'[l] = todo[l] /\ (pub[l] = "writing" =>
               pub'[l] = "writing" /\ target'[l] = target[l])
  BY <1>1, <1>4 DEF Pick
<1>5. ASSUME NEW m \in Listener, pub[m] = "writing", Reached(m)
      PROVE  /\ ev' = ev
             /\ todo'[l] = todo[l] \ {target[l]}
             /\ pub[l] = "writing" /\ todo'[l] # todo[l]
  <2>1. m = l
    BY <1>1, <1>5 DEF IInv, MutexHeld, Looping
  <2> QED
    BY <1>1, <1>5, <2>1 DEF Reached
<1>6. CASE UNCHANGED publisher
  BY <1>6 DEF publisher
<1>7. UNCHANGED vars => UNCHANGED publisher
  BY DEF vars, publisher
<1> QED
  BY <1>2, <1>3, <1>4, <1>5, <1>6, <1>7
  DEF Next, Publish, WriteOk, WriteClosed, WriteReset, WriteFails

\* With the mutex held, each write takes a Publish nearer to its end, and no goroutine
\* takes it farther away: it writes to each subscriber once at most, and returns when
\* each of these writes does.
THEOREM LoopsAdvance == Spec => LoopAdvances
<1>1. IInv /\ [Next]_vars =>
        [\A l \in Listener : Looping(l) /\ Looping(l)' =>
           /\ ev'[l] = ev[l]
           /\ todo'[l] \subseteq todo[l]
           /\ pub[l] = "writing" =>
                \/ pub'[l] = "writing" /\ target'[l] = target[l]
                \/ todo'[l] = todo[l] \ {target[l]} /\ todo'[l] # todo[l]]_vars
  BY LoopStep
<1> QED
  BY Invariance, <1>1, PTL DEF Spec, LoopAdvances

=============================================================================
