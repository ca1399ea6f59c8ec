------------------------ MODULE ServiceRecord_proofs ------------------------
(***************************************************************************)
(* Lemmas about what a resource record does to the record of an instance,  *)
(* for every name, TTL and time.  Discovery_proofs builds on them.         *)
(***************************************************************************)
EXTENDS ServiceRecord, TLAPS

\* UpsertService starts from a well-formed record.
LEMMA ZeroServiceType == ZeroService \in ServiceSnapshot
BY DEF ZeroService, ServiceSnapshot, NoTime, Time, TTL

\* A record with a TTL dates the instance, raises its longest TTL to at least
\* its own and withdraws an earlier goodbye.
LEMMA RefreshFacts ==
    ASSUME NEW s \in ServiceSnapshot, NEW now \in Time, NEW ttl \in TTL
    PROVE  LET t == Refresh(s, now, ttl) IN
           /\ t \in ServiceSnapshot
           /\ t.stype = s.stype /\ t.targetHost = s.targetHost /\ t.txt = s.txt
           /\ t.ttl = ttl /\ t.lastSeen = now /\ t.expiresAt = now + ttl
           /\ t.goodbye = FALSE
           /\ t.firstSeen = IF s.firstSeen = NoTime THEN now ELSE s.firstSeen
           /\ t.originalTtl \in {ttl, s.originalTtl}
           /\ t.originalTtl >= ttl /\ t.originalTtl >= s.originalTtl
<1> DEFINE first == IF s.firstSeen = NoTime THEN now ELSE s.firstSeen
           longest == IF s.originalTtl = 0 \/ ttl > s.originalTtl
                        THEN ttl ELSE s.originalTtl
<1>1. /\ first \in Time /\ longest \in TTL /\ now + ttl \in Time
      /\ longest \in {ttl, s.originalTtl}
      /\ longest >= ttl /\ longest >= s.originalTtl
  BY DEF ServiceSnapshot, Time, TTL
<1>2. Refresh(s, now, ttl) =
        [s EXCEPT !.firstSeen = first, !.ttl = ttl, !.originalTtl = longest,
                  !.lastSeen = now, !.expiresAt = now + ttl, !.goodbye = FALSE]
  BY DEF Refresh
<1> HIDE DEF longest, first
<1>3. QED
  BY <1>1, <1>2 DEF first, ServiceSnapshot

\* A goodbye keeps what is known of the instance.
LEMMA WithdrawFacts ==
    ASSUME NEW s \in ServiceSnapshot, NEW now \in Time
    PROVE  LET t == Withdraw(s, now) IN
           /\ t \in ServiceSnapshot
           /\ t.stype = s.stype /\ t.targetHost = s.targetHost /\ t.txt = s.txt
           /\ t.ttl = 0 /\ t.lastSeen = now /\ t.expiresAt = now
           /\ t.goodbye = TRUE
           /\ t.firstSeen = s.firstSeen /\ t.originalTtl = s.originalTtl
BY DEF Withdraw, ServiceSnapshot, Time, TTL

\* Inferring a missing type touches nothing else.
LEMMA InferTypeFacts ==
    ASSUME NEW s \in ServiceSnapshot, NEW key \in Instance
    PROVE  /\ InferType(s, key) \in ServiceSnapshot
           /\ InferType(s, key) = [s EXCEPT !.stype = InferType(s, key).stype]
BY NamesAssumption DEF InferType, ServiceSnapshot

\* What holds of the record t that any of the three handlers makes of s.
Applied(s, t, ttl, now) ==
    /\ t \in ServiceSnapshot
    /\ Keeps(s, t)
    /\ ttl > 0 /\ now # NoTime => t.firstSeen # NoTime /\ t.originalTtl >= ttl

\* PTR: the record keeps its target host.
LEMMA ApplyPTRFacts ==
    ASSUME NEW s \in ServiceSnapshot, NEW rr \in PTR, NEW now \in Time
    PROVE  /\ Applied(s, ApplyPTR(s, rr, now), rr.ttl, now)
           /\ ApplyPTR(s, rr, now).targetHost = s.targetHost
<1> DEFINE t == ApplyPTR(s, rr, now)
<1>0. rr.ttl \in TTL /\ rr.owner \in ServiceType
  BY DEF PTR
<1>1. CASE rr.ttl = 0
  <2>1. t = Withdraw(s, now)
    BY <1>1 DEF ApplyPTR
  <2> HIDE DEF t
  <2>2. /\ t \in ServiceSnapshot
        /\ t.firstSeen = s.firstSeen /\ t.originalTtl = s.originalTtl
        /\ t.txt = s.txt /\ t.targetHost = s.targetHost
    BY <2>1, WithdrawFacts
  <2>3. s.originalTtl \in Nat
    BY DEF ServiceSnapshot, TTL
  <2>4. Applied(s, t, rr.ttl, now) /\ t.targetHost = s.targetHost
    BY <1>1, <2>2, <2>3 DEF Applied, Keeps
  <2> QED
    BY <1>1, <2>4 DEF t
<1>2. CASE rr.ttl # 0
  <2> DEFINE r == Refresh(s, now, rr.ttl)
  <2>1. r \in ServiceSnapshot /\ t = [r EXCEPT !.stype = rr.owner]
    BY <1>0, <1>2, RefreshFacts DEF ApplyPTR
  <2>2. /\ r.firstSeen = IF s.firstSeen = NoTime THEN now ELSE s.firstSeen
        /\ r.originalTtl >= rr.ttl /\ r.originalTtl >= s.originalTtl
        /\ r.txt = s.txt /\ r.targetHost = s.targetHost
    BY <1>0, RefreshFacts
  <2> HIDE DEF r, t
  <2>3. /\ t \in ServiceSnapshot
        /\ t.firstSeen = r.firstSeen /\ t.originalTtl = r.originalTtl
        /\ t.txt = r.txt /\ t.targetHost = r.targetHost
    BY <1>0, <2>1 DEF ServiceSnapshot
  <2>4. Applied(s, t, rr.ttl, now) /\ t.targetHost = s.targetHost
    BY <2>2, <2>3 DEF Applied, Keeps
  <2> QED
    BY <2>4 DEF t
<1> QED
  BY <1>1, <1>2

\* SRV: with a TTL, the record points at the target of the SRV record.
LEMMA ApplySRVFacts ==
    ASSUME NEW s \in ServiceSnapshot, NEW rr \in SRV, NEW now \in Time
    PROVE  /\ Applied(s, ApplySRV(s, rr, now), rr.ttl, now)
           /\ ApplySRV(s, rr, now).targetHost =
                IF rr.ttl = 0 THEN s.targetHost ELSE rr.target
<1> DEFINE t == ApplySRV(s, rr, now)
<1>0. /\ rr.ttl \in TTL /\ rr.owner \in Instance
      /\ rr.target \in Host \cup {NoHost}
  BY DEF SRV
<1>1. CASE rr.ttl = 0
  <2>1. t = Withdraw(s, now)
    BY <1>1 DEF ApplySRV
  <2> HIDE DEF t
  <2>2. /\ t \in ServiceSnapshot
        /\ t.firstSeen = s.firstSeen /\ t.originalTtl = s.originalTtl
        /\ t.txt = s.txt /\ t.targetHost = s.targetHost
    BY <2>1, WithdrawFacts
  <2>3. s.originalTtl \in Nat
    BY DEF ServiceSnapshot, TTL
  <2>4. Applied(s, t, rr.ttl, now) /\ t.targetHost = s.targetHost
    BY <1>1, <2>2, <2>3 DEF Applied, Keeps
  <2> QED
    BY <1>1, <2>4 DEF t
<1>2. CASE rr.ttl # 0
  <2> DEFINE r == Refresh(s, now, rr.ttl)
             q == InferType(r, rr.owner)
  <2>1. /\ r.firstSeen = IF s.firstSeen = NoTime THEN now ELSE s.firstSeen
        /\ r.originalTtl >= rr.ttl /\ r.originalTtl >= s.originalTtl
        /\ r.txt = s.txt
        /\ r \in ServiceSnapshot
    BY <1>0, RefreshFacts
  <2>2. t = [q EXCEPT !.targetHost = rr.target]
    BY <1>2 DEF ApplySRV
  <2> HIDE DEF r
  <2>3. q \in ServiceSnapshot /\ q = [r EXCEPT !.stype = q.stype]
    BY <1>0, <2>1, InferTypeFacts
  <2> HIDE DEF q, t
  <2>4. /\ t \in ServiceSnapshot
        /\ t.firstSeen = r.firstSeen /\ t.originalTtl = r.originalTtl
        /\ t.txt = r.txt /\ t.targetHost = rr.target
    BY <1>0, <2>1, <2>2, <2>3 DEF ServiceSnapshot
  <2>5. Applied(s, t, rr.ttl, now) /\ t.targetHost = rr.target
    BY <2>1, <2>4 DEF Applied, Keeps
  <2> QED
    BY <1>2, <2>5 DEF t
<1> QED
  BY <1>1, <1>2

\* TXT: the record keeps its target host and gains the TXT keys.
LEMMA ApplyTXTFacts ==
    ASSUME NEW s \in ServiceSnapshot, NEW rr \in TXT, NEW now \in Time
    PROVE  /\ Applied(s, ApplyTXT(s, rr, now), rr.ttl, now)
           /\ ApplyTXT(s, rr, now).targetHost = s.targetHost
           /\ rr.ttl > 0 => rr.attrs \subseteq ApplyTXT(s, rr, now).txt
<1> DEFINE t == ApplyTXT(s, rr, now)
<1>0. /\ rr.ttl \in TTL /\ rr.owner \in Instance /\ rr.attrs \in SUBSET Attr
  BY DEF TXT
<1>1. CASE rr.ttl = 0
  <2>1. t = [s EXCEPT !.lastSeen = now]
    BY <1>1 DEF ApplyTXT
  <2>2. /\ t \in ServiceSnapshot /\ Keeps(s, t)
        /\ t.targetHost = s.targetHost
    BY <2>1 DEF Keeps, ServiceSnapshot, TTL
  <2> QED
    BY <1>1, <2>2 DEF Applied
<1>2. CASE rr.ttl # 0
  <2> DEFINE r == Refresh(s, now, rr.ttl)
             q == InferType(r, rr.owner)
  <2>1. /\ r.firstSeen = IF s.firstSeen = NoTime THEN now ELSE s.firstSeen
        /\ r.originalTtl >= rr.ttl /\ r.originalTtl >= s.originalTtl
        /\ r.txt = s.txt /\ r.targetHost = s.targetHost
        /\ r \in ServiceSnapshot
    BY <1>0, RefreshFacts
  <2>2. t = [q EXCEPT !.txt = q.txt \cup rr.attrs]
    BY <1>2 DEF ApplyTXT
  <2> HIDE DEF r
  <2>3. q \in ServiceSnapshot /\ q = [r EXCEPT !.stype = q.stype]
    BY <1>0, <2>1, InferTypeFacts
  <2> HIDE DEF q, t
  <2>4. /\ t \in ServiceSnapshot
        /\ t.firstSeen = r.firstSeen /\ t.originalTtl = r.originalTtl
        /\ t.txt = r.txt \cup rr.attrs /\ t.targetHost = r.targetHost
    BY <1>0, <2>1, <2>2, <2>3 DEF ServiceSnapshot
  <2>5. /\ Applied(s, t, rr.ttl, now) /\ t.targetHost = s.targetHost
        /\ rr.attrs \subseteq t.txt
    BY <2>1, <2>4 DEF Applied, Keeps
  <2> QED
    BY <2>5 DEF t
<1> QED
  BY <1>1, <1>2

-----------------------------------------------------------------------------
\* The lifetime of a record only gets easier to bound as time passes.
LEMMA BoundedLater ==
    ASSUME NEW s \in ServiceSnapshot, NEW n \in Nat, NEW m \in Nat, n <= m,
           Bounded(s, n)
    PROVE  Bounded(s, m)
BY DEF Bounded, ServiceSnapshot, Time, TTL

\* The lifetime does not depend on the type, the host and the TXT keys.
LEMMA BoundedSame ==
    ASSUME NEW s, NEW t, NEW n, Bounded(s, n),
           t.ttl = s.ttl, t.originalTtl = s.originalTtl,
           t.firstSeen = s.firstSeen, t.lastSeen = s.lastSeen,
           t.expiresAt = s.expiresAt, t.goodbye = s.goodbye
    PROVE  Bounded(t, n)
BY DEF Bounded

\* Where a handler may start from: a known instance or a new one.
Starting(s, n) == s = ZeroService \/ Bounded(s, n)

\* A record with a TTL, read at most now, leaves a bounded lifetime ...
LEMMA RefreshBounded ==
    ASSUME NEW s \in ServiceSnapshot, NEW n \in Nat, NEW now \in 1 .. n,
           NEW ttl \in TTL, ttl # 0, Starting(s, n)
    PROVE  Bounded(Refresh(s, now, ttl), n)
<1> DEFINE t == Refresh(s, now, ttl)
<1>1. now \in Time
  BY DEF Time
<1>2. /\ t \in ServiceSnapshot
      /\ t.ttl = ttl /\ t.lastSeen = now /\ t.expiresAt = now + ttl
      /\ t.goodbye = FALSE
      /\ t.firstSeen = IF s.firstSeen = NoTime THEN now ELSE s.firstSeen
      /\ t.originalTtl >= ttl
  BY <1>1, RefreshFacts
<1>3. s.firstSeen <= n /\ s.firstSeen \in Nat /\ now + ttl # 0
  BY DEF Starting, ZeroService, Bounded, NoTime, ServiceSnapshot, Time, TTL
<1> HIDE DEF t
<1>4. /\ t.ttl <= t.originalTtl
      /\ t.expiresAt <= n + t.originalTtl
      /\ t.firstSeen <= n /\ t.firstSeen # NoTime /\ t.originalTtl # 0
      /\ t.expiresAt # NoTime
  BY <1>2, <1>3 DEF NoTime, TTL, ServiceSnapshot, Time
<1>5. Bounded(t, n)
  BY <1>2, <1>4 DEF Bounded
<1> QED
  BY <1>5 DEF t

\* ... and so does a goodbye.
LEMMA WithdrawBounded ==
    ASSUME NEW s \in ServiceSnapshot, NEW n \in Nat, NEW now \in 1 .. n,
           Starting(s, n)
    PROVE  Bounded(Withdraw(s, now), n)
<1> DEFINE t == Withdraw(s, now)
<1>1. now \in Time
  BY DEF Time
<1>2. /\ t.ttl = 0 /\ t.lastSeen = now /\ t.expiresAt = now /\ t.goodbye = TRUE
      /\ t.firstSeen = s.firstSeen /\ t.originalTtl = s.originalTtl
  BY <1>1, WithdrawFacts
<1>3. /\ s.firstSeen <= n /\ s.originalTtl \in Nat
      /\ s.firstSeen = NoTime <=> s.originalTtl = 0
  BY DEF Starting, ZeroService, Bounded, NoTime, ServiceSnapshot, TTL
<1> HIDE DEF t
<1>4. Bounded(t, n)
  BY <1>2, <1>3 DEF Bounded, NoTime
<1> QED
  BY <1>4 DEF t

\* Hence the three handlers keep the lifetime bounded.
LEMMA ApplyBounded ==
    ASSUME NEW s \in ServiceSnapshot, NEW n \in Nat, NEW now \in 1 .. n,
           Starting(s, n)
    PROVE  /\ \A rr \in PTR : Bounded(ApplyPTR(s, rr, now), n)
           /\ \A rr \in SRV : Bounded(ApplySRV(s, rr, now), n)
           /\ \A rr \in TXT : Bounded(ApplyTXT(s, rr, now), n)
<1>0. now \in Time
  BY DEF Time
<1>1. ASSUME NEW rr \in PTR PROVE Bounded(ApplyPTR(s, rr, now), n)
  <2>1. CASE rr.ttl = 0
    BY <2>1, WithdrawBounded DEF ApplyPTR
  <2>2. CASE rr.ttl # 0
    <3> DEFINE r == Refresh(s, now, rr.ttl)
               t == [r EXCEPT !.stype = rr.owner]
    <3>1. rr.ttl \in TTL
      BY DEF PTR
    <3>2. r \in ServiceSnapshot /\ Bounded(r, n)
      BY <1>0, <2>2, <3>1, RefreshFacts, RefreshBounded
    <3> HIDE DEF r
    <3>3. Bounded(t, n)
      BY <3>2, BoundedSame DEF ServiceSnapshot
    <3> QED
      BY <2>2, <3>3 DEF ApplyPTR, r
  <2> QED
    BY <2>1, <2>2
<1>2. ASSUME NEW rr \in SRV PROVE Bounded(ApplySRV(s, rr, now), n)
  <2>1. CASE rr.ttl = 0
    BY <2>1, WithdrawBounded DEF ApplySRV
  <2>2. CASE rr.ttl # 0
    <3> DEFINE r == Refresh(s, now, rr.ttl)
               q == InferType(r, rr.owner)
               t == [q EXCEPT !.targetHost = rr.target]
    <3>1. rr.ttl \in TTL /\ rr.owner \in Instance
      BY DEF SRV
    <3>2. r \in ServiceSnapshot /\ Bounded(r, n)
      BY <1>0, <2>2, <3>1, RefreshFacts, RefreshBounded
    <3> HIDE DEF r
    <3>3. q \in ServiceSnapshot /\ q = [r EXCEPT !.stype = q.stype]
      BY <3>1, <3>2, InferTypeFacts
    <3> HIDE DEF q
    <3>4. Bounded(q, n)
      BY <3>2, <3>3, BoundedSame DEF ServiceSnapshot
    <3>5. Bounded(t, n)
      BY <3>3, <3>4, BoundedSame DEF ServiceSnapshot
    <3> QED
      BY <2>2, <3>5 DEF ApplySRV, r, q
  <2> QED
    BY <2>1, <2>2
<1>3. ASSUME NEW rr \in TXT PROVE Bounded(ApplyTXT(s, rr, now), n)
  <2>1. CASE rr.ttl = 0
    <3> DEFINE t == [s EXCEPT !.lastSeen = now]
    <3>1. Bounded(t, n)
      BY DEF Starting, ZeroService, Bounded, ServiceSnapshot, NoTime, Time, TTL
    <3> QED
      BY <2>1, <3>1 DEF ApplyTXT
  <2>2. CASE rr.ttl # 0
    <3> DEFINE r == Refresh(s, now, rr.ttl)
               q == InferType(r, rr.owner)
               t == [q EXCEPT !.txt = q.txt \cup rr.attrs]
    <3>1. rr.ttl \in TTL /\ rr.owner \in Instance
      BY DEF TXT
    <3>2. r \in ServiceSnapshot /\ Bounded(r, n)
      BY <1>0, <2>2, <3>1, RefreshFacts, RefreshBounded
    <3> HIDE DEF r
    <3>3. q \in ServiceSnapshot /\ q = [r EXCEPT !.stype = q.stype]
      BY <3>1, <3>2, InferTypeFacts
    <3> HIDE DEF q
    <3>4. Bounded(q, n)
      BY <3>2, <3>3, BoundedSame DEF ServiceSnapshot
    <3>5. Bounded(t, n)
      BY <3>3, <3>4, BoundedSame DEF ServiceSnapshot
    <3> QED
      BY <2>2, <3>5 DEF ApplyTXT, r, q
  <2> QED
    BY <2>1, <2>2
<1> QED
  BY <1>1, <1>2, <1>3

-----------------------------------------------------------------------------
\* Any record but a TXT goodbye gives the instance the lifetime it carries, whatever
\* the lifetime was; a TXT goodbye leaves it alone.
LEMMA ApplyDates ==
    ASSUME NEW s \in ServiceSnapshot, NEW now \in Time
    PROVE  /\ \A rr \in PTR : Dated(ApplyPTR(s, rr, now), now, rr.ttl)
           /\ \A rr \in SRV : Dated(ApplySRV(s, rr, now), now, rr.ttl)
           /\ \A rr \in TXT :
                IF rr.ttl = 0
                  THEN LET t == ApplyTXT(s, rr, now) IN
                       /\ t.ttl = s.ttl /\ t.expiresAt = s.expiresAt
                       /\ t.goodbye = s.goodbye
                  ELSE Dated(ApplyTXT(s, rr, now), now, rr.ttl)
<1>1. Dated(Withdraw(s, now), now, 0)
  <2>1. /\ Withdraw(s, now).ttl = 0 /\ Withdraw(s, now).goodbye = TRUE
        /\ Withdraw(s, now).expiresAt = now
    BY WithdrawFacts
  <2>2. now + 0 = now
    BY DEF Time
  <2> QED
    BY <2>1, <2>2 DEF Dated
<1>2. ASSUME NEW rr \in PTR PROVE Dated(ApplyPTR(s, rr, now), now, rr.ttl)
  <2> DEFINE r == Refresh(s, now, rr.ttl)
             t == [r EXCEPT !.stype = rr.owner]
  <2>1. /\ r \in ServiceSnapshot /\ r.goodbye = FALSE
        /\ r.ttl = rr.ttl /\ r.expiresAt = now + rr.ttl
    BY RefreshFacts DEF PTR
  <2> HIDE DEF r
  <2>2. rr.ttl # 0 => Dated(t, now, rr.ttl)
    BY <2>1 DEF Dated, ServiceSnapshot
  <2> QED
    BY <1>1, <2>2 DEF ApplyPTR, r
<1>3. ASSUME NEW rr \in SRV PROVE Dated(ApplySRV(s, rr, now), now, rr.ttl)
  <2> DEFINE r == Refresh(s, now, rr.ttl)
             q == InferType(r, rr.owner)
             t == [q EXCEPT !.targetHost = rr.target]
  <2>0. rr.ttl \in TTL /\ rr.owner \in Instance
    BY DEF SRV
  <2>1. /\ r \in ServiceSnapshot /\ r.goodbye = FALSE
        /\ r.ttl = rr.ttl /\ r.expiresAt = now + rr.ttl
    BY <2>0, RefreshFacts
  <2> HIDE DEF r
  <2>2. q \in ServiceSnapshot /\ q = [r EXCEPT !.stype = q.stype]
    BY <2>0, <2>1, InferTypeFacts
  <2> HIDE DEF q
  <2>3. q.ttl = r.ttl /\ q.expiresAt = r.expiresAt /\ q.goodbye = r.goodbye
    BY <2>1, <2>2 DEF ServiceSnapshot
  <2>4. t.ttl = q.ttl /\ t.expiresAt = q.expiresAt /\ t.goodbye = q.goodbye
    BY <2>2 DEF ServiceSnapshot
  <2>5. rr.ttl # 0 => Dated(t, now, rr.ttl)
    BY <2>1, <2>3, <2>4 DEF Dated
  <2> QED
    BY <1>1, <2>5 DEF ApplySRV, r, q
<1>4. ASSUME NEW rr \in TXT, rr.ttl # 0
      PROVE  Dated(ApplyTXT(s, rr, now), now, rr.ttl)
  <2> DEFINE r == Refresh(s, now, rr.ttl)
             q == InferType(r, rr.owner)
             t == [q EXCEPT !.txt = q.txt \cup rr.attrs]
  <2>0. rr.ttl \in TTL /\ rr.owner \in Instance
    BY DEF TXT
  <2>1. /\ r \in ServiceSnapshot /\ r.goodbye = FALSE
        /\ r.ttl = rr.ttl /\ r.expiresAt = now + rr.ttl
    BY <2>0, RefreshFacts
  <2> HIDE DEF r
  <2>2. q \in ServiceSnapshot /\ q = [r EXCEPT !.stype = q.stype]
    BY <2>0, <2>1, InferTypeFacts
  <2> HIDE DEF q
  <2>3. q.ttl = r.ttl /\ q.expiresAt = r.expiresAt /\ q.goodbye = r.goodbye
    BY <2>1, <2>2 DEF ServiceSnapshot
  <2>4. t.ttl = q.ttl /\ t.expiresAt = q.expiresAt /\ t.goodbye = q.goodbye
    BY <2>2 DEF ServiceSnapshot
  <2>5. Dated(t, now, rr.ttl)
    BY <1>4, <2>1, <2>3, <2>4 DEF Dated
  <2> QED
    BY <1>4, <2>5 DEF ApplyTXT, r, q
<1>5. ASSUME NEW rr \in TXT, rr.ttl = 0
      PROVE  LET t == ApplyTXT(s, rr, now) IN
             t.ttl = s.ttl /\ t.expiresAt = s.expiresAt /\ t.goodbye = s.goodbye
  BY <1>5 DEF ApplyTXT, ServiceSnapshot
<1> QED
  BY <1>2, <1>3, <1>4, <1>5

=============================================================================
