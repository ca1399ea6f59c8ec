--------------------------- MODULE ServiceRecord ---------------------------
(***************************************************************************)
(* One discovered DNS-SD instance as the registry keeps it                 *)
(* (model.ServiceSnapshot), what each resource record does to it           *)
(* (applyPTR, applySRV and applyTXT of internal/discovery/engine.go), and  *)
(* the state a graph snapshot derives from it (deriveServiceState).        *)
(*                                                                         *)
(* Times are in seconds; 0 is the zero time.Time.  Names stand for their   *)
(* class under NormName.  The label, the port and the interface of an      *)
(* instance are left out, and of its TXT map only the keys are kept.       *)
(***************************************************************************)
EXTENDS Integers

CONSTANTS
    Instance,       \* DNS-SD instance names, the keys of the registry
    ServiceType,    \* browse domains such as _http._tcp.local
    NoType,         \* the empty service type
    Host,           \* host names
    NoHost,         \* the empty host name (an SRV target of ".")
    Attr,           \* TXT keys
    InferredType,   \* inferServiceTypeFromInstance, per instance
    NewWindow,      \* -new-pulse
    StaleNum,       \* -stale-ttl-ratio is StaleNum / StaleDen
    StaleDen

ASSUME NamesAssumption ==
    /\ NoType \notin ServiceType
    /\ NoHost \notin Host
    /\ InferredType \in [Instance -> ServiceType \cup {NoType}]

ASSUME WindowAssumption ==
    /\ NewWindow \in Nat
    /\ StaleNum \in Nat
    /\ StaleDen \in Nat \ {0}

NoTime == 0
Time == Nat
TTL == Nat

ServiceSnapshot ==
    [ stype       : ServiceType \cup {NoType},
      targetHost  : Host \cup {NoHost},
      txt         : SUBSET Attr,
      ttl         : TTL,
      originalTtl : TTL,
      firstSeen   : Time,
      lastSeen    : Time,
      expiresAt   : Time,
      goodbye     : BOOLEAN ]

\* &ServiceSnapshot{}: what UpsertService creates for an unknown key.
ZeroService ==
    [ stype |-> NoType, targetHost |-> NoHost, txt |-> {},
      ttl |-> 0, originalTtl |-> 0,
      firstSeen |-> NoTime, lastSeen |-> NoTime, expiresAt |-> NoTime,
      goodbye |-> FALSE ]

-----------------------------------------------------------------------------
\* The records of an answer, by what the engine does with them.
PTR   == [rtype : {"PTR"}, owner : ServiceType, target : Instance, ttl : TTL]
META  == [rtype : {"META"}, target : ServiceType, ttl : TTL]
SRV   == [rtype : {"SRV"}, owner : Instance, target : Host \cup {NoHost}, ttl : TTL]
TXT   == [rtype : {"TXT"}, owner : Instance, attrs : SUBSET Attr, ttl : TTL]

\* Mutant: the first sighting is taken anew when a withdrawn instance returns.
RefreshForgetting(s, now, ttl) ==
    [s EXCEPT !.firstSeen   = IF @ = NoTime \/ s.goodbye THEN now ELSE @,
              !.ttl         = ttl,
              !.originalTtl = IF @ = 0 \/ ttl > @ THEN ttl ELSE @,
              !.lastSeen    = now,
              !.expiresAt   = now + ttl,
              !.goodbye     = FALSE]

\* Mutant: the lifetime is extended from the old expiry.
RefreshExtending(s, now, ttl) ==
    [s EXCEPT !.firstSeen   = IF @ = NoTime THEN now ELSE @,
              !.ttl         = ttl,
              !.originalTtl = IF @ = 0 \/ ttl > @ THEN ttl ELSE @,
              !.lastSeen    = now,
              !.expiresAt   = (IF @ = NoTime THEN now ELSE @) + ttl,
              !.goodbye     = FALSE]

\* The part the positive branches of applyPTR, applySRV and applyTXT share.
Refresh(s, now, ttl) ==
    [s EXCEPT !.firstSeen   = IF @ = NoTime THEN now ELSE @,
              !.ttl         = ttl,
              !.originalTtl = IF @ = 0 \/ ttl > @ THEN ttl ELSE @,
              !.lastSeen    = now,
              !.expiresAt   = now + ttl,
              !.goodbye     = FALSE]

\* TTL 0 in a PTR or an SRV record: the instance withdraws itself.
Withdraw(s, now) ==
    [s EXCEPT !.goodbye = TRUE, !.lastSeen = now, !.expiresAt = now, !.ttl = 0]

\* Only an instance without a type gets the one its name suggests.
InferType(s, key) ==
    [s EXCEPT !.stype = IF @ = NoType THEN InferredType[key] ELSE @]

\* What the closure passed to UpsertService does for each record type.
ApplyPTR(s, rr, now) ==
    IF rr.ttl = 0
      THEN Withdraw(s, now)
      ELSE [Refresh(s, now, rr.ttl) EXCEPT !.stype = rr.owner]

ApplySRV(s, rr, now) ==
    IF rr.ttl = 0
      THEN Withdraw(s, now)
      ELSE [InferType(Refresh(s, now, rr.ttl), rr.owner)
              EXCEPT !.targetHost = rr.target]

\* Mutant: no branch for TTL 0.
TXTWithoutGoodbye(s, rr, now) ==
    [InferType(Refresh(s, now, rr.ttl), rr.owner) EXCEPT !.txt = @ \cup rr.attrs]

\* A TXT goodbye leaves the lifetime of the instance alone.
ApplyTXT(s, rr, now) ==
    IF rr.ttl = 0
      THEN [s EXCEPT !.lastSeen = now]
      ELSE [InferType(Refresh(s, now, rr.ttl), rr.owner)
              EXCEPT !.txt = @ \cup rr.attrs]

\* The lifetime of an instance known at some time is consistent and bounded: it
\* has been seen, nothing is dated in the future, it expires at most the
\* longest TTL it announced from then, and a withdrawn one has expired; only one
\* that was neither announced nor withdrawn has no expiry.
Bounded(s, now) ==
    /\ s.ttl <= s.originalTtl
    /\ s.expiresAt <= now + s.originalTtl
    /\ s.goodbye => s.ttl = 0 /\ s.expiresAt \in 1 .. now
    /\ s.lastSeen \in 1 .. now
    /\ s.firstSeen <= now
    /\ s.firstSeen = NoTime <=> s.originalTtl = 0
    /\ s.expiresAt = NoTime <=> s.firstSeen = NoTime /\ ~s.goodbye

\* The lifetime of s is what a record of the given TTL, read at the given time, gives it.
Dated(s, now, ttl) ==
    /\ s.ttl = ttl
    /\ s.expiresAt = now + ttl
    /\ s.goodbye <=> ttl = 0

\* What a later record t of an instance keeps of an earlier one s.
Keeps(s, t) ==
    /\ s.firstSeen # NoTime => t.firstSeen = s.firstSeen
    /\ t.originalTtl >= s.originalTtl
    /\ s.txt \subseteq t.txt

-----------------------------------------------------------------------------
\* deriveServiceState.  now.After is strict; the ratio is converted to an
\* integer time.Duration before it scales the original TTL, which truncates it.
Expired(s, now) == s.goodbye \/ (s.expiresAt # NoTime /\ now > s.expiresAt)

Fresh(s, now) == s.firstSeen # NoTime /\ now - s.firstSeen <= NewWindow

Low(s, now) ==
    /\ s.expiresAt # NoTime
    /\ s.originalTtl > 0
    /\ s.expiresAt > now
    /\ s.expiresAt - now < s.originalTtl * (StaleNum \div StaleDen)

ServiceState(s, now) ==
    IF Expired(s, now) THEN "offline"
    ELSE IF Fresh(s, now) THEN "new"
    ELSE IF Low(s, now) THEN "stale"
    ELSE "active"

=============================================================================
