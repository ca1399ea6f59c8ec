------------------------------- MODULE TxtMap -------------------------------
(***************************************************************************)
(* The TXT map of one instance.  applyTXT writes it under the lock of the  *)
(* registry; Snapshot copies the ServiceSnapshot under the same lock and   *)
(* with it a reference to the map, which handleGraph encodes after the     *)
(* lock was given back.  What a Go program does that reads a map while     *)
(* another goroutine writes it is not defined: here the reader sees some   *)
(* of what is written, or the runtime ends the process.                    *)
(***************************************************************************)
EXTENDS Naturals, FiniteSets

CONSTANTS
    Key,            \* keys of TXT records
    Request,        \* calls of handleGraph
    MaxPackets      \* bound: TXT records received

VARIABLES
    packets,        \* the number of TXT records applied
    allocated,      \* is s.TXT a map, and not nil?
    txt,            \* the keys of that map
    writing,        \* the keys applyTXT still has to write; it holds the lock while any
    call,           \* each request: "idle", "encoding", "done"
    shared,         \* does its copy of the record refer to the map?
    atCopy,         \* the keys at the time of the copy (history)
    answer,         \* the keys it has encoded so far
    running         \* has the runtime not ended the process?

vars == <<packets, allocated, txt, writing, call, shared, atCopy, answer, running>>

Init ==
    /\ packets = 0 /\ allocated = FALSE /\ txt = {} /\ writing = {}
    /\ call = [r \in Request |-> "idle"]
    /\ shared = [r \in Request |-> FALSE]
    /\ atCopy = [r \in Request |-> {}]
    /\ answer = [r \in Request |-> {}]
    /\ running = TRUE

-----------------------------------------------------------------------------
\* UpsertService begins to run the closure of applyTXT: the map is made when there is
\* none.
Lock ==
    /\ running /\ writing = {} /\ packets < MaxPackets
    /\ writing' \in SUBSET Key \ {{}}
    /\ allocated' = TRUE
    /\ packets' = packets + 1
    /\ UNCHANGED <<txt, call, shared, atCopy, answer, running>>

\* s.TXT[k] = val; the last one is followed by the end of the closure.
WriteKey ==
    /\ running
    /\ \E k \in writing : txt' = txt \cup {k} /\ writing' = writing \ {k}
    /\ UNCHANGED <<packets, allocated, call, shared, atCopy, answer, running>>

\* Registry.Snapshot, under the read lock: s := *sp
Snapshot(r) ==
    /\ running /\ writing = {} /\ call[r] = "idle"
    /\ call' = [call EXCEPT ![r] = "encoding"]
    /\ shared' = [shared EXCEPT ![r] = allocated]
    /\ atCopy' = [atCopy EXCEPT ![r] = txt]
    /\ UNCHANGED <<packets, allocated, txt, writing, answer, running>>

\* The encoder comes to an entry of the map.
EncodeKey(r) ==
    /\ running /\ call[r] = "encoding" /\ shared[r]
    /\ \E k \in txt \ answer[r] : answer' = [answer EXCEPT ![r] = @ \cup {k}]
    /\ UNCHANGED <<packets, allocated, txt, writing, call, shared, atCopy, running>>

\* The iteration ends.  It may have missed what was written meanwhile, and nothing
\* else.
Respond(r) ==
    /\ running /\ call[r] = "encoding"
    /\ shared[r] => atCopy[r] \subseteq answer[r]
    /\ call' = [call EXCEPT ![r] = "done"]
    /\ UNCHANGED <<packets, allocated, txt, writing, shared, atCopy, answer, running>>

\* "fatal error: concurrent map iteration and map write"
Fatal ==
    /\ running /\ writing # {}
    /\ \E r \in Request : call[r] = "encoding" /\ shared[r]
    /\ running' = FALSE
    /\ UNCHANGED <<packets, allocated, txt, writing, call, shared, atCopy, answer>>

Next ==
    \/ Lock \/ WriteKey \/ Fatal
    \/ \E r \in Request : Snapshot(r) \/ EncodeKey(r) \/ Respond(r)

Spec == Init /\ [][Next]_vars

-----------------------------------------------------------------------------
\* "**REST JSON:** graph snapshot" (README.md:49): the keys an answer has for an
\* instance are those the instance had when the rest of its record was copied.
AnswerIsSnapshot ==
    \A r \in Request : call[r] = "done" => answer[r] = atCopy[r]

=============================================================================
