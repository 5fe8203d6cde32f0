--------------------------- MODULE RequestLedger ---------------------------
(***************************************************************************)
(* What a session promises about the calls made on it, without frames,     *)
(* queues or ids to allocate: a call is issued only while the connection   *)
(* is up and then moves once, to answered, to failed, or - when OBS        *)
(* answers it with the wrong opcode - to dropped.  Closing fails every     *)
(* open call in the same step, and nothing is issued afterwards.           *)
(***************************************************************************)
EXTENDS Naturals

CONSTANT CallIds

VARIABLES
    conn,   \* the connection: "opening", "up" or "down"
    call    \* for each id: "idle", "open", "answered", "failed" or "dropped"

ledger == <<conn, call>>

Init ==
    /\ conn = "opening"
    /\ call = [id \in CallIds |-> "idle"]

OpenCalls == {id \in CallIds : call[id] = "open"}

Settle(ids, outcome) ==
    call' = [id \in CallIds |-> IF id \in ids THEN outcome ELSE call[id]]

Identify ==
    /\ conn = "opening"
    /\ conn' = "up"
    /\ UNCHANGED call

Issue(id) ==
    /\ conn = "up"
    /\ call[id] = "idle"
    /\ Settle({id}, "open")
    /\ UNCHANGED conn

Answer(id) ==
    /\ conn = "up"
    /\ id \in OpenCalls
    /\ Settle({id}, "answered") \/ Settle({id}, "dropped")
    /\ UNCHANGED conn

Expire(ids) ==
    /\ conn = "up"
    /\ Settle(ids, "failed")
    /\ UNCHANGED conn

Shut ==
    /\ conn' = "down"
    /\ Settle(OpenCalls, "failed")

Next ==
    \/ Identify
    \/ \E id \in CallIds : Issue(id) \/ Answer(id)
    \/ \E ids \in SUBSET OpenCalls : Expire(ids)
    \/ Shut

Spec == Init /\ [][Next]_ledger

=============================================================================
