----------------------------- MODULE Lifecycle -----------------------------
(***************************************************************************)
(* What an application can rely on about its client's connection, without  *)
(* sockets, sessions or requests: connect() returns once, with the outcome *)
(* of the first attempt; afterwards the published state alternates between *)
(* Connected and numbered retries, each retry one more than the last, never *)
(* more than the policy allows, until it is Closed for good.               *)
(***************************************************************************)
EXTENDS Naturals

CONSTANTS ReconnectEnabled, MaxAttempts, NoLimit, AttemptMax

VARIABLES
    connected,  \* what connect() returned: "pending", "ok" or "failed"
    published,  \* "Connecting", "Connected", "Reconnecting" or "Closed"
    retry,      \* the number published with Reconnecting, 0 otherwise
    retries     \* retries so far, over all connections

lifecycle == <<connected, published, retry, retries>>

Init ==
    /\ connected = "pending"
    /\ published = "Connecting"
    /\ retry = 0
    /\ retries = 0

Establish ==
    /\ published \in {"Connecting", "Reconnecting"}
    /\ published' = "Connected"
    /\ retry' = 0
    /\ connected' = "ok"
    /\ UNCHANGED retries

FailToConnect ==
    /\ published = "Connecting"
    /\ published' = "Closed"
    /\ connected' = "failed"
    /\ UNCHANGED <<retry, retries>>

Retry ==
    /\ published \in {"Connected", "Reconnecting"}
    /\ ReconnectEnabled
    /\ retries' = IF retries < AttemptMax THEN retries + 1 ELSE retries
    /\ MaxAttempts # NoLimit => retries' <= MaxAttempts
    /\ published' = "Reconnecting"
    /\ retry' = retries'
    /\ UNCHANGED connected

GiveUp ==
    /\ published \in {"Connected", "Reconnecting"}
    /\ published' = "Closed"
    /\ retry' = 0
    /\ retries' \in {retries, retries + 1}
    /\ UNCHANGED connected

Next == Establish \/ FailToConnect \/ Retry \/ GiveUp

Spec == Init /\ [][Next]_lifecycle

=============================================================================
