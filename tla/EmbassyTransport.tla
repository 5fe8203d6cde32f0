-------------------------- MODULE EmbassyTransport --------------------------
(***************************************************************************)
(* The WebSocket transport of obs-websocket-embassy/src/lib.rs: a byte     *)
(* stream in, a receive buffer of RX bytes, a message put together from    *)
(* its fragments, and a byte stream out.  The owner may drop the future of *)
(* recv() or send() at any await, as Connection does when its timer wins.  *)
(*                                                                         *)
(* Bytes are abstracted to units: a frame is Size units long, and only the *)
(* number of units that have arrived or been written matters.  A frame is  *)
(* decoded once all of it is in the buffer (BufferTooSmall: "A frame did   *)
(* not fit").                                                              *)
(***************************************************************************)
EXTENDS Integers, Sequences, SequencesExt

CONSTANTS
    RX,             \* units the receive buffer holds
    ResponseSize,   \* units of the HTTP response to the upgrade
    MaxSize,        \* bound on the units of a frame
    MaxControl,     \* bound on those of a control frame, which is always short
    MaxFrames,      \* bound on the frames of the peer
    MaxSends        \* bound on the frames the owner sends

ASSUME EmbassyAssumption ==
    /\ RX \in Nat \ {0} /\ ResponseSize \in Nat \ {0} /\ MaxSize \in Nat \ {0}
    /\ MaxControl \in Nat
    /\ MaxFrames \in Nat /\ MaxSends \in Nat

VARIABLES
    wire,       \* units of the peer that the client has not read
    rx,         \* the receive buffer, rx[..rx_len]
    message,    \* [parts, text]: the fragments collected so far
    at,         \* the await the transport is at; "read" is the top of the loop
    writing,    \* [kind, left]: the frame write_all() is writing
    handshake,  \* the closing handshake: "open", or a close was "sent" or "received"
    last,       \* how the last call ended; "failed" is Io, Protocol or UnexpectedEof
    received,   \* the messages recv() has returned
    peer,       \* [frames, parts, text, sent, closed, eof]: the other end
    sends       \* frames the owner has begun to send

vars == <<wire, rx, message, at, writing, handshake, last, received, peer, sends>>

----------------------------------------------------------------------------
(* Frames and units.                                                       *)

DataKinds == {"text", "binary"}

Units(f) == [i \in 1 .. f.size |-> [frame |-> f, part |-> i]]

\* websocket.read() (external): the first frame, if all of it is there.
Complete(buffer) ==
    buffer # <<>> /\ Len(buffer) >= buffer[1].frame.size

\* No frame is being written.
Idle == [kind |-> "none", left |-> 0]

NoMessage == [parts |-> <<>>, text |-> TRUE]

----------------------------------------------------------------------------

Init ==
    /\ wire = Units([kind |-> "http", no |-> 0, size |-> ResponseSize, fin |-> TRUE])
    /\ rx = <<>>
    /\ message = NoMessage
    /\ at = "connect"
    /\ writing = Idle
    /\ handshake = "open"
    /\ last = "ok"
    /\ received = <<>>
    /\ peer = [frames |-> 0, parts |-> <<>>, text |-> TRUE, sent |-> <<>>,
               closed |-> FALSE, eof |-> FALSE]
    /\ sends = 0

\* Seeded fault: one unit short.
FullEarly == Len(rx) + 1 >= RX

Full == Len(rx) = RX

\* read() on the stream: some of what has arrived, as far as there is room.
Arrive ==
    \E n \in 1 .. Len(wire) :
        /\ Len(rx) + n <= RX
        /\ rx' = rx \o SubSeq(wire, 1, n)
        /\ wire' = SubSeq(wire, n + 1, Len(wire))

\* Seeded fault: what arrived behind the response is dropped with it.
AcceptedAlone(buffer) == <<>>

\* connect(): the bytes behind the header are moved to the front.
Accepted(buffer) == SubSeq(buffer, ResponseSize + 1, Len(buffer))

\* The loop of connect(), up to the response's end.
ConnectReads ==
    /\ at = "connect"
    /\ Len(rx) < ResponseSize
    /\ Arrive
    /\ UNCHANGED <<message, at, writing, handshake, last, received, peer, sends>>

ConnectDone ==
    /\ at = "connect"
    /\ Len(rx) >= ResponseSize
    /\ rx' = Accepted(rx)
    /\ at' = "idle"
    /\ UNCHANGED <<wire, message, writing, handshake, last, received, peer, sends>>

\* The stream fails or ends, the response does not fit, or client_accept() finds
\* that it is none.
ConnectFails ==
    /\ at = "connect"
    /\ last' = IF Len(rx) < ResponseSize /\ Full THEN "too_small" ELSE "failed"
    /\ at' = "gone"
    /\ UNCHANGED <<wire, rx, message, writing, handshake, received, peer, sends>>

\* The owner calls recv() or send().
CallRecv ==
    /\ at = "idle"
    /\ at' = "read"
    /\ UNCHANGED <<wire, rx, message, writing, handshake, last, received, peer, sends>>

Return(result) == at' = "idle" /\ last' = result

\* websocket.write() puts the frame into tx. It fails if the frame does not fit, and
\* once the closing handshake has begun.
Write(kind, during) ==
    \/ /\ handshake = "open" \/ kind = "close"
       /\ writing' = [kind |-> kind, left |-> 2]
       /\ at' = during
       /\ UNCHANGED last
    \/ Return("failed") /\ UNCHANGED writing

CallSend ==
    /\ at = "idle"
    /\ sends < MaxSends
    /\ sends' = sends + 1
    /\ Write("message", "send")
    /\ UNCHANGED <<wire, rx, message, handshake, received, peer>>

\* close(): websocket.close() notes it before the frame is written, and fails the
\* second time.
CallClose ==
    /\ at = "idle"
    /\ IF handshake = "open"
       THEN handshake' = "sent" /\ Write("close", "send")
       ELSE Return("failed") /\ UNCHANGED <<writing, handshake>>
    /\ UNCHANGED <<wire, rx, message, received, peer, sends>>

----------------------------------------------------------------------------
(* recv().                                                                 *)

\* fill(): no room is an error, else the stream is read.
NeedsMore ==
    /\ at = "read"
    /\ ~Complete(rx)
    /\ handshake # "received" \/ rx = <<>>
    /\ IF Full
       THEN Return("too_small")
       ELSE at' = "fill" /\ UNCHANGED last
    /\ UNCHANGED <<wire, rx, message, writing, handshake, received, peer, sends>>

Fill ==
    /\ at = "fill"
    /\ \/ /\ Arrive
          /\ at' = "read"
          /\ UNCHANGED last
       \/ /\ Return("failed")
          /\ UNCHANGED <<wire, rx>>
    /\ UNCHANGED <<message, writing, handshake, received, peer, sends>>

Readable == Complete(rx) /\ handshake # "received"

Consume(buffer) == SubSeq(buffer, buffer[1].frame.size + 1, Len(buffer))

\* Seeded fault: the fragments collected so far are forgotten.
CollectFresh(f) == [parts |-> <<f.no>>, text |-> f.kind = "text"]

\* The kind of a message is that of its first fragment.
Collect(f) ==
    [parts |-> Append(message.parts, f.no),
     text |-> IF message.parts = <<>> THEN f.kind = "text" ELSE message.text]

\* take_message() for a fragment.
TakeData ==
    LET f == rx[1].frame
    IN  /\ at = "read"
        /\ Readable
        /\ f.kind \in DataKinds
        /\ rx' = Consume(rx)
        /\ IF f.fin
           THEN /\ received' = Append(received, Collect(f))
                /\ message' = [message EXCEPT !.parts = <<>>]
                /\ Return("ok")
           ELSE /\ message' = Collect(f)
                /\ UNCHANGED <<received, at, last>>
        /\ UNCHANGED <<wire, writing, handshake, peer, sends>>

TakePong ==
    /\ at = "read"
    /\ Readable
    /\ rx[1].frame.kind = "pong"
    /\ rx' = Consume(rx)
    /\ UNCHANGED <<wire, message, at, writing, handshake, last, received, peer, sends>>

\* take_message() for a ping: the frame has left the buffer when the write of its
\* pong begins, or fails.
TakePing ==
    /\ at = "read"
    /\ Readable
    /\ rx[1].frame.kind = "ping"
    /\ rx' = Consume(rx)
    /\ Write("pong", "ping")
    /\ UNCHANGED <<wire, message, handshake, received, peer, sends>>

\* take_message() for a close: CloseMustReply is answered first, CloseCompleted,
\* after a close of our own, is not.
TakeClose ==
    /\ at = "read"
    /\ Readable
    /\ rx[1].frame.kind = "close"
    /\ rx' = Consume(rx)
    /\ IF handshake = "sent"
       THEN Return("close") /\ UNCHANGED writing
       ELSE Write("close", "close")
    /\ handshake' = "received"
    /\ UNCHANGED <<wire, message, received, peer, sends>>

\* websocket.read() fails on a frame that is none, and after the handshake on
\* anything. What it failed on stays in the buffer.
ReadFails ==
    /\ at = "read"
    /\ rx # <<>>
    /\ handshake = "received" \/ (Complete(rx) /\ rx[1].frame.kind = "bad")
    /\ Return("failed")
    /\ UNCHANGED <<wire, rx, message, writing, handshake, received, peer, sends>>

----------------------------------------------------------------------------
(* write_all().                                                            *)

\* The stream takes the first part of the frame, and not all of it.
WritePart ==
    /\ at \in {"send", "ping", "close"}
    /\ writing.left = 2
    /\ writing' = [writing EXCEPT !.left = 1]
    /\ UNCHANGED <<wire, rx, message, at, handshake, last, received, peer, sends>>

\* The stream takes what is left.
WriteDone ==
    /\ at \in {"send", "ping", "close"}
    /\ writing' = Idle
    /\ CASE at = "send" -> Return("ok")
         [] at = "ping" -> at' = "read" /\ UNCHANGED last
         [] OTHER -> Return("close")
    /\ UNCHANGED <<wire, rx, message, handshake, received, peer, sends>>

\* The stream fails, or takes nothing.
WriteFails ==
    /\ at \in {"send", "ping", "close"}
    /\ writing' = Idle
    /\ Return("failed")
    /\ UNCHANGED <<wire, rx, message, handshake, received, peer, sends>>

\* The owner drops the future of recv() or send() at an await.
Cancel ==
    /\ at \in {"fill", "ping", "close", "send"}
    /\ Return("dropped")
    /\ writing' = Idle
    /\ UNCHANGED <<wire, rx, message, handshake, received, peer, sends>>

----------------------------------------------------------------------------
(* The peer (external).                                                    *)

PeerMaySend == ~peer.closed /\ ~peer.eof /\ peer.frames < MaxFrames

PeerData(kind, size, fin) ==
    LET no == peer.frames + 1
        parts == Append(peer.parts, no)
        text == IF peer.parts = <<>> THEN kind = "text" ELSE peer.text
    IN  /\ PeerMaySend
        /\ peer.parts # <<>> => (kind = "text") = peer.text
        /\ wire' = wire \o Units([kind |-> kind, no |-> no, size |-> size, fin |-> fin])
        /\ peer' = IF fin
                   THEN [peer EXCEPT !.frames = no, !.parts = <<>>,
                                     !.sent = Append(@, [parts |-> parts, text |-> text])]
                   ELSE [peer EXCEPT !.frames = no, !.parts = parts, !.text = text]
        /\ UNCHANGED <<rx, message, at, writing, handshake, last, received, sends>>

PeerControl(kind, size) ==
    /\ PeerMaySend
    /\ wire' = wire \o Units([kind |-> kind, no |-> 0, size |-> size, fin |-> TRUE])
    /\ peer' = [peer EXCEPT !.frames = @ + 1, !.closed = kind = "close"]
    /\ UNCHANGED <<rx, message, at, writing, handshake, last, received, sends>>

\* The stream ends, in the middle of a frame or of the response perhaps.
PeerEof ==
    /\ ~peer.eof
    /\ \E n \in 0 .. Len(wire) : wire' = SubSeq(wire, 1, n)
    /\ peer' = [peer EXCEPT !.eof = TRUE]
    /\ UNCHANGED <<rx, message, at, writing, handshake, last, received, sends>>

----------------------------------------------------------------------------

PeerStep ==
    \/ \E kind \in DataKinds, size \in 1 .. MaxSize, fin \in BOOLEAN : PeerData(kind, size, fin)
    \/ \E kind \in {"ping", "pong", "close"}, size \in 1 .. MaxControl : PeerControl(kind, size)
    \/ PeerControl("bad", 1)
    \/ PeerEof

TransportStep ==
    \/ ConnectReads \/ ConnectDone \/ ConnectFails
    \/ NeedsMore \/ Fill \/ TakeData \/ TakePong \/ TakePing \/ TakeClose \/ ReadFails
    \/ WritePart \/ WriteDone \/ WriteFails

Next == PeerStep \/ CallRecv \/ CallSend \/ CallClose \/ TransportStep \/ Cancel

Spec == Init /\ [][Next]_vars

----------------------------------------------------------------------------
(* Properties.                                                             *)

Message == [parts : Seq(Nat), text : BOOLEAN]

Stream == INSTANCE MessageStream WITH sent <- peer.sent

\* The buffer is never overrun and always starts with the first unit of a frame:
\* reads, dropped reads and the response to the upgrade never cut a frame in
\* two (fill, consume, connect).
BufferAligned ==
    /\ Len(rx) <= RX
    /\ rx # <<>> => rx[1].part = 1
    /\ \A i \in 1 .. Len(rx \o wire) - 1 :
          LET u == (rx \o wire)[i]  v == (rx \o wire)[i + 1]
          IN  IF u.part = u.frame.size THEN v.part = 1
                                       ELSE v.part = u.part + 1 /\ v.frame = u.frame

\* recv() returns the messages of the peer, put together from all their
\* fragments, with their kind, once each and in order, whatever is dropped,
\* interleaved with control frames, or too large for the buffer.
ImplementsStream == Stream!Spec

\* A peer that keeps to frames that fit is never told that one did not.
FittingFramesAreRead ==
    last = "too_small" => at = "gone" \/ (rx # <<>> /\ rx[1].frame.size > RX)

=============================================================================
