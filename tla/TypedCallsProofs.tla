------------------------- MODULE TypedCallsProofs -------------------------
(***************************************************************************)
(* Proofs about TypedCalls, for all releases of OBS, all batches and       *)
(* untyped requests, and any number of reconnections.                      *)
(***************************************************************************)
EXTENDS TypedCalls, TLAPS

\* A record with the fields of a call or event.
IsWork(w) ==
    w = [phase |-> w.phase, typed |-> w.typed, items |-> w.items, path |-> w.path,
         form |-> w.form, listed |-> w.listed, at |-> w.at, outcome |-> w.outcome]

Typing ==
    /\ link \in {"down", "identified", "serving"}
    /\ connection \in Nat \ {0}
    /\ IsWork(work)
    /\ work.typed \in BOOLEAN /\ work.listed \in BOOLEAN
    /\ work.at \in 0 .. connection

\* A call has an outcome only when it is done.
Undecided == work.phase # "done" => work.outcome = "none"

\* While commands are served the list is that of the OBS at the other end, or
\* there is none: it is asked for in every connection before commands are taken.
ListIsCurrent == link = "serving" => available \in {<<>>, <<Supported(release)>>}

\* A call that waits since before the list of this connection came says so.
WaitedBefore == link = "identified" => work.at # connection

\* A call checked against the list of this connection is one that OBS has.
CheckedIsKnown ==
    /\ link = "serving"
    /\ work.phase \in {"queued", "sent"}
    /\ work.listed
    /\ work.at = connection
    => Checked(work.items) \subseteq Supported(release)

IInv ==
    /\ Typing
    /\ Undecided
    /\ ListIsCurrent
    /\ WaitedBefore
    /\ CheckedIsKnown
    /\ NeverAskedInVain

-----------------------------------------------------------------------------

LEMMA InitIInv == Init => IInv
<1> SUFFICES ASSUME Init PROVE IInv
  OBVIOUS
<1>1. work = Idle /\ link = "serving" /\ connection = 1
  BY DEF Init
<1>2. Typing /\ Undecided /\ WaitedBefore /\ CheckedIsKnown /\ NeverAskedInVain
  BY <1>1 DEF Typing, IsWork, Idle, Undecided, WaitedBefore, CheckedIsKnown, NeverAskedInVain
<1>3. ListIsCurrent
  BY DEF Init, ListIsCurrent, Greetings
<1> QED
  BY <1>2, <1>3 DEF IInv

LEMMA BeginIInv ==
    ASSUME NEW typed \in BOOLEAN, NEW items, NEW path, NEW form, IInv,
           Begin(typed, items, path, form)
    PROVE  IInv'
<1> DEFINE known == \A n \in Checked(items) : EnsureSupported(n)
<1>1. /\ work'.phase = IF known THEN "queued" ELSE "done"
      /\ work'.outcome = IF known THEN "none" ELSE "refused"
      /\ work'.listed = (available # <<>>) /\ work'.items = items
      /\ work'.at = IF link = "serving" THEN connection ELSE 0
      /\ work'.typed = typed
      /\ IsWork(work')
      /\ UNCHANGED <<release, link, connection, available>>
  BY DEF Begin, Idle, IsWork
<1>2. Typing'
  BY <1>1 DEF IInv, Typing
<1>3. Undecided' /\ ListIsCurrent' /\ WaitedBefore' /\ NeverAskedInVain'
  BY <1>1 DEF IInv, Typing, Undecided, ListIsCurrent, WaitedBefore, NeverAskedInVain, Supported
<1>4. CheckedIsKnown'
  <2> SUFFICES ASSUME link = "serving", known, available # <<>>
               PROVE  Checked(items) \subseteq Supported(release)
    BY <1>1 DEF CheckedIsKnown, Checked, Supported
  <2>1. available = <<Supported(release)>>
    BY DEF IInv, ListIsCurrent
  <2> QED
    BY <2>1 DEF EnsureSupported
<1> QED
  BY <1>2, <1>3, <1>4 DEF IInv

\* Steps that leave the list and the connection alone, and of the call what it
\* was checked against.
LEMMA KeepsIInv ==
    ASSUME IInv, UNCHANGED <<release, link, connection, available>>, IsWork(work'),
           work'.items = work.items, work'.listed = work.listed, work'.at = work.at,
           work'.typed = work.typed,
           Undecided', NeverAskedInVain',
           work'.phase \in {"queued", "sent"} => work.phase \in {"queued", "sent"}
    PROVE  IInv'
<1>1. Typing' /\ Undecided' /\ ListIsCurrent' /\ WaitedBefore' /\ NeverAskedInVain'
  BY DEF IInv, Typing, ListIsCurrent, WaitedBefore, Supported
<1>2. CheckedIsKnown'
  BY DEF IInv, CheckedIsKnown, Checked, Supported
<1> QED
  BY <1>1, <1>2 DEF IInv


LEMMA SendIInv == ASSUME IInv, Send PROVE IInv'
<1>1. /\ work.phase = "queued" /\ work' = [work EXCEPT !.phase = "sent"]
      /\ UNCHANGED <<release, link, connection, available>>
  BY DEF Send
<1>2. /\ IsWork(work') /\ work'.items = work.items /\ work'.listed = work.listed
      /\ work'.at = work.at /\ work'.typed = work.typed /\ work'.outcome = work.outcome
      /\ work'.phase = "sent"
  BY <1>1 DEF IInv, Typing, IsWork
<1>3. Undecided' /\ NeverAskedInVain'
  BY <1>1, <1>2 DEF IInv, Undecided, NeverAskedInVain
<1> QED
  BY <1>1, <1>2, <1>3, KeepsIInv

\* OBS answers; it says "unknown" only of a request that it does not have.
LEMMA AnswerIInv ==
    ASSUME IInv, NEW outcome, NEW path, NEW form, Asked, Answer(outcome, path, form),
           outcome = "unknown" => Unsupported # {}
    PROVE  IInv'
<1>1. /\ work' = [work EXCEPT !.phase = "done", !.outcome = outcome,
                              !.path = path, !.form = form]
      /\ UNCHANGED <<release, link, connection, available>>
      /\ work.phase = "sent" /\ link = "serving"
  BY DEF Answer, Asked
<1>2. /\ IsWork(work') /\ work'.items = work.items /\ work'.listed = work.listed
      /\ work'.at = work.at /\ work'.typed = work.typed /\ work'.outcome = outcome
      /\ work'.phase = "done"
  BY <1>1 DEF IInv, Typing, IsWork
<1>3. outcome = "unknown" => ~ work.listed \/ work.at # connection
  <2> SUFFICES ASSUME Unsupported # {}, work.listed, work.at = connection PROVE FALSE
    OBVIOUS
  <2>1. Checked(work.items) \subseteq Supported(release)
    BY <1>1 DEF IInv, CheckedIsKnown
  <2> QED
    BY <2>1 DEF Unsupported, Checked
<1>4. Undecided' /\ NeverAskedInVain'
  BY <1>1, <1>2, <1>3 DEF Undecided, NeverAskedInVain
<1> QED
  BY <1>1, <1>2, <1>4, KeepsIInv

LEMMA DeliverIInv ==
    ASSUME IInv, NEW name, NEW path, NEW form, NEW readable \in BOOLEAN,
           Deliver(name, path, form, readable)
    PROVE  IInv'
<1>1. /\ work'.phase = "done" /\ work'.outcome \in {"payload", "raw event"}
      /\ work'.listed \in BOOLEAN /\ work'.typed \in BOOLEAN /\ ~ work'.listed
      /\ work'.at = 0 /\ IsWork(work')
      /\ UNCHANGED <<release, link, connection, available>>
  BY DEF Deliver, Idle, IsWork
<1>2. Typing'
  <2>2. link' \in {"down", "identified", "serving"} /\ connection' \in Nat \ {0}
    BY <1>1 DEF IInv, Typing
  <2>3. work'.at = 0
    BY <1>1, Zenon
  <2>1. work'.at \in 0 .. connection'
    BY <2>2, <2>3
  <2> QED
    BY <1>1, <2>1, <2>2, Zenon DEF Typing
<1>5. Undecided'
  BY <1>1 DEF IInv, Undecided
<1>6. CheckedIsKnown'
  BY <1>1 DEF IInv, CheckedIsKnown
<1>7. NeverAskedInVain'
  BY <1>1 DEF NeverAskedInVain
<1>3. ListIsCurrent'
  BY <1>1 DEF IInv, ListIsCurrent, Supported
<1>4. WaitedBefore'
  BY <1>1 DEF IInv, Typing, WaitedBefore
<1> QED
  BY <1>2, <1>3, <1>4, <1>5, <1>6, <1>7 DEF IInv

LEMMA ReturnIInv == ASSUME IInv, Return PROVE IInv'
<1>1. /\ work' = Idle
      /\ UNCHANGED <<release, link, connection, available>>
  BY DEF Return
<1>2. IsWork(work')
  BY <1>1 DEF Idle, IsWork
<1> QED
  BY <1>1, <1>2 DEF Idle, IInv, Typing, Undecided, ListIsCurrent, WaitedBefore,
                    CheckedIsKnown, NeverAskedInVain, Supported

LEMMA DropIInv == ASSUME IInv, Drop PROVE IInv'
<1>1. link' = "down" /\ UNCHANGED <<release, connection, available>>
  BY DEF Drop
<1>2. ListIsCurrent' /\ WaitedBefore' /\ CheckedIsKnown'
  BY <1>1 DEF ListIsCurrent, WaitedBefore, CheckedIsKnown
<1>3. CASE work' = work
  BY <1>1, <1>2, <1>3 DEF IInv, Typing, Undecided, NeverAskedInVain
<1>4. CASE work' = [work EXCEPT !.phase = "done", !.outcome = "lost"]
  <2>1. /\ IsWork(work') /\ work'.phase = "done" /\ work'.outcome = "lost"
        /\ work'.typed = work.typed /\ work'.listed = work.listed /\ work'.at = work.at
    BY <1>4 DEF IInv, Typing, IsWork
  <2> QED
    BY <1>1, <1>2, <2>1 DEF IInv, Typing, Undecided, NeverAskedInVain
<1> QED
  BY <1>3, <1>4 DEF Drop

LEMMA RestartIInv == ASSUME IInv, NEW r, Restart(r) PROVE IInv'
BY DEF Restart, IInv, Typing, Undecided, ListIsCurrent, WaitedBefore, CheckedIsKnown,
       NeverAskedInVain

LEMMA IdentifyIInv == ASSUME IInv, Identify PROVE IInv'
<1>1. /\ link' = "identified" /\ connection' = connection + 1
      /\ UNCHANGED <<release, available, work>>
  BY DEF Identify
<1>2. /\ connection' \in Nat \ {0} /\ work.at \in 0 .. connection'
      /\ work.at # connection'
  BY <1>1 DEF IInv, Typing
<1> QED
  BY <1>1, <1>2 DEF IInv, Typing, Undecided, ListIsCurrent, WaitedBefore, CheckedIsKnown,
                    NeverAskedInVain

LEMMA RecordVersionIInv ==
    ASSUME IInv, NEW answer \in Greetings(release), RecordVersion(answer)
    PROVE  IInv'
<1>1. /\ link = "identified" /\ link' = "serving" /\ available' = RecordList(answer)
      /\ UNCHANGED <<release, connection, work>>
  BY DEF RecordVersion
<1>2. ListIsCurrent'
  <2>1. RecordList(answer) \in {<<>>, <<Supported(release)>>}
    BY DEF RecordList, Greetings
  <2> QED
    BY <1>1, <2>1 DEF ListIsCurrent, Supported
<1>3. WaitedBefore' /\ CheckedIsKnown'
  BY <1>1 DEF IInv, WaitedBefore, CheckedIsKnown
<1>4. Typing' /\ Undecided' /\ NeverAskedInVain'
  BY <1>1 DEF IInv, Typing, Undecided, NeverAskedInVain
<1> QED
  BY <1>2, <1>3, <1>4 DEF IInv

\* What the steps of Next are, one by one: the calls begin, a call is answered,
\* an event is delivered, or the connection changes.
LEMMA Steps ==
    ASSUME Next
    PROVE  \/ \E typed \in BOOLEAN : \E items, path, form : Begin(typed, items, path, form)
           \/ Send
           \/ Asked /\ \E outcome, path, form :
                 /\ Answer(outcome, path, form)
                 /\ outcome \in {"unknown", "misformed", "failed", "ok", "undecodable"}
                 /\ outcome = "unknown" => Unsupported # {}
           \/ \E name, path, form : \E readable \in BOOLEAN :
                 Deliver(name, path, form, readable)
           \/ Return
           \/ Drop
           \/ \E r : Restart(r)
           \/ Identify
           \/ \E answer \in Greetings(release) : RecordVersion(answer)
<1>1. CASE \E category \in DOMAIN Api : Request(category)
  BY <1>1, Zenon DEF Request
<1>2. CASE \E name \in RawRequests : RawRequest(name)
  BY <1>2, Zenon DEF RawRequest
<1>3. CASE \E items \in Batches : SendBatch(items)
  BY <1>3, Zenon DEF SendBatch
<1>4. CASE AnswerUnknown
  BY <1>4 DEF AnswerUnknown
<1>5. CASE AnswerMisformed
  BY <1>5 DEF AnswerMisformed
<1>6. CASE AnswerFailed
  BY <1>6 DEF AnswerFailed
<1>7. CASE AnswerWell
  BY <1>7 DEF AnswerWell
<1>8. CASE \E name \in DOMAIN Events : OnEvent(name)
  <2>1. PICK name \in DOMAIN Events : OnEvent(name)
    BY <1>8
  <2>2. CASE Deliver(name, <<>>, "absent", NoPayload = "object")
    <3>1. (NoPayload = "object") \in BOOLEAN
      OBVIOUS
    <3> QED
      BY <2>2, <3>1, Zenon
  <2>3. CASE \E path, form : Deliver(name, path, form, form \in Reads(TypeAt(Events[name], path)))
    <3>1. PICK path, form : Deliver(name, path, form, form \in Reads(TypeAt(Events[name], path)))
      BY <2>3
    <3>2. (form \in Reads(TypeAt(Events[name], path))) \in BOOLEAN
      OBVIOUS
    <3> QED
      BY <3>1, <3>2, Zenon
  <2> QED
    BY <2>1, <2>2, <2>3, Zenon DEF OnEvent
<1>9. CASE \E name \in NewEvents : OnNewEvent(name)
  BY <1>9, Zenon DEF OnNewEvent
<1> QED
  BY <1>1, <1>2, <1>3, <1>4, <1>5, <1>6, <1>7, <1>8, <1>9, Zenon DEF Next

LEMMA NextIInv == IInv /\ [Next]_vars => IInv'
<1> SUFFICES ASSUME IInv, [Next]_vars PROVE IInv'
  OBVIOUS
<1>1. CASE Next
  BY <1>1, Steps, BeginIInv, SendIInv, AnswerIInv, DeliverIInv, ReturnIInv, DropIInv,
     RestartIInv, IdentifyIInv, RecordVersionIInv
<1>2. CASE UNCHANGED vars
  BY <1>2 DEF vars, IInv, Typing, Undecided, ListIsCurrent, WaitedBefore, CheckedIsKnown,
              NeverAskedInVain, Supported, Checked
<1> QED
  BY <1>1, <1>2

LEMMA SpecIInv == Spec => []IInv
BY InitIInv, NextIInv, PTL DEF Spec

\* Spec implies NeverAskedInVain: OBS is asked for a request it does not have only
\* if the client had no list or the call was checked before the list of the
\* present connection was there.
THEOREM NeverAskedInVainHolds == Spec => []NeverAskedInVain
<1>1. IInv => NeverAskedInVain
  BY DEF IInv
<1> QED
  BY <1>1, SpecIInv, PTL

\* The step of OnlyUnknownRefused: a call that is refused while commands are served
\* names a request that the OBS at the other end does not have.
LEMMA RefusalIsRight ==
    ASSUME IInv, [Next]_vars, link = "serving", work' # work, work'.outcome = "refused"
    PROVE  ~ Checked(work'.items) \subseteq Supported(release)
<1>1. Next
  BY DEF vars
<1>2. CASE \E typed \in BOOLEAN : \E items, path, form : Begin(typed, items, path, form)
  <2>1. PICK typed, items, path, form : Begin(typed, items, path, form)
    BY <1>2
  <2>2. PICK n \in Checked(items) : ~ EnsureSupported(n)
    BY <2>1 DEF Begin, Idle
  <2>3. work'.items = items
    BY <2>1 DEF Begin, Idle
  <2>4. available = <<Supported(release)>>
    BY <2>2 DEF IInv, ListIsCurrent, EnsureSupported
  <2> QED
    BY <2>2, <2>3, <2>4 DEF EnsureSupported, Checked
<1>3. CASE Send
  BY <1>3 DEF Send, IInv, Typing, IsWork, Undecided
<1>4. CASE \E outcome, path, form :
             /\ Answer(outcome, path, form)
             /\ outcome \in {"unknown", "misformed", "failed", "ok", "undecodable"}
  BY <1>4 DEF Answer, IInv, Typing, IsWork
<1>5. CASE \E name, path, form : \E readable \in BOOLEAN :
             Deliver(name, path, form, readable)
  BY <1>5 DEF Deliver, Idle
<1>6. CASE Return
  BY <1>6 DEF Return, Idle
<1>7. CASE Drop
  BY <1>7 DEF Drop, IInv, Typing, IsWork
<1>8. CASE UNCHANGED work
  BY <1>8
<1> QED
  BY <1>1, <1>2, <1>3, <1>4, <1>5, <1>6, <1>7, <1>8, Steps, Zenon
     DEF Restart, Identify, RecordVersion

\* Spec implies OnlyUnknownRefused: while commands are served no call is refused that
\* the OBS at the other end would have answered.
THEOREM OnlyUnknownRefusedHolds == Spec => OnlyUnknownRefused
<1>1. IInv /\ [Next]_vars =>
        [link = "serving" /\ work' # work /\ work'.outcome = "refused"
         => ~ Checked(work'.items) \subseteq Supported(release)]_vars
  BY RefusalIsRight
<1> QED
  BY <1>1, SpecIInv, PTL DEF Spec, OnlyUnknownRefused

-----------------------------------------------------------------------------
(* What a call carries.                                                    *)

\* A typed call is one request of the client's methods.
CallIsTyped ==
    work.typed => \E category \in DOMAIN Api : \E name \in Api[category] : work.items = <<name>>

\* The field that is told apart was written by the type of the request.
FieldIsWritten ==
    work.phase \in {"queued", "sent"} /\ work.path # <<>> =>
        LET fields == Requests[work.items[1]].request
        IN  /\ work.typed
            /\ work.path \in Leaves(fields)
            /\ work.form \in Writes(TypeAt(fields, work.path))

\* A field that OBS refused was written so.
RefusedWasWritten ==
    work.outcome = "misformed" =>
        LET fields == Requests[work.items[1]].request
            documented == DocumentedRequests[work.items[1]].request
        IN  /\ work.typed
            /\ work.path \in Leaves(fields)
            /\ work.form \in Writes(TypeAt(fields, work.path))
                                \ Accepts(documented, fields, work.path)

\* An answer that could not be decoded holds a documented form that the type of the
\* response does not read.
UndecodedIsUnread ==
    work.outcome = "undecodable" =>
        LET fields == Requests[work.items[1]].response
            documented == DocumentedRequests[work.items[1]].response
        IN  /\ work.typed
            /\ work.path \in Leaves(fields)
            /\ work.form \in Documented(documented, fields, work.path)
                                \ Reads(TypeAt(fields, work.path))

\* So does an event that arrives raw, but for those this build does not know.
RawIsUnread ==
    work.outcome = "raw event" =>
        \E name : /\ work.items = <<name>>
                  /\ \/ name \in NewEvents
                     \/ /\ name \in DOMAIN Events
                        /\ work.path \in Leaves(Events[name])
                        /\ work.form \in Documented(DocumentedEvents[name], Events[name], work.path)
                                            \ Reads(TypeAt(Events[name], work.path))

PayloadIsKnown ==
    work.outcome = "payload" => \E name \in DOMAIN Events : work.items = <<name>>

CarriedAsTyped ==
    /\ CallIsTyped
    /\ FieldIsWritten
    /\ RefusedWasWritten
    /\ UndecodedIsUnread
    /\ RawIsUnread
    /\ PayloadIsKnown

CInv == IInv /\ CarriedAsTyped

LEMMA InitCarried == Init => CarriedAsTyped
BY DEF Init, Idle, CarriedAsTyped, CallIsTyped, FieldIsWritten, RefusedWasWritten,
       UndecodedIsUnread, RawIsUnread, PayloadIsKnown

\* A call begins with a field written by its type.
LEMMA BeginCarried ==
    ASSUME NEW typed \in BOOLEAN, NEW items, NEW path, NEW form,
           Begin(typed, items, path, form),
           typed => \E category \in DOMAIN Api : \E name \in Api[category] : items = <<name>>,
           path # <<>> =>
               LET fields == Requests[items[1]].request
               IN  typed /\ path \in Leaves(fields) /\ form \in Writes(TypeAt(fields, path))
    PROVE  CarriedAsTyped'
<1>1. /\ work'.items = items /\ work'.path = path /\ work'.form = form
      /\ work'.outcome \in {"none", "refused"}
      /\ work'.typed <=> typed
  BY DEF Begin, Idle
<1>2. CallIsTyped' /\ FieldIsWritten'
  BY <1>1 DEF CallIsTyped, FieldIsWritten
<1>3. RefusedWasWritten' /\ UndecodedIsUnread' /\ RawIsUnread' /\ PayloadIsKnown'
  BY <1>1 DEF RefusedWasWritten, UndecodedIsUnread, RawIsUnread, PayloadIsKnown
<1> QED
  BY <1>2, <1>3 DEF CarriedAsTyped

LEMMA RequestCarried ==
    ASSUME NEW category \in DOMAIN Api, Request(category)
    PROVE  CarriedAsTyped'
<1>1. PICK name \in Api[category] :
        LET fields == Requests[name].request
        IN  \/ DOMAIN fields = {} /\ Begin(TRUE, <<name>>, <<>>, "absent")
            \/ \E path \in Leaves(fields) :
                 \E form \in Writes(TypeAt(fields, path)) :
                     Begin(TRUE, <<name>>, path, form)
  BY DEF Request
<1>2. <<name>>[1] = name
  OBVIOUS
<1>3. CASE Begin(TRUE, <<name>>, <<>>, "absent")
  BY <1>3, BeginCarried
<1>4. ASSUME NEW path \in Leaves(Requests[name].request),
             NEW form \in Writes(TypeAt(Requests[name].request, path)),
             Begin(TRUE, <<name>>, path, form)
      PROVE  CarriedAsTyped'
  BY <1>2, <1>4, BeginCarried
<1> QED
  BY <1>1, <1>3, <1>4, Zenon

\* Steps that leave what the call carries alone and give it no outcome that says
\* anything of it.
LEMMA KeepsCarried ==
    ASSUME CInv, UNCHANGED <<work>> \/
             /\ work'.typed <=> work.typed
             /\ work'.items = work.items /\ work'.path = work.path /\ work'.form = work.form
             /\ work'.outcome \notin {"misformed", "undecodable", "raw event", "payload"}
             /\ work'.phase \in {"queued", "sent"} => work.phase \in {"queued", "sent"}
    PROVE  CarriedAsTyped'
<1>1. CASE UNCHANGED <<work>>
  BY <1>1 DEF CInv, CarriedAsTyped, CallIsTyped, FieldIsWritten, RefusedWasWritten,
              UndecodedIsUnread, RawIsUnread, PayloadIsKnown
<1>2. CASE /\ work'.typed <=> work.typed
           /\ work'.items = work.items /\ work'.path = work.path /\ work'.form = work.form
           /\ work'.outcome \notin {"misformed", "undecodable", "raw event", "payload"}
           /\ work'.phase \in {"queued", "sent"} => work.phase \in {"queued", "sent"}
  <2>1. CallIsTyped' /\ FieldIsWritten'
    BY <1>2 DEF CInv, CarriedAsTyped, CallIsTyped, FieldIsWritten
  <2>2. RefusedWasWritten' /\ UndecodedIsUnread' /\ RawIsUnread' /\ PayloadIsKnown'
    BY <1>2 DEF RefusedWasWritten, UndecodedIsUnread, RawIsUnread, PayloadIsKnown
  <2> QED
    BY <2>1, <2>2 DEF CarriedAsTyped
<1> QED
  BY <1>1, <1>2

\* What the answer of OBS leaves of a call.
LEMMA Answered ==
    ASSUME CInv, NEW outcome, NEW path, NEW form, Answer(outcome, path, form)
    PROVE  /\ work'.typed <=> work.typed
           /\ work'.items = work.items /\ work'.path = path /\ work'.form = form
           /\ work'.outcome = outcome /\ work'.phase = "done"
BY DEF CInv, IInv, Typing, IsWork, Answer

LEMMA AnswerUnknownCarried == ASSUME CInv, AnswerUnknown PROVE CarriedAsTyped'
BY Answered, KeepsCarried DEF AnswerUnknown

LEMMA AnswerFailedCarried == ASSUME CInv, AnswerFailed PROVE CarriedAsTyped'
BY Answered, KeepsCarried DEF AnswerFailed

LEMMA AnswerMisformedCarried == ASSUME CInv, AnswerMisformed PROVE CarriedAsTyped'
<1>1. /\ work'.typed <=> work.typed
      /\ work'.items = work.items /\ work'.path = work.path /\ work'.form = work.form
      /\ work'.outcome = "misformed" /\ work'.phase = "done"
  BY Answered DEF AnswerMisformed
<1>2. CallIsTyped'
  BY <1>1 DEF CInv, CarriedAsTyped, CallIsTyped
<1>3. RefusedWasWritten'
  BY <1>1 DEF CInv, CarriedAsTyped, FieldIsWritten, RefusedWasWritten, AnswerMisformed,
              Asked, Misformed
<1> QED
  BY <1>1, <1>2, <1>3 DEF CarriedAsTyped, FieldIsWritten, UndecodedIsUnread, RawIsUnread,
                          PayloadIsKnown

\* An answer that is read says nothing more of what it carried.
LEMMA AnswerOkCarried ==
    ASSUME CInv, NEW path, NEW form, Answer("ok", path, form)
    PROVE  CarriedAsTyped'
<1>1. /\ work'.typed <=> work.typed
      /\ work'.items = work.items /\ work'.outcome = "ok" /\ work'.phase = "done"
  BY Answered
<1>2. CallIsTyped'
  BY <1>1 DEF CInv, CarriedAsTyped, CallIsTyped
<1> QED
  BY <1>1, <1>2 DEF CarriedAsTyped, FieldIsWritten, RefusedWasWritten, UndecodedIsUnread,
                    RawIsUnread, PayloadIsKnown

LEMMA AnswerUndecodableCarried ==
    ASSUME CInv, work.typed,
           NEW path \in Leaves(Requests[work.items[1]].response),
           NEW form \in Documented(DocumentedRequests[work.items[1]].response,
                                   Requests[work.items[1]].response, path),
           form \notin Reads(TypeAt(Requests[work.items[1]].response, path)),
           Answer("undecodable", path, form)
    PROVE  CarriedAsTyped'
<1>1. /\ work'.typed /\ work'.items = work.items /\ work'.path = path /\ work'.form = form
      /\ work'.outcome = "undecodable" /\ work'.phase = "done"
  BY Answered
<1>2. CallIsTyped'
  BY <1>1 DEF CInv, CarriedAsTyped, CallIsTyped
<1>3. UndecodedIsUnread'
  BY <1>1 DEF UndecodedIsUnread
<1> QED
  BY <1>1, <1>2, <1>3 DEF CarriedAsTyped, FieldIsWritten, RefusedWasWritten, RawIsUnread,
                          PayloadIsKnown

LEMMA AnswerWellCarried == ASSUME CInv, AnswerWell PROVE CarriedAsTyped'
<1> DEFINE name == work.items[1]
           fields == Requests[name].response
           documented == DocumentedRequests[name].response
<1>1. CASE ~ work.typed
  BY <1>1, AnswerOkCarried DEF AnswerWell
<1>2. CASE work.typed /\ Answer("ok", <<>>, "absent")
  BY <1>2, AnswerOkCarried
<1>3. ASSUME work.typed, NEW path \in Leaves(fields),
             NEW form \in Documented(documented, fields, path),
             Answer(IF form \in Reads(TypeAt(fields, path)) THEN "ok" ELSE "undecodable",
                    path, form)
      PROVE  CarriedAsTyped'
  <2>1. CASE form \in Reads(TypeAt(fields, path))
    BY <1>3, <2>1, AnswerOkCarried
  <2>2. CASE form \notin Reads(TypeAt(fields, path))
    <3>1. Answer("undecodable", path, form)
      BY <1>3, <2>2
    <3> QED
      BY <1>3, <2>2, <3>1, AnswerUndecodableCarried
  <2> QED
    BY <2>1, <2>2
<1>4. \/ Answer("ok", <<>>, "absent")
      \/ \E path \in Leaves(fields) :
           \E form \in Documented(documented, fields, path) :
             Answer(IF form \in Reads(TypeAt(fields, path)) THEN "ok" ELSE "undecodable",
                    path, form)
  BY DEF AnswerWell, NoData
<1> QED
  BY <1>1, <1>2, <1>3, <1>4, Zenon

LEMMA DeliverCarried ==
    ASSUME NEW name, NEW path, NEW form, NEW readable \in BOOLEAN,
           Deliver(name, path, form, readable),
           readable => name \in DOMAIN Events,
           ~ readable => \/ name \in NewEvents
                         \/ /\ name \in DOMAIN Events
                            /\ path \in Leaves(Events[name])
                            /\ form \in Documented(DocumentedEvents[name], Events[name], path)
                                            \ Reads(TypeAt(Events[name], path))
    PROVE  CarriedAsTyped'
<1>1. /\ ~ work'.typed /\ work'.items = <<name>> /\ work'.path = path /\ work'.form = form
      /\ work'.outcome = (IF readable THEN "payload" ELSE "raw event")
      /\ work'.phase = "done"
  BY DEF Deliver, Idle
<1>2. RawIsUnread'
  BY <1>1 DEF RawIsUnread
<1>3. PayloadIsKnown'
  BY <1>1 DEF PayloadIsKnown
<1>4. work'.outcome \in {"payload", "raw event"}
  BY <1>1
<1> QED
  BY <1>1, <1>2, <1>3, <1>4 DEF CarriedAsTyped, CallIsTyped, FieldIsWritten,
                                RefusedWasWritten, UndecodedIsUnread

LEMMA OnEventCarried ==
    ASSUME NEW name \in DOMAIN Events, OnEvent(name)
    PROVE  CarriedAsTyped'
<1> DEFINE fields == Events[name]
<1>1. CASE Deliver(name, <<>>, "absent", NoPayload = "object")
  <2>1. NoPayload = "object"
    BY DEF NoPayload
  <2>2. Deliver(name, <<>>, "absent", TRUE)
    BY <1>1, <2>1
  <2> QED
    BY <2>2, DeliverCarried
<1>2. ASSUME NEW path \in Leaves(fields),
             NEW form \in Documented(DocumentedEvents[name], fields, path),
             Deliver(name, path, form, form \in Reads(TypeAt(fields, path)))
      PROVE  CarriedAsTyped'
  <2>1. (form \in Reads(TypeAt(fields, path))) \in BOOLEAN
    OBVIOUS
  <2> QED
    BY <1>2, <2>1, DeliverCarried
<1> QED
  BY <1>1, <1>2, Zenon DEF OnEvent

LEMMA NextCarried == CInv /\ [Next]_vars => CarriedAsTyped'
<1> SUFFICES ASSUME CInv, [Next]_vars PROVE CarriedAsTyped'
  OBVIOUS
<1>1. ASSUME NEW category \in DOMAIN Api, Request(category) PROVE CarriedAsTyped'
  BY <1>1, RequestCarried
<1>2. ASSUME NEW items, Begin(FALSE, items, <<>>, "absent") PROVE CarriedAsTyped'
  BY <1>2, BeginCarried
<1>3. CASE Send
  BY <1>3, KeepsCarried DEF Send, CInv, IInv, Typing, IsWork, Undecided
<1>4. ASSUME NEW name \in NewEvents, OnNewEvent(name) PROVE CarriedAsTyped'
  BY <1>4, DeliverCarried DEF OnNewEvent
<1>5. CASE Return
  <2>1. work'.phase = "idle" /\ ~ work'.typed /\ work'.outcome = "none"
    BY <1>5 DEF Return, Idle
  <2> QED
    BY <2>1 DEF CarriedAsTyped, CallIsTyped, FieldIsWritten, RefusedWasWritten,
                UndecodedIsUnread, RawIsUnread, PayloadIsKnown
<1>6. CASE Drop
  BY <1>6, KeepsCarried DEF Drop, CInv, IInv, Typing, IsWork
<1>7. CASE UNCHANGED work
  BY <1>7, KeepsCarried
<1>8. CASE UNCHANGED vars
  BY <1>7, <1>8 DEF vars
<1>9. ASSUME NEW r, Restart(r) PROVE UNCHANGED work
  BY <1>9 DEF Restart
<1>10. ASSUME NEW answer, RecordVersion(answer) PROVE UNCHANGED work
  BY <1>10 DEF RecordVersion
<1>11. Identify => UNCHANGED work
  BY DEF Identify
<1> QED
  BY <1>1, <1>2, <1>3, <1>4, <1>5, <1>6, <1>7, <1>8, <1>9, <1>10, <1>11,
     AnswerUnknownCarried, AnswerMisformedCarried, AnswerFailedCarried, AnswerWellCarried,
     OnEventCarried, Zenon
     DEF Next, RawRequest, SendBatch

LEMMA SpecCInv == Spec => []CInv
<1>1. Init => CInv
  BY InitIInv, InitCarried DEF CInv
<1>2. CInv /\ [Next]_vars => CInv'
  BY NextIInv, NextCarried DEF CInv
<1> QED
  BY <1>1, <1>2, PTL DEF Spec

-----------------------------------------------------------------------------
(* What the tables of types decide. They are finite and have no parameter: *)
(* the run typed_calls asks these of every request, response and event in  *)
(* them.                                                                   *)

LEMMA HeadOfOne == ASSUME NEW e PROVE <<e>>[1] = e
OBVIOUS

\* The requests with a method of the client.
TypedNames == UNION {Api[category] : category \in DOMAIN Api}

\* What a type does not let a caller write is known.
GapsAreKnown == \A name \in TypedNames : Inexpressible(name) \subseteq KnownInexpressible

\* What a type lets a caller write OBS accepts, but for JSON values and for leaving out
\* the value of a profile parameter.
WrittenIsAccepted ==
    \A name \in TypedNames :
        LET fields == Requests[name].request
            documented == DocumentedRequests[name].request
        IN  \A path \in Leaves(fields) :
              \A form \in Writes(TypeAt(fields, path)) \ Accepts(documented, fields, path) :
                \/ TypeAt(fields, path).of = "Value"
                \/ <<name, path, form>> =
                       <<"SetProfileParameter", <<"parameterValue">>, "absent">>

\* The type of a response reads every documented form, but for the known ones.
ResponsesAreRead ==
    \A name \in TypedNames :
        LET fields == Requests[name].response
            documented == DocumentedRequests[name].response
        IN  \A path \in Leaves(fields) :
              \A form \in Documented(documented, fields, path) \ Reads(TypeAt(fields, path)) :
                <<name, path, form>> \in KnownUnread

\* The type of an event reads every documented form.
EventsAreRead ==
    \A name \in DOMAIN Events :
        \A path \in Leaves(Events[name]) :
            Documented(DocumentedEvents[name], Events[name], path)
                \subseteq Reads(TypeAt(Events[name], path))

\* Spec implies ExpressesProtocol if the types of the requests do: however calls are
\* refused, wait, are lost or answered, OBS judges what the type of the call wrote.
THEOREM ExpressesProtocolHolds ==
    ASSUME GapsAreKnown, WrittenIsAccepted
    PROVE  Spec => []ExpressesProtocol
<1>1. CInv => ExpressesProtocol
  <2> SUFFICES ASSUME CInv PROVE ExpressesProtocol
    OBVIOUS
  <2>1. work.typed => \E name \in TypedNames : work.items = <<name>>
    BY DEF CInv, CarriedAsTyped, CallIsTyped, TypedNames
  <2>2. work.typed => work.items[1] \in TypedNames
    BY <2>1
  <2>3. work.typed => Inexpressible(work.items[1]) \subseteq KnownInexpressible
    BY <2>2 DEF GapsAreKnown
  <2>4. work.outcome = "misformed" =>
          \/ TypeAt(Requests[work.items[1]].request, work.path).of = "Value"
          \/ <<work.items[1], work.path, work.form>> =
                 <<"SetProfileParameter", <<"parameterValue">>, "absent">>
    <3> DEFINE name == work.items[1]
               fields == Requests[name].request
               documented == DocumentedRequests[name].request
    <3> SUFFICES ASSUME work.outcome = "misformed"
                 PROVE  \/ TypeAt(fields, work.path).of = "Value"
                        \/ <<name, work.path, work.form>> =
                               <<"SetProfileParameter", <<"parameterValue">>, "absent">>
      OBVIOUS
    <3>1. /\ work.typed /\ work.path \in Leaves(fields)
          /\ work.form \in Writes(TypeAt(fields, work.path))
                              \ Accepts(documented, fields, work.path)
      BY DEF CInv, CarriedAsTyped, RefusedWasWritten
    <3>2. name \in TypedNames
      BY <2>2, <3>1
    <3> QED
      BY <3>1, <3>2, Zenon DEF WrittenIsAccepted
  <2> QED
    BY <2>3, <2>4, Zenon DEF ExpressesProtocol
<1> QED
  BY <1>1, SpecCInv, PTL

\* Spec implies EverythingIsRead if the tables of types read what is documented, but
\* for the known forms, which the run decides: what a call or event carries is what
\* OBS documents of the request the caller named or the event that was sent, however
\* calls are refused, queued over a reconnection, lost, or answered by another
\* release, so that nothing but a type that does not read a form makes an answer
\* undecodable or an event arrive raw.
THEOREM EverythingIsReadHolds ==
    ASSUME ResponsesAreRead, EventsAreRead
    PROVE  Spec => []EverythingIsRead
<1>1. CInv => EverythingIsRead
  <2> SUFFICES ASSUME CInv PROVE EverythingIsRead
    OBVIOUS
  <2>1. work.outcome = "undecodable" => <<work.items[1], work.path, work.form>> \in KnownUnread
    <3> SUFFICES ASSUME work.outcome = "undecodable"
                 PROVE  <<work.items[1], work.path, work.form>> \in KnownUnread
      OBVIOUS
    <3>1. UndecodedIsUnread /\ CallIsTyped
      BY DEF CInv, CarriedAsTyped
    <3>2. PICK name \in TypedNames : work.items = <<name>>
      BY <3>1, Zenon DEF UndecodedIsUnread, CallIsTyped, TypedNames
    <3>3. work.items[1] = name
      BY <3>2
    <3>4. <<name, work.path, work.form>> \in KnownUnread
      BY <3>1, <3>3, Zenon DEF UndecodedIsUnread, ResponsesAreRead
    <3> QED
      BY <3>3, <3>4
  <2>2. work.outcome = "raw event" => work.items[1] \notin DOMAIN Events
    <3> SUFFICES ASSUME work.outcome = "raw event" PROVE work.items[1] \notin DOMAIN Events
      OBVIOUS
    <3>1. PICK name :
            /\ work.items = <<name>>
            /\ \/ name \in NewEvents
               \/ /\ name \in DOMAIN Events
                  /\ work.path \in Leaves(Events[name])
                  /\ work.form \in Documented(DocumentedEvents[name], Events[name], work.path)
                                      \ Reads(TypeAt(Events[name], work.path))
      BY Zenon DEF CInv, CarriedAsTyped, RawIsUnread
    <3>2. name \in NewEvents
      BY <3>1, Zenon DEF EventsAreRead
    <3> QED
      <4>0. work.items = <<name>>
        BY <3>1, Zenon
      <4>1. work.items[1] = name
        BY <4>0, HeadOfOne, Zenon
      <4> QED
        BY <3>2, <4>1, NewEventsAssumption, Zenon
  <2> QED
    BY <2>1, <2>2, Zenon DEF EverythingIsRead
<1> QED
  BY <1>1, SpecCInv, PTL

-----------------------------------------------------------------------------
(* The generator, for all documents.                                       *)

ArrayTypes ==
    {"Array<String>", "Array<Boolean>", "Array<Number>", "Array<Object>", "Array<Any>"}

\* A documented field, of any type that map_type() knows.
IsDocumentedField(d) ==
    /\ d.type \in {"String", "Boolean", "Number", "Object", "Any"} \cup ArrayTypes
    /\ d.optional \in BOOLEAN /\ d.fraction \in BOOLEAN
    /\ d.null \in {"no", "code", "plain"}

\* What is documented to have fractions is a number that FLOAT_FIELDS lists.
FractionsAreKnown(name, d) ==
    d.fraction \/ name \in Measures => d.type = "Number" /\ name \in FloatFields

\* The forms of a field's type.
LEMMA GeneratedForms ==
    ASSUME NEW name, NEW d, IsDocumentedField(d),
           NEW optional \in BOOLEAN
    PROVE  LET type == MapType(name, d, optional)
               extra(forms) == IF optional THEN forms ELSE {}
           IN  /\ Reads(type) = ReadsPlain(BaseType(name, d)) \cup extra({"null", "absent"})
               /\ Writes(type) = WritesPlain(BaseType(name, d)) \cup extra({"absent"})
<1>1. /\ BaseType(name, d).option = FALSE
      /\ Option(BaseType(name, d)).of = BaseType(name, d).of
      /\ Option(BaseType(name, d)).lists = BaseType(name, d).lists
      /\ Option(BaseType(name, d)).option = TRUE
  BY DEF BaseType, Option, Vec, Type, String, Bool, I64, F64, Value
<1> QED
  BY <1>1 DEF MapType, Reads, Writes, ReadsPlain, WritesPlain

\* What the base type of a documented type is made of.
LEMMA BaseTypes ==
    ASSUME NEW name, NEW d
    PROVE  LET type == BaseType(name, d)
               IsPlain(of) == type.lists = 0 /\ type.of = of
           IN  /\ d.type = "String" => IsPlain("String")
               /\ d.type = "Boolean" => IsPlain("bool")
               /\ d.type = "Number" => IsPlain(IF name \in FloatFields THEN "f64" ELSE "i64")
               /\ d.type \in {"Object", "Any"} => IsPlain("Value")
               /\ d.type \in ArrayTypes => type.lists = 1
<1> DEFINE type == BaseType(name, d)
           IsPlain(of) == type.lists = 0 /\ type.of = of
<1>1. CASE d.type \in ArrayTypes
  <2>1. \E of \in {"String", "bool", "i64", "f64", "Value"} : type = Vec(Type(of))
    BY <1>1 DEF BaseType, ArrayTypes, Vec, Type, String, Bool, I64, F64, Value
  <2>2. type.lists = 1
    BY <2>1 DEF Vec, Type
  <2> QED
    BY <1>1, <2>2 DEF ArrayTypes
<1>2. CASE d.type \notin ArrayTypes
  BY <1>2 DEF BaseType, ArrayTypes, Type, String, Bool, I64, F64, Value
<1> QED
  BY <1>1, <1>2

\* What a value of the base type looks like.
LEMMA BaseForms ==
    ASSUME NEW name, NEW d
    PROVE  LET base == WritesPlain(BaseType(name, d))
               read == ReadsPlain(BaseType(name, d))
           IN  /\ d.type = "String" => base = {"string"}
               /\ d.type = "Boolean" => base = {"bool"}
               /\ d.type = "Number" /\ name \in FloatFields =>
                      base = {"decimal"} /\ read = {"decimal", "int"}
               /\ d.type = "Number" /\ name \notin FloatFields => base = {"int"}
               /\ d.type \in {"Object", "Any"} => base = Forms \ {"absent"}
               /\ d.type \in ArrayTypes => base = {"list"}
               /\ base \subseteq read
<1> DEFINE base == WritesPlain(BaseType(name, d))
           read == ReadsPlain(BaseType(name, d))
<1>1. d.type = "String" => base = {"string"}
  BY BaseTypes DEF WritesPlain
<1>2. d.type = "Boolean" => base = {"bool"}
  BY BaseTypes DEF WritesPlain
<1>3. d.type = "Number" /\ name \in FloatFields =>
        base = {"decimal"} /\ read = {"decimal", "int"}
  BY BaseTypes DEF WritesPlain, ReadsPlain
<1>4. d.type = "Number" /\ name \notin FloatFields => base = {"int"}
  BY BaseTypes DEF WritesPlain
<1>5. d.type \in {"Object", "Any"} => base = Forms \ {"absent"}
  BY BaseTypes DEF WritesPlain
<1>6. d.type \in ArrayTypes => base = {"list"}
  BY BaseTypes DEF WritesPlain
<1>7. base \subseteq read
  BY DEF ReadsPlain
<1> QED
  BY <1>1, <1>2, <1>3, <1>4, <1>5, <1>6, <1>7

\* The documented forms of a type.
LEMMA DocumentedForms ==
    ASSUME NEW d, IsDocumentedField(d)
    PROVE  LET forms == ValueForms(d.type)
           IN  \/ d.type = "String" /\ forms = {"string"}
               \/ d.type = "Boolean" /\ forms = {"bool"}
               \/ d.type = "Number" /\ forms = {"int"}
               \/ d.type = "Object" /\ forms = {"object"}
               \/ d.type = "Any" /\ forms = Forms \ {"absent"}
               \/ d.type \in ArrayTypes /\ forms = {"list"}
BY DEF IsDocumentedField, ValueForms

\* The type that ProtocolFields gives a field without a type of its own.
LEMMA GeneratedType ==
    ASSUME NEW owner, NEW side, NEW fields,
           NEW name \in DOMAIN ProtocolFields(owner, side, fields),
           <<owner, side, name>> \notin DOMAIN Overrides
    PROVE  TypeAt(ProtocolFields(owner, side, fields), <<name>>) =
               MapType(name, fields[name], fields[name].optional \/ Nullable(fields[name]))
<1>1. Len(<<name>>) = 1 /\ <<name>>[1] = name
  OBVIOUS
<1> QED
  BY <1>1 DEF TypeAt, ProtocolFields

\* Whatever obs-websocket documents, the generated type of a field (codegen.rs,
\* map_type) reads every documented form of it, if null is put as code and fractions
\* come in numbers that FLOAT_FIELDS lists.
THEOREM GeneratedTypesRead ==
    ASSUME NEW owner, NEW side, NEW fields,
           NEW name \in DOMAIN ProtocolFields(owner, side, fields),
           <<owner, side, name>> \notin DOMAIN Overrides,
           IsDocumentedField(fields[name]), FractionsAreKnown(name, fields[name]),
           fields[name].null # "plain"
    PROVE  Documented(fields, ProtocolFields(owner, side, fields), <<name>>)
               \subseteq Reads(TypeAt(ProtocolFields(owner, side, fields), <<name>>))
<1> DEFINE d == fields[name]
           optional == d.optional \/ Nullable(d)
<1>1. optional \in BOOLEAN
  BY DEF Nullable, IsDocumentedField
<1>2. Reads(MapType(name, d, optional)) =
        ReadsPlain(BaseType(name, d)) \cup IF optional THEN {"null", "absent"} ELSE {}
  BY <1>1, GeneratedForms
<1>3. /\ ValueForms(d.type) \subseteq ReadsPlain(BaseType(name, d))
      /\ d.fraction \/ name \in Measures => "decimal" \in ReadsPlain(BaseType(name, d))
  BY BaseForms, DocumentedForms DEF FractionsAreKnown, Forms
<1>4. FieldForms(name, d) \subseteq Reads(MapType(name, d, optional))
  BY <1>2, <1>3 DEF FieldForms, Nullable, IsDocumentedField
<1>5. Documented(fields, ProtocolFields(owner, side, fields), <<name>>) = FieldForms(name, d)
  BY DEF Documented
<1> QED
  BY <1>4, <1>5, GeneratedType

\* Whatever obs-websocket documents of a request, a caller can write every documented
\* form of a field that is not null, and what a caller can write is accepted, but for
\* objects, which are any JSON value.
THEOREM GeneratedTypesWrite ==
    ASSUME NEW owner, NEW side, NEW fields,
           NEW name \in DOMAIN ProtocolFields(owner, side, fields),
           <<owner, side, name>> \notin DOMAIN Overrides,
           IsDocumentedField(fields[name]), FractionsAreKnown(name, fields[name]),
           fields[name].null = "no"
    PROVE  LET generated == ProtocolFields(owner, side, fields)
               written == Writes(TypeAt(generated, <<name>>))
           IN  /\ Documented(fields, generated, <<name>>)
                      \subseteq written \cup IF "decimal" \in written THEN {"int"} ELSE {}
               /\ fields[name].type # "Object"
                      => written \subseteq Accepts(fields, generated, <<name>>)
<1> DEFINE d == fields[name]
           generated == ProtocolFields(owner, side, fields)
           base == WritesPlain(BaseType(name, d))
           written == Writes(TypeAt(generated, <<name>>))
<1>1. d.optional \in BOOLEAN /\ (d.optional \/ Nullable(d)) = d.optional
  BY DEF Nullable, IsDocumentedField
<1>2. written = base \cup IF d.optional THEN {"absent"} ELSE {}
  <2>1. TypeAt(generated, <<name>>) = MapType(name, d, d.optional \/ Nullable(d))
    BY GeneratedType
  <2>2. Writes(MapType(name, d, d.optional)) = base \cup IF d.optional THEN {"absent"} ELSE {}
    BY <1>1, GeneratedForms
  <2>3. TypeAt(generated, <<name>>) = MapType(name, d, d.optional)
    BY <1>1, <2>1
  <2> QED
    BY <2>2, <2>3
<1>3. /\ ValueForms(d.type) \subseteq base \cup IF "decimal" \in base THEN {"int"} ELSE {}
      /\ d.fraction \/ name \in Measures => "decimal" \in base
      /\ d.type \notin {"Object", "Number"} => base \subseteq FieldForms(name, d)
      /\ d.type = "Number" => base \subseteq {"int", "decimal"} /\ "int" \in FieldForms(name, d)
  <2>1. CASE d.type = "Number"
    BY <2>1, BaseForms, DocumentedForms DEF FractionsAreKnown, FieldForms
  <2>2. CASE d.type = "Object"
    BY <2>2, BaseForms, DocumentedForms DEF FractionsAreKnown, Forms
  <2>3. CASE d.type \notin {"Number", "Object"}
    BY <2>3, BaseForms, DocumentedForms DEF FractionsAreKnown, FieldForms
  <2> QED
    BY <2>1, <2>2, <2>3
<1>4. Documented(fields, generated, <<name>>) = FieldForms(name, d)
  BY DEF Documented
<1>5. FieldForms(name, d) \subseteq written \cup IF "decimal" \in written THEN {"int"} ELSE {}
  BY <1>2, <1>3 DEF FieldForms, IsDocumentedField
<1>6. d.type # "Object" => written \subseteq Accepts(fields, generated, <<name>>)
  BY <1>2, <1>3, <1>4 DEF FieldForms, Accepts
<1> QED
  BY <1>4, <1>5, <1>6

=============================================================================
