---------------------------- MODULE TypedCalls ----------------------------
(***************************************************************************)
(* The typed interface of the client: requests checked against the list of *)
(* requests OBS last gave (client.rs, batch.rs, driver.rs), written and    *)
(* read as the generated types say (generated/), and events read into      *)
(* their payloads. OBS may be another release after every reconnection.    *)
(*                                                                         *)
(* One call or event is under way at a time. Of what it carries one field  *)
(* is told apart, by its path and the form of its JSON value; the others   *)
(* are as the other end expects them. How calls interleave is Driver.      *)
(***************************************************************************)
EXTENDS Types, Requests, Events, Api, Codegen, Sequences

CONSTANTS
    Releases,           \* the releases 5.n that OBS may run
    RawRequests,        \* names of requests sent untyped
    NewEvents,          \* names of events that this build does not know
    Batches,            \* sequences of names sent as batches
    MaxConnections      \* connections after which OBS no longer drops one

ASSUME ReleasesAssumption == Releases \subseteq Nat /\ Releases # {}
ASSUME MaxConnectionsAssumption == MaxConnections \in Nat \ {0}
ASSUME NewEventsAssumption == NewEvents \cap DOMAIN Events = {}

VARIABLES
    release,    \* of the OBS that answers
    link,       \* "down", "identified" or "serving" commands
    connection, \* how often the client was connected
    available,  \* Inner::available: <<>> for None, <<set of names>> for Some
    work        \* the call or the event under way

vars == <<release, link, connection, available, work>>

-----------------------------------------------------------------------------
(* What the two ends know of requests and of the forms of fields.          *)

\* What OBS of a release answers.
Supported(r) == {n \in DOMAIN Requests : Requests[n].since <= r}

\* Parts that overrides.toml calls null, and structs whose fields OBS lets out
\* be left out.
NullParts ==
    {<<"Scene", "sceneIndex">>, <<"SceneItem", "inputKind">>, <<"SceneItem", "isGroup">>,
     <<"PropertyItem", "itemValue">>}
        \cup ({"CanvasVideoSettings"} \X DOMAIN CanvasVideoSettings)

PartialStructs == {"SceneItemTransformPartial", "KeyModifiers"}

\* The paths to the fields of a struct and to the parts of the structs in them.
Parts(type) == IF type.of \in DOMAIN Structs THEN DOMAIN Structs[type.of] ELSE {}

Leaves(fields) ==
    {<<f>> : f \in DOMAIN fields} \cup
    UNION {{<<f, part>> : part \in Parts(fields[f])} : f \in DOMAIN fields}

TypeAt(fields, path) ==
    IF Len(path) = 1 THEN fields[path[1]] ELSE Structs[fields[path[1]].of][path[2]]

\* The forms a documented value has.
ValueForms(type) ==
    CASE type = "String" -> {"string"}
      [] type = "Boolean" -> {"bool"}
      [] type = "Number" -> {"int"}
      [] type = "Object" -> {"object"}
      [] type = "Any" -> Forms \ {"absent"}
      [] OTHER -> {"list"}

FieldForms(name, d) ==
    ValueForms(d.type)
        \cup (IF d.fraction \/ name \in Measures THEN {"decimal"} ELSE {})
        \cup (IF d.null # "no" THEN {"null"} ELSE {})
        \cup (IF d.optional THEN {"absent"} ELSE {})

\* protocol.json says "Object" of a struct. A part of it has the type the document
\* gives to fields of its name; only one that it names nowhere is what overrides.toml
\* takes it for.
PartForms(struct, part, type) ==
    (IF DocumentedTypes(part) # {}
     THEN UNION {ValueForms(t) : t \in DocumentedTypes(part)}
              \cup (IF part \in Measures THEN {"decimal"} ELSE {})
     ELSE WritesPlain(type))
        \cup (IF <<struct, part>> \in NullParts THEN {"null"} ELSE {})
        \cup (IF struct \in PartialStructs THEN {"absent"} ELSE {})

\* The forms documented for the field at path.
Documented(documented, fields, path) ==
    IF Len(path) = 1
    THEN FieldForms(path[1], documented[path[1]])
    ELSE PartForms(fields[path[1]].of, path[2], TypeAt(fields, path))

\* OBS takes any number for a number.
Accepts(documented, fields, path) ==
    LET forms == Documented(documented, fields, path)
    IN  forms \cup IF "int" \in forms THEN {"decimal"} ELSE {}

-----------------------------------------------------------------------------
(* The state.                                                              *)

\* phase: "idle", "queued", "sent" or "done"; outcome: what Error or value the
\* call ends with, or whether an event is delivered as "payload" or "raw event".
\* Of a batch it tells the worst result of an item.
Idle == [phase |-> "idle", typed |-> FALSE, items |-> <<>>, path |-> <<>>,
         form |-> "absent", listed |-> FALSE, at |-> 0, outcome |-> "none"]

\* ensure_supported.
EnsureSupported(name) == available = <<>> \/ name \in available[1]

\* The answer of GetVersion: record_version takes a list that is not empty.
\* Seeded fault: a GetVersion that fails leaves the list of the last connection.
RecordListOrKeep(answer) == IF answer = <<>> THEN available ELSE answer

RecordList(answer) == IF answer = <<{}>> THEN <<>> ELSE answer

Greetings(r) == {<<Supported(r)>>, <<{}>>, <<>>}

Init ==
    /\ release \in Releases
    /\ link = "serving"
    /\ connection = 1
    /\ available \in {IF a = <<{}>> THEN <<>> ELSE a : a \in Greetings(release)}
    /\ work = Idle

-----------------------------------------------------------------------------
(* Calls.                                                                  *)

\* The names that are checked before a call is queued; a batch is queued as a
\* whole or not at all.
\* Seeded fault: of a batch only the first request is checked.
CheckedFirst(items) == {items[1]}

Checked(items) == {items[i] : i \in DOMAIN items}

Begin(typed, items, path, form) ==
    /\ work = Idle
    /\ work' = [Idle EXCEPT !.typed = typed, !.items = items, !.path = path,
                            !.form = form, !.listed = available # <<>>,
                            !.at = IF link = "serving" THEN connection ELSE 0,
                            !.phase = IF \A n \in Checked(items) : EnsureSupported(n)
                                      THEN "queued" ELSE "done",
                            !.outcome = IF \A n \in Checked(items) : EnsureSupported(n)
                                        THEN "none" ELSE "refused"]
    /\ UNCHANGED <<release, link, connection, available>>

\* Client::request, with a field written in one of the forms its type has.
Request(category) ==
    \E name \in Api[category] :
        LET fields == Requests[name].request
        IN  \/ DOMAIN fields = {} /\ Begin(TRUE, <<name>>, <<>>, "absent")
            \/ \E path \in Leaves(fields) :
                 \E form \in Writes(TypeAt(fields, path)) :
                     Begin(TRUE, <<name>>, path, form)

\* Client::raw_request.
RawRequest(name) == Begin(FALSE, <<name>>, <<>>, "absent")

\* Batch::send.
SendBatch(items) == Begin(FALSE, items, <<>>, "absent")

\* The driver takes the command and sends it.
Send ==
    /\ work.phase = "queued"
    /\ link = "serving"
    /\ work' = [work EXCEPT !.phase = "sent"]
    /\ UNCHANGED <<release, link, connection, available>>

\* OBS has the request and answers it.
Asked == work.phase = "sent" /\ link = "serving"

Unsupported == {i \in DOMAIN work.items : work.items[i] \notin Supported(release)}

Misformed ==
    /\ work.path # <<>>
    /\ work.form \notin Accepts(DocumentedRequests[work.items[1]].request,
                                Requests[work.items[1]].request, work.path)

Answer(outcome, path, form) ==
    /\ work' = [work EXCEPT !.phase = "done", !.outcome = outcome,
                            !.path = path, !.form = form]
    /\ UNCHANGED <<release, link, connection, available>>

\* OBS refuses a request it does not have, or a field it cannot use, or the
\* request itself.
AnswerUnknown ==
    /\ Asked /\ Unsupported # {}
    /\ Answer("unknown", work.path, work.form)

AnswerMisformed ==
    /\ Asked /\ Unsupported = {} /\ Misformed
    /\ Answer("misformed", work.path, work.form)

AnswerFailed ==
    /\ Asked /\ Unsupported = {} /\ ~Misformed
    /\ Answer("failed", work.path, work.form)

\* status_result: what the caller decodes when OBS gives no response data.
NoData == "object"

\* Client::request decodes the response: a field, or the object itself when the
\* response has none. Other calls hand the value over.
AnswerWell ==
    /\ Asked /\ Unsupported = {} /\ ~Misformed
    /\ IF work.typed
       THEN LET name == work.items[1]
                fields == Requests[name].response
            IN  \/ /\ DOMAIN fields = {}
                   /\ Answer(IF NoData = "object" THEN "ok" ELSE "undecodable", <<>>, "absent")
                \/ \E path \in Leaves(fields) :
                     \E form \in Documented(DocumentedRequests[name].response, fields, path) :
                       Answer(IF form \in Reads(TypeAt(fields, path)) THEN "ok"
                              ELSE "undecodable", path, form)
       ELSE Answer("ok", <<>>, "absent")

-----------------------------------------------------------------------------
(* Events.                                                                 *)

\* Event::from_parts: what is decoded of an event without data.
NoPayload == "object"

Deliver(name, path, form, readable) ==
    /\ work = Idle
    /\ link # "down"
    /\ work' = [Idle EXCEPT !.phase = "done", !.items = <<name>>, !.path = path,
                            !.form = form,
                            !.outcome = IF readable THEN "payload" ELSE "raw event"]
    /\ UNCHANGED <<release, link, connection, available>>

\* Session::on_event: an event that cannot be read is delivered as Unknown.
OnEvent(name) ==
    LET fields == Events[name]
    IN  \/ DOMAIN fields = {} /\ Deliver(name, <<>>, "absent", NoPayload = "object")
        \/ \E path \in Leaves(fields) :
             \E form \in Documented(DocumentedEvents[name], fields, path) :
                 Deliver(name, path, form, form \in Reads(TypeAt(fields, path)))

\* So is one that from_parts does not know.
OnNewEvent(name) == Deliver(name, <<>>, "absent", FALSE)

\* The caller or the reader of events is done with it.
Return ==
    /\ work.phase = "done"
    /\ work' = Idle
    /\ UNCHANGED <<release, link, connection, available>>

-----------------------------------------------------------------------------
(* The connection.                                                         *)

\* The socket breaks; a call that was sent is lost, one that is queued waits.
Drop ==
    /\ link # "down"
    /\ connection < MaxConnections
    /\ work.phase # "done"
    /\ link' = "down"
    /\ work' = IF work.phase = "sent"
               THEN [work EXCEPT !.phase = "done", !.outcome = "lost"]
               ELSE work
    /\ UNCHANGED <<release, connection, available>>

\* OBS is closed and started again, perhaps as another release.
Restart(r) ==
    /\ link = "down"
    /\ work.phase # "done"
    /\ r # release
    /\ release' = r
    /\ UNCHANGED <<link, connection, available, work>>

Identify ==
    /\ link = "down"
    /\ work.phase # "done"
    /\ link' = "identified"
    /\ connection' = connection + 1
    /\ UNCHANGED <<release, available, work>>

\* record_version, before commands are taken.
RecordVersion(answer) ==
    /\ link = "identified"
    /\ work.phase # "done"
    /\ link' = "serving"
    /\ available' = RecordList(answer)
    /\ UNCHANGED <<release, connection, work>>

Next ==
    \/ \E category \in DOMAIN Api : Request(category)
    \/ \E name \in RawRequests : RawRequest(name)
    \/ \E items \in Batches : SendBatch(items)
    \/ Send
    \/ AnswerUnknown
    \/ AnswerMisformed
    \/ AnswerFailed
    \/ AnswerWell
    \/ \E name \in DOMAIN Events : OnEvent(name)
    \/ \E name \in NewEvents : OnNewEvent(name)
    \/ Return
    \/ Drop
    \/ \E r \in Releases : Restart(r)
    \/ Identify
    \/ \E answer \in Greetings(release) : RecordVersion(answer)

Spec == Init /\ [][Next]_vars

-----------------------------------------------------------------------------
(* Properties.                                                             *)

\* The local refusal of a request (ensure_supported, client.rs) is right: while
\* the driver serves commands no call is refused that the OBS at the other end
\* would have answered, however often OBS came back as another release.
OnlyUnknownRefused ==
    [][link = "serving" /\ work' # work /\ work'.outcome = "refused"
       => ~ Checked(work'.items) \subseteq Supported(release)]_vars

\* The local refusal is complete: OBS is asked for a request it does not have
\* only if the client has no list, or the call was checked before the list of
\* the present connection was there and waited in the channel meanwhile.
NeverAskedInVain ==
    work.outcome = "unknown" => ~work.listed \/ work.at # connection

\* The forms a caller may need for a field of a request and cannot have written.
Inexpressible(name) ==
    LET fields == Requests[name].request
        documented == DocumentedRequests[name].request
        missing(path) ==
            Documented(documented, fields, path) \
                (Writes(TypeAt(fields, path))
                    \cup IF "decimal" \in Writes(TypeAt(fields, path)) THEN {"int"} ELSE {})
    IN  UNION {{<<name, path, form>> : form \in missing(path)} : path \in Leaves(fields)}

\* What the typed requests (generated/requests) are known not to express: a
\* position of the T-bar between its ends, null where null means "remove", and
\* the omission of fields for which overrides.toml gives a plain type.
KnownInexpressible ==
    {<<"SetTBarPosition", <<"position">>, "decimal">>,
     <<"SetProfileParameter", <<"parameterValue">>, "null">>,
     <<"SetSceneSceneTransitionOverride", <<"transitionName">>, "null">>,
     <<"SetSceneSceneTransitionOverride", <<"transitionDuration">>, "null">>,
     <<"CreateSourceFilter", <<"filterSettings">>, "absent">>,
     <<"CallVendorRequest", <<"requestData">>, "absent">>,
     <<"CreateInput", <<"inputSettings">>, "absent">>,
     <<"TriggerHotkeyByKeySequence", <<"keyModifiers">>, "absent">>}

\* The types of requests say what obs-websocket documents, no less and no more. A
\* call under way could have been given any documented value, up to the known
\* gaps; and OBS never refuses a field of one for its form, but for the JSON
\* values that callers make up themselves and for leaving out the value of a
\* profile parameter (the one way to ask for its deletion, and not the
\* documented one). Of the parts of a transform, which the document does not
\* name, this says only that the type agrees with itself.
ExpressesProtocol ==
    /\ work.typed => Inexpressible(work.items[1]) \subseteq KnownInexpressible
    /\ work.outcome = "misformed" =>
        \/ TypeAt(Requests[work.items[1]].request, work.path).of = "Value"
        \/ <<work.items[1], work.path, work.form>> =
               <<"SetProfileParameter", <<"parameterValue">>, "absent">>

\* What the types of answers are known not to read: a list of transitions without
\* a current one, and the blend mode of a scene item, which overrides.toml makes an
\* i64 and the document a string wherever it names it.
KnownUnread ==
    ({"GetSceneTransitionList"}
        \X {<<"currentSceneTransitionName">>, <<"currentSceneTransitionUuid">>,
            <<"currentSceneTransitionKind">>} \X {"null"})
    \cup ({"GetSceneItemList", "GetGroupSceneItemList"}
        \X {<<"sceneItems", "sceneItemBlendMode">>} \X {"string"})

\* A successful answer is read by the type of its caller, whether or not it has any
\* data, and an event of a documented kind reaches its callbacks with its payload
\* and not raw, in every form protocol.json gives the field but for the known ones. Of
\* the parts of structs this says as much as the document names them elsewhere.
EverythingIsRead ==
    /\ work.outcome = "undecodable" => <<work.items[1], work.path, work.form>> \in KnownUnread
    /\ work.outcome = "raw event" => work.items[1] \notin DOMAIN Events

RequestIsCurrent(name) ==
    \A side \in {"request", "response"} :
        Requests[name][side] = ProtocolFields(name, side, DocumentedRequests[name][side])

EventIsCurrent(name) ==
    Events[name] = ProtocolFields(name, "data", DocumentedEvents[name])

\* The generated code is what the generator makes of protocol.json and
\* overrides.toml today: the types of the call or event under way, and the
\* methods of every category.
GeneratedIsCurrent ==
    /\ Api = Categories
    /\ work.typed /\ work.phase = "queued" => RequestIsCurrent(work.items[1])
    /\ work.outcome = "payload" => EventIsCurrent(work.items[1])

=============================================================================
