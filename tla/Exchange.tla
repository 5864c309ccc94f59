-------------------------------- MODULE Exchange --------------------------------
(***************************************************************************)
(* One call of a controller method, from the proxy to the answer:          *)
(* src/controller/avdeccControllerProxy.cpp, the local entities and the    *)
(* capability delegate of src/entity, and the payloads of src/protocol.    *)
(* The command state machine is seen as what it promises: a command ends   *)
(* once, with an answer to its sequence number or with an error.           *)
(***************************************************************************)
EXTENDS AemPayloads

CONSTANTS
  Entities,   \* implementations of the local entity the calls go through
  MaxChanges  \* times the entity comes, leaves, becomes virtual or stops being so

\* Handed: implementation of the local entity -> methods it hands on.
Handed == [e \in {"Controller", "Aggregate"} |-> IF e = "Controller" THEN ByController ELSE ByAggregate]
ASSUME EntitiesAssumption == Entities \subseteq DOMAIN Handed
ASSUME MaxChangesAssumption == MaxChanges \in Nat

VARIABLES
  registered,  \* the proxy has the entity in its set of virtual entities
  found,       \* the capability delegate knows the entity's address
  call,        \* the call, as far as it has come
  reports,     \* what the handler of the call was told
  changes

vars == <<registered, found, call, reports, changes>>

NoAnswer == [question |-> <<>>, status |-> "None", length |-> 0, count |-> 0, offset |-> 0, pieces |-> <<>>]
Report(by, status) == [by |-> by, status |-> status]

-----------------------------------------------------------------------------
(* What an entity answers                                                    *)

AemQuestions == Questions \ (Vendor \cup Addresses \cup Connections)

\* Commands of which the type in the answer is looked at: one that the code
\* does not handle is an error for some, and goes unnoticed for the others.
Refusing ==
  {"SetStreamFormat", "GetStreamFormat", "SetStreamInfo", "GetStreamInfo", "SetSamplingRate", "GetSamplingRate",
   "StartStreaming", "StopStreaming", "GetAvbInfo", "GetAudioMap", "AddAudioMappings", "RemoveAudioMappings",
   "BindStream", "UnbindStream", "GetStreamInputInfoEx"}
Silent == {"ReadDescriptor", "SetName", "GetName", "GetCounters", "Reboot"}

\* What the answer to a question can be about: the same question, one of the
\* same command, one the code does not handle, or another command.
Subjects(q) ==
  {p \in Questions : p[1] = q[1]}
    \cup (IF q[1] \in Refusing \cup Silent THEN {<<q[1], "Unhandled", 0>>} ELSE {})
    \cup (IF q \in AemQuestions \cup Vendor THEN {<<"Other", "None", 0>>} ELSE {})

\* The layout an answer is read with: of a refused descriptor, and of one the
\* code does not handle, only the first bytes.
LayoutOf(q, answer) ==
  LET handled == answer.question \in Questions
  IN  IF q[1] = "ReadDescriptor" /\ (answer.status # "Success" \/ ~handled) THEN CommonDescriptor
      ELSE Payloads[IF handled THEN answer.question ELSE q]

Statuses == {"Success", "NotImplemented", "NotSupported"}

Lengths(layout) ==
  LET around == {layout.least, layout.least + layout.element}
  IN  ({0, layout.sent, layout.echoed} \cup around \cup {n - 1 : n \in around \cup {layout.least + 2 * layout.element}})
        \cap Nat
Counts(layout) == IF layout.list \in {"Counted", "Placed", "Lenient"} THEN {0, 1, 2} ELSE {0}
Offsets(layout) ==
  IF layout.list \in {"Placed", "Lenient"}
  THEN {0, 65532, layout.least - 5, layout.least - 4, layout.least - 4 + layout.element}
  ELSE {0}

\* One or two pieces, the first of any kind; nothing follows one that is cut or
\* longer than what is left.
PiecesAbout(q) ==
  {[question |-> q, status |-> status, length |-> length, end |-> "Whole"] :
     status \in Statuses, length \in {0, Payloads[q].sent, Payloads[q].echoed, Payloads[q].least}}
Ends == {[question |-> <<"Other", "None", 0>>, status |-> "Success", length |-> 0, end |-> end] :
           end \in {"Whole", "Cut", "Long"}}
PieceSequences ==
  LET any == UNION {PiecesAbout(q) : q \in Pieces \cup MorePieces}
      last == PiecesAbout(<<"GetConfiguration", "None", 0>>) \cup Ends
  IN  {<<piece>> : piece \in last} \cup (any \X last)

\* What an entity may answer to a question: about what it was asked for, in all
\* lengths; about something else, in the length it should have.
OwnAnswers(q) ==
  LET layout == Payloads[q]
  IN  IF layout.list = "Pieces"
      THEN [question : {q}, status : Statuses, length : {0}, count : {0}, offset : {0}, pieces : {<<>>}]
             \cup [question : {q}, status : Statuses, length : {layout.element}, count : {0}, offset : {0},
                   pieces : PieceSequences]
      ELSE [question : {q}, status : Statuses, length : Lengths(layout), count : Counts(layout),
            offset : Offsets(layout), pieces : {<<>>}]
OtherAnswers(q) ==
  UNION {LET layout == Payloads[IF p \in Questions THEN p ELSE q]
         IN  [question : {p}, status : Statuses, length : {layout.least}, count : {0},
              offset : {IF layout.list \in {"Placed", "Lenient"} THEN layout.least - 4 ELSE 0}, pieces : {<<>>}] :
         p \in Subjects(q) \ {q}}
Answers(q) == OwnAnswers(q) \cup OtherAnswers(q)

-----------------------------------------------------------------------------
(* What the handler of the call is told                                      *)

\* Handlers of one C++ type, which the type of the handler does not tell apart.
SharedHandlers ==
  {Named \ (EntityNames \cup Names({"Configuration"})), EntityNames, Names({"Configuration"}), Access,
   Plain(Availability \cup Registration) \cup Of({"Reboot"}, {"Entity"}),
   Plain({"SetConfiguration", "GetConfiguration"}) \cup Running \cup Of({"Reboot"}, {"MemoryObject"}),
   {q \in Questions : q[1] \in {"SetSamplingRate", "GetSamplingRate"}}, Connections, Formats, Infos, Association,
   Of({"AddAudioMappings", "RemoveAudioMappings"}, StreamPorts), Of({"GetAudioMap"}, StreamPorts),
   Plain({"SetClockSource", "GetClockSource"}), Plain({"SetControl", "GetControl"}),
   Plain({"SetMemoryObjectLength", "GetMemoryObjectLength"}), Plain({"SetMaxTransitTime", "GetMaxTransitTime"}),
   Plain({"SetSystemUniqueID", "GetSystemUniqueID"}), Clock}
    \cup {Read(types) : types \in {Streams, Jacks, StreamPorts, ExternalPorts, InternalPorts}}
SameHandler(p, q) == p = q \/ \E shared \in SharedHandlers : {p, q} \subseteq shared

\* The assertion alone, without the error handler.
Invoked_AssertsOnly(q, answer) ==
  IF SameHandler(q, answer.question) THEN <<Report("Own", answer.status)>> ELSE <<>>

\* AnswerCallback::invoke
Invoked(q, answer) ==
  IF SameHandler(q, answer.question) THEN <<Report("Own", answer.status)>>
  ELSE <<Report("Error", "BaseProtocolViolation")>>

\* Without IGNORE_INVALID_NON_SUCCESS_AEM_RESPONSES.

\* A refusal of an AEM command is passed on even when it cannot be read.
Invalid(q, answer) ==
  <<Report("Error", IF q \in AemQuestions /\ answer.status # "Success" THEN answer.status ELSE "ProtocolError")>>

\* What the dispatch of an answer tells apart.
HandledAccess == Access \cup Plain(Availability)
HandledDescriptors ==
  Read({"Entity", "Configuration", "AudioUnit", "AvbInterface", "ClockSource", "MemoryObject", "Locale", "Strings"}
       \cup Streams \cup Jacks)
HandledPorts ==
  Read({"AudioCluster", "AudioMap", "Control", "ClockDomain", "Timing"} \cup StreamPorts \cup ExternalPorts
       \cup InternalPorts \cup Ptp)
HandledFormats == Plain({"SetConfiguration", "GetConfiguration"}) \cup Formats \cup Infos
NamedUnits == {"Configuration", "AudioUnit"} \cup Streams \cup Jacks
NamedSources ==
  {"AvbInterface", "ClockSource", "MemoryObject", "AudioCluster", "Control", "ClockDomain", "Timing"} \cup Ptp
HandledSetNames == {<<"SetName", "Entity", 0>>, <<"SetName", "Entity", 1>>} \cup Of({"SetName"}, NamedUnits)
HandledSetSourceNames == Of({"SetName"}, NamedSources)
HandledGetNames == {<<"GetName", "Entity", 0>>, <<"GetName", "Entity", 1>>} \cup Of({"GetName"}, NamedUnits)
HandledGetSourceNames == Of({"GetName"}, NamedSources)
HandledValues ==
  Association \cup Rates({"AudioUnit", "VideoCluster", "SensorCluster"})
    \cup Plain({"SetClockSource", "GetClockSource", "SetControl", "GetControl"})
HandledRunning == Running \cup Plain(Registration)
HandledStates ==
  Of({"GetAvbInfo"}, {"AvbInterface"}) \cup Plain({"GetAsPath"})
    \cup Of({"GetCounters"}, {"Entity", "AvbInterface", "ClockDomain"} \cup Streams)
HandledMappings == Restarts \cup Of({"GetAudioMap", "AddAudioMappings", "RemoveAudioMappings"}, StreamPorts)
HandledOperations == Operations \cup Plain({"SetMemoryObjectLength", "GetMemoryObjectLength", "GetDynamicInfo"})
HandledTransit == Plain({"SetMaxTransitTime", "GetMaxTransitTime"})
HandledVendor == Plain({"GetMilanInfo", "SetSystemUniqueID", "GetSystemUniqueID"}) \cup Clock \cup Binding

Handled ==
  UNION {HandledAccess, HandledDescriptors, HandledPorts, HandledFormats, HandledSetNames, HandledSetSourceNames,
         HandledGetNames, HandledGetSourceNames, HandledValues, HandledRunning, HandledStates, HandledMappings,
         HandledOperations, HandledTransit, HandledVendor}

\* The dispatch of an answer that was read.
Recipient(q, answer) ==
  IF answer.question \in Handled THEN Invoked(q, answer)
  ELSE IF q[1] \in Silent THEN <<>> ELSE Invalid(q, answer)

\* processAemAecpResponse and processMvuAecpResponse
Processed(q, answer) ==
  LET reading == Reading(LayoutOf(q, answer), answer)
  IN  IF answer.question[1] # q[1] THEN <<Report("Error", "BaseProtocolViolation")>>
      ELSE CASE reading = "NotImplemented" -> <<Report("Error", "NotImplemented")>>
             [] reading = "IncorrectSize" -> Invalid(q, answer)
             [] reading = "Malformed" -> <<Report("Error", "ProtocolError")>>
             [] reading = "Read" -> Recipient(q, answer)

-----------------------------------------------------------------------------

Init ==
  /\ registered \in BOOLEAN
  /\ found \in BOOLEAN
  /\ call = [stage |-> "Idle", question |-> <<>>, answer |-> NoAnswer]
  /\ reports = <<>>
  /\ changes = 0

Move(stage) == call' = [call EXCEPT !.stage = stage]
\* The call ends, and its handler is told as much as `told` says.
End(told) == Move("Over") /\ reports' = reports \o told

Changed ==
  /\ call.stage # "Over"
  /\ changes < MaxChanges
  /\ changes' = changes + 1
  /\ UNCHANGED <<call, reports>>

\* ControllerImpl::registerVirtualControlledEntity and deregister...
RegisterVirtual == ~registered /\ registered' = TRUE /\ Changed /\ UNCHANGED found
DeregisterVirtual == registered /\ registered' = FALSE /\ Changed /\ UNCHANGED found

\* CapabilityDelegate::onRemoteEntityOnline and onRemoteEntityOffline
EntityOnline == ~found /\ found' = TRUE /\ Changed /\ UNCHANGED registered
EntityOffline == found /\ found' = FALSE /\ Changed /\ UNCHANGED registered

\* ControllerVirtualProxy: the entity is virtual now, or it is not.
Ask(q) ==
  /\ call.stage = "Idle"
  /\ q \in ByProxy
  /\ call' = [call EXCEPT !.stage = IF registered THEN "Job" ELSE "Forwarded", !.question = q]
  /\ UNCHANGED <<registered, found, reports, changes>>

\* The job of the executor: the virtual interface answers.
RunJob ==
  /\ call.stage = "Job"
  /\ \E status \in Statuses : End(<<Report("Virtual", status)>>)
  /\ UNCHANGED <<registered, found, changes>>

\* Commands of which the length depends on the arguments.
Variable ==
  {"GetDynamicInfo", "AddAudioMappings", "RemoveAudioMappings", "SetControl", "StartOperation", "AddressAccess"}
\* A command about connections goes to everybody.
Reachable == found \/ call.question \in Connections

Unserialisable ==
  /\ call.stage = "Forwarded"
  /\ call.question[1] \in Variable
  /\ call.question \in Addresses => found
  /\ End(<<Report("Error", "ProtocolError")>>)
  /\ UNCHANGED <<registered, found, changes>>

UnknownEntity ==
  /\ call.stage = "Forwarded"
  /\ ~Reachable
  /\ End(<<Report("Error", "UnknownEntity")>>)
  /\ UNCHANGED <<registered, found, changes>>

\* The local entity hands the call to the capability delegate, which sends it.
Transmit ==
  /\ call.stage = "Forwarded"
  /\ Reachable
  /\ \E entity \in Entities : call.question \in Handed[entity]
  /\ Move("Sent") \/ Move("Failed")
  /\ UNCHANGED <<registered, found, reports, changes>>

\* The error that sending returns is dropped.
SendFails_ErrorDropped == call.stage = "Failed" /\ UNCHANGED vars

\* The protocol interface could not send it, or no answer came in time.
SendFails ==
  /\ call.stage = "Failed"
  /\ End(<<Report("Error", "NetworkError")>>)
  /\ UNCHANGED <<registered, found, changes>>

TimesOut ==
  /\ call.stage = "Sent"
  /\ End(<<Report("Error", "TimedOut")>>)
  /\ UNCHANGED <<registered, found, changes>>

Answer ==
  /\ call.stage = "Sent"
  /\ \E answer \in Answers(call.question) : call' = [call EXCEPT !.stage = "Answered", !.answer = answer]
  /\ UNCHANGED <<registered, found, reports, changes>>

\* AA and ACMP answers have no payload that is read here.
Receive ==
  /\ call.stage = "Answered"
  /\ LET q == call.question
     IN  End(IF q \in Addresses \cup Connections THEN Invoked(q, call.answer) ELSE Processed(q, call.answer))
  /\ UNCHANGED <<registered, found, changes>>

Next ==
  \/ RegisterVirtual \/ DeregisterVirtual \/ EntityOnline \/ EntityOffline
  \/ \E q \in Questions : Ask(q)
  \/ RunJob \/ Unserialisable \/ UnknownEntity \/ Transmit \/ SendFails \/ TimesOut \/ Answer \/ Receive

Spec == Init /\ [][Next]_vars

\* The executor runs its jobs, the caller goes on, and the state machine of the
\* commands ends each one that was sent.
Fairness ==
  /\ WF_vars(RunJob)
  /\ WF_vars(Unserialisable \/ UnknownEntity \/ Transmit)
  /\ WF_vars(SendFails)
  /\ WF_vars(TimesOut)
  /\ WF_vars(Receive)
FairSpec == Spec /\ Fairness

-----------------------------------------------------------------------------
(* Properties                                                                *)

\* The payload holds everything the answer announces.  Of the two answers about
\* the identity of a system nothing is asked: a length between the two versions
\* of Milan is taken for success although neither is read.
Whole(answer) ==
  LET layout == Payloads[answer.question]
  IN  /\ layout.list # "Unread" => answer.length >= layout.least
      /\ layout.list = "Counted" => layout.least + layout.element * answer.count <= answer.length
      /\ layout.list = "Placed" => Place(answer) >= layout.least /\ ListEnd(layout, answer) <= answer.length
      /\ layout.list = "Lenient" => Place(answer) \in layout.least..answer.length
      /\ \A i \in DOMAIN answer.pieces :
           LET piece == answer.pieces[i]
           IN  /\ piece.end = "Whole"
               /\ piece.question \in Pieces \cup MorePieces
               /\ piece.status # "NotImplemented"
               /\ piece.length >= Payloads[piece.question].least

\* A handler that is told success over the network was asked by a request of its
\* own type, and everything it is given was in the entity's answer.
SuccessIsEarned ==
  \A i \in DOMAIN reports :
    reports[i].by # "Virtual" /\ reports[i].status = "Success" =>
      /\ call.answer.status = "Success"
      /\ SameHandler(call.question, call.answer.question)
      /\ Whole(call.answer)

NeverRefused ==
  call.stage = "Over" /\ call.answer.question = call.question /\ call.answer.status = "Success" /\ Whole(call.answer) =>
    reports = <<Report("Own", "Success")>>

\* Lengths of a refusal that the entity's standard allows: any for AEM, of which
\* no piece is cut; for MVU the command's for one that is not implemented.
\* SetSystemUniqueID is sent in one length and expected back in another.
AllowedRefusal(q, answer) ==
  IF q \in Vendor
  THEN q[1] # "SetSystemUniqueID"
       /\ (IF answer.status = "NotImplemented" THEN answer.length = Payloads[q].sent
           ELSE answer.length >= Payloads[q].least)
  ELSE \A i \in DOMAIN answer.pieces : answer.pieces[i].end # "Cut"

RefusalTold ==
  call.stage = "Over" /\ call.answer.question = call.question /\ call.answer.status # "Success"
    /\ AllowedRefusal(call.question, call.answer) =>
      \E by \in {"Own", "Error"} : reports = <<Report(by, call.answer.status)>>

\* A whole answer to the question that was asked is never refused, whatever list it
\* holds, wherever the list is; and what an entity gives as the reason of a refusal
\* reaches the caller, however little of the command it sends back.
NoFalseRefusal == NeverRefused /\ RefusalTold

\* A handler is called once, whoever ends the call; it is not called at all when
\* the answer is about a type of object that the dispatch passes over in silence.
AnsweredOnce ==
  /\ Len(reports) <= 1
  /\ call.stage = "Over" /\ reports = <<>> =>
       call.question[1] \in Silent /\ call.answer.question = <<call.question[1], "Unhandled", 0>>

\* Every call ends, with the entity virtual or not, and wherever it goes meanwhile.
CallsAnswered == (call.stage # "Idle") ~> (call.stage = "Over")
=============================================================================
