------------------------------ MODULE AemPayloads ------------------------------
(***************************************************************************)
(* The payloads of the requests (src/protocol/protocolAemPayloads.cpp and  *)
(* protocolMvuPayloads.cpp): how long a command is, how long its answer    *)
(* must be, where an answer announces a list, and what reading an answer   *)
(* comes to.                                                               *)
(***************************************************************************)
EXTENDS Requests, Sequences

\* sent: length of the command (its fixed part).  echoed: length the answer of
\* an entity that does not implement the command must have.  least: length below
\* which any other answer is refused.  A list of elements follows: at a place
\* the answer gives ("Placed", and "Lenient" when failing to read the elements
\* is not an error) or at the end of the fixed part ("Counted").
Layout(sent, echoed, least, list, element) ==
  [sent |-> sent, echoed |-> echoed, least |-> least, list |-> list, element |-> element]
Fixed(sent, least) == Layout(sent, sent, least, "None", 0)
Every(questions, layout) == [q \in questions |-> layout]

Descriptors(types, least) == Every(Read(types), Fixed(8, least))
ListDescriptors(types, least, element) == Every(Read(types), Layout(8, 8, least, "Placed", element))

-----------------------------------------------------------------------------
(* AEM                                                                       *)

Ownership == {Every(Access, Fixed(16, 16))}
\* The first bytes of a descriptor, which are all that is read of a refusal.
CommonDescriptor == Fixed(8, 8)
EntityDescriptor == {Descriptors({"Entity"}, 316)}
ConfigurationDescriptor == {ListDescriptors({"Configuration"}, 78, 4)}
AudioUnitDescriptor == {ListDescriptors({"AudioUnit"}, 148, 4)}
\* The list of redundant streams is left out.
StreamDescriptor == {ListDescriptors(Streams, 136, 8)}
InterfaceDescriptors ==
  {Descriptors(Jacks, 82), Descriptors({"AvbInterface"}, 102), Descriptors({"ClockSource"}, 90),
   Descriptors({"MemoryObject"}, 104)}
LocaleDescriptors == {Descriptors({"Locale"}, 76), Descriptors({"Strings"}, 456), Descriptors(StreamPorts, 24)}
PortDescriptors == {Descriptors(ExternalPorts \cup InternalPorts, 28), Descriptors({"AudioCluster"}, 91)}
AudioMapDescriptor == {ListDescriptors({"AudioMap"}, 12, 8)}
ControlDescriptor == {Every(Read({"Control"}), Layout(8, 8, 108, "Lenient", 1))}
ClockDescriptors == {ListDescriptors({"ClockDomain", "Timing"}, 80, 2)}
PtpDescriptors == {Descriptors({"PtpInstance"}, 94), Descriptors({"PtpPort"}, 90)}

\* Of the commands that ask for what another one sets, most expect that a
\* refusal is as long as the command that sets.
ConfigurationPayloads ==
  {Every(Plain({"SetConfiguration"}), Fixed(4, 4)),
   Every(Plain({"GetConfiguration"}), Layout(0, 4, 4, "None", 0))}
FormatPayloads ==
  {Every(Of({"SetStreamFormat"}, Streams), Fixed(12, 12)),
   Every(Of({"GetStreamFormat"}, Streams), Layout(4, 12, 12, "None", 0))}
SetInfoPayloads == {Every(Of({"SetStreamInfo"}, Streams), Fixed(48, 48))}
GetInfoPayloads == {Every(Of({"GetStreamInfo"}, Streams), Fixed(4, 48))}
Named == {q \in Questions : q[1] \in {"SetName", "GetName"}}
NamePayloads ==
  {Every({q \in Named : q[1] = "SetName"}, Fixed(72, 72)),
   Every({q \in Named : q[1] = "GetName"}, Layout(8, 72, 72, "None", 0))}
AssociationPayloads ==
  {Every(Plain({"SetAssociationID"}), Fixed(8, 8)), Every(Plain({"GetAssociationID"}), Fixed(0, 8))}
RatePayloads ==
  LET objects == {"AudioUnit", "VideoCluster", "SensorCluster"}
  IN  {Every(Of({"SetSamplingRate"}, objects), Fixed(8, 8)),
       Every(Of({"GetSamplingRate"}, objects), Layout(4, 8, 8, "None", 0))}
ClockSourcePayloads ==
  {Every(Plain({"SetClockSource"}), Fixed(8, 8)), Every(Plain({"GetClockSource"}), Layout(4, 8, 8, "None", 0))}
\* The values of a control are handed on as they are.
ControlPayloads == {Every(Plain({"SetControl", "GetControl"}), Fixed(4, 4))}
StreamingPayloads == {Every(Running, Fixed(4, 4))}
AvbInfoPayloads == {Every(Of({"GetAvbInfo"}, {"AvbInterface"}), Layout(4, 4, 20, "Counted", 4))}
AsPathPayloads == {Every(Plain({"GetAsPath"}), Layout(4, 4, 4, "Counted", 8))}
CounterPayloads ==
  {Every(Of({"GetCounters"}, {"Entity", "AvbInterface", "ClockDomain"} \cup Streams), Fixed(4, 136))}
RebootPayloads == {Every(Restarts, Fixed(4, 4))}
AudioMapPayloads == {Every(Of({"GetAudioMap"}, StreamPorts), Layout(8, 8, 12, "Counted", 8))}
MappingPayloads ==
  {Every(Of({"AddAudioMappings", "RemoveAudioMappings"}, StreamPorts), Layout(8, 8, 8, "Counted", 8))}
OperationPayloads == {Every(Operations, Fixed(8, 8))}
LengthPayloads ==
  {Every(Plain({"SetMemoryObjectLength"}), Fixed(12, 12)),
   Every(Plain({"GetMemoryObjectLength"}), Layout(4, 12, 12, "None", 0))}
\* A sequence of pieces, each with a header of its own.
PiecesPayloads == {Every(Plain({"GetDynamicInfo"}), Layout(0, 0, 0, "Pieces", 8))}
TransitPayloads ==
  {Every(Plain({"SetMaxTransitTime"}), Fixed(12, 12)),
   Every(Plain({"GetMaxTransitTime"}), Layout(4, 12, 12, "None", 0))}
\* Answers whose payload is not looked at.
UnreadPayloads ==
  {Every(Plain(Availability \cup Registration) \cup Addresses \cup Connections, Layout(0, 0, 0, "Unread", 0))}

-----------------------------------------------------------------------------
(* MVU: the name of a system came with a later version of Milan, which may   *)
(* ("Halves") leave an answer of which neither version is read.              *)

MilanInfoPayloads == {Every(Plain({"GetMilanInfo"}), Fixed(2, 14))}
SystemPayloads ==
  {Every(Plain({"SetSystemUniqueID"}), Layout(74, 6, 6, "Halves", 68)),
   Every(Plain({"GetSystemUniqueID"}), Layout(2, 2, 6, "Halves", 68))}
ClockReferencePayloads ==
  {Every(Plain({"SetMediaClockReferenceInfo"}), Fixed(74, 74)),
   Every(Plain({"GetMediaClockReferenceInfo"}), Fixed(2, 74))}
BindingPayloads == {Every(Plain({"BindStream"}), Fixed(18, 18)), Every(Plain({"UnbindStream"}), Fixed(6, 6))}
StreamInputPayloads == {Every(Plain({"GetStreamInputInfoEx"}), Fixed(6, 18))}

-----------------------------------------------------------------------------
(* All of them                                                               *)

Tables ==
  UNION {Ownership, EntityDescriptor, ConfigurationDescriptor, AudioUnitDescriptor, StreamDescriptor,
         InterfaceDescriptors, LocaleDescriptors, PortDescriptors, AudioMapDescriptor, ControlDescriptor,
         ClockDescriptors, PtpDescriptors, ConfigurationPayloads, FormatPayloads, SetInfoPayloads, GetInfoPayloads,
         NamePayloads, AssociationPayloads, RatePayloads, ClockSourcePayloads, ControlPayloads, StreamingPayloads,
         AvbInfoPayloads, AsPathPayloads, CounterPayloads, RebootPayloads, AudioMapPayloads, MappingPayloads,
         OperationPayloads, LengthPayloads, PiecesPayloads, TransitPayloads, UnreadPayloads, MilanInfoPayloads,
         SystemPayloads, ClockReferencePayloads, BindingPayloads, StreamInputPayloads}

Payloads == [q \in UNION {DOMAIN table : table \in Tables} |-> (CHOOSE table \in Tables : q \in DOMAIN table)[q]]

ASSUME EveryQuestionHasAPayload == DOMAIN Payloads = Questions

-----------------------------------------------------------------------------
(* Reading an answer, a record [status, length, count, offset, pieces]       *)

\* An offset counts from the type of the descriptor, four bytes into the
\* payload, and has 16 bits.
Place(answer) == (answer.offset + 4) % 65536
ListEnd(layout, answer) == Place(answer) + layout.element * answer.count

\* The last element is taken to be missing.
ReadCounted_LastMissing(layout, answer) ==
  IF layout.least + layout.element * answer.count < answer.length THEN "Read" ELSE "IncorrectSize"

ReadCounted(layout, answer) ==
  IF layout.least + layout.element * answer.count <= answer.length THEN "Read" ELSE "IncorrectSize"

\* The size of the list is checked, and not where it is.
ReadPlaced_AnyPlace(layout, answer) ==
  IF answer.length - layout.least < layout.element * answer.count THEN "IncorrectSize" ELSE "Read"

ReadPlaced(layout, answer) ==
  IF answer.length - layout.least < layout.element * answer.count \/ Place(answer) < layout.least
  THEN "IncorrectSize"
  ELSE IF Place(answer) > answer.length \/ ListEnd(layout, answer) > answer.length THEN "Malformed" ELSE "Read"

ReadLenient(layout, answer) ==
  IF Place(answer) < layout.least THEN "IncorrectSize"
  ELSE IF Place(answer) > answer.length THEN "Malformed" ELSE "Read"

\* A refusal that is not implemented must be the command sent back.
ReadFixed(layout, answer) ==
  IF answer.status = "NotImplemented"
  THEN IF answer.length = layout.echoed THEN "NotImplemented" ELSE "IncorrectSize"
  ELSE IF answer.length < layout.least THEN "IncorrectSize" ELSE "Read"

\* Pieces of dynamic information that are unpacked.
UnpackedStates ==
  Plain({"GetConfiguration"}) \cup Of({"GetStreamFormat", "GetStreamInfo"}, Streams)
UnpackedNames ==
  {<<"GetName", "Entity", 0>>, <<"GetName", "Entity", 1>>} \cup Of({"GetName"}, {"Configuration", "AudioUnit"} \cup Streams \cup Jacks)
UnpackedSourceNames ==
  Of({"GetName"}, {"AvbInterface", "ClockSource", "MemoryObject", "AudioCluster", "Control", "ClockDomain", "Timing"} \cup Ptp)
UnpackedValues ==
  Plain({"GetAssociationID", "GetClockSource", "GetMemoryObjectLength", "GetMaxTransitTime"})
    \cup Of({"GetSamplingRate"}, {"AudioUnit", "VideoCluster", "SensorCluster"})
    \cup Of({"GetCounters"}, {"Entity", "AvbInterface", "ClockDomain"} \cup Streams)
Unpacked == UNION {UnpackedStates, UnpackedNames, UnpackedSourceNames, UnpackedValues}

ReadPiece(piece) == IF piece.question \in Unpacked THEN ReadFixed(Payloads[piece.question], piece) ELSE "Malformed"

\* Where the first piece with a property is; after the last one when none has it.
First(holds) == CHOOSE i \in 1..(Len(holds) + 1) : (i \in DOMAIN holds => holds[i]) /\ \A j \in 1..(i - 1) : ~holds[j]

\* The pieces are told apart first; each is read only when the whole was granted.
ReadPieces(answer) ==
  LET pieces == answer.pieces
      cut == First([i \in DOMAIN pieces |-> pieces[i].end # "Whole"])
      bad == First([i \in DOMAIN pieces |-> ReadPiece(pieces[i]) # "Read"])
  IN  IF cut \in DOMAIN pieces THEN IF pieces[cut].end = "Cut" THEN "Malformed" ELSE "IncorrectSize"
      ELSE IF answer.status = "Success" /\ bad \in DOMAIN pieces THEN ReadPiece(pieces[bad])
      ELSE "Read"

Reading(layout, answer) ==
  LET fixed == ReadFixed(layout, answer)
  IN  CASE layout.list = "Unread" -> "Read"
        [] layout.list # "Unread" /\ fixed # "Read" -> fixed
        [] fixed = "Read" /\ layout.list = "Counted" -> ReadCounted(layout, answer)
        [] fixed = "Read" /\ layout.list = "Placed" -> ReadPlaced(layout, answer)
        [] fixed = "Read" /\ layout.list = "Lenient" -> ReadLenient(layout, answer)
        [] fixed = "Read" /\ layout.list = "Pieces" -> ReadPieces(answer)
        [] fixed = "Read" /\ layout.list \in {"None", "Halves"} -> "Read"
=============================================================================
