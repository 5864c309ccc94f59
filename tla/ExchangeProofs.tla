----------------------------- MODULE ExchangeProofs -----------------------------
(***************************************************************************)
(* Proofs about one call of a controller method: a success is one the      *)
(* entity gave in full, a full answer and the reason of a refusal reach    *)
(* the caller, and the handler is called once.                             *)
(***************************************************************************)
EXTENDS Exchange, TLAPS, WellFoundedInduction

-----------------------------------------------------------------------------
(* The questions, by the name of their command                               *)

LEMMA OfIs ==
  ASSUME NEW C, NEW T, NEW q
  PROVE  q \in Of(C, T) <=> q = <<q[1], q[2], 0>> /\ q[1] \in C /\ q[2] \in T
BY DEF Of

VendorCommands ==
  {"GetMilanInfo", "SetSystemUniqueID", "GetSystemUniqueID", "SetMediaClockReferenceInfo",
   "GetMediaClockReferenceInfo", "BindStream", "UnbindStream", "GetStreamInputInfoEx"}
UnreadCommands ==
  {"AddressAccess", "ConnectRx", "DisconnectRx", "DisconnectTx", "GetTxState", "GetRxState", "GetTxConnection"}

LEMMA QuestionIs ==
  ASSUME NEW q
  PROVE  q \in Questions <=>
           \/ q \in SentAccess \/ q \in SentReads \/ q \in SentPortReads \/ q \in SentControlReads
           \/ q \in SentFormats \/ q \in SentInfos \/ q \in SentUnitNames \/ q \in SentSourceNames
           \/ q \in SentClockNames \/ q \in SentRates \/ q \in SentControls \/ q \in SentCounters
           \/ q \in SentLengths \/ q \in SentPieces \/ q \in SentTransit \/ q \in SentVendor
           \/ q \in SentConnections
BY Zenon DEF Questions

LEMMA HandledIs ==
  ASSUME NEW q
  PROVE  q \in Handled <=>
           \/ q \in HandledAccess \/ q \in HandledDescriptors \/ q \in HandledPorts \/ q \in HandledFormats
           \/ q \in HandledSetNames \/ q \in HandledSetSourceNames \/ q \in HandledGetNames
           \/ q \in HandledGetSourceNames \/ q \in HandledValues \/ q \in HandledRunning
           \/ q \in HandledStates \/ q \in HandledMappings \/ q \in HandledOperations
           \/ q \in HandledTransit \/ q \in HandledVendor
BY Zenon DEF Handled

\* What each kind of question is, by its command.
LEMMA VendorIs ==
  ASSUME NEW q
  PROVE  q \in SentVendor <=> q = <<q[1], "None", 0>> /\ q[1] \in VendorCommands
BY OfIs, SMT DEF SentVendor, VendorCommands, Plain, Clock, Binding

LEMMA AddressIs ==
  ASSUME NEW q
  PROVE  q \in Addresses <=> q = <<"AddressAccess", "None", 0>>
BY OfIs, SMT DEF Addresses, Plain

LEMMA ConnectionIs ==
  ASSUME NEW q
  PROVE  q \in Connections <=> q = <<q[1], "None", 0>> /\ q[1] \in UnreadCommands \ {"AddressAccess"}
BY OfIs, SMT DEF Connections, SentConnections, UnreadCommands, Plain

\* A question is a triple.
LEMMA QuestionIsTriple ==
  ASSUME NEW q \in Questions
  PROVE  q = <<q[1], q[2], q[3]>>
<1>1. CASE q \in SentAccess
  BY <1>1, OfIs DEF SentAccess, Access, Plain
<1>2. CASE q \in SentReads \/ q \in SentPortReads \/ q \in SentControlReads \/ q \in SentFormats
  BY <1>2, OfIs DEF SentReads, SentPortReads, SentControlReads, SentFormats, Formats, Read, Plain
<1>3. CASE q \in SentInfos \/ q \in SentUnitNames \/ q \in SentSourceNames \/ q \in SentClockNames
  BY <1>3, OfIs DEF SentInfos, SentUnitNames, SentSourceNames, SentClockNames, Infos, EntityNames, Names,
       Association, Plain
<1>4. CASE q \in SentRates \/ q \in SentControls \/ q \in SentCounters \/ q \in SentLengths
  BY <1>4, OfIs DEF SentRates, SentControls, SentCounters, SentLengths, Rates, Running, Restarts, Operations, Plain
<1>5. CASE q \in SentPieces \/ q \in SentTransit \/ q \in SentVendor \/ q \in SentConnections
  BY <1>5, OfIs DEF SentPieces, SentTransit, SentVendor, SentConnections, Plain, Clock, Binding
<1>6. QED
  BY <1>1, <1>2, <1>3, <1>4, <1>5, QuestionIs

-----------------------------------------------------------------------------
(* The dispatch of the answers knows every question that is read             *)

LEMMA EveryQuestionHandled == Questions \ (Addresses \cup Connections) \subseteq Handled
<1>1. SUFFICES ASSUME NEW q \in Questions, q \notin Addresses \cup Connections
               PROVE  q \in Handled
  OBVIOUS
<1>2. CASE q \in SentAccess
  <2>1. q \in HandledAccess \/ q \in HandledRunning
    BY <1>2 DEF SentAccess, HandledAccess, HandledRunning, Plain, Of
  <2>2. QED  BY <2>1, HandledIs
<1>3. CASE q \in SentReads
  <2>1. q \in HandledDescriptors
    BY <1>3, OfIs DEF SentReads, HandledDescriptors, Read
  <2>2. QED  BY <2>1, HandledIs
<1>4. CASE q \in SentPortReads
  <2>1. q \in HandledDescriptors \/ q \in HandledPorts
    BY <1>4, OfIs DEF SentPortReads, HandledDescriptors, HandledPorts, Read
  <2>2. QED  BY <2>1, HandledIs
<1>5. CASE q \in SentControlReads
  <2>1. q \in HandledPorts \/ q \in HandledFormats
    BY <1>5, OfIs DEF SentControlReads, HandledPorts, HandledFormats, Read, Plain
  <2>2. QED  BY <2>1, HandledIs
<1>6. CASE q \in SentFormats
  <2>1. q \in HandledFormats \/ q \in HandledMappings
    BY <1>6 DEF SentFormats, HandledFormats, HandledMappings
  <2>2. QED  BY <2>1, HandledIs
<1>7. CASE q \in SentInfos
  <2>1. q \in HandledFormats \/ q \in HandledSetNames \/ q \in HandledGetNames
    BY <1>7, OfIs DEF SentInfos, EntityNames, Names, HandledFormats, HandledSetNames, HandledGetNames, NamedUnits
  <2>2. QED  BY <2>1, HandledIs
<1>8. CASE q \in SentUnitNames
  <2>1. q \in HandledSetNames \/ q \in HandledGetNames
    BY <1>8, OfIs DEF SentUnitNames, Names, HandledSetNames, HandledGetNames, NamedUnits
  <2>2. QED  BY <2>1, HandledIs
<1>9. CASE q \in SentSourceNames
  <2>1. q \in HandledSetSourceNames \/ q \in HandledGetSourceNames
    BY <1>9, OfIs DEF SentSourceNames, Names, HandledSetSourceNames, HandledGetSourceNames, NamedSources
  <2>2. QED  BY <2>1, HandledIs
<1>10. CASE q \in SentClockNames
  <2>1. q \in HandledSetSourceNames \/ q \in HandledGetSourceNames \/ q \in HandledValues
    BY <1>10, OfIs DEF SentClockNames, Names, HandledSetSourceNames, HandledGetSourceNames, NamedSources, HandledValues
  <2>2. QED  BY <2>1, HandledIs
<1>11. CASE q \in SentRates
  <2>1. q \in HandledValues
    BY <1>11, OfIs DEF SentRates, HandledValues, Plain
  <2>2. QED  BY <2>1, HandledIs
<1>12. CASE q \in SentControls
  <2>1. q \in HandledValues \/ q \in HandledRunning \/ q \in HandledStates
    BY <1>12, OfIs DEF SentControls, HandledValues, HandledRunning, HandledStates, Plain
  <2>2. QED  BY <2>1, HandledIs
<1>13. CASE q \in SentCounters
  <2>1. q \in HandledStates \/ q \in HandledMappings \/ q \in HandledOperations
    BY <1>13 DEF SentCounters, HandledStates, HandledMappings, HandledOperations
  <2>2. QED  BY <2>1, HandledIs
<1>14. CASE q \in SentLengths \/ q \in SentPieces
  <2>1. q \in HandledOperations
    BY <1>14, OfIs DEF SentLengths, SentPieces, HandledOperations, Plain
  <2>2. QED  BY <2>1, HandledIs
<1>15. CASE q \in SentTransit
  <2>1. q \in HandledTransit
    BY <1>1, <1>15, OfIs DEF SentTransit, HandledTransit, Addresses, Plain
  <2>2. QED  BY <2>1, HandledIs
<1>16. CASE q \in SentVendor
  <2>1. q \in HandledVendor
    BY <1>16 DEF SentVendor, HandledVendor
  <2>2. QED  BY <2>1, HandledIs
<1>17. CASE q \in SentConnections
  BY <1>1, <1>17 DEF Connections
<1>18. QED
  BY <1>2, <1>3, <1>4, <1>5, <1>6, <1>7, <1>8, <1>9, <1>10, <1>11, <1>12, <1>13, <1>14, <1>15, <1>16, <1>17,
     QuestionIs

LEMMA HandledAreQuestions == Handled \subseteq Questions
<1>1. SUFFICES ASSUME NEW q \in Handled
               PROVE  q \in Questions
  OBVIOUS
<1>2. CASE q \in HandledAccess
  <2>1. q \in SentAccess
    BY <1>2 DEF SentAccess, HandledAccess, Plain, Of
  <2>2. QED  BY <2>1, QuestionIs
<1>3. CASE q \in HandledDescriptors
  <2>1. q \in SentReads \/ q \in SentPortReads
    BY <1>3, OfIs DEF SentReads, SentPortReads, HandledDescriptors, Read
  <2>2. QED  BY <2>1, QuestionIs
<1>4. CASE q \in HandledPorts
  <2>1. q \in SentPortReads \/ q \in SentControlReads
    BY <1>4, OfIs DEF SentPortReads, SentControlReads, HandledPorts, Read
  <2>2. QED  BY <2>1, QuestionIs
<1>5. CASE q \in HandledFormats
  <2>1. q \in SentControlReads \/ q \in SentFormats \/ q \in SentInfos
    BY <1>5 DEF SentControlReads, SentFormats, SentInfos, HandledFormats
  <2>2. QED  BY <2>1, QuestionIs
<1>6. CASE q \in HandledSetNames \/ q \in HandledGetNames
  <2>1. q \in SentInfos \/ q \in SentUnitNames
    BY <1>6, OfIs DEF SentInfos, SentUnitNames, EntityNames, Names, HandledSetNames, HandledGetNames, NamedUnits
  <2>2. QED  BY <2>1, QuestionIs
<1>7. CASE q \in HandledSetSourceNames \/ q \in HandledGetSourceNames
  <2>1. q \in SentSourceNames \/ q \in SentClockNames
    BY <1>7, OfIs DEF SentSourceNames, SentClockNames, Names, HandledSetSourceNames, HandledGetSourceNames,
         NamedSources
  <2>2. QED  BY <2>1, QuestionIs
<1>8. CASE q \in HandledValues
  <2>1. q \in SentClockNames \/ q \in SentRates \/ q \in SentControls
    BY <1>8, OfIs DEF SentClockNames, SentRates, SentControls, HandledValues, Plain
  <2>2. QED  BY <2>1, QuestionIs
<1>9. CASE q \in HandledRunning
  <2>1. q \in SentAccess \/ q \in SentControls
    BY <1>9, OfIs DEF SentAccess, SentControls, HandledRunning, Plain
  <2>2. QED  BY <2>1, QuestionIs
<1>10. CASE q \in HandledStates
  <2>1. q \in SentControls \/ q \in SentCounters
    BY <1>10, OfIs DEF SentControls, SentCounters, HandledStates, Plain
  <2>2. QED  BY <2>1, QuestionIs
<1>11. CASE q \in HandledMappings
  <2>1. q \in SentFormats \/ q \in SentCounters
    BY <1>11 DEF SentFormats, SentCounters, HandledMappings
  <2>2. QED  BY <2>1, QuestionIs
<1>12. CASE q \in HandledOperations
  <2>1. q \in SentCounters \/ q \in SentLengths \/ q \in SentPieces
    BY <1>12, OfIs DEF SentCounters, SentLengths, SentPieces, HandledOperations, Plain
  <2>2. QED  BY <2>1, QuestionIs
<1>13. CASE q \in HandledTransit
  <2>1. q \in SentTransit
    BY <1>13, OfIs DEF SentTransit, HandledTransit, Plain
  <2>2. QED  BY <2>1, QuestionIs
<1>14. CASE q \in HandledVendor
  <2>1. q \in SentVendor
    BY <1>14 DEF SentVendor, HandledVendor
  <2>2. QED  BY <2>1, QuestionIs
<1>15. QED
  BY <1>2, <1>3, <1>4, <1>5, <1>6, <1>7, <1>8, <1>9, <1>10, <1>11, <1>12, <1>13, <1>14, HandledIs

\* The pieces that are unpacked are those that may be asked for.
NamedObjects ==
  {"Entity", "Configuration", "AudioUnit", "AvbInterface", "ClockSource", "MemoryObject", "AudioCluster",
   "Control", "ClockDomain", "Timing"} \cup Streams \cup Jacks \cup Ptp

LEMMA NamesAre ==
  ASSUME NEW q
  PROVE  q \in Questions /\ q[1] = "GetName" <=>
           q = <<"GetName", "Entity", 1>> \/ q \in Of({"GetName"}, NamedObjects)
<1>1. q = <<"GetName", "Entity", 1>> => q \in SentInfos
  BY DEF SentInfos, EntityNames
<1>2. q \in Of({"GetName"}, NamedObjects) =>
        q \in SentInfos \/ q \in SentUnitNames \/ q \in SentSourceNames \/ q \in SentClockNames
  BY OfIs DEF SentInfos, SentUnitNames, SentSourceNames, SentClockNames, EntityNames, Names, NamedObjects
<1>3. ASSUME q[1] = "GetName", q \in Questions
      PROVE  q \in SentInfos \/ q \in SentUnitNames \/ q \in SentSourceNames \/ q \in SentClockNames
  <2>1. q \notin SentAccess
    BY <1>3, OfIs DEF SentAccess, Access, Plain, Availability, Registration
  <2>2. q \notin SentReads /\ q \notin SentPortReads /\ q \notin SentControlReads /\ q \notin SentFormats
    BY <1>3, OfIs DEF SentReads, SentPortReads, SentControlReads, SentFormats, Formats, Read, Plain
  <2>3. q \notin SentRates /\ q \notin SentControls /\ q \notin SentCounters /\ q \notin SentLengths
    BY <1>3, OfIs DEF SentRates, SentControls, SentCounters, SentLengths, Rates, Running, Restarts, Operations, Plain
  <2>4. q \notin SentPieces /\ q \notin SentTransit /\ q \notin SentVendor /\ q \notin SentConnections
    BY <1>3, OfIs DEF SentPieces, SentTransit, SentVendor, SentConnections, Plain, Clock, Binding
  <2>5. QED  BY <1>3, <2>1, <2>2, <2>3, <2>4, QuestionIs
<1>4. ASSUME q[1] = "GetName",
             q \in SentInfos \/ q \in SentUnitNames \/ q \in SentSourceNames \/ q \in SentClockNames
      PROVE  q = <<"GetName", "Entity", 1>> \/ q \in Of({"GetName"}, NamedObjects)
  BY <1>4, OfIs DEF SentInfos, SentUnitNames, SentSourceNames, SentClockNames, Infos, EntityNames, Names,
       Association, Plain, NamedObjects
<1>5. q \in Of({"GetName"}, NamedObjects) => q[1] = "GetName"
  BY OfIs
<1>6. QED
  BY <1>1, <1>2, <1>3, <1>4, <1>5, QuestionIs

LEMMA UnpackedArePieces == Unpacked = Pieces \cup MorePieces
<1>1. ASSUME NEW q
      PROVE  q \in Unpacked <=>
               q \in UnpackedStates \/ q \in UnpackedNames \/ q \in UnpackedSourceNames \/ q \in UnpackedValues
  BY Zenon DEF Unpacked
<1>2. ASSUME NEW q
      PROVE  q \in UnpackedNames \/ q \in UnpackedSourceNames <=>
               q = <<"GetName", "Entity", 1>> \/ q \in Of({"GetName"}, NamedObjects)
  BY OfIs DEF UnpackedNames, UnpackedSourceNames, NamedObjects
<1>3. ASSUME NEW q
      PROVE  q \in UnpackedStates \/ q \in UnpackedValues <=>
               \/ q \in Plain({"GetConfiguration", "GetAssociationID"})
               \/ q \in Of({"GetStreamFormat", "GetStreamInfo"}, Streams)
               \/ q \in Of({"GetSamplingRate"}, {"AudioUnit", "VideoCluster", "SensorCluster"})
               \/ q \in MorePieces
  BY OfIs DEF UnpackedStates, UnpackedValues, MorePieces, Plain
<1>4. ASSUME NEW q
      PROVE  q \in Unpacked <=> q \in Pieces \cup MorePieces
  BY <1>1, <1>2, <1>3, NamesAre DEF Pieces
<1>5. QED
  BY <1>4

LEMMA UnpackedAreQuestions == Unpacked \subseteq Questions
<1>1. SUFFICES ASSUME NEW q \in Unpacked
               PROVE  q \in Questions
  OBVIOUS
<1>2. CASE q \in UnpackedStates
  <2>1. q \in SentControlReads \/ q \in SentFormats \/ q \in SentInfos
    BY <1>2, OfIs DEF UnpackedStates, SentControlReads, SentFormats, SentInfos, Formats, Infos, Plain
  <2>2. QED  BY <2>1, QuestionIs
<1>3. CASE q \in UnpackedNames \/ q \in UnpackedSourceNames
  <2>1. q = <<"GetName", "Entity", 1>> \/ q \in Of({"GetName"}, NamedObjects)
    BY <1>3, OfIs DEF UnpackedNames, UnpackedSourceNames, NamedObjects
  <2>2. QED  BY <2>1, NamesAre
<1>4. CASE q \in UnpackedValues
  <2>1. \/ q \in SentClockNames \/ q \in SentRates \/ q \in SentCounters \/ q \in SentLengths \/ q \in SentTransit
    BY <1>4, OfIs DEF UnpackedValues, SentClockNames, SentRates, SentCounters, SentLengths, SentTransit, Rates,
         Association, Plain
  <2>2. QED  BY <2>1, QuestionIs
<1>5. QED
  BY <1>2, <1>3, <1>4, Zenon DEF Unpacked

-----------------------------------------------------------------------------
(* The payloads                                                              *)

Kinds == {"None", "Counted", "Placed", "Lenient", "Pieces", "Unread", "Halves"}
Layouts == [sent : Nat, echoed : Nat, least : Nat, list : Kinds, element : Nat]

\* What the layout of a command is: only descriptors hold a list at a place that
\* the answer gives; nothing of an answer about addresses or connections is read;
\* a command of the vendor's is expected back as it was sent, but for one.
Good(command, layout) ==
  /\ layout \in Layouts
  /\ layout.list \in {"Placed", "Lenient"} => command = "ReadDescriptor"
  /\ command \in UnreadCommands => layout.list = "Unread"
  /\ command \in VendorCommands =>
       layout.list \in {"None", "Halves"} /\ (command # "SetSystemUniqueID" => layout.sent = layout.echoed)
Fits(table) == \A q \in DOMAIN table : Good(q[1], table[q])

LEMMA EveryFits ==
  ASSUME NEW C, NEW Q, \A q \in Q : q[1] \in C, NEW layout, \A c \in C : Good(c, layout)
  PROVE  Fits(Every(Q, layout))
BY DEF Fits, Every

LEMMA OfFits ==
  ASSUME NEW C, NEW T, NEW layout, \A c \in C : Good(c, layout)
  PROVE  Fits(Every(Of(C, T), layout))
BY OfIs, EveryFits

LEMMA PlainFits ==
  ASSUME NEW C, NEW layout, \A c \in C : Good(c, layout)
  PROVE  Fits(Every(Plain(C), layout))
BY OfFits DEF Plain

LEMMA FixedIs ==
  ASSUME NEW command, command \notin UnreadCommands, NEW sent \in Nat, NEW least \in Nat
  PROVE  Good(command, Fixed(sent, least))
BY DEF Fixed, Layout, Layouts, Good, Kinds, UnreadCommands, VendorCommands

LEMMA PlainLayoutIs ==
  ASSUME NEW command, command \notin UnreadCommands \cup VendorCommands,
         NEW sent \in Nat, NEW echoed \in Nat, NEW least \in Nat,
         NEW list \in {"None", "Counted", "Pieces"}, NEW element \in Nat
  PROVE  Good(command, Layout(sent, echoed, least, list, element))
BY DEF Layout, Layouts, Good, Kinds

LEMMA DescriptorsFit ==
  ASSUME NEW types, NEW least \in Nat
  PROVE  Fits(Descriptors(types, least))
<1>1. Good("ReadDescriptor", Fixed(8, least))
  BY FixedIs DEF UnreadCommands
<1>2. QED
  BY <1>1, OfFits DEF Descriptors, Read

LEMMA ListDescriptorsFit ==
  ASSUME NEW types, NEW least \in Nat, NEW element \in Nat
  PROVE  Fits(ListDescriptors(types, least, element))
<1>1. Good("ReadDescriptor", Layout(8, 8, least, "Placed", element))
  BY DEF Layout, Layouts, Good, Kinds, UnreadCommands, VendorCommands
<1>2. QED
  BY <1>1, OfFits DEF ListDescriptors, Read

LEMMA DescriptorTablesFit ==
  /\ \A t \in EntityDescriptor \cup ConfigurationDescriptor \cup AudioUnitDescriptor : Fits(t)
  /\ \A t \in StreamDescriptor \cup InterfaceDescriptors \cup LocaleDescriptors : Fits(t)
  /\ \A t \in PortDescriptors \cup AudioMapDescriptor \cup ControlDescriptor : Fits(t)
  /\ \A t \in ClockDescriptors \cup PtpDescriptors : Fits(t)
<1>1. Good("ReadDescriptor", Layout(8, 8, 108, "Lenient", 1))
  BY DEF Layout, Layouts, Good, Kinds, UnreadCommands, VendorCommands
<1>2. \A t \in ControlDescriptor : Fits(t)
  BY <1>1, OfFits DEF ControlDescriptor, Read
<1>3. \A t \in EntityDescriptor \cup ConfigurationDescriptor \cup AudioUnitDescriptor : Fits(t)
  BY DescriptorsFit, ListDescriptorsFit DEF EntityDescriptor, ConfigurationDescriptor, AudioUnitDescriptor
<1>4. \A t \in StreamDescriptor \cup InterfaceDescriptors \cup LocaleDescriptors : Fits(t)
  BY DescriptorsFit, ListDescriptorsFit DEF StreamDescriptor, InterfaceDescriptors, LocaleDescriptors
<1>5. \A t \in PortDescriptors \cup AudioMapDescriptor : Fits(t)
  BY DescriptorsFit, ListDescriptorsFit DEF PortDescriptors, AudioMapDescriptor
<1>6. \A t \in ClockDescriptors \cup PtpDescriptors : Fits(t)
  BY DescriptorsFit, ListDescriptorsFit DEF ClockDescriptors, PtpDescriptors
<1>7. QED
  BY <1>2, <1>3, <1>4, <1>5, <1>6

LEMMA SettingTablesFit ==
  /\ \A t \in Ownership \cup ConfigurationPayloads \cup FormatPayloads : Fits(t)
  /\ \A t \in SetInfoPayloads \cup GetInfoPayloads \cup NamePayloads : Fits(t)
  /\ \A t \in AssociationPayloads \cup RatePayloads \cup ClockSourcePayloads : Fits(t)
<1>1. ASSUME NEW c \in {"AcquireEntity", "LockEntity", "SetConfiguration", "GetConfiguration", "SetStreamFormat",
                        "GetStreamFormat", "SetStreamInfo", "GetStreamInfo", "SetName", "GetName",
                        "SetAssociationID", "GetAssociationID", "SetSamplingRate", "GetSamplingRate",
                        "SetClockSource", "GetClockSource"}
      PROVE  c \notin UnreadCommands \cup VendorCommands
  BY <1>1 DEF UnreadCommands, VendorCommands
<1>2. \A t \in Ownership : Fits(t)
  <2>1. \A q \in Access : q[1] \in {"AcquireEntity", "LockEntity"}
    BY DEF Access
  <2>2. \A c \in {"AcquireEntity", "LockEntity"} : Good(c, Fixed(16, 16))
    BY <1>1, FixedIs
  <2>3. Fits(Every(Access, Fixed(16, 16)))
    BY <2>1, <2>2 DEF Fits, Every
  <2>4. QED  BY <2>3 DEF Ownership
<1>3. \A t \in ConfigurationPayloads : Fits(t)
  BY <1>1, FixedIs, PlainLayoutIs, PlainFits DEF ConfigurationPayloads
<1>4. \A t \in FormatPayloads : Fits(t)
  BY <1>1, FixedIs, PlainLayoutIs, OfFits DEF FormatPayloads
<1>5. \A t \in SetInfoPayloads \cup GetInfoPayloads : Fits(t)
  BY <1>1, FixedIs, OfFits DEF SetInfoPayloads, GetInfoPayloads
<1>6. \A t \in NamePayloads : Fits(t)
  <2>1. Good("SetName", Fixed(72, 72)) /\ Good("GetName", Layout(8, 72, 72, "None", 0))
    BY <1>1, FixedIs, PlainLayoutIs
  <2>2. /\ Fits(Every({q \in Named : q[1] = "SetName"}, Fixed(72, 72)))
        /\ Fits(Every({q \in Named : q[1] = "GetName"}, Layout(8, 72, 72, "None", 0)))
    BY <2>1 DEF Fits, Every
  <2>3. QED  BY <2>2 DEF NamePayloads
<1>7. \A t \in AssociationPayloads : Fits(t)
  BY <1>1, FixedIs, PlainFits DEF AssociationPayloads
<1>8. \A t \in RatePayloads : Fits(t)
  BY <1>1, FixedIs, PlainLayoutIs, OfFits DEF RatePayloads
<1>9. \A t \in ClockSourcePayloads : Fits(t)
  BY <1>1, FixedIs, PlainLayoutIs, PlainFits DEF ClockSourcePayloads
<1>10. QED
  BY <1>2, <1>3, <1>4, <1>5, <1>6, <1>7, <1>8, <1>9

LEMMA StateTablesFit ==
  /\ \A t \in ControlPayloads \cup StreamingPayloads \cup AvbInfoPayloads \cup AsPathPayloads : Fits(t)
  /\ \A t \in CounterPayloads \cup RebootPayloads \cup AudioMapPayloads \cup MappingPayloads : Fits(t)
  /\ \A t \in OperationPayloads \cup LengthPayloads \cup PiecesPayloads \cup TransitPayloads : Fits(t)
<1>1. ASSUME NEW c \in {"SetControl", "GetControl", "StartStreaming", "StopStreaming", "GetAvbInfo", "GetAsPath",
                        "GetCounters", "Reboot", "GetAudioMap", "AddAudioMappings", "RemoveAudioMappings",
                        "StartOperation", "AbortOperation", "SetMemoryObjectLength", "GetMemoryObjectLength",
                        "GetDynamicInfo", "SetMaxTransitTime", "GetMaxTransitTime"}
      PROVE  c \notin UnreadCommands \cup VendorCommands
  BY <1>1 DEF UnreadCommands, VendorCommands
<1>2. \A t \in ControlPayloads \cup StreamingPayloads : Fits(t)
  BY <1>1, FixedIs, PlainFits, OfFits DEF ControlPayloads, StreamingPayloads, Running
<1>3. \A t \in AvbInfoPayloads \cup AsPathPayloads : Fits(t)
  BY <1>1, PlainLayoutIs, PlainFits, OfFits DEF AvbInfoPayloads, AsPathPayloads
<1>4. \A t \in CounterPayloads \cup RebootPayloads : Fits(t)
  BY <1>1, FixedIs, OfFits DEF CounterPayloads, RebootPayloads, Restarts
<1>5. \A t \in AudioMapPayloads \cup MappingPayloads : Fits(t)
  BY <1>1, PlainLayoutIs, OfFits DEF AudioMapPayloads, MappingPayloads
<1>6. \A t \in OperationPayloads \cup LengthPayloads : Fits(t)
  BY <1>1, FixedIs, PlainLayoutIs, PlainFits DEF OperationPayloads, LengthPayloads, Operations
<1>7. \A t \in PiecesPayloads \cup TransitPayloads : Fits(t)
  BY <1>1, FixedIs, PlainLayoutIs, PlainFits DEF PiecesPayloads, TransitPayloads
<1>8. QED
  BY <1>2, <1>3, <1>4, <1>5, <1>6, <1>7

LEMMA OtherTablesFit ==
  /\ \A t \in UnreadPayloads : Fits(t)
  /\ \A t \in MilanInfoPayloads \cup SystemPayloads \cup ClockReferencePayloads : Fits(t)
  /\ \A t \in BindingPayloads \cup StreamInputPayloads : Fits(t)
<1>1. \A t \in UnreadPayloads : Fits(t)
  <2>1. ASSUME NEW q \in Plain(Availability \cup Registration) \cup Addresses \cup Connections
        PROVE  q[1] \in Availability \cup Registration \cup UnreadCommands
    BY <2>1, OfIs, AddressIs, ConnectionIs DEF Plain, UnreadCommands
  <2>2. ASSUME NEW c \in Availability \cup Registration \cup UnreadCommands
        PROVE  Good(c, Layout(0, 0, 0, "Unread", 0))
    BY <2>2 DEF Layout, Layouts, Good, Kinds, Availability, Registration, UnreadCommands, VendorCommands
  <2>3. QED  BY <2>1, <2>2, EveryFits DEF UnreadPayloads
<1>2. ASSUME NEW c \in VendorCommands
      PROVE  c \notin UnreadCommands
  BY <1>2 DEF UnreadCommands, VendorCommands
<1>3. /\ Good("SetSystemUniqueID", Layout(74, 6, 6, "Halves", 68))
      /\ Good("GetSystemUniqueID", Layout(2, 2, 6, "Halves", 68))
  BY DEF Layout, Layouts, Good, Kinds, UnreadCommands, VendorCommands
<1>4. \A t \in SystemPayloads : Fits(t)
  BY <1>3, PlainFits DEF SystemPayloads
<1>5. \A t \in MilanInfoPayloads \cup ClockReferencePayloads : Fits(t)
  BY <1>2, FixedIs, PlainFits DEF MilanInfoPayloads, ClockReferencePayloads, VendorCommands
<1>6. \A t \in BindingPayloads \cup StreamInputPayloads : Fits(t)
  BY <1>2, FixedIs, PlainFits DEF BindingPayloads, StreamInputPayloads, VendorCommands
<1>7. QED
  BY <1>1, <1>4, <1>5, <1>6

LEMMA EveryTableFits == \A t \in Tables : Fits(t)
<1>1. ASSUME NEW t \in Tables
      PROVE  \/ t \in EntityDescriptor \cup ConfigurationDescriptor \cup AudioUnitDescriptor
             \/ t \in StreamDescriptor \cup InterfaceDescriptors \cup LocaleDescriptors
             \/ t \in PortDescriptors \cup AudioMapDescriptor \cup ControlDescriptor
             \/ t \in ClockDescriptors \cup PtpDescriptors
             \/ t \in Ownership \cup ConfigurationPayloads \cup FormatPayloads
             \/ t \in SetInfoPayloads \cup GetInfoPayloads \cup NamePayloads
             \/ t \in AssociationPayloads \cup RatePayloads \cup ClockSourcePayloads
             \/ t \in ControlPayloads \cup StreamingPayloads \cup AvbInfoPayloads \cup AsPathPayloads
             \/ t \in CounterPayloads \cup RebootPayloads \cup AudioMapPayloads \cup MappingPayloads
             \/ t \in OperationPayloads \cup LengthPayloads \cup PiecesPayloads \cup TransitPayloads
             \/ t \in UnreadPayloads
             \/ t \in MilanInfoPayloads \cup SystemPayloads \cup ClockReferencePayloads
             \/ t \in BindingPayloads \cup StreamInputPayloads
  BY <1>1 DEF Tables
<1>2. QED
  BY <1>1, DescriptorTablesFit, SettingTablesFit, StateTablesFit, OtherTablesFit

\* The layout of every question is what its command is to have.
LEMMA PayloadsFit == \A q \in Questions : Good(q[1], Payloads[q])
<1>1. SUFFICES ASSUME NEW q \in Questions
               PROVE  Good(q[1], Payloads[q])
  OBVIOUS
<1>2. q \in UNION {DOMAIN table : table \in Tables}
  BY EveryQuestionHasAPayload DEF Payloads
<1>3. PICK t \in Tables : q \in DOMAIN t
  BY <1>2
<1>4. PICK chosen : chosen = CHOOSE table \in Tables : q \in DOMAIN table
  OBVIOUS
<1>5. chosen \in Tables /\ q \in DOMAIN chosen
  BY <1>3, <1>4
<1>6. Payloads[q] = chosen[q]
  BY <1>2, <1>4 DEF Payloads
<1>7. QED
  BY <1>5, <1>6, EveryTableFits DEF Fits

-----------------------------------------------------------------------------
(* Reading an answer                                                         *)

\* Where the first piece with a property is: at one with it, none before.
LEMMA FirstIs ==
  ASSUME NEW n \in Nat, NEW holds \in [1..n -> BOOLEAN]
  PROVE  /\ First(holds) \in 1..(n + 1)
         /\ First(holds) \in 1..n => holds[First(holds)]
         /\ \A j \in 1..(First(holds) - 1) : ~holds[j]
<1>1. holds \in Seq(BOOLEAN) /\ Len(holds) = n /\ DOMAIN holds = 1..n
  <2>1. holds \in Seq(BOOLEAN)
    OBVIOUS
  <2>2. DOMAIN holds = 1..n
    OBVIOUS
  <2>3. Len(holds) \in Nat /\ DOMAIN holds = 1..Len(holds)
    BY <2>1
  <2>4. Len(holds) = n
    BY <2>2, <2>3
  <2>5. QED  BY <2>1, <2>2, <2>4
<1>2. PICK T : T = {i \in 1..(n + 1) : i \in DOMAIN holds => holds[i]}
  OBVIOUS
<1>3. T \subseteq Nat /\ n + 1 \in T
  BY <1>1, <1>2
<1>4. PICK i \in T : \A j \in T : ~(<<j, i>> \in OpToRel(<, Nat))
  <2>1. IsWellFoundedOn(OpToRel(<, Nat), Nat)
    BY NatLessThanWellFounded
  <2>2. T \subseteq Nat /\ T # {}
    BY <1>3
  <2>3. QED  BY <2>1, <2>2, WFMin
<1>5. \A j \in T : ~(j < i)
  BY <1>3, <1>4 DEF OpToRel
<1>6. i \in 1..(n + 1) /\ (i \in DOMAIN holds => holds[i]) /\ \A j \in 1..(i - 1) : ~holds[j]
  <2>1. i \in 1..(n + 1) /\ (i \in DOMAIN holds => holds[i])
    BY <1>2
  <2>2. ASSUME NEW j \in 1..(i - 1)
        PROVE  ~holds[j]
    <3>1. j \in 1..(n + 1) /\ j \in DOMAIN holds /\ j < i
      BY <1>1, <2>1
    <3>2. j \notin T
      BY <1>5, <3>1
    <3>3. QED  BY <1>2, <3>1, <3>2
  <2>3. QED  BY <2>1, <2>2
<1>7. \E k \in 1..(Len(holds) + 1) : (k \in DOMAIN holds => holds[k]) /\ \A j \in 1..(k - 1) : ~holds[j]
  BY <1>1, <1>6
<1>8. /\ First(holds) \in 1..(Len(holds) + 1)
      /\ First(holds) \in DOMAIN holds => holds[First(holds)]
      /\ \A j \in 1..(First(holds) - 1) : ~holds[j]
  BY <1>7, Zenon DEF First
<1>9. QED
  BY <1>1, <1>8

LEMMA FirstIfAny ==
  ASSUME NEW n \in Nat, NEW holds \in [1..n -> BOOLEAN]
  PROVE  /\ First(holds) \in 1..n <=> \E i \in 1..n : holds[i]
         /\ First(holds) \in 1..n => holds[First(holds)]
<1>1. ASSUME NEW i \in 1..n, holds[i], First(holds) \notin 1..n
      PROVE  FALSE
  <2>1. First(holds) = n + 1
    BY <1>1, FirstIs
  <2>2. i \in 1..(First(holds) - 1)
    BY <2>1
  <2>3. QED  BY <1>1, <2>2, FirstIs
<1>2. First(holds) \in 1..n => holds[First(holds)]
  BY FirstIs
<1>3. QED
  BY <1>1, <1>2

\* What a layout is read from.
PieceEnds == {"Whole", "Cut", "Long"}
Readable(answer) ==
  /\ answer.length \in Nat
  /\ answer.count \in Nat
  /\ answer.offset \in Int
  /\ \E n \in Nat :
       /\ DOMAIN answer.pieces = 1..n
       /\ \A i \in 1..n : answer.pieces[i].length \in Nat /\ answer.pieces[i].end \in PieceEnds

Readings == {"NotImplemented", "IncorrectSize", "Malformed", "Read"}

LEMMA FixedRead ==
  ASSUME NEW layout \in Layouts, NEW answer, answer.length \in Nat
  PROVE  /\ ReadFixed(layout, answer) \in {"NotImplemented", "IncorrectSize", "Read"}
         /\ answer.status # "NotImplemented" =>
              ReadFixed(layout, answer) = IF answer.length >= layout.least THEN "Read" ELSE "IncorrectSize"
         /\ answer.status = "NotImplemented" =>
              ReadFixed(layout, answer) = IF answer.length = layout.echoed THEN "NotImplemented" ELSE "IncorrectSize"
BY DEF ReadFixed, Layouts

LEMMA PieceRead ==
  ASSUME NEW piece, piece.length \in Nat
  PROVE  /\ ReadPiece(piece) \in Readings
         /\ ReadPiece(piece) = "Read" <=>
              /\ piece.question \in Pieces \cup MorePieces
              /\ piece.status # "NotImplemented"
              /\ piece.length >= Payloads[piece.question].least
<1>1. CASE piece.question \in Unpacked
  <2>1. Payloads[piece.question] \in Layouts
    BY <1>1, UnpackedAreQuestions, PayloadsFit DEF Good
  <2>2. ReadPiece(piece) = ReadFixed(Payloads[piece.question], piece)
    BY <1>1 DEF ReadPiece
  <2>3. QED  BY <1>1, <2>1, <2>2, UnpackedArePieces, FixedRead DEF Readings
<1>2. CASE piece.question \notin Unpacked
  BY <1>2, UnpackedArePieces DEF ReadPiece, Readings
<1>3. QED
  BY <1>1, <1>2

\* Every piece was granted, and is read.
Granted(answer) ==
  \A i \in DOMAIN answer.pieces :
    LET piece == answer.pieces[i]
    IN  /\ piece.end = "Whole"
        /\ piece.question \in Pieces \cup MorePieces
        /\ piece.status # "NotImplemented"
        /\ piece.length >= Payloads[piece.question].least

LEMMA PiecesRead ==
  ASSUME NEW answer, Readable(answer)
  PROVE  /\ ReadPieces(answer) \in Readings
         /\ answer.status = "Success" => (ReadPieces(answer) = "Read" <=> Granted(answer))
         /\ answer.status # "Success" /\ (\A i \in DOMAIN answer.pieces : answer.pieces[i].end # "Cut") =>
              ReadPieces(answer) \in {"IncorrectSize", "Read"}
<1>1. PICK pieces : pieces = answer.pieces
  OBVIOUS
<1>2. PICK n \in Nat : /\ DOMAIN pieces = 1..n
                       /\ \A i \in 1..n : pieces[i].length \in Nat /\ pieces[i].end \in PieceEnds
  BY <1>1 DEF Readable
<1>3. PICK partial : partial = [i \in DOMAIN pieces |-> pieces[i].end # "Whole"]
  OBVIOUS
<1>4. PICK bad : bad = [i \in DOMAIN pieces |-> ReadPiece(pieces[i]) # "Read"]
  OBVIOUS
<1>5. partial \in [1..n -> BOOLEAN] /\ bad \in [1..n -> BOOLEAN]
  BY <1>2, <1>3, <1>4
<1>6. \A i \in 1..n : (partial[i] <=> pieces[i].end # "Whole") /\ (bad[i] <=> ReadPiece(pieces[i]) # "Read")
  BY <1>2, <1>3, <1>4
<1>7. /\ First(partial) \in 1..n <=> \E i \in 1..n : pieces[i].end # "Whole"
      /\ First(partial) \in 1..n => pieces[First(partial)].end # "Whole"
  BY <1>5, <1>6, FirstIfAny
<1>8. /\ First(bad) \in 1..n <=> \E i \in 1..n : ReadPiece(pieces[i]) # "Read"
      /\ First(bad) \in 1..n => ReadPiece(pieces[First(bad)]) # "Read"
  BY <1>5, <1>6, FirstIfAny
<1>9. ReadPieces(answer) =
        IF First(partial) \in 1..n
        THEN IF pieces[First(partial)].end = "Cut" THEN "Malformed" ELSE "IncorrectSize"
        ELSE IF answer.status = "Success" /\ First(bad) \in 1..n THEN ReadPiece(pieces[First(bad)]) ELSE "Read"
  BY <1>1, <1>2, <1>3, <1>4 DEF ReadPieces
<1>10. \A i \in 1..n : ReadPiece(pieces[i]) \in Readings
  BY <1>2, PieceRead
<1>11. Granted(answer) <=> \A i \in 1..n : pieces[i].end = "Whole" /\ ReadPiece(pieces[i]) = "Read"
  BY <1>1, <1>2, PieceRead DEF Granted
<1>12. QED
  BY <1>1, <1>2, <1>7, <1>8, <1>9, <1>10, <1>11 DEF Readings

\* What reading comes to, by the kind of list.
LEMMA ReadingIs ==
  ASSUME NEW layout \in Layouts, NEW answer, Readable(answer)
  PROVE  /\ layout.list = "Unread" => Reading(layout, answer) = "Read"
         /\ layout.list # "Unread" /\ ReadFixed(layout, answer) # "Read" =>
              Reading(layout, answer) = ReadFixed(layout, answer)
         /\ ReadFixed(layout, answer) = "Read" =>
              /\ layout.list = "Counted" => Reading(layout, answer) = ReadCounted(layout, answer)
              /\ layout.list = "Placed" => Reading(layout, answer) = ReadPlaced(layout, answer)
              /\ layout.list = "Lenient" => Reading(layout, answer) = ReadLenient(layout, answer)
              /\ layout.list = "Pieces" => Reading(layout, answer) = ReadPieces(answer)
              /\ layout.list \in {"None", "Halves"} => Reading(layout, answer) = "Read"
         /\ Reading(layout, answer) \in Readings
<1>1. layout.list \in Kinds
  BY DEF Layouts
<1>2. ReadFixed(layout, answer) \in Readings
  BY FixedRead DEF Readable, Readings
<1>3. /\ ReadCounted(layout, answer) \in Readings
      /\ ReadPlaced(layout, answer) \in Readings
      /\ ReadLenient(layout, answer) \in Readings
  BY DEF ReadCounted, ReadPlaced, ReadLenient, Readings
<1>4. ReadPieces(answer) \in Readings
  BY PiecesRead
<1>5. CASE layout.list = "Unread"
  BY <1>5 DEF Reading, Readings
<1>6. CASE layout.list # "Unread" /\ ReadFixed(layout, answer) # "Read"
  BY <1>2, <1>6 DEF Reading
<1>7. CASE layout.list = "Counted" /\ ReadFixed(layout, answer) = "Read"
  BY <1>3, <1>7 DEF Reading
<1>8. CASE layout.list = "Placed" /\ ReadFixed(layout, answer) = "Read"
  BY <1>3, <1>8 DEF Reading
<1>9. CASE layout.list = "Lenient" /\ ReadFixed(layout, answer) = "Read"
  BY <1>3, <1>9 DEF Reading
<1>10. CASE layout.list = "Pieces" /\ ReadFixed(layout, answer) = "Read"
  BY <1>4, <1>10 DEF Reading
<1>11. CASE layout.list \in {"None", "Halves"} /\ ReadFixed(layout, answer) = "Read"
  BY <1>11 DEF Reading, Readings
<1>12. QED
  BY <1>1, <1>5, <1>6, <1>7, <1>8, <1>9, <1>10, <1>11 DEF Kinds

\* The answer is whole, by the kind of list it holds.
WholeBy(layout, answer) ==
  /\ layout.list # "Unread" => answer.length >= layout.least
  /\ layout.list = "Counted" => layout.least + layout.element * answer.count <= answer.length
  /\ layout.list = "Placed" => Place(answer) >= layout.least /\ ListEnd(layout, answer) <= answer.length
  /\ layout.list = "Lenient" => Place(answer) \in layout.least..answer.length
  /\ layout.list = "Pieces" => Granted(answer)

\* Of any layout: an answer of a success is read when it holds all that it
\* announces, wherever its list is and however long, and only then.
THEOREM ReadWhenWhole ==
  ASSUME NEW layout \in Layouts, NEW answer, Readable(answer), answer.status = "Success"
  PROVE  Reading(layout, answer) = "Read" <=> WholeBy(layout, answer)
<1>1. /\ answer.length \in Nat /\ answer.count \in Nat /\ answer.offset \in Int
      /\ layout.least \in Nat /\ layout.element \in Nat /\ layout.list \in Kinds
  BY DEF Readable, Layouts
<1>2. ReadFixed(layout, answer) = IF answer.length >= layout.least THEN "Read" ELSE "IncorrectSize"
  BY <1>1, FixedRead
<1>3. PICK size \in Nat : size = layout.element * answer.count
  BY <1>1
<1>4. Place(answer) \in Nat
  BY <1>1 DEF Place
<1>5. PICK place \in Nat : place = Place(answer)
  BY <1>4
<1>6. ListEnd(layout, answer) = place + size
  BY <1>3, <1>5 DEF ListEnd
<1>7. CASE layout.list = "Unread"
  BY <1>7, ReadingIs DEF WholeBy
<1>8. CASE layout.list # "Unread" /\ ReadFixed(layout, answer) # "Read"
  BY <1>2, <1>8, ReadingIs DEF WholeBy
<1>9. CASE layout.list = "Counted" /\ ReadFixed(layout, answer) = "Read"
  <2>1. Reading(layout, answer) = ReadCounted(layout, answer)
    BY <1>9, ReadingIs
  <2>2. ReadCounted(layout, answer) = "Read" <=> layout.least + size <= answer.length
    BY <1>3 DEF ReadCounted
  <2>3. QED  BY <1>1, <1>2, <1>3, <1>9, <2>1, <2>2 DEF WholeBy
<1>10. CASE layout.list = "Placed" /\ ReadFixed(layout, answer) = "Read"
  <2>1. Reading(layout, answer) = ReadPlaced(layout, answer)
    BY <1>10, ReadingIs
  <2>2. ReadPlaced(layout, answer) = "Read" <=>
          /\ ~(answer.length - layout.least < size) /\ ~(place < layout.least)
          /\ ~(place > answer.length) /\ ~(place + size > answer.length)
    BY <1>3, <1>5, <1>6 DEF ReadPlaced
  <2>3. WholeBy(layout, answer) <=> answer.length >= layout.least /\ place >= layout.least /\ place + size <= answer.length
    BY <1>5, <1>6, <1>10 DEF WholeBy
  <2>4. answer.length >= layout.least
    BY <1>2, <1>10
  <2>5. QED  BY <1>1, <2>1, <2>2, <2>3, <2>4
<1>11. CASE layout.list = "Lenient" /\ ReadFixed(layout, answer) = "Read"
  <2>1. Reading(layout, answer) = ReadLenient(layout, answer)
    BY <1>11, ReadingIs
  <2>2. ReadLenient(layout, answer) = "Read" <=> ~(place < layout.least) /\ ~(place > answer.length)
    BY <1>5 DEF ReadLenient
  <2>3. answer.length >= layout.least
    BY <1>2, <1>11
  <2>4. QED  BY <1>1, <1>5, <1>11, <2>1, <2>2, <2>3 DEF WholeBy
<1>12. CASE layout.list = "Pieces" /\ ReadFixed(layout, answer) = "Read"
  <2>1. Reading(layout, answer) = ReadPieces(answer)
    BY <1>12, ReadingIs
  <2>2. answer.length >= layout.least
    BY <1>2, <1>12
  <2>3. QED  BY <1>12, <2>1, <2>2, PiecesRead DEF WholeBy
<1>13. CASE layout.list \in {"None", "Halves"} /\ ReadFixed(layout, answer) = "Read"
  <2>1. Reading(layout, answer) = "Read"
    BY <1>13, ReadingIs
  <2>2. answer.length >= layout.least
    BY <1>2, <1>13
  <2>3. QED  BY <1>13, <2>1, <2>2 DEF WholeBy
<1>14. QED
  BY <1>1, <1>7, <1>8, <1>9, <1>10, <1>11, <1>12, <1>13 DEF Kinds

-----------------------------------------------------------------------------
(* What an entity answers                                                    *)

LEMMA PieceIsReadable ==
  ASSUME NEW q \in Questions, NEW piece \in PiecesAbout(q)
  PROVE  piece.length \in Nat /\ piece.end \in PieceEnds
<1>1. Payloads[q] \in Layouts
  BY PayloadsFit DEF Good
<1>2. PICK length \in {0, Payloads[q].sent, Payloads[q].echoed, Payloads[q].least} :
        piece.length = length /\ piece.end = "Whole"
  BY DEF PiecesAbout
<1>3. QED
  BY <1>1, <1>2 DEF Layouts, PieceEnds

LEMMA PiecesAreReadable ==
  ASSUME NEW pieces \in PieceSequences
  PROVE  \E n \in Nat : /\ DOMAIN pieces = 1..n
                        /\ \A i \in 1..n : pieces[i].length \in Nat /\ pieces[i].end \in PieceEnds
<1>1. PICK any : any = UNION {PiecesAbout(q) : q \in Pieces \cup MorePieces}
  OBVIOUS
<1>2. PICK last : last = PiecesAbout(<<"GetConfiguration", "None", 0>>) \cup Ends
  OBVIOUS
<1>3. ASSUME NEW piece \in any
      PROVE  piece.length \in Nat /\ piece.end \in PieceEnds
  <2>1. PICK q \in Pieces \cup MorePieces : piece \in PiecesAbout(q)
    BY <1>1
  <2>2. q \in Questions
    BY UnpackedArePieces, UnpackedAreQuestions
  <2>3. QED  BY <2>1, <2>2, PieceIsReadable
<1>4. ASSUME NEW piece \in last
      PROVE  piece.length \in Nat /\ piece.end \in PieceEnds
  <2>1. CASE piece \in PiecesAbout(<<"GetConfiguration", "None", 0>>)
    <3>1. <<"GetConfiguration", "None", 0>> \in SentControlReads
      BY DEF SentControlReads, Plain, Of
    <3>2. <<"GetConfiguration", "None", 0>> \in Questions
      BY <3>1, QuestionIs
    <3>3. QED  BY <2>1, <3>2, PieceIsReadable
  <2>2. CASE piece \in Ends
    BY <2>2 DEF Ends, PieceEnds
  <2>3. QED  BY <1>2, <2>1, <2>2
<1>5. pieces \in {<<piece>> : piece \in last} \/ pieces \in any \X last
  BY <1>1, <1>2 DEF PieceSequences
<1>6. CASE pieces \in {<<piece>> : piece \in last}
  <2>1. PICK piece \in last : pieces = <<piece>>
    BY <1>6
  <2>2. DOMAIN pieces = 1..1 /\ \A i \in 1..1 : pieces[i] = piece
    BY <2>1
  <2>3. QED  BY <1>4, <2>2
<1>7. CASE pieces \in any \X last
  <2>1. PICK one \in any : \E two \in last : pieces = <<one, two>>
    BY <1>7
  <2>2. PICK two \in last : pieces = <<one, two>>
    BY <2>1
  <2>3. DOMAIN pieces = 1..2 /\ \A i \in 1..2 : pieces[i] \in {one, two}
    BY <2>2
  <2>4. QED  BY <1>3, <1>4, <2>3
<1>8. QED
  BY <1>5, <1>6, <1>7

\* An answer can be read, is about what it may be about, and holds pieces only
\* when they were asked for.
LEMMA AnswerIs ==
  ASSUME NEW q \in Questions, NEW answer \in Answers(q)
  PROVE  /\ Readable(answer)
         /\ answer.status \in Statuses
         /\ answer.question \in Subjects(q)
         /\ answer.pieces = <<>> \/ (answer.question = q /\ Payloads[q].list = "Pieces")
<1>1. \A p \in Questions : Payloads[p] \in Layouts
  BY PayloadsFit DEF Good
<1>2. \A p \in Questions : /\ Payloads[p].sent \in Nat /\ Payloads[p].echoed \in Nat
                           /\ Payloads[p].least \in Nat /\ Payloads[p].element \in Nat
  BY <1>1 DEF Layouts
<1>3. ASSUME answer.pieces = <<>>
      PROVE  \E n \in Nat : /\ DOMAIN answer.pieces = 1..n
                            /\ \A i \in 1..n : answer.pieces[i].length \in Nat /\ answer.pieces[i].end \in PieceEnds
  <2>1. DOMAIN answer.pieces = 1..0
    BY <1>3
  <2>2. QED  BY <2>1
<1>4. q \in Subjects(q)
  BY DEF Subjects
<1>5. PICK layout : layout = Payloads[q]
  OBVIOUS
<1>6. CASE answer \in OwnAnswers(q) /\ layout.list = "Pieces"
  <2>1. \/ answer \in [question : {q}, status : Statuses, length : {0}, count : {0}, offset : {0}, pieces : {<<>>}]
        \/ answer \in [question : {q}, status : Statuses, length : {layout.element}, count : {0}, offset : {0},
                       pieces : PieceSequences]
    BY <1>5, <1>6 DEF OwnAnswers
  <2>2. /\ answer.question = q /\ answer.status \in Statuses /\ answer.count = 0 /\ answer.offset = 0
        /\ answer.length \in {0, layout.element} /\ answer.pieces \in {<<>>} \cup PieceSequences
    BY <2>1
  <2>3. answer.length \in Nat
    BY <1>2, <1>5, <2>2
  <2>4. QED  BY <1>3, <1>4, <1>5, <1>6, <2>2, <2>3, PiecesAreReadable DEF Readable
<1>7. CASE answer \in OwnAnswers(q) /\ layout.list # "Pieces"
  <2>1. answer \in [question : {q}, status : Statuses, length : Lengths(layout), count : Counts(layout),
                    offset : Offsets(layout), pieces : {<<>>}]
    BY <1>5, <1>7 DEF OwnAnswers
  <2>2. /\ answer.question = q /\ answer.status \in Statuses /\ answer.count \in Counts(layout)
        /\ answer.length \in Lengths(layout) /\ answer.offset \in Offsets(layout) /\ answer.pieces = <<>>
    BY <2>1
  <2>3. Lengths(layout) \subseteq Nat
    BY DEF Lengths
  <2>4. Counts(layout) \subseteq Nat
    BY DEF Counts
  <2>5. Offsets(layout) \subseteq Int
    BY <1>2, <1>5 DEF Offsets
  <2>6. QED  BY <1>3, <1>4, <2>2, <2>3, <2>4, <2>5 DEF Readable
<1>8. CASE answer \in OtherAnswers(q)
  <2>1. PICK p \in Subjects(q) \ {q} :
          LET other == Payloads[IF p \in Questions THEN p ELSE q]
          IN  answer \in [question : {p}, status : Statuses, length : {other.least}, count : {0},
                          offset : {IF other.list \in {"Placed", "Lenient"} THEN other.least - 4 ELSE 0},
                          pieces : {<<>>}]
    BY <1>8, Zenon DEF OtherAnswers
  <2>2. PICK other : other = Payloads[IF p \in Questions THEN p ELSE q]
    OBVIOUS
  <2>3. other.least \in Nat
    BY <1>2, <2>2
  <2>4. /\ answer.question = p /\ answer.status \in Statuses /\ answer.length = other.least /\ answer.count = 0
        /\ answer.offset = (IF other.list \in {"Placed", "Lenient"} THEN other.least - 4 ELSE 0)
        /\ answer.pieces = <<>>
    BY <2>1, <2>2
  <2>5. answer.offset \in Int
    BY <2>3, <2>4
  <2>6. QED  BY <1>3, <2>1, <2>3, <2>4, <2>5 DEF Readable
<1>9. QED
  BY <1>6, <1>7, <1>8 DEF Answers

\* An answer that holds no list in pieces is whole when its fixed part and its list are.
LEMMA WholeIs ==
  ASSUME NEW q \in Questions, NEW answer \in Answers(q), answer.question \in Questions
  PROVE  Whole(answer) <=> WholeBy(Payloads[answer.question], answer)
<1>1. PICK layout : layout = Payloads[answer.question]
  OBVIOUS
<1>2. answer.pieces = <<>> \/ layout.list = "Pieces"
  BY <1>1, AnswerIs
<1>3. answer.pieces = <<>> => Granted(answer)
  BY DEF Granted
<1>4. Whole(answer) <=>
        /\ layout.list # "Unread" => answer.length >= layout.least
        /\ layout.list = "Counted" => layout.least + layout.element * answer.count <= answer.length
        /\ layout.list = "Placed" => Place(answer) >= layout.least /\ ListEnd(layout, answer) <= answer.length
        /\ layout.list = "Lenient" => Place(answer) \in layout.least..answer.length
        /\ Granted(answer)
  BY <1>1 DEF Whole, Granted
<1>5. QED
  BY <1>1, <1>2, <1>3, <1>4 DEF WholeBy

-----------------------------------------------------------------------------
(* What the handler is told of an answer                                     *)

Told(q, answer) == IF q \in Addresses \cup Connections THEN Invoked(q, answer) ELSE Processed(q, answer)

LEMMA SameHandlerAsSelf == \A q : SameHandler(q, q)
BY DEF SameHandler

\* Answers about addresses and connections are not read.
LEMMA ApartIs ==
  ASSUME NEW q \in Addresses \cup Connections
  PROVE  /\ q[1] \in UnreadCommands
         /\ q[1] \notin Refusing \cup Silent
         /\ q \notin AemQuestions \cup Vendor
<1>1. q[1] \in UnreadCommands
  BY AddressIs, ConnectionIs DEF UnreadCommands
<1>2. q[1] \notin VendorCommands
  BY <1>1 DEF UnreadCommands, VendorCommands
<1>3. q \notin Vendor
  BY <1>2, VendorIs DEF Vendor
<1>4. QED
  BY <1>1, <1>3 DEF AemQuestions, Refusing, Silent, UnreadCommands

LEMMA ApartSubjects ==
  ASSUME NEW q \in Addresses \cup Connections, NEW p \in Subjects(q)
  PROVE  p \in Questions /\ p[1] = q[1]
BY ApartIs DEF Subjects

\* The layout an answer is read with.
LEMMA LayoutOfIs ==
  ASSUME NEW q \in Questions, NEW answer \in Answers(q)
  PROVE  /\ LayoutOf(q, answer) \in Layouts
         /\ answer.question \in Questions /\ answer.status = "Success" =>
              LayoutOf(q, answer) = Payloads[answer.question]
         /\ answer.question = q /\ q[1] # "ReadDescriptor" => LayoutOf(q, answer) = Payloads[q]
         /\ q[1] = "ReadDescriptor" /\ answer.status # "Success" => LayoutOf(q, answer) = Fixed(8, 8)
<1>1. \A p \in Questions : Payloads[p] \in Layouts
  BY PayloadsFit DEF Good
<1>2. Fixed(8, 8) \in Layouts
  BY DEF Fixed, Layout, Layouts, Kinds
<1>3. QED
  BY <1>1, <1>2 DEF LayoutOf, CommonDescriptor

\* The outcomes of processing an answer.
LEMMA ProcessedIs ==
  ASSUME NEW q \in Questions, NEW answer \in Answers(q)
  PROVE  \/ /\ answer.question[1] # q[1]
            /\ Processed(q, answer) = <<Report("Error", "BaseProtocolViolation")>>
         \/ /\ answer.question[1] = q[1]
            /\ Reading(LayoutOf(q, answer), answer) = "NotImplemented"
            /\ Processed(q, answer) = <<Report("Error", "NotImplemented")>>
         \/ /\ answer.question[1] = q[1]
            /\ Reading(LayoutOf(q, answer), answer) = "IncorrectSize"
            /\ Processed(q, answer) = Invalid(q, answer)
         \/ /\ answer.question[1] = q[1]
            /\ Reading(LayoutOf(q, answer), answer) = "Malformed"
            /\ Processed(q, answer) = <<Report("Error", "ProtocolError")>>
         \/ /\ answer.question[1] = q[1]
            /\ Reading(LayoutOf(q, answer), answer) = "Read"
            /\ Processed(q, answer) = Recipient(q, answer)
<1>1. PICK reading : reading = Reading(LayoutOf(q, answer), answer)
  OBVIOUS
<1>2. reading \in Readings
  BY <1>1, LayoutOfIs, AnswerIs, ReadingIs
<1>3. CASE answer.question[1] # q[1]
  BY <1>3 DEF Processed
<1>4. CASE answer.question[1] = q[1] /\ reading = "NotImplemented"
  BY <1>1, <1>4 DEF Processed
<1>5. CASE answer.question[1] = q[1] /\ reading = "IncorrectSize"
  BY <1>1, <1>5 DEF Processed
<1>6. CASE answer.question[1] = q[1] /\ reading = "Malformed"
  BY <1>1, <1>6 DEF Processed
<1>7. CASE answer.question[1] = q[1] /\ reading = "Read"
  BY <1>1, <1>7 DEF Processed
<1>8. QED
  BY <1>1, <1>2, <1>3, <1>4, <1>5, <1>6, <1>7 DEF Readings

\* At most one report; none only of an answer about an object that is passed over.
LEMMA ToldOnce ==
  ASSUME NEW q \in Questions, NEW answer \in Answers(q)
  PROVE  \/ \E status : \E by \in {"Own", "Error"} : Told(q, answer) = <<Report(by, status)>>
         \/ /\ Told(q, answer) = <<>>
            /\ q[1] \in Silent
            /\ answer.question = <<q[1], "Unhandled", 0>>
<1>1. \E status : \E by \in {"Own", "Error"} : Invoked(q, answer) = <<Report(by, status)>>
  BY DEF Invoked
<1>2. \E status : \E by \in {"Own", "Error"} : Invalid(q, answer) = <<Report(by, status)>>
  BY DEF Invalid
<1>3. CASE q \in Addresses \cup Connections
  BY <1>1, <1>3 DEF Told
<1>4. CASE q \notin Addresses \cup Connections /\ Processed(q, answer) # Recipient(q, answer)
  BY <1>2, <1>4, ProcessedIs DEF Told
<1>5. CASE /\ q \notin Addresses \cup Connections
           /\ answer.question[1] = q[1]
           /\ Processed(q, answer) = Recipient(q, answer)
  <2>1. Told(q, answer) = Recipient(q, answer)
    BY <1>5 DEF Told
  <2>2. CASE answer.question \in Handled \/ q[1] \notin Silent
    BY <1>1, <1>2, <2>1, <2>2 DEF Recipient
  <2>3. CASE answer.question \notin Handled /\ q[1] \in Silent
    <3>1. Told(q, answer) = <<>>
      BY <2>1, <2>3 DEF Recipient
    <3>2. answer.question \notin Addresses \cup Connections
      BY <1>5, <2>3, ApartIs
    <3>3. answer.question \notin Questions
      BY <2>3, <3>2, EveryQuestionHandled
    <3>4. answer.question \in {<<q[1], "Unhandled", 0>>, <<"Other", "None", 0>>}
      BY <3>3, AnswerIs DEF Subjects
    <3>5. q[1] # "Other"
      BY <2>3 DEF Silent
    <3>6. answer.question = <<q[1], "Unhandled", 0>>
      BY <1>5, <3>4, <3>5
    <3>7. QED  BY <2>3, <3>1, <3>6
  <2>4. QED  BY <2>2, <2>3
<1>6. CASE /\ q \notin Addresses \cup Connections
           /\ answer.question[1] # q[1]
  BY <1>6, ProcessedIs DEF Told
<1>7. QED
  BY <1>3, <1>4, <1>5, <1>6

\* A success is told to the handler of the question, of an answer that was read
\* as a whole.
LEMMA ToldSuccess ==
  ASSUME NEW q \in Questions, NEW answer \in Answers(q),
         NEW by, Told(q, answer) = <<Report(by, "Success")>>
  PROVE  answer.status = "Success" /\ SameHandler(q, answer.question) /\ Whole(answer)
<1>1. ASSUME NEW x, NEW y, <<x>> = <<y>>
      PROVE  x = y
  <2>1. <<x>>[1] = <<y>>[1]
    BY <1>1, Zenon
  <2>2. QED  BY <2>1
<1>2. ASSUME NEW x, NEW s, Report(x, s) = Report(by, "Success")
      PROVE  s = "Success"
  <2>1. Report(x, s).status = Report(by, "Success").status
    BY <1>2
  <2>2. QED  BY <2>1 DEF Report
<1>3. ASSUME Invoked(q, answer) = <<Report(by, "Success")>>
      PROVE  answer.status = "Success" /\ SameHandler(q, answer.question)
  <2>1. CASE SameHandler(q, answer.question)
    <3>1. <<Report("Own", answer.status)>> = <<Report(by, "Success")>>
      BY <1>3, <2>1 DEF Invoked
    <3>2. QED  BY <1>1, <1>2, <2>1, <3>1
  <2>2. CASE ~SameHandler(q, answer.question)
    <3>1. <<Report("Error", "BaseProtocolViolation")>> = <<Report(by, "Success")>>
      BY <1>3, <2>2 DEF Invoked
    <3>2. QED  BY <1>1, <1>2, <3>1
  <2>3. QED  BY <2>1, <2>2
<1>4. Invalid(q, answer) # <<Report(by, "Success")>>
  <2>1. PICK s : Invalid(q, answer) = <<Report("Error", s)>> /\ s # "Success"
    BY DEF Invalid
  <2>2. QED  BY <1>1, <1>2, <2>1
<1>5. CASE q \in Addresses \cup Connections
  <2>1. Invoked(q, answer) = <<Report(by, "Success")>>
    BY <1>5 DEF Told
  <2>2. answer.question \in Questions /\ answer.question[1] \in UnreadCommands
    BY <1>5, AnswerIs, ApartSubjects, ApartIs
  <2>3. Payloads[answer.question].list = "Unread"
    BY <2>2, PayloadsFit DEF Good
  <2>4. WholeBy(Payloads[answer.question], answer)
    BY <2>3 DEF WholeBy
  <2>5. QED  BY <1>3, <2>1, <2>2, <2>4, WholeIs
<1>6. CASE q \notin Addresses \cup Connections
  <2>1. Processed(q, answer) = <<Report(by, "Success")>>
    BY <1>6 DEF Told
  <2>2. ASSUME NEW s, s # "Success"
        PROVE  Processed(q, answer) # <<Report("Error", s)>>
    BY <1>1, <1>2, <2>1, <2>2
  <2>3. /\ Reading(LayoutOf(q, answer), answer) = "Read"
        /\ Recipient(q, answer) = <<Report(by, "Success")>>
    BY <1>4, <2>1, <2>2, ProcessedIs
  <2>4. answer.question \in Handled /\ Invoked(q, answer) = <<Report(by, "Success")>>
    BY <1>4, <2>3 DEF Recipient
  <2>5. answer.question \in Questions
    BY <2>4, HandledAreQuestions
  <2>6. answer.status = "Success" /\ SameHandler(q, answer.question)
    BY <1>3, <2>4
  <2>7. Reading(Payloads[answer.question], answer) = "Read"
    BY <2>3, <2>5, <2>6, LayoutOfIs
  <2>8. Payloads[answer.question] \in Layouts
    BY <2>5, PayloadsFit DEF Good
  <2>9. QED  BY <2>5, <2>6, <2>7, <2>8, AnswerIs, ReadWhenWhole, WholeIs
<1>7. QED
  BY <1>5, <1>6

\* A whole answer to the question itself is told as the success it is.
LEMMA WholeIsTold ==
  ASSUME NEW q \in Questions, NEW answer \in Answers(q),
         answer.question = q, answer.status = "Success", Whole(answer)
  PROVE  Told(q, answer) = <<Report("Own", "Success")>>
<1>1. Invoked(q, answer) = <<Report("Own", "Success")>>
  BY SameHandlerAsSelf DEF Invoked
<1>2. CASE q \in Addresses \cup Connections
  BY <1>1, <1>2 DEF Told
<1>3. CASE q \notin Addresses \cup Connections
  <2>1. Payloads[q] \in Layouts
    BY PayloadsFit DEF Good
  <2>2. Reading(Payloads[q], answer) = "Read"
    BY <2>1, AnswerIs, WholeIs, ReadWhenWhole
  <2>3. Reading(LayoutOf(q, answer), answer) = "Read"
    BY <2>2, LayoutOfIs
  <2>4. Processed(q, answer) = Recipient(q, answer)
    BY <2>3, ProcessedIs
  <2>5. q \in Handled
    BY <1>3, EveryQuestionHandled
  <2>6. QED  BY <1>1, <1>3, <2>4, <2>5 DEF Told, Recipient
<1>4. QED
  BY <1>2, <1>3

\* A refusal of an AEM command is never malformed: what could be is not read of it.
LEMMA RefusalIsRead ==
  ASSUME NEW q \in AemQuestions, NEW answer \in Answers(q),
         answer.question = q, answer.status # "Success",
         \A i \in DOMAIN answer.pieces : answer.pieces[i].end # "Cut"
  PROVE  /\ Reading(LayoutOf(q, answer), answer) \in {"NotImplemented", "IncorrectSize", "Read"}
         /\ Reading(LayoutOf(q, answer), answer) = "NotImplemented" => answer.status = "NotImplemented"
<1>1. q \in Questions
  BY DEF AemQuestions
<1>2. PICK layout : layout = LayoutOf(q, answer)
  OBVIOUS
<1>3. layout \in Layouts /\ Readable(answer)
  BY <1>1, <1>2, LayoutOfIs, AnswerIs
<1>4. ReadFixed(layout, answer) \in {"NotImplemented", "IncorrectSize", "Read"}
  BY <1>3, FixedRead DEF Readable
<1>5. ReadFixed(layout, answer) = "NotImplemented" => answer.status = "NotImplemented"
  BY <1>3, FixedRead DEF Readable
<1>6. layout.list \in Kinds \ {"Placed", "Lenient"}
  <2>1. CASE q[1] = "ReadDescriptor"
    <3>1. layout = Fixed(8, 8)
      BY <1>1, <1>2, <2>1, LayoutOfIs
    <3>2. QED  BY <3>1 DEF Fixed, Layout, Kinds
  <2>2. CASE q[1] # "ReadDescriptor"
    <3>1. layout = Payloads[q]
      BY <1>1, <1>2, <2>2, LayoutOfIs
    <3>2. Good(q[1], layout)
      BY <1>1, <3>1, PayloadsFit
    <3>3. QED  BY <1>3, <2>2, <3>2 DEF Good, Layouts
  <2>3. QED  BY <2>1, <2>2
<1>7. CASE layout.list # "Unread" /\ ReadFixed(layout, answer) # "Read"
  BY <1>2, <1>3, <1>4, <1>5, <1>7, ReadingIs
<1>8. CASE layout.list \in {"Unread", "None", "Halves"} /\ ReadFixed(layout, answer) = "Read"
  BY <1>2, <1>3, <1>8, ReadingIs
<1>9. CASE layout.list = "Unread"
  BY <1>2, <1>3, <1>9, ReadingIs
<1>10. CASE layout.list = "Counted" /\ ReadFixed(layout, answer) = "Read"
  <2>1. Reading(layout, answer) = ReadCounted(layout, answer)
    BY <1>3, <1>10, ReadingIs
  <2>2. QED  BY <1>2, <2>1 DEF ReadCounted
<1>11. CASE layout.list = "Pieces" /\ ReadFixed(layout, answer) = "Read"
  <2>1. Reading(layout, answer) = ReadPieces(answer)
    BY <1>3, <1>11, ReadingIs
  <2>2. QED  BY <1>2, <1>3, <2>1, PiecesRead
<1>12. QED
  BY <1>6, <1>7, <1>8, <1>9, <1>10, <1>11 DEF Kinds

\* The reason of a refusal is told, whatever length the standard allows it to have.
LEMMA RefusalIsTold ==
  ASSUME NEW q \in Questions, NEW answer \in Answers(q),
         answer.question = q, answer.status # "Success", AllowedRefusal(q, answer)
  PROVE  \E by \in {"Own", "Error"} : Told(q, answer) = <<Report(by, answer.status)>>
<1>1. Invoked(q, answer) = <<Report("Own", answer.status)>>
  BY SameHandlerAsSelf DEF Invoked
<1>2. CASE q \in Addresses \cup Connections
  BY <1>1, <1>2 DEF Told
<1>3. CASE q \in Vendor
  <2>1. q[1] \in VendorCommands
    BY <1>3, VendorIs DEF Vendor
  <2>2. PICK layout : layout = Payloads[q]
    OBVIOUS
  <2>3. Good(q[1], layout) /\ layout \in Layouts
    BY <2>2, PayloadsFit DEF Good
  <2>4. layout.list \in {"None", "Halves"} /\ (q[1] # "SetSystemUniqueID" => layout.sent = layout.echoed)
    BY <2>1, <2>3 DEF Good
  <2>5. LayoutOf(q, answer) = layout
    BY <2>1, <2>2, LayoutOfIs DEF VendorCommands
  <2>6. q \notin Addresses \cup Connections
    BY <1>3, ApartIs
  <2>7. q \in Handled
    BY <2>6, EveryQuestionHandled
  <2>8. q[1] # "SetSystemUniqueID"
    BY <1>3 DEF AllowedRefusal
  <2>9. CASE answer.status = "NotImplemented"
    <3>1. answer.length = layout.echoed
      BY <1>3, <2>2, <2>4, <2>8, <2>9 DEF AllowedRefusal
    <3>2. ReadFixed(layout, answer) = "NotImplemented"
      BY <2>3, <2>9, <3>1, AnswerIs, FixedRead DEF Readable
    <3>3. Reading(LayoutOf(q, answer), answer) = "NotImplemented"
      BY <2>3, <2>4, <2>5, <3>2, AnswerIs, ReadingIs
    <3>4. Processed(q, answer) = <<Report("Error", "NotImplemented")>>
      BY <3>3, ProcessedIs
    <3>5. QED  BY <2>6, <2>9, <3>4 DEF Told
  <2>10. CASE answer.status # "NotImplemented"
    <3>1. answer.length >= layout.least
      BY <1>3, <2>2, <2>10 DEF AllowedRefusal
    <3>2. ReadFixed(layout, answer) = "Read"
      BY <2>3, <2>10, <3>1, AnswerIs, FixedRead DEF Readable
    <3>3. Reading(LayoutOf(q, answer), answer) = "Read"
      BY <2>3, <2>4, <2>5, <3>2, AnswerIs, ReadingIs
    <3>4. Processed(q, answer) = Recipient(q, answer)
      BY <3>3, ProcessedIs
    <3>5. QED  BY <1>1, <2>6, <2>7, <3>4 DEF Told, Recipient
  <2>11. QED  BY <2>9, <2>10
<1>4. CASE q \in AemQuestions
  <2>1. q \notin Addresses \cup Connections /\ q \notin Vendor
    BY <1>4 DEF AemQuestions
  <2>2. q \in Handled
    BY <2>1, EveryQuestionHandled
  <2>3. \A i \in DOMAIN answer.pieces : answer.pieces[i].end # "Cut"
    BY <2>1 DEF AllowedRefusal
  <2>4. PICK reading : reading = Reading(LayoutOf(q, answer), answer)
    OBVIOUS
  <2>5. /\ reading \in {"NotImplemented", "IncorrectSize", "Read"}
        /\ reading = "NotImplemented" => answer.status = "NotImplemented"
    BY <1>4, <2>3, <2>4, RefusalIsRead
  <2>6. CASE reading = "NotImplemented"
    <3>1. Processed(q, answer) = <<Report("Error", answer.status)>>
      BY <2>4, <2>5, <2>6, ProcessedIs
    <3>2. QED  BY <2>1, <3>1 DEF Told
  <2>7. CASE reading = "IncorrectSize"
    <3>1. Processed(q, answer) = Invalid(q, answer)
      BY <2>4, <2>7, ProcessedIs
    <3>2. QED  BY <1>4, <2>1, <3>1 DEF Told, Invalid
  <2>8. CASE reading = "Read"
    <3>1. Processed(q, answer) = Recipient(q, answer)
      BY <2>4, <2>8, ProcessedIs
    <3>2. QED  BY <1>1, <2>1, <2>2, <3>1 DEF Told, Recipient
  <2>9. QED  BY <2>5, <2>6, <2>7, <2>8
<1>5. QED
  BY <1>2, <1>3, <1>4 DEF AemQuestions

-----------------------------------------------------------------------------
(* The call                                                                  *)

Stages == {"Idle", "Job", "Forwarded", "Sent", "Failed", "Answered", "Over"}
EveryAnswer == {NoAnswer} \cup (UNION {Answers(q) : q \in Questions})
Calls == [stage : Stages, question : Questions \cup {<<>>}, answer : EveryAnswer]

\* A call that ended is one whose answer was told, or one that had no answer and
\* whose handler was told by the virtual interface, or of an error.
Ended ==
  \/ call.answer \in Answers(call.question) /\ reports = Told(call.question, call.answer)
  \/ /\ call.answer = NoAnswer
     /\ \E status : reports = <<Report("Virtual", status)>> \/ (status # "Success" /\ reports = <<Report("Error", status)>>)

Inv ==
  /\ call \in Calls
  /\ call.stage # "Idle" => call.question \in Questions
  /\ call.stage \notin {"Answered", "Over"} => call.answer = NoAnswer
  /\ call.stage = "Answered" => call.answer \in Answers(call.question)
  /\ call.stage # "Over" => reports = <<>>
  /\ call.stage = "Over" => Ended

LEMMA InvInit == Init => Inv
<1>1. SUFFICES ASSUME Init
               PROVE  Inv
  OBVIOUS
<1>2. call.stage = "Idle" /\ call.answer = NoAnswer /\ reports = <<>>
  BY <1>1 DEF Init
<1>3. NoAnswer \in EveryAnswer
  BY DEF EveryAnswer
<1>4. call \in Calls
  BY <1>1, <1>3 DEF Init, Calls, Stages
<1>5. QED
  BY <1>2, <1>4 DEF Inv

\* A call moves on without an answer, and nothing is told yet.
LEMMA InvMoves ==
  ASSUME Inv, NEW stage \in {"Job", "Forwarded", "Sent", "Failed"}, Move(stage), reports' = reports,
         call.stage \in {"Forwarded"}
  PROVE  Inv'
<1>1. /\ call'.stage = stage /\ call'.question = call.question /\ call'.answer = call.answer
      /\ call' \in Calls
  BY DEF Inv, Calls, Stages, Move
<1>2. call.question \in Questions /\ call.answer = NoAnswer /\ reports = <<>>
  BY DEF Inv
<1>3. stage \notin {"Idle", "Answered", "Over"}
  OBVIOUS
<1>4. QED
  BY <1>1, <1>2, <1>3 DEF Inv

\* A call ends with a report, and no answer.
LEMMA InvEnds ==
  ASSUME Inv, NEW told, End(told), call.stage \in {"Job", "Forwarded", "Sent", "Failed"},
         \E status : told = <<Report("Virtual", status)>> \/ (status # "Success" /\ told = <<Report("Error", status)>>)
  PROVE  Inv'
<1>1. /\ call'.stage = "Over" /\ call'.question = call.question /\ call'.answer = call.answer
      /\ call' \in Calls
  BY DEF Inv, Calls, Stages, Move, End
<1>2. call.question \in Questions /\ call.answer = NoAnswer /\ reports = <<>>
  BY DEF Inv
<1>3. PICK by : \E status : told = <<Report(by, status)>>
  OBVIOUS
<1>4. reports' = told
  BY <1>2, <1>3 DEF End
<1>5. Ended'
  BY <1>1, <1>2, <1>4 DEF Ended
<1>6. QED
  BY <1>1, <1>2, <1>5 DEF Inv

LEMMA InvNext == Inv /\ [Next]_vars => Inv'
<1>1. SUFFICES ASSUME Inv, [Next]_vars
               PROVE  Inv'
  OBVIOUS
<1>2. CASE UNCHANGED <<call, reports>>
  BY <1>1, <1>2 DEF Inv, Ended
<1>3. CASE RegisterVirtual \/ DeregisterVirtual \/ EntityOnline \/ EntityOffline
  BY <1>2, <1>3 DEF RegisterVirtual, DeregisterVirtual, EntityOnline, EntityOffline, Changed
<1>4. ASSUME NEW q \in Questions, Ask(q)
      PROVE  Inv'
  <2>1. PICK stage \in {"Job", "Forwarded"} : call' = [call EXCEPT !.stage = stage, !.question = q]
    BY <1>4 DEF Ask
  <2>2. /\ call'.stage = stage /\ call'.question = q /\ call'.answer = call.answer
        /\ call' \in Calls
    BY <1>1, <2>1 DEF Inv, Calls, Stages
  <2>3. call.answer = NoAnswer /\ reports' = <<>>
    BY <1>1, <1>4 DEF Ask, Inv
  <2>4. QED  BY <2>2, <2>3 DEF Inv
<1>5. CASE RunJob
  <2>1. PICK status \in Statuses : End(<<Report("Virtual", status)>>)
    BY <1>5 DEF RunJob
  <2>2. QED  BY <1>1, <1>5, <2>1, InvEnds DEF RunJob
<1>6. CASE Unserialisable
  BY <1>1, <1>6, InvEnds DEF Unserialisable
<1>7. CASE UnknownEntity
  BY <1>1, <1>7, InvEnds DEF UnknownEntity
<1>8. CASE Transmit
  BY <1>1, <1>8, InvMoves DEF Transmit
<1>9. CASE SendFails
  BY <1>1, <1>9, InvEnds DEF SendFails
<1>10. CASE TimesOut
  BY <1>1, <1>10, InvEnds DEF TimesOut
<1>11. CASE Answer
  <2>1. call.stage = "Sent" /\ call.question \in Questions /\ reports' = <<>>
    BY <1>1, <1>11 DEF Answer, Inv
  <2>2. PICK answer \in Answers(call.question) : call' = [call EXCEPT !.stage = "Answered", !.answer = answer]
    BY <1>11 DEF Answer
  <2>3. answer \in EveryAnswer
    BY <2>1, <2>2 DEF EveryAnswer
  <2>4. /\ call'.stage = "Answered" /\ call'.question = call.question /\ call'.answer = answer
        /\ call' \in Calls
    BY <1>1, <2>2, <2>3 DEF Inv, Calls, Stages
  <2>5. QED  BY <2>1, <2>2, <2>4 DEF Inv
<1>12. CASE Receive
  <2>1. /\ call.stage = "Answered" /\ call.question \in Questions /\ call.answer \in Answers(call.question)
        /\ reports = <<>>
    BY <1>1, <1>12 DEF Receive, Inv
  <2>2. PICK told : told = Told(call.question, call.answer)
    OBVIOUS
  <2>3. End(told)
    BY <1>12, <2>2 DEF Receive, Told
  <2>4. /\ call'.stage = "Over" /\ call'.question = call.question /\ call'.answer = call.answer
        /\ call' \in Calls
    BY <1>1, <2>3 DEF Inv, Calls, Stages, Move, End
  <2>5. told = <<>> \/ \E report : told = <<report>>
    BY <2>1, <2>2, ToldOnce
  <2>6. reports' = told
    BY <2>1, <2>3, <2>5 DEF End
  <2>7. Ended'
    BY <2>1, <2>2, <2>4, <2>6 DEF Ended
  <2>8. QED  BY <2>1, <2>4, <2>7 DEF Inv
<1>13. QED
  BY <1>1, <1>2, <1>3, <1>4, <1>5, <1>6, <1>7, <1>8, <1>9, <1>10, <1>11, <1>12 DEF Next, vars

LEMMA Invariant == Spec => []Inv
<1>1. QED
  BY InvInit, InvNext, PTL DEF Spec

-----------------------------------------------------------------------------
(* The theorems                                                              *)

\* The one report of a call, when there is one.
LEMMA OneReport ==
  ASSUME NEW report, reports = <<report>>
  PROVE  Len(reports) = 1 /\ \A i \in DOMAIN reports : reports[i] = report
OBVIOUS

LEMMA InvEarned == Inv => SuccessIsEarned
<1>1. SUFFICES ASSUME Inv, NEW i \in DOMAIN reports,
                      reports[i].by # "Virtual", reports[i].status = "Success"
               PROVE  /\ call.answer.status = "Success"
                      /\ SameHandler(call.question, call.answer.question)
                      /\ Whole(call.answer)
  BY DEF SuccessIsEarned
<1>2. reports # <<>>
  BY <1>1
<1>3. Ended /\ call.question \in Questions
  BY <1>1, <1>2 DEF Inv, Calls, Stages
<1>4. CASE call.answer \in Answers(call.question) /\ reports = Told(call.question, call.answer)
  <2>1. PICK by, status : reports = <<Report(by, status)>>
    BY <1>2, <1>3, <1>4, ToldOnce
  <2>2. reports[i] = Report(by, status)
    BY <1>1, <2>1, OneReport
  <2>3. status = "Success"
    BY <1>1, <2>2 DEF Report
  <2>4. QED  BY <1>3, <1>4, <2>1, <2>3, ToldSuccess
<1>5. CASE \E status : \/ reports = <<Report("Virtual", status)>>
                       \/ status # "Success" /\ reports = <<Report("Error", status)>>
  <2>1. PICK status : \/ reports = <<Report("Virtual", status)>>
                      \/ status # "Success" /\ reports = <<Report("Error", status)>>
    BY <1>5
  <2>2. CASE reports = <<Report("Virtual", status)>>
    BY <1>1, <2>2, OneReport DEF Report
  <2>3. CASE status # "Success" /\ reports = <<Report("Error", status)>>
    BY <1>1, <2>3, OneReport DEF Report
  <2>4. QED  BY <2>1, <2>2, <2>3
<1>6. QED
  BY <1>3, <1>4, <1>5 DEF Ended

\* An answer to the question itself is an answer.
LEMMA OwnAnswerIs ==
  ASSUME Inv, call.stage = "Over", call.answer.question = call.question
  PROVE  /\ call.question \in Questions
         /\ call.answer \in Answers(call.question)
         /\ reports = Told(call.question, call.answer)
<1>1. call.question \in Questions /\ Ended
  BY DEF Inv
<1>2. call.question = <<call.question[1], call.question[2], call.question[3]>>
  BY <1>1, QuestionIsTriple
<1>3. call.question # <<>>
  BY <1>2
<1>4. call.answer # NoAnswer
  BY <1>3 DEF NoAnswer
<1>5. QED
  BY <1>1, <1>4 DEF Ended

LEMMA InvNoFalseRefusal == Inv => NoFalseRefusal
<1>1. ASSUME Inv
      PROVE  NeverRefused
  BY <1>1, OwnAnswerIs, WholeIsTold DEF NeverRefused
<1>2. ASSUME Inv
      PROVE  RefusalTold
  BY <1>2, OwnAnswerIs, RefusalIsTold DEF RefusalTold
<1>3. QED
  BY <1>1, <1>2 DEF NoFalseRefusal

LEMMA InvOnce == Inv => AnsweredOnce
<1>1. SUFFICES ASSUME Inv
               PROVE  AnsweredOnce
  OBVIOUS
<1>2. CASE call.stage # "Over"
  BY <1>1, <1>2 DEF Inv, AnsweredOnce
<1>3. CASE call.stage = "Over"
  <2>1. Ended /\ call.question \in Questions
    BY <1>1, <1>3 DEF Inv
  <2>2. \/ \E report : reports = <<report>>
        \/ reports = <<>> /\ call.question[1] \in Silent /\ call.answer.question = <<call.question[1], "Unhandled", 0>>
    BY <2>1, ToldOnce DEF Ended
  <2>3. CASE \E report : reports = <<report>>
    <3>1. Len(reports) = 1 /\ reports # <<>>
      BY <2>3
    <3>2. QED  BY <3>1 DEF AnsweredOnce
  <2>4. CASE reports = <<>> /\ call.question[1] \in Silent /\ call.answer.question = <<call.question[1], "Unhandled", 0>>
    BY <2>4 DEF AnsweredOnce
  <2>5. QED  BY <2>2, <2>3, <2>4
<1>4. QED
  BY <1>2, <1>3

\* A handler that is told success over the network asked what was answered, and
\* the answer held everything it announces.
THEOREM SuccessAlwaysEarned == Spec => []SuccessIsEarned
BY Invariant, InvEarned, PTL

\* No whole answer is refused, and the reason of a refusal reaches the caller.
THEOREM NeverFalselyRefused == Spec => []NoFalseRefusal
BY Invariant, InvNoFalseRefusal, PTL

\* The handler of a call is called once at most, and is left out only of an
\* answer about an object that the dispatch passes over.
THEOREM AlwaysAnsweredOnce == Spec => []AnsweredOnce
BY Invariant, InvOnce, PTL
=============================================================================
