------------------------------- MODULE ModelItems -------------------------------
(***************************************************************************)
(* What there is to change in the model of an entity, and by which way the *)
(* controller learns of it (src/controller, src/entity): for which items   *)
(* the result of a user's command updates the model, which unsolicited     *)
(* notifications of a device are handed to the controller, and of which of *)
(* these it makes something.  Handlers of the items of one set have the    *)
(* same body.                                                              *)
(***************************************************************************)

-----------------------------------------------------------------------------
(* Results of a user's command that update the model                         *)

SetStreams == {"StreamInputFormat", "StreamOutputFormat", "StreamInputInfo", "StreamOutputInfo"}
SetEntityNames == {"EntityName", "EntityGroupName", "ConfigurationName"}
SetStreamNames == {"AudioUnitName", "StreamInputName", "StreamOutputName"}
SetJackNames == {"JackInputName", "JackOutputName", "AvbInterfaceName"}
SetSourceNames == {"ClockSourceName", "MemoryObjectName", "AudioClusterName"}
SetControlNames == {"ControlName", "ClockDomainName", "TimingName"}
SetPtpNames == {"PtpInstanceName", "PtpPortName"}
SetRates == {"AssociationID", "AudioUnitSamplingRate", "ClockSource"}
SetControls == {"ControlValues"}
SetRunning == {"StreamInputRunning", "StreamOutputRunning"}
AddMappings == {"StreamPortInputMappings", "StreamPortOutputMappings"}
RemoveMappings == AddMappings
SetLength == {"MemoryObjectLength"}
SetTransit == {"MaxTransitTime"}
SetSystem == {"SystemUniqueID", "MediaClockReferenceInfo"}

Settable ==
  UNION {SetStreams, SetEntityNames, SetStreamNames, SetJackNames, SetSourceNames, SetControlNames,
         SetPtpNames, SetRates, SetControls, SetRunning, AddMappings, RemoveMappings, SetLength,
         SetTransit, SetSystem}

-----------------------------------------------------------------------------
(* Unsolicited notifications that the capability delegate hands on; each     *)
(* must have succeeded.                                                      *)

\* Those of commands of others ...
ToldStreams == {"Configuration"} \cup SetStreams
ToldEntityNames == UNION {SetEntityNames, SetStreamNames, {"JackInputName", "JackOutputName"}}
ToldObjectNames == UNION {{"AvbInterfaceName"}, SetSourceNames, SetControlNames, SetPtpNames}
ToldRates == UNION {SetRates, SetControls, {"VideoClusterSamplingRate", "SensorClusterSamplingRate"}}
ToldRunning == SetRunning
ToldMappings == AddMappings
ToldLength_Never == {}
ToldLength == SetLength
ToldTransit == SetTransit
ToldVendor == SetSystem \cup {"StreamInputInfoEx"}
\* ... and those of what the device gets without being asked.
ToldStates == {"AvbInfo", "AsPath"}
ToldCounters ==
  {"EntityCounters", "AvbInterfaceCounters", "ClockDomainCounters", "StreamInputCounters", "StreamOutputCounters"}

HandedOn ==
  UNION {ToldStreams, ToldEntityNames, ToldObjectNames, ToldRates, ToldRunning, ToldMappings,
         ToldLength, ToldTransit, ToldVendor, ToldStates, ToldCounters}

\* Notifications of which the controller makes nothing, or a new enumeration ...
Ignored == {"VideoClusterSamplingRate", "SensorClusterSamplingRate"}
Enumerated == {"Configuration"}
\* ... and those with which it updates its model.
TakenStreams == SetStreams \cup AddMappings
TakenEntityNames == UNION {SetEntityNames, SetStreamNames, SetJackNames, {"ClockSourceName"}}
TakenObjectNames ==
  {"MemoryObjectName", "AudioClusterName", "ControlName", "ClockDomainName", "TimingName",
   "PtpInstanceName", "PtpPortName"}
TakenRates == SetRates \cup SetControls
TakenStates == SetRunning \cup ToldStates
TakenCounters == ToldCounters
TakenObjects == UNION {AddMappings, SetLength, SetTransit, SetSystem, {"StreamInputInfoEx"}}

Told ==
  HandedOn \cap UNION {TakenStreams, TakenEntityNames, TakenObjectNames, TakenRates, TakenStates,
                       TakenCounters, TakenObjects}

-----------------------------------------------------------------------------
(* Updates that observers of an advertised entity are told of                *)

\* Those of another value than the model has ...
ShownFormats == {"StreamInputFormat", "StreamOutputFormat"}
ShownInputInfo == {"StreamInputInfo"}
ShownOutputInfo == {"StreamOutputInfo"}
ShownEntityNames == {"EntityName", "EntityGroupName"}
ShownAssociation == {"AssociationID"}
ShownRunning == SetRunning
ShownStates == ToldStates
ShownMappings == AddMappings
ShownTransit == SetTransit
ShownClocks == {"MediaClockReferenceInfo", "ClockSource"}
ShownInputInfoEx == {"StreamInputInfoEx"}
\* ... and all of them, also when the model has no such descriptor.
ShownStreamNames == {"ConfigurationName"} \cup SetStreamNames
ShownObjectNames == UNION {SetJackNames, SetSourceNames, SetControlNames, SetPtpNames}
ShownRates == {"AudioUnitSamplingRate"}
ShownControls == SetControls
ShownCounters == ToldCounters
ShownLength == SetLength
ShownSystem == {"SystemUniqueID"}

ShownItems ==
  UNION {ShownFormats, ShownInputInfo, ShownOutputInfo, ShownEntityNames, ShownAssociation, ShownRunning,
         ShownStates, ShownMappings, ShownTransit, ShownClocks, ShownInputInfoEx, ShownStreamNames,
         ShownObjectNames, ShownRates, ShownControls, ShownCounters, ShownLength, ShownSystem}

-----------------------------------------------------------------------------
(* What an item is to the controller                                         *)

Behaviour(item) ==
  [settable |-> item \in Settable, told |-> item \in Told, shown |-> item \in ShownItems]
Behaviours == {Behaviour(item) : item \in Settable \cup HandedOn}
=============================================================================
