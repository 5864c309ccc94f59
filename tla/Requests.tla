-------------------------------- MODULE Requests --------------------------------
(***************************************************************************)
(* The requests of a controller (src/entity, src/controller): which        *)
(* methods of controller::Interface the capability delegate turns into a   *)
(* command, and which of them each of the layers above hands on.  A method *)
(* is named by what it asks: the command, the type of the object and, for  *)
(* the entity's two names and for giving access back, a number; a command  *)
(* that is sent for one type of object only has the type "None".           *)
(***************************************************************************)
EXTENDS Naturals

Of(commands, types) == commands \X types \X {0}
Plain(commands) == Of(commands, {"None"})
Read(types) == Of({"ReadDescriptor"}, types)
Names(types) == Of({"SetName", "GetName"}, types)
Rates(types) == Of({"SetSamplingRate", "GetSamplingRate"}, types)

Jacks == {"JackInput", "JackOutput"}
Streams == {"StreamInput", "StreamOutput"}
StreamPorts == {"StreamPortInput", "StreamPortOutput"}
ExternalPorts == {"ExternalPortInput", "ExternalPortOutput"}
InternalPorts == {"InternalPortInput", "InternalPortOutput"}
Ptp == {"PtpInstance", "PtpPort"}

Access == {"AcquireEntity", "LockEntity"} \X {"None"} \X {0, 1}
Availability == {"EntityAvailable", "ControllerAvailable"}
Registration == {"RegisterUnsolicitedNotification", "DeregisterUnsolicitedNotification"}
EntityNames == Names({"Entity"}) \cup ({"SetName", "GetName"} \X {"Entity"} \X {1})
Association == Plain({"SetAssociationID", "GetAssociationID"})
Formats == Of({"SetStreamFormat", "GetStreamFormat"}, Streams)
Infos == Of({"SetStreamInfo", "GetStreamInfo"}, Streams)
Running == Of({"StartStreaming", "StopStreaming"}, Streams)
Operations == Plain({"StartOperation", "AbortOperation"})
Restarts == Of({"Reboot"}, {"Entity", "MemoryObject"})
Clock == Plain({"SetMediaClockReferenceInfo", "GetMediaClockReferenceInfo"})
Binding == Plain({"BindStream", "UnbindStream", "GetStreamInputInfoEx"})

-----------------------------------------------------------------------------
(* Methods that the capability delegate turns into a command                 *)

SentAccess == Access \cup Plain(Availability \cup Registration)
SentReads ==
  Read({"Entity", "Configuration", "AudioUnit", "AvbInterface", "ClockSource", "MemoryObject"}
       \cup Streams \cup Jacks)
SentPortReads ==
  Read({"Locale", "Strings", "AudioCluster", "AudioMap"} \cup StreamPorts \cup ExternalPorts \cup InternalPorts)
SentControlReads ==
  Read({"Control", "ClockDomain", "Timing"} \cup Ptp) \cup Plain({"SetConfiguration", "GetConfiguration"})
SentFormats == Formats \cup Of({"GetAudioMap", "AddAudioMappings", "RemoveAudioMappings"}, StreamPorts)
SentInfos == Infos \cup EntityNames \cup Names({"Configuration"})
SentUnitNames == Names({"AudioUnit"} \cup Streams \cup Jacks)
SentSourceNames == Names({"AvbInterface", "ClockSource", "MemoryObject", "AudioCluster", "Control"})
SentClockNames == Names({"ClockDomain", "Timing"} \cup Ptp) \cup Association
SentRates == Rates({"AudioUnit", "VideoCluster", "SensorCluster"}) \cup Plain({"SetClockSource", "GetClockSource"})
SentControls == Plain({"SetControl", "GetControl", "GetAsPath"}) \cup Running \cup Of({"GetAvbInfo"}, {"AvbInterface"})
SentCounters == Of({"GetCounters"}, {"Entity", "AvbInterface", "ClockDomain"} \cup Streams) \cup Restarts \cup Operations
SentLengths == Plain({"SetMemoryObjectLength", "GetMemoryObjectLength"})
SentPieces == Plain({"GetDynamicInfo"})
SentTransit == Plain({"SetMaxTransitTime", "GetMaxTransitTime", "AddressAccess"})
SentVendor == Plain({"GetMilanInfo", "SetSystemUniqueID", "GetSystemUniqueID"}) \cup Clock \cup Binding
SentConnections ==
  Plain({"ConnectRx", "DisconnectRx", "DisconnectTx", "GetTxState", "GetRxState", "GetTxConnection"})

Questions ==
  UNION {SentAccess, SentReads, SentPortReads, SentControlReads, SentFormats, SentInfos, SentUnitNames,
         SentSourceNames, SentClockNames, SentRates, SentControls, SentCounters, SentLengths, SentPieces,
         SentTransit, SentVendor, SentConnections}

\* What may be asked for in one command of dynamic information.
Pieces ==
  Plain({"GetConfiguration", "GetAssociationID"}) \cup Of({"GetStreamFormat", "GetStreamInfo"}, Streams)
    \cup {q \in Questions : q[1] = "GetName"} \cup Of({"GetSamplingRate"}, {"AudioUnit", "VideoCluster", "SensorCluster"})
MorePieces ==
  Of({"GetCounters"}, {"Entity", "AvbInterface", "ClockDomain"} \cup Streams)
    \cup Plain({"GetClockSource", "GetMemoryObjectLength", "GetMaxTransitTime"})

\* Questions by the kind of message.
Vendor == SentVendor
Connections == SentConnections
Addresses == Plain({"AddressAccess"})

-----------------------------------------------------------------------------
(* Methods that a local entity hands to its capability delegate: one that is *)
(* only a controller ...                                                     *)

ControllerReads ==
  SentAccess \cup Read({"Entity", "Configuration", "AudioUnit", "AvbInterface", "ClockSource", "MemoryObject",
                        "Locale", "Strings"} \cup Streams \cup Jacks \cup StreamPorts \cup ExternalPorts)
    \cup Read(InternalPorts \cup {"AudioCluster", "AudioMap", "Control"})
ControllerStreams ==
  (SentControlReads \ Read({"Control"}))
    \cup SentFormats \cup Infos \cup EntityNames \cup Names({"Configuration", "AudioUnit", "StreamInput"})
ControllerNames ==
  Names({"StreamOutput"} \cup Jacks) \cup SentSourceNames \cup SentClockNames
ControllerStates ==
  SentRates \cup SentControls \cup SentCounters \cup SentLengths \cup SentPieces
    \cup Plain({"SetMaxTransitTime", "GetMaxTransitTime"})
ControllerOthers == Addresses \cup Vendor \cup Connections

ByController == UNION {ControllerReads, ControllerStreams, ControllerNames, ControllerStates, ControllerOthers}

\* ... and one of several roles, which must have the role of a controller.
AggregateReads ==
  SentAccess \cup Read({"Entity", "Configuration", "AudioUnit", "AvbInterface", "ClockSource", "MemoryObject"}
                       \cup Streams \cup Jacks)
AggregatePortReads == SentPortReads \cup SentControlReads \cup Of({"SetStreamFormat"}, {"StreamInput"})
AggregateStreams ==
  (Formats \ Of({"SetStreamFormat"}, {"StreamInput"}))
    \cup Of({"GetAudioMap", "AddAudioMappings", "RemoveAudioMappings"}, StreamPorts) \cup Infos \cup EntityNames
AggregateNames ==
  SentUnitNames \cup Names({"Configuration", "AvbInterface", "ClockSource"}) \cup Of({"SetName"}, {"MemoryObject"})
AggregateRates ==
  Of({"GetName"}, {"MemoryObject"}) \cup Names({"AudioCluster", "Control"}) \cup SentClockNames
    \cup Rates({"AudioUnit"})
AggregateStates == (SentRates \ Rates({"AudioUnit"})) \cup SentControls \cup (SentCounters \ (Restarts \cup Operations))
AggregateOthers ==
  Restarts \cup Operations \cup SentLengths \cup SentPieces \cup SentTransit
    \cup Plain({"GetMilanInfo", "SetSystemUniqueID", "GetSystemUniqueID"}) \cup Clock \cup Binding
AggregateConnections == Connections

ByAggregate ==
  UNION {AggregateReads, AggregatePortReads, AggregateStreams, AggregateNames, AggregateRates, AggregateStates,
         AggregateOthers, AggregateConnections}

-----------------------------------------------------------------------------
(* Methods that the controller's proxy hands to the virtual interface, on    *)
(* the executor and with the protocol interface locked, when the entity is   *)
(* virtual, and to the local entity when it is not.                          *)

ProxyAccess == (Access \cup Plain(Availability \cup Registration)) \ Plain({"DeregisterUnsolicitedNotification"})
ProxyReads ==
  Plain({"DeregisterUnsolicitedNotification"})
    \cup Read({"Entity", "Configuration", "AudioUnit", "JackInput"} \cup Streams)
ProxySourceReads ==
  Read({"JackOutput", "AvbInterface", "ClockSource", "MemoryObject", "Locale", "Strings", "StreamPortInput"})
ProxyPortReads == Read({"StreamPortOutput", "AudioCluster", "AudioMap"} \cup ExternalPorts \cup InternalPorts)
ProxyControlReads == SentControlReads
ProxyFormats == Formats \cup Of({"GetAudioMap"}, {"StreamPortInput"})
ProxyMappings == Of({"AddAudioMappings", "RemoveAudioMappings"}, StreamPorts)
ProxyInfos == Infos
ProxyEntityNames == EntityNames \cup Names({"Configuration"})
ProxyStreamNames == Names({"AudioUnit"} \cup Streams)
ProxyJackNames == Names(Jacks \cup {"AvbInterface"})
ProxySourceNames == Names({"ClockSource", "MemoryObject", "AudioCluster"})
ProxyControlNames == Names({"Control", "ClockDomain", "Timing"})
ProxyPtpNames == Names(Ptp) \cup Association
ProxyRates == Rates({"AudioUnit", "VideoCluster", "SensorCluster"})
ProxyControls == Plain({"SetClockSource", "GetClockSource", "SetControl", "GetControl"})
ProxyRunning == Running \cup Of({"GetAvbInfo"}, {"AvbInterface"}) \cup Plain({"GetAsPath"})
ProxyCounters == Of({"GetCounters"}, {"Entity", "AvbInterface", "ClockDomain"} \cup Streams)
ProxyRestarts == Restarts \cup Operations \cup SentLengths \cup SentPieces
ProxyTransit == Plain({"SetMaxTransitTime", "GetMaxTransitTime"}) \cup Addresses
ProxyVendor == Plain({"GetMilanInfo", "SetSystemUniqueID", "GetSystemUniqueID"}) \cup Clock
ProxyBinding == Binding
ProxyConnections == Connections

\* The one that runs without the lock.
ProxyUnlocked == Of({"GetAudioMap"}, {"StreamPortOutput"})

ProxyLocked ==
  UNION {ProxyAccess, ProxyReads, ProxySourceReads, ProxyPortReads, ProxyControlReads, ProxyFormats, ProxyMappings,
         ProxyInfos, ProxyEntityNames, ProxyStreamNames, ProxyJackNames, ProxySourceNames, ProxyControlNames,
         ProxyPtpNames, ProxyRates, ProxyControls, ProxyRunning, ProxyCounters, ProxyRestarts, ProxyTransit,
         ProxyVendor, ProxyBinding, ProxyConnections}
ByProxy == ProxyLocked \cup ProxyUnlocked

ASSUME EveryMethodIsHandedOn == Questions \subseteq (ByController \cap ByAggregate \cap ByProxy)
=============================================================================
