----------------------------- MODULE Enumeration -----------------------------
(***************************************************************************)
(* How the controller enumerates an entity (src/controller): from          *)
(* onEntityOnline to the notification that the entity is online, through   *)
(* the steps of checkEnumerationSteps, the queries each step makes and the *)
(* handlers of their results.  One entity is followed through several      *)
(* stays online, over a cache of models that outlives them.                *)
(*                                                                         *)
(* A handler runs with the lock of the protocol interface and is one       *)
(* action.  Queries are sent in order; any of the first Window commands in *)
(* flight may be answered, or given up by the command state machine.  What *)
(* the answers say is abstracted to which descriptors exist.  Handlers are *)
(* operators from a machine to a machine: the variables of the controller  *)
(* as one record.                                                          *)
(***************************************************************************)
EXTENDS Naturals, Sequences, FiniteSets, FiniteSetsExt

CONSTANTS
  Settings,        \* the devices and the controllers that may be: see Setting
  None

VARIABLES
  setting,         \* the one of Settings there is
  entity,          \* the ControlledEntityImpl, and what the properties ask of it
  aecp, acmp,      \* queries sent and not answered, in order
  delayed,         \* _delayedQueries
  cache,           \* descriptors of the model in EntityModelCache, or None
  failed,          \* assertions that failed
  faults

vars == <<setting, entity, aecp, acmp, delayed, cache, failed, faults>>

(* The setting: the device,                                                  *)
Children == setting.children        \* its descriptors: from one to those under it
Preferred == setting.preferred      \* the locales chooseLocale picks, one in a configuration
Current == setting.current          \* its current configuration
Specification == setting.milan      \* MilanInfo::specificationVersion, 0 when not a Milan device
VendorUnique == setting.mvu         \* EntityCapability::VendorUniqueSupported
MapPages == setting.pages           \* GET_AUDIO_MAP to get all dynamic mappings of a port
Connections == setting.connections  \* connections a talker stream says it has
(* what may come back, Success apart,                                        *)
AemStatuses == setting.aem
MvuStatuses == setting.mvuStatuses
ControlStatuses == setting.acmp
(* the controller,                                                           *)
Packed == setting.packed            \* _enablePackedGetDynamicInfo
Full == setting.full                \* _fullStaticModelEnumeration
Cached == setting.cached            \* EntityModelCache::isCacheEnabled
PacketSize == setting.packet        \* parameters in one GET_DYNAMIC_INFO
(* and what happens.                                                         *)
Window == setting.window            \* commands in flight that may be answered first
Restless == setting.restless        \* the entity may go while its queries are awaited
MaxSessions == setting.sessions     \* bound: stays online
MaxFaults == setting.faults         \* bound: answers that are not Success

Nodes == DOMAIN Children
Root == [type |-> "Entity", conf |-> 0, index |-> 0]
ConfigurationNode(c) == [type |-> "Configuration", conf |-> c, index |-> 0]
Configurations == {n \in Nodes : n.type = "Configuration"}
Steps == {"GetMilanInfo", "CheckPackedDynamicInfoSupported", "RegisterUnsol",
          "GetStaticModel", "GetDescriptorDynamicInfo", "GetDynamicInfo"}

\* What a query asks: of packed queries, sub is the packetID.
Key(kind, node, sub) == [kind |-> kind, node |-> node, sub |-> sub]
Query(key, session) == [key |-> key, step |-> "GetDynamicInfo", asks |-> {}, session |-> session]

-----------------------------------------------------------------------------
(* What is asked of a descriptor                                             *)

AcmpKinds == {"InputStreamState", "OutputStreamState", "OutputStreamConnection"}
MvuKinds == {"GetSystemUniqueID", "GetMediaClockReferenceInfo", "InputStreamInfoEx"}
CounterKinds == {"GetEntityCounters", "GetAvbInterfaceCounters", "GetClockDomainCounters",
                 "GetStreamInputCounters", "GetStreamOutputCounters"}
AecpKinds == {"AcquiredState", "LockedState", "InputStreamInfo", "OutputStreamInfo",
              "GetMaxTransitTime", "GetAvbInfo", "GetAsPath", "InputStreamPortAudioMappings",
              "OutputStreamPortAudioMappings"} \cup CounterKinds
DynamicKinds == AcmpKinds \cup MvuKinds \cup AecpKinds
StaticKinds == {"Descriptor"}
DescriptorDynamicKinds ==
  {"ConfigurationName", "AudioUnitName", "AudioUnitSamplingRate", "InputStreamName",
   "InputStreamFormat", "OutputStreamName", "OutputStreamFormat", "InputJackName",
   "OutputJackName", "AvbInterfaceDescriptor", "ClockSourceDescriptor", "MemoryObjectName",
   "MemoryObjectLength", "AudioClusterName", "ControlName", "ControlValues",
   "ClockDomainName", "ClockDomainSourceIndex", "TimingName", "PtpInstanceName", "PtpPortName"}
\* Those GET_DYNAMIC_INFO carries.
PackableKinds ==
  CounterKinds \cup {"GetMaxTransitTime"}
    \cup (DescriptorDynamicKinds
            \ {"AvbInterfaceDescriptor", "ClockSourceDescriptor", "ControlValues"})

\* getDynamicInfo, the visits of the entity and of its streams.
StreamDynamicInfos(e, type) ==
  CASE type = "Entity" -> {"LockedState", "GetEntityCounters"}
         \cup {k \in {"AcquiredState"} : e.milan = 0}
         \cup {k \in {"GetSystemUniqueID"} : e.milan >= 12}
    [] type = "StreamInput" -> {"InputStreamInfo", "GetStreamInputCounters",
         IF e.spec >= 13 THEN "InputStreamInfoEx" ELSE "InputStreamState"}
    [] type = "StreamOutput" -> {"OutputStreamInfo", "GetStreamOutputCounters", "OutputStreamState"}
         \cup {k \in {"GetMaxTransitTime"} : ~ e.spec \in 10 .. 12}
    [] OTHER -> {}
\* And those of the other descriptors.
DynamicInfos(e, n) ==
  CASE n.type = "AvbInterface" -> {"GetAvbInfo", "GetAsPath", "GetAvbInterfaceCounters"}
    [] n.type = "StreamPortInput" /\ \A c \in Children[n] : c.type # "AudioMap" ->
         {"InputStreamPortAudioMappings"}
    [] n.type = "StreamPortOutput" /\ \A c \in Children[n] : c.type # "AudioMap" ->
         {"OutputStreamPortAudioMappings"}
    [] n.type = "ClockDomain" -> {"GetClockDomainCounters"}
         \cup {k \in {"GetMediaClockReferenceInfo"} : e.milan >= 12}
    [] OTHER -> StreamDynamicInfos(e, n.type)
DynamicKeys(e) ==
  UNION {{Key(k, n, 0) : k \in DynamicInfos(e, n)} :
           n \in {Root} \cup {x \in e.nodes : x.conf = Current}}

\* getDescriptorDynamicInfo, the visits of units, streams and jacks,
UnitDescriptorInfos(type) ==
  CASE type = "AudioUnit" -> {"AudioUnitName", "AudioUnitSamplingRate"}
    [] type = "StreamInput" -> {"InputStreamName", "InputStreamFormat"}
    [] type = "StreamOutput" -> {"OutputStreamName", "OutputStreamFormat"}
    [] type = "JackInput" -> {"InputJackName"}
    [] type = "JackOutput" -> {"OutputJackName"}
    [] OTHER -> {}
\* of memory objects, of what a stream port holds and of controls,
PortDescriptorInfos(type) ==
  CASE type = "MemoryObject" -> {"MemoryObjectName", "MemoryObjectLength"}
    [] type = "AudioCluster" -> {"AudioClusterName"}
    [] type = "Control" -> {"ControlName", "ControlValues"}
    [] OTHER -> {}
\* of clocks and timings.
ClockDescriptorInfos(type) ==
  CASE type = "ClockDomain" -> {"ClockDomainName", "ClockDomainSourceIndex"}
    [] type = "Timing" -> {"TimingName"}
    [] type = "PtpInstance" -> {"PtpInstanceName"}
    [] type = "PtpPort" -> {"PtpPortName"}
    [] OTHER -> {}
\* Those asked of every configuration: the others of the current one only.
EveryConfigurationInfos(type) ==
  CASE type = "Configuration" -> {"ConfigurationName"}
    [] type = "AvbInterface" -> {"AvbInterfaceDescriptor"}
    [] type = "ClockSource" -> {"ClockSourceDescriptor"}
    [] OTHER -> {}
DescriptorDynamicKeys(e) ==
  UNION {{Key(k, n, 0) : k \in EveryConfigurationInfos(n.type)
            \cup IF n.conf # Current THEN {}
                 ELSE UnitDescriptorInfos(n.type) \cup PortDescriptorInfos(n.type)
                      \cup ClockDescriptorInfos(n.type)} : n \in e.nodes \ {Root}}

DescriptorKey(n) == Key("Descriptor", n, 0)
Under(n, types) == {DescriptorKey(c) : c \in {x \in Children[n] : x.type \in types}}

\* The strings of the preferred locale that the model does not have.
ChooseLocale(e, c) ==
  {k \in UNION {Under(l, {"Strings"}) : l \in {x \in e.nodes \cap Preferred : x.conf = c}} :
     k.node \notin e.nodes}

-----------------------------------------------------------------------------
(* Queries                                                                   *)

Expects(m, kinds) == \E k \in m.e.expected : k.kind \in kinds

Expect(m, key) == [m EXCEPT !.e.expected = @ \cup {key}]
\* The order of the visits is that of CHOOSE.
Ordered(S) == FoldSet(LAMBDA x, acc : Append(acc, x), <<>>, S)
SendAll(m, queries) ==
  LET Connection(q) == q.key.kind \in AcmpKinds
  IN [m EXCEPT !.acmp = @ \o Ordered({q \in queries : Connection(q)}),
               !.aecp = @ \o Ordered({q \in queries : ~Connection(q)})]
AskAll(m, keys) ==
  SendAll([m EXCEPT !.e.expected = @ \cup keys], {Query(key, m.e.session) : key \in keys})
Ask(m, key) == AskAll(m, {key})
AddDelayedQuery_Forgotten(m, q) == m
AddDelayedQuery(m, q) == [m EXCEPT !.delayed = @ \cup {q}]
AskLater(m, q) == AddDelayedQuery(Expect(m, q.key), q)

FlushPackedDynamicInfoQueries_FullOnly(m, keys, step) ==
  LET params == Ordered(keys)
      Packet(i) == (i - 1) \div PacketSize
      Flushed(p) == [Query(Key("Packed", Root, p), m.e.session) EXCEPT
                       !.step = step, !.asks = {params[i] : i \in {j \in DOMAIN params : Packet(j) = p}}]
      queries == {Flushed(Packet(i)) : i \in {j \in DOMAIN params : j % PacketSize = 0}}
  IN SendAll([m EXCEPT !.e.expected = @ \cup {q.key : q \in queries}], queries)
\* flushPackedDynamicInfoQueries: one query for each PacketSize parameters.
FlushPackedDynamicInfoQueries(m, keys, step) ==
  LET params == Ordered(keys)
      Packet(i) == (i - 1) \div PacketSize
      Flushed(p) == [Query(Key("Packed", Root, p), m.e.session) EXCEPT
                       !.step = step, !.asks = {params[i] : i \in {j \in DOMAIN params : Packet(j) = p}}]
      queries == {Flushed(Packet(i)) : i \in DOMAIN params}
  IN SendAll([m EXCEPT !.e.expected = @ \cup {q.key : q \in queries}], queries)

\* Those that can be packed are, when the entity supports it.
AskOrPack(m, keys, step) ==
  LET packed == {k \in keys : m.e.packed /\ k.kind \in PackableKinds}
  IN FlushPackedDynamicInfoQueries(AskAll(m, keys \ packed), packed, step)

-----------------------------------------------------------------------------
(* checkEnumerationSteps, from its last step to its first                    *)

ClearStep(m, step) == [m EXCEPT !.e.steps = @ \ {step}]
AddStep(m, step) == [m EXCEPT !.e.steps = @ \cup {step}]

CacheEntityModel(m) ==
  IF Cached /\ ~m.e.ignoreCache /\ m.cache = None THEN [m EXCEPT !.cache = m.e.nodes] ELSE m
Advertise(m) ==
  IF m.e.advertised \/ m.e.fatal THEN m ELSE [CacheEntityModel(m) EXCEPT !.e.advertised = TRUE]

GetDynamicInfo_DoesNotWait(m) ==
  Advertise(ClearStep(AskOrPack(m, DynamicKeys(m.e), "GetDynamicInfo"), "GetDynamicInfo"))
GetDynamicInfo(m) ==
  LET r == AskOrPack(m, DynamicKeys(m.e), "GetDynamicInfo")
  IN IF Expects(r, DynamicKinds) THEN r ELSE Advertise(ClearStep(r, "GetDynamicInfo"))

AfterDescriptorDynamicInfo(m) ==
  IF "GetDynamicInfo" \in m.e.steps THEN GetDynamicInfo(m) ELSE Advertise(m)

GetDescriptorDynamicInfo(m) ==
  LET r == IF m.e.nodes \cap Configurations = {} THEN m
           ELSE AskAll(AskOrPack(m, DescriptorDynamicKeys(m.e), "GetDescriptorDynamicInfo"),
                       IF ConfigurationNode(Current) \in m.e.nodes
                       THEN ChooseLocale(m.e, Current) ELSE {})
  IN IF Expects(r, DescriptorDynamicKinds) THEN r
     ELSE AfterDescriptorDynamicInfo(ClearStep(r, "GetDescriptorDynamicInfo"))

CheckEnumerationSteps(m) ==
  CASE "GetMilanInfo" \in m.e.steps -> Ask(m, Key("MilanInfo", Root, 0))
    [] "GetMilanInfo" \notin m.e.steps /\ "CheckPackedDynamicInfoSupported" \in m.e.steps ->
         Ask(m, Key("CheckDynamicInfoSupported", Root, 0))
    [] m.e.steps \cap {"GetMilanInfo", "CheckPackedDynamicInfoSupported"} = {}
         /\ "RegisterUnsol" \in m.e.steps -> Ask(m, Key("RegisterUnsol", Root, 0))
    [] m.e.steps \cap {"GetMilanInfo", "CheckPackedDynamicInfoSupported", "RegisterUnsol"} = {}
         /\ "GetStaticModel" \in m.e.steps -> Ask(m, DescriptorKey(Root))
    [] m.e.steps \subseteq {"GetDescriptorDynamicInfo", "GetDynamicInfo"} ->
         IF "GetDescriptorDynamicInfo" \in m.e.steps THEN GetDescriptorDynamicInfo(m)
         ELSE AfterDescriptorDynamicInfo(m)

-----------------------------------------------------------------------------
(* Answers that are not a success                                            *)

MvuFailureAction(status) ==
  CASE status = "EntityLocked" -> "Busy"
    [] status = "TimedOut" -> "TimedOut"
    [] status = "BaseProtocolViolation" -> "MisbehaveContinue"
    [] status \in {"NoSuchDescriptor", "ProtocolError"} -> "ErrorContinue"
    [] status \in {"PayloadTooShort", "BadArguments"} -> "BadArguments"
    [] status = "NotImplemented" -> "NotSupported"
    [] status = "PartialImplementation" -> "WarningContinue"
    [] OTHER -> "ErrorFatal"
AemFailureAction(status) ==
  CASE status \in {"LockedByOther", "AcquiredByOther", "NoResources"} -> "Busy"
    [] status \in {"TimedOut", "NotAuthenticated", "BadArguments"} -> status
    [] status \in {"BaseProtocolViolation", "UnknownEntity", "EntityMisbehaving"} -> "MisbehaveContinue"
    [] status \in {"NoSuchDescriptor", "AuthenticationDisabled", "StreamIsRunning", "ProtocolError"} ->
         "ErrorContinue"
    [] status \in {"NotImplemented", "NotSupported"} -> "NotSupported"
    [] status = "PartialImplementation" -> "WarningContinue"
    [] OTHER -> "ErrorFatal"
ControlFailureAction(status) ==
  CASE status = "BaseProtocolViolation" -> "MisbehaveContinue"
    [] status \in {"StateUnavailable", "CouldNotSendMessage"} -> "Busy"
    [] status = "TimedOut" -> "TimedOut"
    [] status \in {"NotConnected", "NoSuchConnection"} -> "WarningContinue"
    [] status \in {"TalkerDestMacFail", "TalkerNoBandwidth", "TalkerExclusive", "ListenerTalkerTimeout",
                   "ListenerExclusive", "TalkerNoStreamIndex", "ControllerNotAuthorized",
                   "IncompatibleRequest"} -> "ErrorContinue"
    [] status = "NotSupported" -> "NotSupported"
    [] OTHER -> "ErrorFatal"

Fatal(m) == [m EXCEPT !.e.fatal = TRUE]
\* removeCompatibilityFlag and addCompatibilityFlag(Misbehaving): no longer a Milan device.
NotMilan(m) == [m EXCEPT !.e.milan = 0]
DecreaseMilanCompatibilityVersion(m, version) ==
  IF version > m.e.milan THEN m ELSE [m EXCEPT !.e.milan = version]
CheckMilanRequirements(m, kind) ==
  CASE kind \in {"AcquiredState", "GetEntityCounters", "MemoryObjectLength", "GetSystemUniqueID",
                 "OutputStreamConnection"} -> m
    [] kind \in {"CheckDynamicInfoSupported", "Packed", "TimingName", "PtpInstanceName", "PtpPortName"} ->
         IF m.e.milan >= 12 THEN DecreaseMilanCompatibilityVersion(m, 10) ELSE m
    [] kind \in {"GetMaxTransitTime", "GetMediaClockReferenceInfo", "InputStreamInfoEx"} ->
         IF m.e.milan >= 13 THEN DecreaseMilanCompatibilityVersion(m, 12) ELSE m
    [] OTHER -> DecreaseMilanCompatibilityVersion(m, 0)

\* get...RetryTimer: one retry in the whole enumeration for each of these.
RetryFamily(kind) ==
  CASE kind \in StaticKinds -> "Descriptor"
    [] kind \in DynamicKinds -> "DynamicInfo"
    [] kind \in DescriptorDynamicKinds -> "DescriptorDynamicInfo"
    [] OTHER -> kind
ShouldRetry(m, kind) == RetryFamily(kind) \notin m.e.retried
CountRetry(m, kind) == [m EXCEPT !.e.retried = @ \cup {RetryFamily(kind)}]
GivenUp(m, kind, status) ==
  IF status = "TimedOut" THEN CheckMilanRequirements(m, kind)
  ELSE IF status = "NoResources" THEN m ELSE NotMilan(m)

\* The queries of the first three steps: the last two are retried at once.
ProcessMilanInfoFailureStatus(m, q, status) ==
  LET action == MvuFailureAction(status)
  IN CASE action \in {"MisbehaveContinue", "BadArguments", "ErrorContinue"} -> NotMilan(m)
       [] action = "WarningContinue" -> m
       [] action = "NotSupported" -> CheckMilanRequirements(m, q.key.kind)
       [] action \in {"TimedOut", "Busy"} ->
            IF ShouldRetry(m, "MilanInfo") THEN AskLater(CountRetry(m, "MilanInfo"), q)
            ELSE GivenUp(m, q.key.kind, status)
       [] action = "ErrorFatal" -> Fatal(m)
ProcessEmptyGetDynamicInfoFailureStatus(m, q, status) ==
  LET action == AemFailureAction(status)
  IN CASE action = "MisbehaveContinue" -> NotMilan(m)
       [] action \in {"BadArguments", "ErrorContinue", "NotAuthenticated", "WarningContinue"} -> m
       [] action = "NotSupported" -> CheckMilanRequirements(m, q.key.kind)
       [] action \in {"TimedOut", "Busy"} ->
            IF ShouldRetry(m, q.key.kind) THEN Ask(CountRetry(m, q.key.kind), q.key)
            ELSE GivenUp(m, q.key.kind, status)
       [] action = "ErrorFatal" -> Fatal(m)
ProcessRegisterUnsolFailureStatus(m, q, status) ==
  LET action == AemFailureAction(status)
  IN CASE action \in {"MisbehaveContinue", "BadArguments", "ErrorContinue"} -> NotMilan(m)
       [] action \in {"NotAuthenticated", "WarningContinue"} -> m
       [] action = "NotSupported" -> CheckMilanRequirements(m, q.key.kind)
       [] action \in {"TimedOut", "Busy"} ->
            IF ShouldRetry(m, q.key.kind) THEN Ask(CountRetry(m, q.key.kind), q.key)
            ELSE GivenUp(m, q.key.kind, status)
       [] action = "ErrorFatal" -> Fatal(m)

\* Static model: q is what is read again, under the key that is expected.
ProcessGetStaticModelFailureStatus(m, q, key, status) ==
  LET action == AemFailureAction(status)
  IN CASE action \in {"MisbehaveContinue", "ErrorContinue", "BadArguments", "NotSupported"} -> NotMilan(m)
       [] action \in {"NotAuthenticated", "WarningContinue"} -> m
       [] action \in {"TimedOut", "Busy"} ->
            IF ShouldRetry(m, "Descriptor")
            THEN AddDelayedQuery(Expect(CountRetry(m, "Descriptor"), key), q)
            ELSE NotMilan(m)
       [] action = "ErrorFatal" -> Fatal(m)

\* Dynamic information, over AECP, MVU and ACMP.
RetryDynamicInfo(m, q, status) ==
  IF ShouldRetry(m, q.key.kind) THEN AskLater(CountRetry(m, q.key.kind), q)
  ELSE IF status = "TimedOut" THEN CheckMilanRequirements(m, q.key.kind) ELSE NotMilan(m)
ProcessGetAecpDynamicInfoFailureStatus(m, q, status) ==
  LET action == AemFailureAction(status)
  IN CASE action \in {"MisbehaveContinue", "ErrorContinue"} -> NotMilan(m)
       [] action \in {"NotAuthenticated", "WarningContinue"} -> m
       [] action \in {"BadArguments", "NotSupported"} -> CheckMilanRequirements(m, q.key.kind)
       [] action \in {"TimedOut", "Busy"} -> RetryDynamicInfo(m, q, status)
       [] action = "ErrorFatal" -> Fatal(m)
ProcessGetMvuDynamicInfoFailureStatus(m, q, status) ==
  LET mismatching == status = "BaseProtocolViolation" /\ m.e.spec \in 10 .. 12
                     /\ q.key.kind # "InputStreamInfoEx"
      action == IF mismatching THEN "NotSupported" ELSE MvuFailureAction(status)
      r == IF mismatching THEN DecreaseMilanCompatibilityVersion(m, 10) ELSE m
  IN CASE action = "MisbehaveContinue" -> NotMilan(r)
       [] action = "WarningContinue" -> r
       [] action \in {"ErrorContinue", "BadArguments", "NotSupported"} ->
            CheckMilanRequirements(r, q.key.kind)
       [] action \in {"TimedOut", "Busy"} ->
            IF ShouldRetry(r, q.key.kind) THEN AskLater(CountRetry(r, q.key.kind), q)
            ELSE IF action = "TimedOut" THEN CheckMilanRequirements(r, q.key.kind) ELSE r
       [] action = "ErrorFatal" -> Fatal(r)
ProcessGetAcmpDynamicInfoFailureStatus(m, q, status) ==
  LET action == ControlFailureAction(status)
  IN CASE action \in {"MisbehaveContinue", "ErrorContinue"} -> NotMilan(m)
       [] action = "WarningContinue" -> m
       [] action = "NotSupported" -> CheckMilanRequirements(m, q.key.kind)
       [] action \in {"TimedOut", "Busy"} -> RetryDynamicInfo(m, q, status)
       [] action = "ErrorFatal" -> Fatal(m)

\* fetchCorrespondingDescriptor: what is read instead of an information, and
\* the other informations of the same descriptor, which it makes needless.
Siblings(kind) ==
  CASE kind \in {"AudioUnitName", "AudioUnitSamplingRate"} ->
         {"AudioUnitName", "AudioUnitSamplingRate", "AudioClusterName"}
    [] kind \in {"InputStreamName", "InputStreamFormat"} -> {"InputStreamName", "InputStreamFormat"}
    [] kind \in {"OutputStreamName", "OutputStreamFormat"} -> {"OutputStreamName", "OutputStreamFormat"}
    [] kind \in {"MemoryObjectName", "MemoryObjectLength"} -> {"MemoryObjectName", "MemoryObjectLength"}
    [] kind \in {"ControlName", "ControlValues"} -> {"ControlName", "ControlValues"}
    [] kind \in {"ClockDomainName", "ClockDomainSourceIndex"} ->
         {"ClockDomainName", "ClockDomainSourceIndex"}
    [] OTHER -> {}
FetchCorrespondingDescriptor(m, key) ==
  Ask([m EXCEPT !.e.expected = {k \in @ : ~ (/\ k.kind \in Siblings(key.kind)
                                              /\ k.node.conf = key.node.conf
                                              /\ k.node.index = key.node.index)}],
      DescriptorKey(key.node))

\* GetDescriptorDynamicInfo: a descriptor is read in place of its information,
\* and of one that has none the whole model is.
EnumerateModelAgain(m) ==
  AddStep([m EXCEPT !.e.ignoreCache = TRUE,
                    !.e.expected = {k \in @ : k.kind \notin DescriptorDynamicKinds}], "GetStaticModel")
FallBackToDescriptor(m, key) ==
  IF key.kind \in {"AvbInterfaceDescriptor", "ClockSourceDescriptor"} THEN EnumerateModelAgain(m)
  ELSE FetchCorrespondingDescriptor(m, key)
ProcessGetDescriptorDynamicInfoFailureStatus(m, q, status) ==
  LET action == AemFailureAction(status)
      key == q.key
  IN CASE action \in {"MisbehaveContinue", "ErrorContinue"} -> FallBackToDescriptor(NotMilan(m), key)
       [] action \in {"NotAuthenticated", "WarningContinue"} -> m
       [] action = "NotSupported" -> FallBackToDescriptor(CheckMilanRequirements(m, key.kind), key)
       [] action \in {"TimedOut", "Busy"} ->
            IF ShouldRetry(m, key.kind) THEN AskLater(CountRetry(m, key.kind), q)
            ELSE FallBackToDescriptor(m, key)
       [] action \in {"BadArguments", "ErrorFatal"} -> Fatal(m)

\* GET_DYNAMIC_INFO: the step starts again, without packing.
RestartStep(m, step) ==
  LET kinds == IF step = "GetDynamicInfo" THEN DynamicKinds ELSE DescriptorDynamicKinds
      r == AddStep([m EXCEPT !.e.packed = FALSE,
                             !.e.expected = {k \in @ : k.kind \notin kinds \cup {"Packed"}}], step)
      assertion == IF step = "GetDynamicInfo" THEN "GetDescriptorDynamicInfo step should not be set"
                   ELSE "GetDynamicInfo step should be set"
      holds == IF step = "GetDynamicInfo" THEN "GetDescriptorDynamicInfo" \notin r.e.steps
               ELSE "GetDynamicInfo" \in r.e.steps
  IN [r EXCEPT !.failed = @ \cup {a \in {assertion} : ~holds}]
ProcessGetDynamicInfoFailureStatus(m, q, status) ==
  LET action == AemFailureAction(status)
  IN CASE action \in {"NotAuthenticated", "WarningContinue"} -> m
       [] action = "NotSupported" -> RestartStep(CheckMilanRequirements(m, "Packed"), q.step)
       [] action = "MisbehaveContinue" -> RestartStep(NotMilan(m), q.step)
       [] action \in {"BadArguments", "ErrorContinue"} -> RestartStep(m, q.step)
       [] action \in {"TimedOut", "Busy"} ->
            IF ShouldRetry(m, "Packed") THEN AskLater(CountRetry(m, "Packed"), q)
            ELSE RestartStep(GivenUp(m, "Packed", status), q.step)
       [] action = "ErrorFatal" -> Fatal(m)

-----------------------------------------------------------------------------
(* Results                                                                   *)

Learn(m, n) == [m EXCEPT !.e.nodes = @ \cup {n}]

\* The end of every handler: the step ends when nothing it expects is left.
StepEnds(m, step, kinds) ==
  IF m.e.fatal \/ Expects(m, kinds) THEN m ELSE CheckEnumerationSteps(ClearStep(m, step))

StaticModelResult(m, q, status, asks) ==
  StepEnds(IF status = "Success" THEN AskAll(Learn(m, q.key.node), asks)
           ELSE ProcessGetStaticModelFailureStatus(m, q, q.key, status),
           "GetStaticModel", StaticKinds)
DynamicInfoResult(m, r) == StepEnds(r, "GetDynamicInfo", DynamicKinds \cup {"Packed"})
DescriptorDynamicInfoResult(m, q, status) ==
  StepEnds(IF status = "Success" THEN m ELSE ProcessGetDescriptorDynamicInfoFailureStatus(m, q, status),
           "GetDescriptorDynamicInfo", DescriptorDynamicKinds \cup {"Packed"})

MilanInfoResult(m, q, status) ==
  LET version == IF Specification >= 13 \/ Specification = 0 THEN Specification ELSE 12
  IN StepEnds(IF status = "Success" THEN [m EXCEPT !.e.spec = Specification, !.e.milan = version]
              ELSE ProcessMilanInfoFailureStatus(m, q, status),
              "GetMilanInfo", {"MilanInfo"})
CheckDynamicInfoSupportedResult(m, q, status) ==
  StepEnds(IF status = "Success" THEN [m EXCEPT !.e.packed = TRUE]
           ELSE ProcessEmptyGetDynamicInfoFailureStatus(m, q, status),
           "CheckPackedDynamicInfoSupported", {"CheckDynamicInfoSupported"})
RegisterUnsolResult(m, q, status) ==
  StepEnds(IF status = "Success" THEN m ELSE ProcessRegisterUnsolFailureStatus(m, q, status),
           "RegisterUnsol", {"RegisterUnsol"})
GetDynamicInfoResult_ClearsDynamicInfo(m, q, status) ==
  LET r == IF status = "Success" THEN m ELSE ProcessGetDynamicInfoFailureStatus(m, q, status)
      restarts == status # "Success" /\ ~r.e.packed
      kinds == IF q.step = "GetDynamicInfo" THEN DynamicKinds ELSE DescriptorDynamicKinds
  IN IF r.e.fatal \/ Expects(r, kinds \cup {"Packed"}) THEN r
     ELSE CheckEnumerationSteps(IF restarts THEN r ELSE ClearStep(r, "GetDynamicInfo"))
GetDynamicInfoResult(m, q, status) ==
  LET r == IF status = "Success" THEN m ELSE ProcessGetDynamicInfoFailureStatus(m, q, status)
      restarts == status # "Success" /\ ~r.e.packed
      kinds == IF q.step = "GetDynamicInfo" THEN DynamicKinds ELSE DescriptorDynamicKinds
  IN IF r.e.fatal \/ Expects(r, kinds \cup {"Packed"}) THEN r
     ELSE CheckEnumerationSteps(IF restarts THEN r ELSE ClearStep(r, q.step))

\* isModelValidForConfiguration: the descriptors a configuration counts are all there.
ModelValidForConfiguration(nodes, c) ==
  {n \in Children[c] : n.type # "Locale"} \subseteq nodes
CacheIsUsable(m) ==
  /\ Cached /\ ~m.e.ignoreCache /\ m.cache # None
  /\ IF Full THEN /\ Configurations \subseteq m.cache
                  /\ \A c \in Configurations : ModelValidForConfiguration(m.cache, c)
     ELSE /\ ConfigurationNode(Current) \in m.cache
          /\ ModelValidForConfiguration(m.cache, ConfigurationNode(Current))
\* setEntityDescriptor, of an entity that observers know.
SetEntityDescriptor(m) ==
  IF m.e.advertised
  THEN [Fatal(m) EXCEPT !.e.nodes = {},
                        !.failed = @ \cup {"EntityDescriptor should never be set twice on an entity"}]
  ELSE Learn(m, Root)
EntityDescriptorResult(m, q, status) ==
  IF status # "Success" THEN StaticModelResult(m, q, status, {})
  ELSE IF CacheIsUsable(m)
  THEN StepEnds(AddStep(SetEntityDescriptor([m EXCEPT !.e.nodes = m.cache]),
                        "GetDescriptorDynamicInfo"), "GetStaticModel", StaticKinds)
  ELSE StepEnds(AskAll(SetEntityDescriptor(m), Under(Root, {"Configuration"})),
                "GetStaticModel", StaticKinds)

ConfigurationChildren ==
  {"Locale", "AudioUnit", "StreamInput", "StreamOutput", "JackInput", "JackOutput",
   "AvbInterface", "ClockSource", "MemoryObject", "Control", "ClockDomain", "Timing", "PtpInstance"}
\* A configuration that could not be read is read again as 0, and as though
\* the index of the configuration were that of the descriptor.
ConfigurationReadAgain(q) ==
  [query |-> [q EXCEPT !.key.node = ConfigurationNode(0)],
   key |-> DescriptorKey([ConfigurationNode(0) EXCEPT !.index = q.key.node.conf])]
ConfigurationDescriptorResult(m, q, status) ==
  LET n == q.key.node
  IN IF status = "Success"
     THEN StaticModelResult(m, q, status,
            Under(n, IF n.conf = Current \/ Full THEN ConfigurationChildren ELSE {"Locale"}))
     ELSE StepEnds(ProcessGetStaticModelFailureStatus(m, ConfigurationReadAgain(q).query,
                                                      ConfigurationReadAgain(q).key, status),
                   "GetStaticModel", StaticKinds)
\* The other descriptors, and those read once each is there.
UnitChildren == {"StreamPortInput", "StreamPortOutput", "Control"}
AudioUnitDescriptorResult(m, q, status) ==
  StaticModelResult(m, q, status, Under(q.key.node, UnitChildren))
JackDescriptorResult(m, q, status) == StaticModelResult(m, q, status, Under(q.key.node, {"Control"}))
StreamPortDescriptorResult(m, q, status) ==
  StaticModelResult(m, q, status, Under(q.key.node, {"AudioCluster", "AudioMap", "Control"}))
PtpInstanceDescriptorResult(m, q, status) ==
  StaticModelResult(m, q, status, Under(q.key.node, {"Control", "PtpPort"}))
ChildlessDescriptorResult(m, q, status) == StaticModelResult(m, q, status, {})
LocaleDescriptorResult(m, q, status) ==
  LET n == q.key.node
      e == Learn(m, n).e
      locales == {l \in Nodes : l.type = "Locale" /\ l.conf = n.conf}
  IN StaticModelResult(m, q, status,
       IF locales \subseteq e.nodes /\ ConfigurationNode(n.conf) \in e.nodes
       THEN ChooseLocale(e, n.conf) ELSE {})

AecpDynamicInfoResult(m, q, status) ==
  DynamicInfoResult(m, IF status = "Success" THEN m
                       ELSE ProcessGetAecpDynamicInfoFailureStatus(m, q, status))
MvuDynamicInfoResult(m, q, status) ==
  DynamicInfoResult(m, IF status = "Success" THEN m
                       ELSE ProcessGetMvuDynamicInfoFailureStatus(m, q, status))
AcmpDynamicInfoResult(m, q, status) ==
  DynamicInfoResult(m, IF status = "Success" THEN m
                       ELSE ProcessGetAcmpDynamicInfoFailureStatus(m, q, status))
\* The mappings of a port come in several answers.
AudioMapResult(m, q, status) ==
  IF status = "Success" /\ q.key.sub < MapPages - 1
  THEN Ask(m, [q.key EXCEPT !.sub = @ + 1])
  ELSE AecpDynamicInfoResult(m, q, status)
\* The connections of a talker are asked for one by one.
TalkerStreamStateResult(m, q, status) ==
  IF status = "Success"
  THEN LET milan == IF Connections # 0 THEN NotMilan(m) ELSE m
       IN DynamicInfoResult(m, AskAll(milan, {Key("OutputStreamConnection", q.key.node, i) :
                                                i \in 0 .. (Connections - 1)}))
  ELSE AcmpDynamicInfoResult(m, q, status)

-----------------------------------------------------------------------------
(* Actions                                                                   *)

NoEntity == [online |-> FALSE, session |-> 0, steps |-> {}, expected |-> {}, retried |-> {},
             nodes |-> {}, resolved |-> {}, packed |-> FALSE, milan |-> 0, spec |-> 0,
             ignoreCache |-> FALSE, fatal |-> FALSE, advertised |-> FALSE]

Machine == [e |-> entity, aecp |-> aecp, acmp |-> acmp, delayed |-> delayed,
            cache |-> cache, failed |-> failed]
Becomes(machine) ==
  \E m \in {machine} :
    /\ entity' = m.e /\ aecp' = m.aecp /\ acmp' = m.acmp
    /\ delayed' = m.delayed /\ cache' = m.cache /\ failed' = m.failed
    /\ UNCHANGED setting

Init ==
  /\ setting \in Settings
  /\ entity = NoEntity /\ aecp = <<>> /\ acmp = <<>> /\ delayed = {}
  /\ cache = None /\ failed = {} /\ faults = 0

\* onEntityOnline, of an entity that supports AEM.
Online(m) ==
  CheckEnumerationSteps(
    [m EXCEPT !.e = [NoEntity EXCEPT !.online = TRUE, !.session = m.e.session + 1,
       !.steps = {"RegisterUnsol", "GetStaticModel", "GetDynamicInfo"}
         \cup {s \in {"GetMilanInfo"} : VendorUnique}
         \cup {s \in {"CheckPackedDynamicInfoSupported"} : Packed}]])
Offline(m) == [m EXCEPT !.e = [NoEntity EXCEPT !.session = m.e.session]]

MayGo == entity.online /\ (Restless \/ (delayed = {} /\ aecp = <<>> /\ acmp = <<>>))

OnEntityOnline ==
  /\ ~entity.online /\ entity.session < MaxSessions
  /\ Becomes(Online(Machine))
  /\ UNCHANGED faults
\* The command state machine then forgets the AECP commands of the entity.
OnEntityOffline ==
  /\ MayGo
  /\ Becomes([Offline(Machine) EXCEPT !.aecp = <<>>])
  /\ UNCHANGED faults
\* The capability delegate forwards offline then online: the device stayed.
OnEntityOfflineOnline ==
  /\ MayGo /\ entity.session < MaxSessions
  /\ Becomes(Online(Offline(Machine)))
  /\ UNCHANGED faults

\* The thread of the controller: a query that is due is sent when an entity
\* has the ID it was for, and dropped otherwise.
SendDelayedQuery ==
  \E q \in delayed :
    LET m == [Machine EXCEPT !.delayed = @ \ {q}]
    IN Becomes(IF entity.online THEN SendAll(m, {q}) ELSE m)
  /\ UNCHANGED faults

\* What the answer settles: all but a retry, and what is asked otherwise.
Settles(r, q, status) ==
  IF status = "Success" \/ AemFailureAction(status) \in {"NotAuthenticated", "WarningContinue"}
  THEN {q.key} \cup q.asks
  ELSE {k \in {q.key} \ r.e.expected : k.kind \notin DescriptorDynamicKinds \cup {"Packed"}}

\* checkAndClearExpected...: an answer nobody expects is dropped.
Accept(m, q, status, Handle(_, _, _)) ==
  IF m.e.online /\ ~m.e.fatal /\ q.key \in m.e.expected
  THEN LET r == Handle([m EXCEPT !.e.expected = @ \ {q.key}], q, status)
       IN [r EXCEPT !.e.resolved = @ \cup Settles(r, q, status)]
  ELSE m

Fault(status) ==
  /\ status # "Success" => faults < MaxFaults
  /\ faults' = faults + (IF status = "Success" THEN 0 ELSE 1)
FirstOf(queue) == 1 .. Min({Window, Len(queue)})
Without(queue, i) == SubSeq(queue, 1, i - 1) \o SubSeq(queue, i + 1, Len(queue))

Answered(kinds, types, Handle(_, _, _)) ==
  \E i \in FirstOf(aecp), status \in {"Success"} \cup AemStatuses \cup MvuStatuses :
    LET q == aecp[i]
    IN /\ q.key.kind \in kinds /\ q.key.node.type \in types
       /\ status = "Success"
          \/ status \in IF q.key.kind \in MvuKinds \cup {"MilanInfo"} THEN MvuStatuses ELSE AemStatuses
       /\ Fault(status)
       /\ Becomes(Accept([Machine EXCEPT !.aecp = Without(@, i)], q, status, Handle))
AcmpAnswered(kinds, Handle(_, _, _)) ==
  \E i \in FirstOf(acmp), status \in {"Success"} \cup ControlStatuses :
    /\ acmp[i].key.kind \in kinds
    /\ Fault(status)
    /\ Becomes(Accept([Machine EXCEPT !.acmp = Without(@, i)], acmp[i], status, Handle))

Types == {n.type : n \in Nodes}
Described(types, Handle(_, _, _)) == Answered(StaticKinds, types, Handle)
Informed(kinds, Handle(_, _, _)) == Answered(kinds, Types, Handle)

OnGetMilanInfoResult == Informed({"MilanInfo"}, MilanInfoResult)
OnEmptyGetDynamicInfoResult == Informed({"CheckDynamicInfoSupported"}, CheckDynamicInfoSupportedResult)
OnGetDynamicInfoResult == Informed({"Packed"}, GetDynamicInfoResult)
OnRegisterUnsolicitedNotificationsResult == Informed({"RegisterUnsol"}, RegisterUnsolResult)
OnEntityDescriptorResult == Described({"Entity"}, EntityDescriptorResult)
OnConfigurationDescriptorResult == Described({"Configuration"}, ConfigurationDescriptorResult)
OnAudioUnitDescriptorResult == Described({"AudioUnit"}, AudioUnitDescriptorResult)
OnStreamDescriptorResult == Described({"StreamInput", "StreamOutput"}, ChildlessDescriptorResult)
OnJackDescriptorResult == Described({"JackInput", "JackOutput"}, JackDescriptorResult)
OnAvbInterfaceDescriptorResult ==
  \/ Described({"AvbInterface"}, ChildlessDescriptorResult)
  \/ Informed({"AvbInterfaceDescriptor"}, DescriptorDynamicInfoResult)
OnClockSourceDescriptorResult ==
  \/ Described({"ClockSource"}, ChildlessDescriptorResult)
  \/ Informed({"ClockSourceDescriptor"}, DescriptorDynamicInfoResult)
OnMemoryObjectDescriptorResult == Described({"MemoryObject"}, ChildlessDescriptorResult)
OnLocaleDescriptorResult == Described({"Locale"}, LocaleDescriptorResult)
OnStringsDescriptorResult == Described({"Strings"}, ChildlessDescriptorResult)
OnStreamPortDescriptorResult ==
  Described({"StreamPortInput", "StreamPortOutput"}, StreamPortDescriptorResult)
OnAudioClusterOrMapDescriptorResult == Described({"AudioCluster", "AudioMap"}, ChildlessDescriptorResult)
OnControlDescriptorResult == Described({"Control"}, ChildlessDescriptorResult)
OnClockDomainOrTimingDescriptorResult == Described({"ClockDomain", "Timing"}, ChildlessDescriptorResult)
OnPtpInstanceDescriptorResult == Described({"PtpInstance"}, PtpInstanceDescriptorResult)
OnPtpPortDescriptorResult == Described({"PtpPort"}, ChildlessDescriptorResult)

OnGetStreamInfoResult == Informed({"InputStreamInfo", "OutputStreamInfo"}, AecpDynamicInfoResult)
OnGetAcquiredOrLockedStateResult == Informed({"AcquiredState", "LockedState"}, AecpDynamicInfoResult)
OnGetStreamPortAudioMapResult ==
  Informed({"InputStreamPortAudioMappings", "OutputStreamPortAudioMappings"}, AudioMapResult)
OnGetAvbInfoOrAsPathResult == Informed({"GetAvbInfo", "GetAsPath"}, AecpDynamicInfoResult)
OnGetEntityOrInterfaceCountersResult ==
  Informed({"GetEntityCounters", "GetAvbInterfaceCounters", "GetClockDomainCounters"},
           AecpDynamicInfoResult)
OnGetStreamCountersResult ==
  Informed({"GetStreamInputCounters", "GetStreamOutputCounters"}, AecpDynamicInfoResult)
OnGetMaxTransitTimeResult == Informed({"GetMaxTransitTime"}, AecpDynamicInfoResult)
OnMvuDynamicInfoResult == Informed(MvuKinds, MvuDynamicInfoResult)
OnGetTalkerStreamStateResult == AcmpAnswered({"OutputStreamState"}, TalkerStreamStateResult)
OnGetListenerStreamStateResult == AcmpAnswered({"InputStreamState"}, AcmpDynamicInfoResult)
OnGetTalkerStreamConnectionResult == AcmpAnswered({"OutputStreamConnection"}, AcmpDynamicInfoResult)

OnConfigurationNameResult == Informed({"ConfigurationName"}, DescriptorDynamicInfoResult)
OnAudioUnitInfoResult ==
  Informed({"AudioUnitName", "AudioUnitSamplingRate"}, DescriptorDynamicInfoResult)
OnStreamNameOrFormatResult ==
  Informed({"InputStreamName", "InputStreamFormat", "OutputStreamName", "OutputStreamFormat"},
           DescriptorDynamicInfoResult)
OnJackNameResult == Informed({"InputJackName", "OutputJackName"}, DescriptorDynamicInfoResult)
OnMemoryObjectInfoResult ==
  Informed({"MemoryObjectName", "MemoryObjectLength"}, DescriptorDynamicInfoResult)
OnAudioClusterNameResult == Informed({"AudioClusterName"}, DescriptorDynamicInfoResult)
OnControlInfoResult == Informed({"ControlName", "ControlValues"}, DescriptorDynamicInfoResult)
OnClockDomainInfoResult ==
  Informed({"ClockDomainName", "ClockDomainSourceIndex"}, DescriptorDynamicInfoResult)
OnTimingOrPtpNameResult ==
  Informed({"TimingName", "PtpInstanceName", "PtpPortName"}, DescriptorDynamicInfoResult)

ModelResult ==
  \/ OnEntityDescriptorResult \/ OnConfigurationDescriptorResult \/ OnAudioUnitDescriptorResult
  \/ OnStreamDescriptorResult \/ OnJackDescriptorResult \/ OnAvbInterfaceDescriptorResult
  \/ OnClockSourceDescriptorResult \/ OnMemoryObjectDescriptorResult \/ OnLocaleDescriptorResult
  \/ OnStringsDescriptorResult \/ OnStreamPortDescriptorResult \/ OnAudioClusterOrMapDescriptorResult
  \/ OnControlDescriptorResult \/ OnClockDomainOrTimingDescriptorResult
  \/ OnPtpInstanceDescriptorResult \/ OnPtpPortDescriptorResult
InformationResult ==
  \/ OnGetStreamInfoResult \/ OnGetAcquiredOrLockedStateResult \/ OnGetStreamPortAudioMapResult
  \/ OnGetAvbInfoOrAsPathResult \/ OnGetEntityOrInterfaceCountersResult \/ OnGetStreamCountersResult
  \/ OnGetMaxTransitTimeResult \/ OnMvuDynamicInfoResult \/ OnGetTalkerStreamStateResult
  \/ OnGetListenerStreamStateResult \/ OnGetTalkerStreamConnectionResult
  \/ OnConfigurationNameResult \/ OnAudioUnitInfoResult \/ OnStreamNameOrFormatResult
  \/ OnJackNameResult \/ OnMemoryObjectInfoResult \/ OnAudioClusterNameResult
  \/ OnControlInfoResult \/ OnClockDomainInfoResult \/ OnTimingOrPtpNameResult
Result ==
  \/ OnGetMilanInfoResult \/ OnEmptyGetDynamicInfoResult \/ OnGetDynamicInfoResult
  \/ OnRegisterUnsolicitedNotificationsResult \/ ModelResult \/ InformationResult
Next ==
  \/ OnEntityOnline \/ OnEntityOffline \/ OnEntityOfflineOnline \/ SendDelayedQuery
  \/ Result

\* The command state machine answers every query, the thread of the controller
\* sends those that are due.
Spec == Init /\ [][Next]_vars
FairSpec == Spec /\ WF_vars(Result) /\ WF_vars(SendDelayedQuery)

-----------------------------------------------------------------------------
(* Properties                                                                *)

\* The descriptors the model lacks although their parent counts them.
Lacking(nodes) ==
  {c \in UNION {Children[n] : n \in {x \in nodes : x.type # "Locale" /\ (x.conf = Current \/ Full)}} :
     c \notin nodes}
Wanted(e) == {k \in DynamicKeys(e) : k.kind # "AcquiredState"}

\* The model of an entity that observers are told of is whole: the descriptors
\* its configurations, units and ports count were read, or given up; after a
\* fault, the cached model may lack them too (see CachedModelWhole).  And no dynamic
\* information is outstanding, whatever was retried, packed or fell back.
AdvertisedWhole ==
  entity.advertised =>
    /\ \A n \in Lacking(entity.nodes) :
         DescriptorKey(n) \in entity.resolved \/ (faults # 0 /\ cache # None /\ n \notin cache)
    /\ ~Expects([e |-> entity], DynamicKinds \cup DescriptorDynamicKinds \cup {"Packed"})

\* When observers are told of an entity it was asked, since it came online, for
\* every dynamic information its model calls for, or for the descriptor that
\* holds it, or else its whole model was asked for again.  It does not hold of a
\* controller that packs queries and caches models: see the README.
InformedOf(e) ==
  /\ Wanted(e) \subseteq e.resolved
  /\ \A k \in DescriptorDynamicKeys(e) :
       k \in e.resolved \/ DescriptorKey(k.node) \in e.resolved \cup e.expected \/ e.ignoreCache
AdvertisedInformed ==
  [][entity'.advertised /\ ~entity.advertised /\ ~(Packed /\ Cached) => InformedOf(entity')]_vars

\* The assertions of the enumeration hold.
NoAssertionFails == failed = {}

\* "we trust both the AEM loader and the enumeration state machine to give us a
\* valid model": a cached model lacks nothing.
CachedModelWhole == cache # None => Lacking(cache) = {}

\* An enumeration ends, whatever is late, missing or refused: the entity is
\* advertised, or given up, or goes away.  The code does not keep it: a
\* configuration other than the first that is asked again.
EnumerationEnds ==
  entity.online ~> (entity.advertised \/ entity.fatal \/ ~entity.online)

\* Where it stops for ever: what is expected is configuration 0 under the index
\* of the configuration that was asked again, the key of no answer.
Misread == \E k \in entity.expected : k.node.type = "Configuration" /\ k.node.index # 0

\* Every other enumeration ends.
EnumerationEndsUnlessMisread ==
  entity.online ~> (entity.advertised \/ entity.fatal \/ ~entity.online \/ Misread)
=============================================================================
