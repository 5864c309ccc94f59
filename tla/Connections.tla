------------------------------ MODULE Connections ------------------------------
(***************************************************************************)
(* What the controller keeps about one entity and takes from another       *)
(* (src/controller): the listeners of a talker's stream, the chain of a    *)
(* media clock, the talker's cluster that feeds a listener's one, and the   *)
(* streams whose latency is over the presentation time of their talker.    *)
(* None of it is read from a device: it is kept up to date while streams   *)
(* connect, clocks and mappings change, and entities come and leave.       *)
(*                                                                         *)
(* All handlers run on the network's thread with the lock of the entities, *)
(* one after the other.  An entity has one clock domain, and one stream    *)
(* port each way; no stream is one of a redundant pair.  A stream is       *)
(* <<entity, index>>.                                                      *)
(***************************************************************************)
EXTENDS Naturals, Sequences, FiniteSets, FiniteSetsExt

CONSTANTS
  Entities,
  Inputs, Outputs,  \* the indices of an entity's streams
  Channels,         \* the channels of a stream
  Clusters,         \* clusters of a stream port, of one channel
  None, Internal,   \* no value; a clock source that is not a stream
  Settings          \* what a behaviour explores: records [entities, listeners, events]

Sinks == Entities \X Inputs
Sources == Entities \X Outputs

ASSUME ConstantsAssumption ==
  /\ IsFiniteSet(Entities) /\ Internal \notin Inputs
  /\ None \notin Entities \cup Inputs \cup Clusters
  /\ None \notin Sources \cup (Entities \X {None}) \cup (Inputs \X Channels)
  /\ None \notin [sink : Sinks, talker : Sources, connected : BOOLEAN]
  /\ \A s \in Settings : s.entities \subseteq Entities /\ s.listeners \subseteq s.entities

VARIABLES
  setting,
  entities,   \* the ControlledEntityImpl of each
  expected,   \* the result that follows a talker's one in a connection, or None
  legacy,     \* inputs that were seen fast connecting since their entity came
  strays,     \* <<source, sink>> a talker knows, though sink left it while it was enumerated
  outdated,   \* entities whose mappings were replaced, or taken from a talker that left early
  failed      \* assertions that failed

vars == <<setting, entities, expected, legacy, strays, outdated, failed>>

NotConnected == [state |-> "NotConnected", talker |-> None]
Unmapped == [from |-> None, talker |-> None, cluster |-> None]

\* A ControlledEntityImpl: what was read from the device (or is a default until then),
\* and what is taken from others.
Created(status) ==
  [status |-> status,
   sink |-> [i \in Inputs |-> NotConnected], clock |-> Internal,
   latency |-> [i \in Inputs |-> 0], offset |-> [o \in Outputs |-> 0],
   inputMap |-> [k \in Clusters |-> None],
   outputMap |-> [s \in Outputs \X Channels |-> None],
   listeners |-> [o \in Outputs |-> {}], chain |-> <<>>, over |-> {},
   fed |-> [k \in {} |-> Unmapped]]

Advertised(es) == {e \in Entities : es[e].status = "advertised"}

Init ==
  /\ setting \in Settings
  /\ entities = [e \in Entities |-> Created("offline")]
  /\ expected = None /\ legacy = {} /\ strays = {} /\ outdated = {} /\ failed = {}

-----------------------------------------------------------------------------
(* The chain of a media clock                                                *)

Node(e, output, status, source) ==
  [entity |-> e, output |-> output, status |-> status, source |-> source]

\* One turn of the loop: the node of an entity, and the stream it takes its clock from.
Visited(es, online, w) ==
  LET e == w.next[1]
      Ends(status, source) ==
        [chain |-> Append(w.chain, Node(e, w.next[2], status, source)), next |-> None]
  IN IF \E n \in DOMAIN w.chain : w.chain[n].entity = e THEN Ends("Recursive", None)
     ELSE IF e \notin online THEN Ends("EntityOffline", None)
     ELSE LET clock == es[e].clock IN
          IF clock = Internal THEN Ends("Active", Internal)
          ELSE IF es[e].sink[clock].state # "Connected" THEN Ends("StreamNotConnected", clock)
          ELSE [Ends("Active", clock) EXCEPT !.next = es[e].sink[clock].talker]

\* computeAndUpdateMediaClockChain: an entity is visited once.
Chain(es, online, chain, next) ==
  LET walk[n \in 0 .. Cardinality(Entities) + 1] ==
        IF n = 0 THEN [chain |-> chain, next |-> next]
        ELSE IF walk[n - 1].next = None THEN walk[n - 1]
        ELSE Visited(es, online, walk[n - 1])
  IN walk[Cardinality(Entities) + 1].chain

WholeChain(es, online, e) == Chain(es, online, <<>>, <<e, None>>)

\* The chain from its first node among those given on.
ContinuedFrom(es, online, chain, nodes) ==
  IF nodes = {} THEN chain
  ELSE LET n == Min(nodes)
       IN Chain(es, online, SubSeq(chain, 1, n - 1), <<chain[n].entity, chain[n].output>>)

\* The nodes that are about an entity; those of a clock taken from an input; the last
\* one, when it waits for a listener's input or for an entity.
NodesOf(chain, e) == {n \in DOMAIN chain : chain[n].entity = e}
NodesThrough_ItsOwn(chain, sink) ==
  {n \in NodesOf(chain, sink[1]) : n = 1 /\ chain[n].status = "Active" /\ chain[n].source = sink[2]}
NodesThrough(chain, sink) ==
  {n \in NodesOf(chain, sink[1]) : chain[n].status = "Active" /\ chain[n].source = sink[2]}
LastNode(chain, e, status) ==
  {n \in NodesOf(chain, e) : n = Len(chain) /\ chain[n].status = status}

-----------------------------------------------------------------------------
(* The cluster that feeds a cluster                                          *)

\* getMappingForStreamChannelIdentification; the cluster stays when there is none.
\* computeAndUpdateChannelConnectionFromStreamIdentification: a talker that is being
\* enumerated counts.
FedByStream(es, f, talker) ==
  IF f.talker = talker THEN f
  ELSE IF talker = None THEN [f EXCEPT !.talker = None, !.cluster = None]
  ELSE LET cluster == IF f.from = None \/ es[talker[1]].status = "offline" THEN None
                      ELSE es[talker[1]].outputMap[<<talker[2], f.from[2]>>]
       IN [f EXCEPT !.talker = talker, !.cluster = IF cluster = None THEN @ ELSE cluster]

\* computeAndUpdateChannelConnectionFromListenerMapping.
FedByMapping(es, e, f, mapping) ==
  IF f.from = mapping THEN f
  ELSE IF mapping = None THEN Unmapped
  ELSE FedByStream(es, [f EXCEPT !.from = mapping], es[e].sink[mapping[1]].talker)

\* computeAndUpdateChannelConnectionsFromTalkerMappings, one mapping.
FedByTalker(f, talker, channel, cluster) ==
  IF f.talker = talker /\ f.from # None /\ f.from[2] = channel
  THEN [f EXCEPT !.cluster = cluster] ELSE f

\* A talker that comes, a talker that left.
FedByEntity(es, f, t) ==
  IF f.talker = None \/ f.talker[1] # t \/ f.from = None THEN f
  ELSE LET cluster == es[t].outputMap[<<f.talker[2], f.from[2]>>]
       IN IF cluster = None THEN f ELSE [f EXCEPT !.cluster = cluster]
FedByNobody_StaysFed(f, t) == f
FedByNobody(f, t) ==
  IF f.talker # None /\ f.talker[1] = t THEN [f EXCEPT !.cluster = None] ELSE f

-----------------------------------------------------------------------------
(* Connections                                                               *)

IsOver(es, latency, talker) == latency > es[talker[1]].offset[talker[2]]

\* The connections of a talker that is advertised.
TalkerTold_OnlyConnections(es, talker, sink, connected) ==
  IF talker = None \/ es[talker[1]].status # "advertised" \/ ~connected THEN es
  ELSE [es EXCEPT ![talker[1]].listeners[talker[2]] = @ \cup {sink}]
TalkerTold(es, talker, sink, connected) ==
  IF talker = None \/ es[talker[1]].status # "advertised" THEN es
  ELSE [es EXCEPT ![talker[1]].listeners[talker[2]] =
                    IF connected THEN @ \cup {sink} ELSE @ \ {sink}]

ConnectionInfo(talker, connected, fast) ==
  IF talker # None /\ (connected \/ fast)
  THEN [state |-> IF connected THEN "Connected" ELSE "FastConnecting", talker |-> talker]
  ELSE NotConnected

\* A stream that is not connected is over no latency.
LatencyReset(over, i, info) == IF info.state = "Connected" THEN over ELSE over \ {i}

Connecting(was, info) == info.state = "Connected" /\ was.state = "NotConnected"
Disconnecting(was, info) == info.state = "NotConnected" /\ was.state = "Connected"
Moving(was, info) == info.state = "Connected" /\ was.state = "Connected" /\ was.talker # info.talker

\* What a listener's new connection changes: the nodes from which a chain is updated, and
\* a cluster that takes one of the stream's channels.
NodesReconnected(chain, sink, was, info) ==
  IF Connecting(was, info) THEN LastNode(chain, sink[1], "StreamNotConnected")
  ELSE IF Disconnecting(was, info) \/ Moving(was, info) THEN NodesThrough(chain, sink)
  ELSE {}
FedReconnected(es, f, i, was, info) ==
  IF f.from = None \/ f.from[1] # i THEN f
  ELSE LET g == IF Disconnecting(was, info) \/ Moving(was, info) THEN FedByStream(es, f, None) ELSE f
       IN IF Connecting(was, info) \/ Moving(was, info) THEN FedByStream(es, g, info.talker) ELSE g

\* ... when it is advertised.
ConnectionApplied(es, sink, was, info) ==
  LET moved == was.talker # info.talker
      es1 == IF moved THEN TalkerTold(es, was.talker, sink, FALSE) ELSE es
      es2 == IF moved /\ info.state = "Connected" THEN TalkerTold(es1, info.talker, sink, TRUE) ELSE es1
      online == Advertised(es2)
      es3 == [x \in Entities |->
                IF x \in online
                THEN [es2[x] EXCEPT !.chain =
                        ContinuedFrom(es2, online, @, NodesReconnected(@, sink, was, info))]
                ELSE es2[x]]
  IN [es3 EXCEPT ![sink[1]].fed = [k \in DOMAIN @ |-> FedReconnected(es3, @[k], sink[2], was, info)],
                 ![sink[1]].over = LatencyReset(@, sink[2], info)]

\* handleListenerStreamStateNotification.
ListenerNotified(es, sink, talker, connected, fast) ==
  LET e == sink[1]
      was == es[e].sink[sink[2]]
      info == ConnectionInfo(talker, connected, fast)
      es1 == [es EXCEPT ![e].sink[sink[2]] = info]
  IN IF es[e].status = "offline" THEN es
     ELSE IF es[e].status = "advertised" /\ was # info THEN ConnectionApplied(es1, sink, was, info)
     ELSE es1

\* handleTalkerStreamStateNotification.
TalkerNotified(es, talker, sink, connected, fast) ==
  TalkerTold(IF fast THEN ListenerNotified(es, sink, talker, connected, TRUE) ELSE es,
             talker, sink, connected)

\* The assertion on transitions of a connection.
Supported(was, info) ==
  \/ "FastConnecting" \in {was.state, info.state}
  \/ {was.state, info.state} = {"NotConnected", "Connected"}
  \/ was.state = "Connected" /\ info.state = "Connected" /\ was.talker # info.talker

-----------------------------------------------------------------------------
(* Entities that come and leave                                              *)

\* onPreAdvertiseEntity.
\* ... the entity's own state: its talkers, its latencies, its chain, its clusters,
ListenerComes(es, e) ==
  LET c == es[e]
      Known(i) == /\ c.sink[i].state = "Connected" /\ c.sink[i].talker[1] # e
                  /\ es[c.sink[i].talker[1]].status = "advertised"
  IN [x \in Entities |->
        IF x = e
        THEN [c EXCEPT !.over = {i \in Inputs : Known(i) /\ IsOver(es, c.latency[i], c.sink[i].talker)},
                       !.chain = WholeChain(es, Advertised(es) \cup {e}, e),
                       !.fed = [k \in Clusters |-> FedByMapping(es, e, Unmapped, c.inputMap[k])]]
        ELSE [es[x] EXCEPT !.listeners =
                [o \in Outputs |-> @[o] \cup
                   {<<e, i>> : i \in {j \in Inputs : Known(j) /\ c.sink[j].talker = <<x, o>>}}]]]

\* ... and that of those that were advertised before.
TalkerComes(es, e) ==
  LET others == Advertised(es) \ {e}
      To(x, o) == {i \in Inputs : es[x].sink[i] = [state |-> "Connected", talker |-> <<e, o>>]}
  IN [x \in Entities |->
        IF x = e
        THEN [es[e] EXCEPT !.listeners =
                [o \in Outputs |-> @[o] \cup UNION {{<<y, i>> : i \in To(y, o)} : y \in others}]]
        ELSE IF x \in others
        THEN [es[x] EXCEPT
                !.over = (@ \ UNION {To(x, o) : o \in Outputs}) \cup
                         {i \in UNION {To(x, o) : o \in Outputs} :
                            IsOver(es, es[x].latency[i], es[x].sink[i].talker)},
                !.chain = ContinuedFrom(es, others \cup {e}, @, LastNode(@, e, "EntityOffline")),
                !.fed = [k \in DOMAIN @ |-> FedByEntity(es, @[k], e)]]
        ELSE es[x]]

PreAdvertised(es, e) == [TalkerComes(ListenerComes(es, e), e) EXCEPT ![e].status = "advertised"]

\* The assertion that an entity that comes was offline in every chain that ends on it.
NewlyDiscovered(es, e) ==
  \A x \in Advertised(es) \ {e} :
    LET chain == es[x].chain IN chain[Len(chain)].entity = e => chain[Len(chain)].status = "EntityOffline"

\* onPreUnadvertiseEntity, once the entity is out of the list.
PreUnadvertised(es, e) ==
  LET online == Advertised(es) \ {e}
      left == {i \in Inputs : es[e].sink[i].state = "Connected"}
      Left(x) ==
        [es[x] EXCEPT
           !.listeners = [o \in Outputs |->
              @[o] \ {<<e, i>> : i \in {j \in left : es[e].sink[j].talker = <<x, o>>}}],
           !.chain = ContinuedFrom(es, online, @, NodesOf(@, e)),
           !.fed = [k \in DOMAIN @ |-> FedByNobody(@[k], e)]]
  IN [x \in Entities |-> IF x \in online THEN Left(x) ELSE es[x]]

-----------------------------------------------------------------------------
(* Actions                                                                   *)

Handles(event) == event \in setting.events

\* Talkers are not told of what a listener does while it is enumerated, nor when it
\* leaves before it answered.
LeftUnknown(e, sinks, talker) ==
  {link \in Sources \X sinks :
     LET source == link[1]
         sink == link[2]
     IN /\ source # talker
        /\ \/ entities[e].status = "enumerating"
           \/ entities[e].sink[sink[2]] # [state |-> "Connected", talker |-> source]
        /\ sink \in entities[source[1]].listeners[source[2]]}

OnEntityOnline(e) ==
  /\ e \in setting.entities /\ entities[e].status = "offline"
  /\ entities' = [entities EXCEPT ![e] = Created("enumerating")]
  /\ UNCHANGED <<setting, expected, legacy, strays, outdated, failed>>

Advertise(e) ==
  /\ entities[e].status = "enumerating"
  /\ entities' = PreAdvertised(entities, e)
  /\ failed' = failed \cup {f \in {"Newly discovered entity should be offline"} :
                              ~NewlyDiscovered(entities, e)}
  /\ UNCHANGED <<setting, expected, legacy, strays, outdated>>

OnEntityOffline(e) ==
  /\ entities[e].status # "offline"
  /\ LET es == IF entities[e].status = "advertised" THEN PreUnadvertised(entities, e) ELSE entities
     IN entities' = [es EXCEPT ![e] = Created("offline")]
  /\ legacy' = {s \in legacy : s[1] # e}
  /\ strays' = strays \cup LeftUnknown(e, {e} \X Inputs, None)
  /\ outdated' = (outdated \ {e}) \cup
       {x \in Entities \ {e} : /\ entities[e].status = "enumerating"
                              /\ \E k \in DOMAIN entities[x].fed : /\ entities[x].fed[k].cluster # None
                                                                    /\ entities[x].fed[k].talker[1] = e}
  /\ expected' = IF expected # None /\ e = expected.sink[1] THEN None ELSE expected
  /\ UNCHANGED <<setting, failed>>

\* A connection's talker answers first, then its listener.
Follows(sink, talker, connected) ==
  expected # None =>
    expected.sink = sink /\ expected.connected = connected /\ (connected => expected.talker = talker)

\* The results and the sniffed responses of a listener, and its notifications.
Listener(sink, talker, connected, fast) ==
  LET was == entities[sink[1]].sink[sink[2]]
      info == ConnectionInfo(talker, connected, fast)
  IN /\ sink[1] \in setting.listeners /\ Follows(sink, talker, connected)
     /\ expected' = None
     /\ entities' = ListenerNotified(entities, sink, talker, connected, fast)
     /\ legacy' = legacy \cup {s \in {sink} : info.state = "FastConnecting"}
     /\ failed' = failed \cup {f \in {"Unsupported connection transition"} :
                                 was # info /\ ~Supported(was, info)}
     /\ strays' = strays \cup LeftUnknown(sink[1], {sink}, info.talker)
     /\ UNCHANGED <<setting, outdated>>
Connect(sink, talker) == Listener(sink, talker, TRUE, FALSE)
Disconnect(sink) ==
  \E talker \in {None, entities[sink[1]].sink[sink[2]].talker} : Listener(sink, talker, FALSE, FALSE)
FastConnect(sink, talker) == Handles("fast connect") /\ Listener(sink, talker, FALSE, TRUE)

\* The sniffed responses of a talker.
Talker(talker, sink, connected, fast) ==
  /\ Handles("talker") /\ sink[1] \in setting.listeners /\ expected = None /\ entities[sink[1]].status # "offline"
  /\ expected' = [sink |-> sink, talker |-> talker, connected |-> connected]
  /\ entities' = TalkerNotified(entities, talker, sink, connected, fast)
  /\ UNCHANGED <<setting, legacy, strays, outdated, failed>>
TalkerConnects(talker, sink) ==
  \E fast \in BOOLEAN : (fast => Handles("fast connect")) /\ Talker(talker, sink, TRUE, fast)
TalkerDisconnects(sink) ==
  LET talker == entities[sink[1]].sink[sink[2]].talker
  IN talker # None /\ Talker(talker, sink, FALSE, FALSE)

Present(e) == e \in setting.entities /\ entities[e].status # "offline"

\* updateClockSource; during the enumeration, the descriptor.
ClockSourceChanged(e, source) ==
  /\ Handles("clock") /\ Present(e)
  /\ LET es == [entities EXCEPT ![e].clock = source]
         online == Advertised(es)
     IN entities' = [x \in Entities |->
          IF x \in online
          THEN [es[x] EXCEPT !.chain = ContinuedFrom(es, online, @, NodesOf(@, e))]
          ELSE es[x]]
  /\ UNCHANGED <<setting, expected, legacy, strays, outdated, failed>>

\* updateStreamInputInfo, when the accumulated latency is valid.
InputInfoChanged(sink, latency) ==
  LET e == sink[1]
      c == entities[e]
      s == c.sink[sink[2]]
      over == /\ s.state = "Connected" /\ entities[s.talker[1]].status = "advertised"
              /\ IsOver(entities, latency, s.talker)
  IN /\ Handles("latency") /\ Present(e)
     /\ entities' = [entities EXCEPT
          ![e].latency[sink[2]] = latency,
          ![e].over = IF c.status # "advertised" THEN @
                      ELSE IF over THEN @ \cup {sink[2]} ELSE @ \ {sink[2]}]
     /\ UNCHANGED <<setting, expected, legacy, strays, outdated, failed>>

\* updateMaxTransitTime.
MaxTransitTimeChanged(source, time) ==
  /\ Handles("latency") /\ Present(source[1])
  /\ entities' = [entities EXCEPT ![source[1]].offset[source[2]] = time]
  /\ UNCHANGED <<setting, expected, legacy, strays, outdated, failed>>

\* updateStreamPortInputAudioMappingsAdded and Removed, one mapping; the connection of
\* a cluster is there once the entity is advertised.
InputMapped(es, e, k, mapping) ==
  LET es1 == [es EXCEPT ![e].inputMap[k] = mapping]
  IN IF k \notin DOMAIN es[e].fed THEN es1
     ELSE [es1 EXCEPT ![e].fed[k] = FedByMapping(es1, e, @, mapping)]
InputMappingChanged(e, k, mapping) ==
  /\ Handles("mappings") /\ Present(e) /\ e \in setting.listeners
  /\ entities' = InputMapped(entities, e, k, mapping)
  /\ outdated' = outdated \cup {x \in {e} : mapping # None /\ entities[e].inputMap[k] \notin {None, mapping}}
  /\ failed' = failed \cup {f \in {"Failed to find ChannelConnection"} : k \notin DOMAIN entities[e].fed}
  /\ UNCHANGED <<setting, expected, legacy, strays>>
InputMappingAdded(e, k, mapping) == InputMappingChanged(e, k, mapping)
InputMappingRemoved(e, k) == entities[e].inputMap[k] # None /\ InputMappingChanged(e, k, None)

\* onStreamPortInputAudioMappingsChanged: all mappings are cleared, one is added.
InputMappingsReplaced(e, k, mapping) ==
  /\ Handles("mappings") /\ Present(e) /\ e \in setting.listeners
  /\ entities' = InputMapped([entities EXCEPT ![e].inputMap = [c \in Clusters |-> None]], e, k, mapping)
  /\ outdated' = outdated \cup {e}
  /\ failed' = failed \cup {f \in {"Failed to find ChannelConnection"} : k \notin DOMAIN entities[e].fed}
  /\ UNCHANGED <<setting, expected, legacy, strays>>

\* updateStreamPortOutputAudioMappingsAdded and Removed.
OutputMappingChanged(talker, channel, cluster) ==
  LET es == [entities EXCEPT ![talker[1]].outputMap[<<talker[2], channel>>] = cluster]
  IN /\ Handles("mappings") /\ Present(talker[1])
     /\ entities' = [x \in Entities |->
          IF x \in Advertised(es) \ {talker[1]}
          THEN [es[x] EXCEPT !.fed = [k \in DOMAIN @ |-> FedByTalker(@[k], talker, channel, cluster)]]
          ELSE es[x]]
     /\ UNCHANGED <<setting, expected, legacy, strays, outdated, failed>>

Next ==
  \/ \E e \in Entities : OnEntityOnline(e) \/ Advertise(e) \/ OnEntityOffline(e)
  \/ \E sink \in Sinks :
       \/ Disconnect(sink) \/ TalkerDisconnects(sink)
       \/ \E talker \in setting.entities \X Outputs :
            Connect(sink, talker) \/ FastConnect(sink, talker) \/ TalkerConnects(talker, sink)
       \/ \E latency \in 0 .. 1 : InputInfoChanged(sink, latency)
  \/ \E e \in Entities, source \in Inputs \cup {Internal} : ClockSourceChanged(e, source)
  \/ \E talker \in Sources :
       \/ \E time \in 0 .. 1 : MaxTransitTimeChanged(talker, time)
       \/ \E channel \in Channels, cluster \in Clusters \cup {None} :
            OutputMappingChanged(talker, channel, cluster)
  \/ \E e \in Entities, k \in Clusters :
       \/ InputMappingRemoved(e, k)
       \/ \E mapping \in Inputs \X Channels :
            InputMappingAdded(e, k, mapping) \/ InputMappingsReplaced(e, k, mapping)

Spec == Init /\ [][Next]_vars

-----------------------------------------------------------------------------
(* Properties                                                                *)

\* onPreAdvertiseEntity wants "an accurate list of connections, based on the known
\* listeners": whatever came first, an advertised talker knows the advertised listeners
\* that are connected to it, and no other (the connection of an entity to itself, one that was
\* seen fast connecting, and a listener that left the talker unknown to it, excepted).  And
\* "Reset Error if stream is not connected" (avdeccControllerImpl.cpp:7401): only a stream
\* that is connected is over its latency, whatever ended the connection.
TalkersKnowTheirListeners ==
  /\ expected = None =>
       \A source \in Sources :
         LET t == source[1] IN
         entities[t].status = "advertised" =>
           \A sink \in Sinks \ legacy :
             sink[1] # t /\ entities[sink[1]].status = "advertised" /\ <<source, sink>> \notin strays =>
               (sink \in entities[t].listeners[source[2]]) =
                 (entities[sink[1]].sink[sink[2]] = [state |-> "Connected", talker |-> source])
  /\ \A e \in Entities : \A i \in entities[e].over :
       entities[e].sink[i].state = "Connected" /\ entities[e].status = "advertised"

\* The chain of an advertised entity, which is updated from the node that changed on, is
\* the one that would be computed from nothing (unless it goes through an input that was
\* seen fast connecting, for which nothing is done).  And the assertions on chains and
\* transitions hold: "Newly discovered entity should be offline", "Chain should not be
\* empty", "Unsupported connection transition".
ChainsAreCurrent ==
  /\ \A e \in Advertised(entities) :
       LET chain == entities[e].chain IN
       (\A n \in DOMAIN chain : <<chain[n].entity, chain[n].source>> \notin legacy) =>
         chain = WholeChain(entities, Advertised(entities), e)
  /\ failed \subseteq {"Failed to find ChannelConnection"}

\* A cluster of an advertised listener is said to be fed by the cluster that the talker
\* maps to the channel it takes, when that talker is advertised, and by none when it is
\* offline or the stream is not connected (clusters that are outdated, and inputs that
\* were seen fast connecting, excepted).
ClustersAreCurrent ==
  \A e \in Advertised(entities) \ outdated : \A k \in Clusters :
    LET c == entities[e]
        mapping == c.inputMap[k]
        talker == c.sink[mapping[1]].talker
    IN IF mapping = None THEN c.fed[k] = Unmapped
       ELSE <<e, mapping[1]>> \notin legacy =>
         /\ c.fed[k].from = mapping /\ c.fed[k].talker = talker
         /\ talker = None \/ entities[talker[1]].status = "offline" => c.fed[k].cluster = None
         /\ talker # None /\ talker[1] # e /\ entities[talker[1]].status = "advertised" =>
              c.fed[k].cluster = entities[talker[1]].outputMap[<<talker[2], mapping[2]>>]

=============================================================================
