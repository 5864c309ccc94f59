------------------------------ MODULE Discovery ------------------------------
(***************************************************************************)
(* The discovery state machine of a protocol interface                     *)
(* (src/stateMachine/discoveryStateMachine.cpp), with the parts of the     *)
(* Manager it uses and the observers it tells: what an observer keeps is   *)
(* what CapabilityDelegate keeps (src/entity/controllerCapabilityDelegate).*)
(*                                                                         *)
(* A method holds the lock of the Manager and is one action.  Three things *)
(* are not atomic: a message is compared with the local entities before the*)
(* lock is taken, an observer is in the list before it is told what is     *)
(* known, and the local and the remote entities are told separately.       *)
(*                                                                         *)
(* Time is abstract: a timeout that is armed may expire at any moment.  The*)
(* network loses, repeats, delays and reorders messages.                   *)
(***************************************************************************)
EXTENDS Naturals, FiniteSets, FiniteSetsExt

CONSTANTS
  Entities,      \* entity IDs on the network
  LocalIDs,      \* those the local entities of this process may take
  Interfaces,    \* AvbInterfaceIndex
  Models,        \* common fields that never change: model, streams, capabilities
  Commons,       \* common fields that may: entityCapabilities, associationID
  Clocks,        \* gptpGrandmasterID and gptpDomainNumber of an interface
  Macs,          \* MAC addresses
  Observers,     \* capability delegates
  None,
  MaxIndex,      \* bound: availableIndex of a device, 2^32 in the code
  MaxRestarts    \* bound: restarts of a device

ASSUME ConstantsAssumption ==
  /\ LocalIDs \subseteq Entities
  /\ Models # {} /\ Commons # {} /\ Clocks # {} /\ Macs # {}
  /\ Interfaces \subseteq Nat /\ Interfaces # {} /\ IsFiniteSet(Interfaces)
  /\ MaxIndex \in Nat /\ MaxRestarts \in Nat
  /\ None \notin Entities

VARIABLES
  localEntities,  \* Manager::_localEntities
  discovered,     \* DiscoveredEntityInfo::entity, None when not in the map
  timeouts,       \* DiscoveredEntityInfo::timeouts
  receiver,       \* the ADPDU the executor's thread has compared with the locals
  stage,          \* how far the registration of an observer is
  view,           \* CapabilityDelegate::_discoveredEntities of an observer
  \* The environment:
  device,         \* who announces an ID on the network: is it on, what it announces
  \* What the properties need to know:
  failed,         \* assertions of CapabilityDelegate that failed
  doubled         \* the entities that were local and remote at once, until they are neither

vars == <<localEntities, discovered, timeouts, receiver, stage, view, device, failed, doubled>>

InterfaceInformation == [mac: Macs, index: 0 .. MaxIndex, clock: Clocks]
Entity == [model: Models, common: Commons,
           interfaces: [Interfaces -> InterfaceInformation \cup {None}]]
Available == [entity: Entities, model: Models, common: Commons,
              interface: Interfaces, info: InterfaceInformation]
View == [entity: Entity, main: Interfaces, session: BOOLEAN]
NoDevice == [on |-> FALSE, model |-> CHOOSE m \in Models : TRUE, index |-> 0, restarts |-> 0]
Assertions == {"Entity already online", "Entity not found"}

ASSUME NoneIsApart ==
  /\ None \notin Entity \cup View \cup InterfaceInformation
  /\ None \notin [kind: {"available"}, adpdu: Available] \cup [kind: {"departing"}, adpdu: Entities]

TypeOK ==
  /\ localEntities \in SUBSET LocalIDs
  /\ discovered \in [Entities -> Entity \cup {None}]
  /\ timeouts \in [Entities -> [Interfaces -> {"none", "armed", "expired"}]]
  /\ receiver \in ([kind: {"available"}, adpdu: Available]
                   \cup [kind: {"departing"}, adpdu: Entities] \cup {None})
  /\ stage \in [Observers -> {"none", "locals", "remotes", "registered"}]
  /\ view \in [Observers -> [Entities -> View \cup {None}]]
  /\ device \in [Entities -> [on: BOOLEAN, model: Models, index: 0 .. MaxIndex,
                              restarts: 0 .. MaxRestarts]]
  /\ failed \in SUBSET Assertions
  /\ doubled \in SUBSET Entities

NoTimeouts == [i \in Interfaces |-> "none"]

Init ==
  /\ localEntities = {}
  /\ discovered = [e \in Entities |-> None]
  /\ timeouts = [e \in Entities |-> NoTimeouts]
  /\ receiver = None
  /\ stage = [o \in Observers |-> "none"]
  /\ view = [o \in Observers |-> [e \in Entities |-> None]]
  /\ device = [e \in Entities |-> NoDevice]
  /\ failed = {}
  /\ doubled = {}

Known(e) == discovered[e] # None
Listed(o) == stage[o] # "none"
\* A remote entity and a local one of the same ID are two to the code: whoever is told of
\* one of them is told of the other under the same ID.
Doubles ==
  doubled' = {e \in Entities : \/ e \in localEntities' /\ discovered'[e] # None
                               \/ e \in doubled /\ (e \in localEntities' \/ discovered'[e] # None)}
InterfacesOf(entity) == {i \in Interfaces : entity.interfaces[i] # None}

\* What an observer can tell of an entity: availableIndex serves discovery alone.
Visible(entity) ==
  [entity EXCEPT !.interfaces = [i \in Interfaces |->
     IF entity.interfaces[i] = None THEN None
     ELSE [mac |-> entity.interfaces[i].mac, clock |-> entity.interfaces[i].clock]]]

-----------------------------------------------------------------------------
(* The observers: what onRemoteEntityOnline, Offline and Updated do to what  *)
(* one of them, v, knows of an entity                                        *)

MainInterfaceIndex(entity) == Min(InterfacesOf(entity))

\* `session' tells one stay online from the next.
ToldOnline(v, entity) ==
  [entity |-> entity, main |-> MainInterfaceIndex(entity), session |-> v # None /\ v.session]
ToldOffline(v) == None
ToldOfflineOnline(v, entity) ==
  [ToldOnline(ToldOffline(v), entity) EXCEPT !.session = v # None /\ ~v.session]
ToldUpdated_KeepsMain(v, entity) ==
  IF v = None THEN ToldOnline(v, entity) ELSE [v EXCEPT !.entity = entity]
ToldUpdated(v, entity) ==
  IF v = None THEN ToldOnline(v, entity)
  ELSE IF v.main \in InterfacesOf(entity) THEN [v EXCEPT !.entity = entity]
  ELSE ToldOfflineOnline(v, entity)

\* Every observer in the list, and the assertions that fail in one of them.
NotifyOnline(e, entity) ==
  /\ view' = [o \in Observers |-> IF Listed(o)
                THEN [view[o] EXCEPT ![e] = ToldOnline(@, entity)] ELSE view[o]]
  /\ failed' = failed \cup {a \in {"Entity already online"} :
                              \E o \in Observers : Listed(o) /\ view[o][e] # None}
NotifyOffline(e) ==
  view' = [o \in Observers |-> IF Listed(o)
             THEN [view[o] EXCEPT ![e] = ToldOffline(@)] ELSE view[o]]
NotifyOfflineOnline(e, entity) ==
  view' = [o \in Observers |-> IF Listed(o)
             THEN [view[o] EXCEPT ![e] = ToldOfflineOnline(@, entity)] ELSE view[o]]
NotifyUpdated(e, entity) ==
  /\ view' = [o \in Observers |-> IF Listed(o)
                THEN [view[o] EXCEPT ![e] = ToldUpdated(@, entity)] ELSE view[o]]
  /\ failed' = failed \cup {a \in {"Entity not found"} :
                              \E o \in Observers : Listed(o) /\ view[o][e] = None}

-----------------------------------------------------------------------------
(* Messages                                                                  *)

\* makeEntity: what one ADPDU says of an entity.
MakeEntity(m) ==
  [model |-> m.model, common |-> m.common,
   interfaces |-> [i \in Interfaces |-> IF i = m.interface THEN m.info ELSE None]]

\* updateEntity: the action to perform, and the entity that results.
UpdateEntity_TrustsIndex(entity, m) ==
  LET old == entity.interfaces[m.interface]
      merged == [entity EXCEPT !.common = m.common, !.interfaces[m.interface] = m.info]
  IN IF entity.model # m.model \/ (old # None /\ old.mac # m.info.mac)
     THEN [action |-> "NotifyOfflineOnline", entity |-> MakeEntity(m)]
     ELSE [action |-> IF old = None \/ entity.common # m.common
                      THEN "NotifyUpdate" ELSE "NoNotify",
           entity |-> merged]
UpdateEntity(entity, m) ==
  LET old == entity.interfaces[m.interface]
      merged == [entity EXCEPT !.common = m.common, !.interfaces[m.interface] = m.info]
  IN IF \/ entity.model # m.model
        \/ old # None /\ (old.mac # m.info.mac \/ old.index >= m.info.index)
     THEN [action |-> "NotifyOfflineOnline", entity |-> MakeEntity(m)]
     ELSE [action |-> IF old = None \/ old.clock # m.info.clock \/ entity.common # m.common
                      THEN "NotifyUpdate" ELSE "NoNotify",
           entity |-> merged]

\* The first half of handleAdpEntityAvailable and of handleAdpEntityDeparting:
\* the lock is taken by isLocalEntity and released again.
IsLocalEntity(e) == e \in localEntities
ReceiveAvailable(m) ==
  /\ receiver = None
  /\ ~IsLocalEntity(m.entity)
  /\ receiver' = [kind |-> "available", adpdu |-> m]
  /\ UNCHANGED <<localEntities, discovered, timeouts, stage, view, device, failed, doubled>>
ReceiveDeparting(e) ==
  /\ receiver = None
  /\ ~IsLocalEntity(e)
  /\ receiver' = [kind |-> "departing", adpdu |-> e]
  /\ UNCHANGED <<localEntities, discovered, timeouts, stage, view, device, failed, doubled>>

ArmTimeout_NewEntity(e, i) == [timeouts EXCEPT ![e][i] = IF Known(e) THEN @ ELSE "armed"]
ArmTimeout(e, i) == [timeouts EXCEPT ![e][i] = "armed"]

\* The second half, under the lock.  When the entity is replaced the timeouts of the
\* interfaces it had stay in the map.
HandleAvailable ==
  /\ receiver # None /\ receiver.kind = "available"
  /\ LET m == receiver.adpdu
         e == m.entity
         update == UpdateEntity(discovered[e], m)
         entity == IF Known(e) THEN update.entity ELSE MakeEntity(m)
         action == IF Known(e) THEN update.action ELSE "NotifyOnline"
     IN /\ discovered' = [discovered EXCEPT ![e] = entity]
        /\ timeouts' = ArmTimeout(e, m.interface)
        /\ \/ action = "NotifyOnline" /\ NotifyOnline(e, entity)
           \/ action = "NotifyUpdate" /\ NotifyUpdated(e, entity)
           \/ action = "NotifyOfflineOnline" /\ NotifyOfflineOnline(e, entity) /\ UNCHANGED failed
           \/ action = "NoNotify" /\ UNCHANGED <<view, failed>>
  /\ receiver' = None
  /\ UNCHANGED <<localEntities, stage, device>>
  /\ Doubles

\* forgetRemoteEntity, which an application may also call.
Forget(e) ==
  /\ discovered' = [discovered EXCEPT ![e] = None]
  /\ timeouts' = [timeouts EXCEPT ![e] = NoTimeouts]
  /\ IF Known(e) THEN NotifyOffline(e) ELSE UNCHANGED view
  /\ UNCHANGED failed
ForgetRemoteEntity(e) ==
  /\ Known(e)
  /\ Forget(e)
  /\ UNCHANGED <<localEntities, receiver, stage, device>>
  /\ Doubles
HandleDeparting ==
  /\ receiver # None /\ receiver.kind = "departing"
  /\ Forget(receiver.adpdu)
  /\ receiver' = None
  /\ UNCHANGED <<localEntities, stage, device>>
  /\ Doubles

-----------------------------------------------------------------------------
(* Timeouts                                                                  *)

TimedOut(e) == {i \in Interfaces : timeouts[e][i] = "expired"}
WithoutInterfaces(entity, gone) ==
  [entity EXCEPT !.interfaces = [i \in Interfaces |-> IF i \in gone THEN None ELSE @[i]]]

\* checkRemoteEntitiesTimeoutExpiracy.  An entity is told offline, or updated, if one
\* of its timeouts expired; that interface may be one it no longer has.
Remaining(e) == WithoutInterfaces(discovered[e], TimedOut(e))
Leaves(e) == Known(e) /\ TimedOut(e) # {} /\ InterfacesOf(Remaining(e)) = {}
Shrinks(e) == Known(e) /\ TimedOut(e) # {} /\ ~Leaves(e)

CheckTimeouts ==
  /\ \E e \in Entities : Leaves(e) \/ Shrinks(e)
  /\ discovered' = [e \in Entities |-> IF Leaves(e) THEN None
                      ELSE IF Shrinks(e) THEN Remaining(e) ELSE discovered[e]]
  /\ timeouts' = [e \in Entities |-> IF Leaves(e) THEN NoTimeouts
                    ELSE [i \in Interfaces |-> IF i \in TimedOut(e) THEN "none" ELSE timeouts[e][i]]]
  /\ view' = [o \in Observers |-> [e \in Entities |->
                IF Listed(o) /\ Leaves(e) THEN ToldOffline(view[o][e])
                ELSE IF Listed(o) /\ Shrinks(e) THEN ToldUpdated(view[o][e], Remaining(e))
                ELSE view[o][e]]]
  /\ failed' = failed \cup {a \in {"Entity not found"} :
                 \E o \in Observers, e \in Entities : Listed(o) /\ Shrinks(e) /\ view[o][e] = None}
  /\ UNCHANGED <<localEntities, receiver, stage, device>>
  /\ Doubles

Expire(e, i) ==
  /\ timeouts[e][i] = "armed"
  /\ timeouts' = [timeouts EXCEPT ![e][i] = "expired"]
  /\ UNCHANGED <<localEntities, discovered, receiver, stage, view, device, failed, doubled>>

-----------------------------------------------------------------------------
(* Local entities and observers                                              *)

\* What a local entity says of itself to the observers: one interface.
LocalEntity(e) == MakeEntity(
  [entity |-> e, model |-> device[e].model, common |-> CHOOSE c \in Commons : TRUE,
   interface |-> Min(Interfaces),
   info |-> [mac |-> CHOOSE m \in Macs : TRUE, index |-> 0, clock |-> CHOOSE c \in Clocks : TRUE]])

RegisterLocalEntity(e) ==
  /\ e \in LocalIDs \ localEntities
  /\ localEntities' = localEntities \cup {e}
  /\ NotifyOnline(e, LocalEntity(e))
  /\ UNCHANGED <<discovered, timeouts, receiver, stage, device>>
  /\ Doubles

UnregisterLocalEntity(e) ==
  /\ e \in localEntities
  /\ localEntities' = localEntities \ {e}
  /\ NotifyOffline(e)
  /\ UNCHANGED <<discovered, timeouts, receiver, stage, device, failed>>
  /\ Doubles

\* Subject::registerObserver adds the observer to the list, and then, with no lock
\* held, calls onObserverRegistered, which has it told what is known.
RegisterObserver(o) ==
  /\ stage[o] = "none"
  /\ stage' = [stage EXCEPT ![o] = "locals"]
  /\ UNCHANGED <<localEntities, discovered, timeouts, receiver, view, device, failed, doubled>>

\* notifyDiscoveredEntities: what `known' says of each entity, to o alone.
TellKnown(o, known) ==
  /\ view' = [view EXCEPT ![o] = [e \in Entities |->
                IF known[e] = None THEN @[e] ELSE ToldOnline(@[e], known[e])]]
  /\ failed' = failed \cup {a \in {"Entity already online"} :
                 \E e \in Entities : known[e] # None /\ view[o][e] # None}
NotifyLocalEntities(o) ==
  /\ stage[o] = "locals"
  /\ stage' = [stage EXCEPT ![o] = "remotes"]
  /\ TellKnown(o, [e \in Entities |-> IF e \in localEntities THEN LocalEntity(e) ELSE None])
  /\ UNCHANGED <<localEntities, discovered, timeouts, receiver, device, doubled>>
NotifyDiscoveredRemoteEntities(o) ==
  /\ stage[o] = "remotes"
  /\ stage' = [stage EXCEPT ![o] = "registered"]
  /\ TellKnown(o, discovered)
  /\ UNCHANGED <<localEntities, discovered, timeouts, receiver, device, doubled>>

\* unregisterObserver, and the delegate is destroyed.
UnregisterObserver(o) ==
  /\ stage[o] = "registered"
  /\ stage' = [stage EXCEPT ![o] = "none"]
  /\ view' = [view EXCEPT ![o] = [e \in Entities |-> None]]
  /\ UNCHANGED <<localEntities, discovered, timeouts, receiver, device, failed, doubled>>

-----------------------------------------------------------------------------
(* The network.  A device that is on announces itself with an index that     *)
(* grows; a message it has sent since it was switched on may arrive at any   *)
(* time while it is on, or just after.  The announcements of a local entity  *)
(* come back too: it is one more device, on or not whether it is registered. *)

SwitchOn(e, m) ==
  /\ ~device[e].on
  /\ device[e].restarts < MaxRestarts
  /\ device' = [device EXCEPT ![e] =
       [on |-> TRUE, model |-> m, index |-> 0, restarts |-> @.restarts + 1]]
  /\ UNCHANGED <<localEntities, discovered, timeouts, receiver, stage, view, failed, doubled>>
SwitchOff(e) ==
  /\ device[e].on
  /\ device' = [device EXCEPT ![e] =
       [on |-> FALSE, model |-> @.model, index |-> 0, restarts |-> @.restarts]]
  /\ UNCHANGED <<localEntities, discovered, timeouts, receiver, stage, view, failed, doubled>>
Advance(e) ==
  /\ device[e].on
  /\ device[e].index < MaxIndex
  /\ device' = [device EXCEPT ![e].index = @ + 1]
  /\ UNCHANGED <<localEntities, discovered, timeouts, receiver, stage, view, failed, doubled>>

Announcement(e) ==
  {m \in Available : m.entity = e /\ m.model = device[e].model /\ m.info.index <= device[e].index}
Deliver == \E e \in Entities : device[e].on /\ \E m \in Announcement(e) : ReceiveAvailable(m)

Check == CheckTimeouts
Receive == HandleAvailable \/ HandleDeparting

Next ==
  \/ Deliver \/ Receive \/ Check
  \/ \E e \in Entities : \/ device[e].on /\ ReceiveDeparting(e)
                         \/ ForgetRemoteEntity(e)
                         \/ RegisterLocalEntity(e) \/ UnregisterLocalEntity(e)
                         \/ SwitchOff(e) \/ Advance(e)
                         \/ \E m \in Models : SwitchOn(e, m)
                         \/ \E i \in Interfaces : Expire(e, i)
  \/ \E o \in Observers : \/ RegisterObserver(o) \/ UnregisterObserver(o)
                          \/ NotifyLocalEntities(o) \/ NotifyDiscoveredRemoteEntities(o)

\* The Manager's thread checks the timeouts every 5 ms, the executor runs what was
\* received, time passes and a registration that began ends.
Spec == Init /\ [][Next]_vars
Fairness ==
  /\ WF_vars(Check) /\ WF_vars(Receive)
  /\ \A e \in Entities, i \in Interfaces : WF_vars(Expire(e, i))
  /\ \A o \in Observers : WF_vars(NotifyLocalEntities(o)) /\ WF_vars(NotifyDiscoveredRemoteEntities(o))
FairSpec == Spec /\ Fairness

-----------------------------------------------------------------------------
(* Properties                                                                *)

\* Whatever came in between while it registered, an observer knows exactly the entities
\* that are there, as they were last announced, and its main interface of each is one the
\* entity still has (controllerCapabilityDelegate.cpp:2259-2362); of an ID that is, or was
\* and still is, that of a local and of a remote entity at once, no more than one that
\* is there.
ObserversAgree ==
  \A o \in Observers, e \in Entities : stage[o] = "registered" =>
    /\ view[o][e] # None => Known(e) \/ e \in localEntities
    /\ e \notin doubled =>
         /\ Known(e) \/ e \in localEntities => view[o][e] # None
         /\ Known(e) => /\ Visible(view[o][e].entity) = Visible(discovered[e])
                        /\ view[o][e].main \in InterfacesOf(discovered[e])

\* While an observer is not told that an entity went offline, it is the same entity: its
\* model and the addresses of its interfaces do not change, an availableIndex does not go
\* back (the sign of a device that restarted), and the main interface stays
\* (discoveryStateMachine.cpp:315-373), unless the ID is that of a local entity too.
SameEntity(o, e) ==
  /\ discovered'[e].model = discovered[e].model
  /\ view'[o][e].main = view[o][e].main
  /\ \A i \in InterfacesOf(discovered[e]) \cap InterfacesOf(discovered'[e]) :
       /\ discovered'[e].interfaces[i].mac = discovered[e].interfaces[i].mac
       /\ discovered'[e].interfaces[i].index >= discovered[e].interfaces[i].index

\* And what it is told alternates, "Entity already online", "Entity not found" (the
\* assertions of controllerCapabilityDelegate.cpp:2269 and 2314): they may fail while an
\* observer registers, or while an ID is that of a local and of a remote entity (see the
\* README), but whatever was missed or told twice meanwhile, they hold afterwards.
KeepsIdentity(o, e) ==
  /\ e \notin doubled'
  /\ stage[o] = "registered" /\ Known(e) /\ discovered'[e] # None
  /\ view[o][e] # None /\ view'[o][e] # None /\ view[o][e].session = view'[o][e].session
  => SameEntity(o, e)
Alternates ==
  (\A o \in Observers : stage[o] \in {"none", "registered"}) /\ doubled' = {} => failed' = failed
IdentityKept ==
  [][(\A o \in Observers, e \in Entities : KeepsIdentity(o, e)) /\ Alternates]_vars

\* A device that is switched off for good is forgotten: the Manager's check finds its
\* timeouts whatever messages, restarts and registrations came before.
SilentDevicesLeave ==
  \A e \in Entities : <>[](~device[e].on) => <>[](discovered[e] = None)

=============================================================================
