-------------------------------- MODULE Control --------------------------------
(***************************************************************************)
(* One item of the model of one entity, from the user's command and the    *)
(* device's notification to the observers of the controller                *)
(* (src/controller/avdeccControllerImplOverrides.cpp,                      *)
(* avdeccControllerImplDelegateOverrides.cpp, avdeccControllerProxy.cpp    *)
(* and src/entity/controllerCapabilityDelegate.cpp).                       *)
(*                                                                         *)
(* A user's command is checked with the entities locked, and sent with     *)
(* them unlocked; the entity may leave in between.  The result of a        *)
(* command and a notification are handled in the network thread, which     *)
(* locks the entity that has the ID at that time.  A command without       *)
(* answer is sent a second time; the ones to an entity that leaves are     *)
(* discarded with their handlers.  The sequence ID of the notifications    *)
(* tells of one that was lost; the controller then gives up notifications. *)
(*                                                                         *)
(* The enumeration (module Enumeration) is here a registration to          *)
(* notifications and one query of the item, neither of which fails.        *)
(***************************************************************************)
EXTENDS Integers, Sequences, FiniteSets, ModelItems

CONSTANTS
  Calls,       \* commands of the user that set the item, each to its own value
  None,        \* no value, no entity
  Width,       \* sequence IDs of notifications: 2^16
  MaxChanges,  \* times the device changes the item by itself or for others
  MaxStays,    \* times the entity comes online
  MaxLosses    \* messages that the network loses

ASSUME ControlAssumption ==
  /\ Calls \cap Nat = {} /\ None \notin Calls \cup Nat /\ None # "Success"
  /\ Width \in Nat \ {0, 1} /\ {MaxChanges, MaxStays, MaxLosses} \subseteq Nat

VARIABLES
  setting,     \* what the item is, and whether the entity follows Milan
  device,      \* value of the item, registration of the controller, next sequence ID
  entity,      \* the ControlledEntityImpl of this stay, and what it waits for
  told,        \* the value that observers were last told
  calls,       \* the user's commands
  toDevice,    \* messages on their way to the device
  fromDevice,  \* messages on their way to the controller
  losses,      \* messages lost
  unseen,      \* the last change of the device of which the news was lost or dropped, 0 if none
  missed,      \* notifications lost since the last that came
  skipped      \* one came after one was lost, in this subscription

vars == <<setting, device, entity, told, calls, toDevice, fromDevice, losses, unseen, missed, skipped>>

Values == Calls \cup (0..MaxChanges)
Queries == {"register", "get", "deregister"} \X (0..MaxStays)

NoEntity(stays) ==
  [status |-> "offline", value |-> None, subscribed |-> FALSE, expected |-> None, asked |-> {},
   stays |-> stays]
Known == entity.status # "offline"

-----------------------------------------------------------------------------
(* The device and the network                                                *)

\* A message of the device that has the value of the item, and which change it was.
News(kind, about, status, d) ==
  [kind |-> kind, about |-> about, status |-> status, value |-> d.value, version |-> d.version]

Notification(kind, d) == News(kind, d.seq, "Success", d)

\* The device takes a command, and answers; it changes the item twice for a command
\* that came twice.  Only other controllers are notified of what this one sets.
DeviceTakes ==
  /\ toDevice # <<>>
  /\ LET message == Head(toDevice)
         Answer(status, d) == /\ device' = d
                              /\ fromDevice' = Append(fromDevice, News("response", message, status, d))
     IN  \/ message \in Calls
            /\ \/ Answer("Success", [device EXCEPT !.value = message, !.version = @ + 1])
               \/ Answer("Refused", device)
         \/ message \notin Calls
            /\ Answer("Success", CASE message[1] = "get" -> device
                                   [] message[1] = "deregister" -> [device EXCEPT !.registered = FALSE]
                                   [] message[1] = "register" /\ device.registered -> device
                                   [] OTHER -> [device EXCEPT !.registered = TRUE, !.seq = 0])
  /\ toDevice' = Tail(toDevice)
  /\ UNCHANGED <<setting, entity, told, calls, losses, unseen, missed, skipped>>

\* Somebody else changes the item.
DeviceChanges ==
  /\ device.changes < MaxChanges
  /\ LET changed == [device EXCEPT !.changes = @ + 1, !.version = @ + 1, !.value = device.changes + 1]
     IN  IF device.registered
         THEN /\ fromDevice' = Append(fromDevice, Notification("changed", changed))
              /\ device' = [changed EXCEPT !.seq = (@ + 1) % Width]
              /\ UNCHANGED unseen
         ELSE device' = changed /\ unseen' = changed.version /\ UNCHANGED fromDevice
  /\ UNCHANGED <<setting, entity, told, calls, toDevice, losses, missed, skipped>>

\* The device gives the controller up, and says so.
DeviceDeregisters ==
  /\ device.registered
  /\ fromDevice' = Append(fromDevice, Notification("deregistered", device))
  /\ device' = [device EXCEPT !.registered = FALSE]
  /\ UNCHANGED <<setting, entity, told, calls, toDevice, losses, unseen, missed, skipped>>

IsNotification(message) == message.kind # "response"

\* What is still to be caught up with, once a message is not used.
Missing(message) ==
  IF message.kind # "deregistered" /\ message.status = "Success" /\ message.version > unseen
  THEN message.version ELSE unseen

\* A message is lost on the way, except those of the enumeration.
Lose ==
  /\ losses < MaxLosses
  /\ losses' = losses + 1
  /\ \/ /\ toDevice # <<>> /\ Head(toDevice) \notin {"register", "get"} \X (1..MaxStays)
        /\ toDevice' = Tail(toDevice)
        /\ UNCHANGED <<fromDevice, unseen, missed>>
     \/ /\ fromDevice # <<>>
        /\ LET message == Head(fromDevice)
           IN  /\ IsNotification(message) \/ message.about \in Calls
               /\ unseen' = Missing(message)
               /\ missed' = IF IsNotification(message) THEN missed + 1 ELSE missed
        /\ fromDevice' = Tail(fromDevice)
        /\ UNCHANGED toDevice
  /\ UNCHANGED <<setting, device, entity, told, calls, skipped>>

-----------------------------------------------------------------------------
(* The controller's model                                                    *)

\* An update of the item: the node must be there; an advertised entity is shown.
Updated(e, value) == IF e.value = None THEN e ELSE [e EXCEPT !.value = value]

Shown_OnlySubscribed(e) ==
  IF e.status = "advertised" /\ setting.item.shown /\ e.subscribed THEN e.value ELSE told

Shown(e) == IF e.status = "advertised" /\ setting.item.shown THEN e.value ELSE told

\* The last change that the model has to catch up with, once a value was used.
Seen(e, version) == IF e.value # None /\ version >= unseen THEN 0 ELSE unseen

\* Notifications give up: "register" again only with the next enumeration.
Unsubscribed(e) == [e EXCEPT !.subscribed = FALSE, !.expected = None]

Counts(e) == e.subscribed /\ setting.milan

HasLost_OnlyAbove(e, seq) == Counts(e) /\ e.expected # None /\ seq > e.expected

HasLost(e, seq) == Counts(e) /\ e.expected # None /\ e.expected # seq

Expecting(e, seq) == IF Counts(e) THEN [e EXCEPT !.expected = (seq + 1) % Width] ELSE e

Deregistered(e) == IF Known THEN Unsubscribed(e) ELSE e

\* What the handler of a notification does of the item.
Notified(message) ==
  CASE message.kind = "deregistered" -> Deregistered(entity)
    [] message.kind = "changed" /\ setting.item.told -> Updated(entity, message.value)
    [] OTHER -> entity

\* The notification is handled, and then its sequence ID is looked at.
NotificationReceived(message) ==
  /\ IsNotification(message)
  /\ LET handled == Notified(message)
         expecting == Expecting(handled, message.about)
         deregister == <<"deregister", entity.stays>>
     IN  /\ told' = Shown(handled)
         /\ unseen' = IF message.kind = "changed" /\ Known /\ setting.item.told
                      THEN Seen(entity, message.version) ELSE unseen
         /\ skipped' = (skipped \/ (missed \in 1..(Width - 1) /\ Counts(entity) /\ entity.expected # None))
         /\ \/ /\ ~HasLost(handled, message.about)
               /\ entity' = expecting
               /\ UNCHANGED toDevice
            \/ /\ HasLost(handled, message.about)
               /\ entity' = [Unsubscribed(expecting) EXCEPT !.asked = @ \cup {deregister}]
               /\ toDevice' = Append(toDevice, deregister)
  /\ missed' = 0
  /\ UNCHANGED calls

-----------------------------------------------------------------------------
(* The user's commands                                                       *)

Ended(c, status) == calls' = [calls EXCEPT ![c] = [@ EXCEPT !.at = "done", !.status = status]]

\* setXxx: the entity must have been advertised.  It is unlocked when it is found.
UserCall(c) ==
  /\ calls[c].at = "none" /\ setting.item.settable
  /\ \/ /\ entity.status = "advertised"
        /\ calls' = [calls EXCEPT ![c].at = "found"]
     \/ /\ entity.status # "advertised"
        /\ Ended(c, "UnknownEntity")
  /\ UNCHANGED <<setting, device, entity, told, toDevice, fromDevice, losses, unseen, missed, skipped>>

\* sendAemAecpCommand: the address of the entity, if it is still there.
FindAddress(c) ==
  /\ calls[c].at = "found"
  /\ \/ /\ Known
        /\ calls' = [calls EXCEPT ![c].at = "addressed"]
     \/ /\ ~Known
        /\ Ended(c, "UnknownEntity")
  /\ UNCHANGED <<setting, device, entity, told, toDevice, fromDevice, losses, unseen, missed, skipped>>

Send(c) ==
  /\ calls[c].at = "addressed"
  /\ calls' = [calls EXCEPT ![c].at = "inflight", ![c].sends = 1]
  /\ toDevice' = Append(toDevice, c)
  /\ UNCHANGED <<setting, device, entity, told, fromDevice, losses, unseen, missed, skipped>>

ResultApplied_WaitsForNotification(message) == entity

\* What a result does to the model; the handler is called with its status.
ResultApplied(message) ==
  IF Known /\ message.status = "Success" THEN Updated(entity, message.value) ELSE entity

\* An answer is dropped, whatever it says, if its command was answered before, given up or
\* discarded.  The model has to catch up with it only if it says something else.
Dropped(message) ==
  IF entity.value \in {None, message.value} THEN Seen(entity, message.version) ELSE Missing(message)

\* The answer to a command.
AnswerReceived(message) ==
  /\ message.kind = "response" /\ message.about \in Calls
  /\ \/ /\ calls[message.about].at = "inflight"
        /\ entity' = ResultApplied(message)
        /\ told' = Shown(ResultApplied(message))
        /\ unseen' = IF Known /\ message.status = "Success" THEN Seen(entity, message.version) ELSE unseen
        /\ Ended(message.about, message.status)
     \/ /\ calls[message.about].at # "inflight"
        /\ unseen' = Dropped(message)
        /\ UNCHANGED <<entity, told, calls>>
  /\ UNCHANGED <<toDevice, missed, skipped>>

TimesOut_OnlyResends(c) ==
  /\ calls[c].at = "inflight" /\ calls[c].sends = 1
  /\ calls' = [calls EXCEPT ![c].sends = 2]
  /\ toDevice' = Append(toDevice, c)
  /\ UNCHANGED <<setting, device, entity, told, fromDevice, losses, unseen, missed, skipped>>

\* No answer came: the command is sent again, once.
TimesOut(c) ==
  /\ calls[c].at = "inflight"
  /\ \/ /\ calls[c].sends = 1
        /\ calls' = [calls EXCEPT ![c].sends = 2]
        /\ toDevice' = Append(toDevice, c)
     \/ /\ calls[c].sends = 2
        /\ Ended(c, "TimedOut")
        /\ UNCHANGED toDevice
  /\ UNCHANGED <<setting, device, entity, told, fromDevice, losses, unseen, missed, skipped>>

-----------------------------------------------------------------------------
(* The entity comes, is enumerated and leaves                                *)

OnEntityOnline ==
  /\ ~Known /\ entity.stays < MaxStays
  /\ LET stay == entity.stays + 1
         register == <<"register", stay>>
     IN  /\ entity' = [status |-> "enumerating", value |-> None, subscribed |-> FALSE, expected |-> None,
                       asked |-> {register}, stays |-> stay]
         /\ toDevice' = Append(toDevice, register)
  /\ skipped' = FALSE
  /\ UNCHANGED <<setting, device, told, calls, fromDevice, losses, unseen, missed>>

Forgotten(e, query) == [e EXCEPT !.asked = @ \ {query}]

\* Answers to what the controller itself asked.  With the query's the enumeration ends.
QueryAnswered(message) ==
  /\ message.kind = "response" /\ message.about \notin Calls
  /\ LET asked == message.about
         answered == Forgotten(entity, asked)
         query == <<"get", entity.stays>>
     IN  \/ /\ asked \in entity.asked /\ asked[1] = "register"
            /\ entity' = [answered EXCEPT !.subscribed = TRUE, !.asked = @ \cup {query}]
            /\ toDevice' = Append(toDevice, query)
            /\ UNCHANGED <<told, unseen>>
         \/ /\ asked \in entity.asked /\ asked[1] = "get"
            /\ entity' = [answered EXCEPT !.status = "advertised", !.value = message.value]
            /\ told' = message.value
            /\ unseen' = IF message.version >= unseen THEN 0 ELSE unseen
            /\ UNCHANGED toDevice
         \/ /\ asked \in entity.asked /\ asked[1] = "deregister"
            /\ entity' = Unsubscribed(answered)
            /\ UNCHANGED <<told, unseen, toDevice>>
         \/ /\ asked \notin entity.asked
            /\ UNCHANGED <<entity, told, unseen, toDevice>>
  /\ UNCHANGED <<calls, missed, skipped>>

\* The network thread takes a message of the device.
Receive ==
  /\ fromDevice # <<>>
  /\ fromDevice' = Tail(fromDevice)
  /\ \E message \in {Head(fromDevice)} :
       NotificationReceived(message) \/ AnswerReceived(message) \/ QueryAnswered(message)
  /\ UNCHANGED <<setting, device, losses>>

Discarded == [c \in Calls |-> IF calls[c].at = "inflight" THEN [calls[c] EXCEPT !.at = "discarded"] ELSE calls[c]]

\* The entity leaves: observers are told, its commands are discarded.  The device may
\* have restarted, and then knows of no controller.
OnEntityOffline ==
  /\ Known
  /\ entity' = NoEntity(entity.stays)
  /\ told' = None
  /\ calls' = Discarded
  /\ device' \in {device, [device EXCEPT !.registered = FALSE, !.seq = 0]}
  /\ UNCHANGED <<setting, toDevice, fromDevice, losses, unseen, missed, skipped>>

-----------------------------------------------------------------------------
Init ==
  /\ setting \in [item : Behaviours, milan : BOOLEAN]
  /\ device = [value |-> 0, version |-> 0, changes |-> 0, registered |-> FALSE, seq |-> 0]
  /\ entity = NoEntity(0)
  /\ told = None
  /\ calls = [c \in Calls |-> [at |-> "none", status |-> None, sends |-> 0]]
  /\ toDevice = <<>> /\ fromDevice = <<>>
  /\ losses = 0 /\ unseen = 0 /\ missed = 0 /\ skipped = FALSE

Next ==
  \/ \E c \in Calls : UserCall(c) \/ FindAddress(c) \/ Send(c) \/ TimesOut(c)
  \/ Receive \/ OnEntityOnline \/ OnEntityOffline
  \/ DeviceTakes \/ DeviceChanges \/ DeviceDeregisters \/ Lose

Spec == Init /\ [][Next]_vars

\* A user who called goes on, and the thread that looks for commands without answer
\* runs; nothing is assumed of the device and of the network.
Fairness == \A c \in Calls : WF_vars(FindAddress(c) \/ Send(c) \/ TimesOut(c))
FairSpec == Spec /\ Fairness

-----------------------------------------------------------------------------
(* Properties                                                                *)

Answers ==
  [kind : {"response"}, about : Calls \cup Queries, status : {"Success", "Refused"},
   value : Values, version : Nat]
Notifications ==
  [kind : {"changed", "deregistered"}, about : 0..(Width - 1), status : {"Success"},
   value : Values, version : Nat]

TypeOK ==
  /\ setting \in [item : Behaviours, milan : BOOLEAN]
  /\ device \in [value : Values, version : Nat, changes : 0..MaxChanges, registered : BOOLEAN,
                 seq : 0..(Width - 1)]
  /\ entity \in [status : {"offline", "enumerating", "advertised"}, value : Values \cup {None},
                 subscribed : BOOLEAN, expected : (0..(Width - 1)) \cup {None},
                 asked : SUBSET Queries, stays : 0..MaxStays]
  /\ told \in Values \cup {None}
  /\ calls \in [Calls -> [at : {"none", "found", "addressed", "inflight", "done", "discarded"},
                          status : {None, "Success", "Refused", "TimedOut", "UnknownEntity"},
                          sends : 0..2]]
  /\ toDevice \in Seq(Calls \cup Queries)
  /\ fromDevice \in Seq(Answers \cup Notifications)
  /\ losses \in 0..MaxLosses /\ unseen \in Nat /\ missed \in Nat /\ skipped \in BOOLEAN

\* What the controller shows of a device that notifies it is what the device has, once
\* everything that the device sent has been handled, for every item that the user can set
\* or the device tells of: answers that cross notifications, refusals, a command executed
\* twice, earlier losses and stays leave nothing behind.  Two things excuse it, until newer
\* news is used: the last news was lost, or it came in an answer that the code drops
\* (commandStateMachine.cpp:326: its command was given up, discarded or already answered)
\* and says something else than the model.
MirrorFollowsDevice ==
  (/\ entity.status = "advertised" /\ entity.subscribed /\ fromDevice = <<>> /\ unseen = 0
   /\ setting.item.settable \/ setting.item.told) => entity.value = device.value

\* A lost notification of a Milan entity is found out with the next one: the entity is
\* not taken to notify the controller any more.  And the controller gives up the
\* notifications only of an entity of which one was lost, although the numbers of a
\* device that did not forget the controller go on, and those of one that did start again.
LossesAreDetected ==
  /\ [](skipped => ~entity.subscribed)
  /\ [][entity'.asked \ entity.asked = {<<"deregister", entity.stays>>} => missed > 0]_vars

\* Observers were told of the value that the model has, of no entity that is not
\* advertised, and of every one that is.
ObserversSeeTheModel == told = IF entity.status = "advertised" THEN entity.value ELSE None

\* A handler that is told of a success sees the value in the model: the user's own
\* command is not notified by the device.
ShowsSuccess(c) ==
  calls[c].at = "inflight" /\ calls'[c].status = "Success" /\ entity'.status = "advertised"
    => told' = c
SuccessIsShown == [][\A c \in Calls : ShowsSuccess(c)]_vars

\* A command that the user gave is answered, or discarded with its entity, even if the
\* device and the network do nothing.
CallsAnswered == \A c \in Calls : calls[c].at # "none" ~> calls[c].at \in {"done", "discarded"}
=============================================================================
