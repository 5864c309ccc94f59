----------------------------- MODULE ControlProofs -----------------------------
(***************************************************************************)
(* Proofs about Control, for any number of commands, changes, losses and   *)
(* stays, and any range of sequence IDs.                                   *)
(***************************************************************************)
EXTENDS Control, SequenceTheorems, TLAPS

-----------------------------------------------------------------------------
(* Items                                                                     *)

\* Observers are told of every item that a user sets or the device tells of.
LEMMA UpdatedIsShown ==
  ASSUME NEW b \in Behaviours, b.settable \/ b.told
  PROVE  b.shown
<1>1. PICK item \in Settable \cup HandedOn : b = Behaviour(item)
  BY DEF Behaviours
<1>2. b.settable = (item \in Settable) /\ b.told = (item \in Told) /\ b.shown = (item \in ShownItems)
  BY <1>1 DEF Behaviour
<1>3. Settable \subseteq ShownItems
  BY DEF Settable, ShownItems, SetStreams, SetEntityNames, SetStreamNames, SetJackNames,
    SetSourceNames, SetControlNames, SetPtpNames, SetRates, SetControls, SetRunning, AddMappings,
    RemoveMappings, SetLength, SetTransit, SetSystem, ShownFormats, ShownInputInfo, ShownOutputInfo,
    ShownEntityNames, ShownAssociation, ShownRunning, ShownStates, ShownMappings, ShownTransit,
    ShownClocks, ShownInputInfoEx, ShownStreamNames, ShownObjectNames, ShownRates, ShownControls,
    ShownCounters, ShownLength, ShownSystem
<1>4. Told \subseteq Settable \cup {"StreamInputInfoEx"} \cup ToldStates \cup ToldCounters
  BY DEF Told, TakenStreams, TakenEntityNames, TakenObjectNames, TakenRates, TakenStates, TakenCounters,
    TakenObjects, Settable, SetStreams, SetEntityNames, SetStreamNames, SetJackNames,
    SetSourceNames, SetControlNames, SetPtpNames, SetRates, SetControls, SetRunning, AddMappings,
    RemoveMappings, SetLength, SetTransit, SetSystem
<1>5. {"StreamInputInfoEx"} \cup ToldStates \cup ToldCounters \subseteq ShownItems
  BY DEF ShownItems, ShownInputInfoEx, ShownStates, ShownCounters
<1>. QED  BY <1>2, <1>3, <1>4, <1>5

-----------------------------------------------------------------------------
(* Typing                                                                    *)

Device == [value : Values, version : Nat, changes : 0..MaxChanges, registered : BOOLEAN,
           seq : 0..(Width - 1)]
Entity == [status : {"offline", "enumerating", "advertised"}, value : Values \cup {None},
           subscribed : BOOLEAN, expected : (0..(Width - 1)) \cup {None},
           asked : SUBSET Queries, stays : 0..MaxStays]
Call == [at : {"none", "found", "addressed", "inflight", "done", "discarded"},
         status : {None, "Success", "Refused", "TimedOut", "UnknownEntity"}, sends : 0..2]
Messages == Answers \cup Notifications

LEMMA Heads ==
  ASSUME NEW S, NEW q \in Seq(S), q # <<>>
  PROVE  Head(q) \in S /\ Tail(q) \in Seq(S)
BY HeadTailProperties

LEMMA NewsTyping ==
  ASSUME NEW d \in Device, NEW about \in Calls \cup Queries, NEW status \in {"Success", "Refused"}
  PROVE  News("response", about, status, d) \in Messages
BY DEF News, Device, Messages, Answers

LEMMA NotificationTyping ==
  ASSUME NEW d \in Device, NEW kind \in {"changed", "deregistered"}
  PROVE  Notification(kind, d) \in Messages
BY DEF Notification, News, Device, Messages, Notifications

LEMMA EntityTyping ==
  ASSUME NEW e \in Entity
  PROVE  /\ Unsubscribed(e) \in Entity
         /\ \A query : Forgotten(e, query) \in Entity
         /\ \A value \in Values : Updated(e, value) \in Entity
         /\ \A seq \in 0..(Width - 1) : Expecting(e, seq) \in Entity
<1>1. \A seq \in 0..(Width - 1) : (seq + 1) % Width \in 0..(Width - 1)
  BY ControlAssumption
<1>2. Unsubscribed(e) \in Entity
  BY DEF Unsubscribed, Entity
<1>3. \A query : Forgotten(e, query) \in Entity
  BY DEF Forgotten, Entity
<1>4. \A value \in Values : Updated(e, value) \in Entity
  BY DEF Updated, Entity
<1>5. ASSUME NEW n \in 0..(Width - 1) PROVE [e EXCEPT !.expected = n] \in Entity
  BY DEF Entity
<1>6. \A seq \in 0..(Width - 1) : Expecting(e, seq) \in Entity
  BY <1>1, <1>5 DEF Expecting
<1>. QED  BY <1>2, <1>3, <1>4, <1>6

LEMMA EndedTyping ==
  ASSUME calls \in [Calls -> Call], NEW c \in Calls,
         NEW status \in {"Success", "Refused", "TimedOut", "UnknownEntity"}, Ended(c, status)
  PROVE  /\ calls' \in [Calls -> Call]
         /\ calls'[c].status = status /\ \A d \in Calls : d # c => calls'[d] = calls[d]
<1>1. [calls[c] EXCEPT !.at = "done", !.status = status] \in Call
      /\ [calls[c] EXCEPT !.at = "done", !.status = status].status = status
  BY DEF Call
<1>. QED  BY <1>1 DEF Ended

\* The parts of TypeOK that most steps leave alone.
Parts ==
  /\ setting \in [item : Behaviours, milan : BOOLEAN]
  /\ device \in Device /\ entity \in Entity /\ calls \in [Calls -> Call]
  /\ told \in Values \cup {None}
  /\ toDevice \in Seq(Calls \cup Queries) /\ fromDevice \in Seq(Messages)
  /\ losses \in 0..MaxLosses /\ unseen \in Nat /\ missed \in Nat /\ skipped \in BOOLEAN

LEMMA TypingParts == TypeOK <=> Parts
BY DEF TypeOK, Parts, Device, Entity, Call, Messages

LEMMA TypingPartsNext == Parts' => TypeOK'
BY DEF TypeOK, Parts, Device, Entity, Call, Messages

LEMMA TypingInit == Init => Parts
<1>1. /\ <<>> \in Seq(Calls \cup Queries) /\ <<>> \in Seq(Messages)
  OBVIOUS
<1>2. /\ 0 \in 0..MaxChanges /\ 0 \in 0..(Width - 1) /\ 0 \in 0..MaxStays /\ 0 \in 0..MaxLosses
  BY ControlAssumption
<1>3. ASSUME Init
      PROVE  /\ setting \in [item : Behaviours, milan : BOOLEAN]
             /\ toDevice \in Seq(Calls \cup Queries) /\ fromDevice \in Seq(Messages)
             /\ told \in Values \cup {None}
  BY <1>1, <1>3 DEF Init
<1>4. ASSUME Init PROVE device \in Device
  BY <1>2, <1>4 DEF Init, Device, Values
<1>5. ASSUME Init PROVE entity \in Entity
  BY <1>2, <1>5 DEF Init, Entity, NoEntity
<1>6. ASSUME Init PROVE calls \in [Calls -> Call]
  BY <1>6 DEF Init, Call
<1>7. ASSUME Init
      PROVE  losses \in 0..MaxLosses /\ unseen \in Nat /\ missed \in Nat /\ skipped \in BOOLEAN
  BY <1>2, <1>7 DEF Init
<1>. QED  BY <1>3, <1>4, <1>5, <1>6, <1>7 DEF Parts

LEMMA DeviceSteps ==
  ASSUME Parts, DeviceTakes \/ DeviceChanges \/ DeviceDeregisters
  PROVE  Parts'
<1>d. device \in Device /\ Width \in Nat \ {0, 1} /\ MaxChanges \in Nat
  BY ControlAssumption DEF Parts
<1>append. \A n \in Messages : Append(fromDevice, n) \in Seq(Messages)
  BY AppendProperties DEF Parts
<1>zero. 0 \in 0..(Width - 1)
  BY <1>d
<1>1. CASE DeviceTakes
  <2> DEFINE message == Head(toDevice)
  <2>1. message \in Calls \cup Queries /\ Tail(toDevice) \in Seq(Calls \cup Queries)
    BY <1>1, Heads DEF DeviceTakes, Parts
  <2>answer. ASSUME NEW status \in {"Success", "Refused"}, NEW d \in Device, device' = d,
                    fromDevice' = Append(fromDevice, News("response", message, status, d))
             PROVE  device' \in Device /\ fromDevice' \in Seq(Messages)
    BY <1>append, <2>1, <2>answer, NewsTyping
  <2>2. /\ message \in Calls => [device EXCEPT !.value = message, !.version = @ + 1] \in Device
        /\ [device EXCEPT !.registered = FALSE] \in Device
        /\ [device EXCEPT !.registered = TRUE, !.seq = 0] \in Device
    <3>1. ASSUME NEW value \in Values, NEW version \in Nat
          PROVE  [device EXCEPT !.value = value, !.version = version] \in Device
      BY <1>d DEF Device
    <3>2. device.version + 1 \in Nat
      BY <1>d DEF Device
    <3>3. [device EXCEPT !.registered = FALSE] \in Device
          /\ [device EXCEPT !.registered = TRUE, !.seq = 0] \in Device
      BY <1>d, <1>zero DEF Device
    <3>. QED  BY <3>1, <3>2, <3>3 DEF Values
  <2>3. device' \in Device /\ fromDevice' \in Seq(Messages)
    <3>1. CASE message \in Calls
      <4>1. \/ /\ device' = [device EXCEPT !.value = message, !.version = @ + 1]
               /\ fromDevice' = Append(fromDevice, News("response", message, "Success", device'))
            \/ /\ device' = device
               /\ fromDevice' = Append(fromDevice, News("response", message, "Refused", device))
        BY <1>1, <3>1 DEF DeviceTakes
      <4>. QED  BY <1>d, <2>2, <2>answer, <3>1, <4>1
    <3>2. CASE message \notin Calls
      <4>1. /\ device' \in {device, [device EXCEPT !.registered = FALSE],
                            [device EXCEPT !.registered = TRUE, !.seq = 0]}
            /\ fromDevice' = Append(fromDevice, News("response", message, "Success", device'))
        BY <1>1, <3>2 DEF DeviceTakes
      <4>. QED  BY <1>d, <2>2, <2>answer, <4>1
    <3>. QED  BY <3>1, <3>2
  <2>. QED  BY <1>1, <2>1, <2>3 DEF DeviceTakes, Parts
<1>2. CASE DeviceChanges
  <2> DEFINE changed == [device EXCEPT !.changes = @ + 1, !.version = @ + 1, !.value = device.changes + 1]
  <2>1. device.changes + 1 \in 0..MaxChanges /\ device.version + 1 \in Nat
    BY <1>2, <1>d DEF DeviceChanges, Device
  <2>2. changed \in Device /\ changed.version \in Nat
    BY <2>1, <1>d DEF Device, Values
  <2>3. (changed.seq + 1) % Width \in 0..(Width - 1)
    BY <2>2, <1>d DEF Device
  <2> HIDE DEF changed
  <2>4. [changed EXCEPT !.seq = (@ + 1) % Width] \in Device
    BY <2>2, <2>3 DEF Device
  <2>5. Notification("changed", changed) \in Messages
    BY <2>2, NotificationTyping
  <2>6. \/ /\ fromDevice' = Append(fromDevice, Notification("changed", changed))
           /\ device' = [changed EXCEPT !.seq = (@ + 1) % Width]
           /\ UNCHANGED unseen
        \/ device' = changed /\ unseen' = changed.version /\ UNCHANGED fromDevice
    BY <1>2 DEF DeviceChanges, changed
  <2>7. device' \in Device /\ fromDevice' \in Seq(Messages) /\ unseen' \in Nat
    BY <1>append, <2>2, <2>4, <2>5, <2>6 DEF Parts
  <2>. QED  BY <1>2, <2>7 DEF DeviceChanges, Parts
<1>3. CASE DeviceDeregisters
  <2>1. Notification("deregistered", device) \in Messages
    BY <1>d, NotificationTyping
  <2>2. [device EXCEPT !.registered = FALSE] \in Device
    BY <1>d DEF Device
  <2>. QED  BY <1>3, <1>append, <2>1, <2>2 DEF DeviceDeregisters, Parts
<1>. QED  BY <1>1, <1>2, <1>3

LEMMA LoseTyping == ASSUME Parts, Lose PROVE Parts'
<1>1. losses' \in 0..MaxLosses
  BY ControlAssumption DEF Lose, Parts
<1>2. toDevice' \in Seq(Calls \cup Queries) /\ fromDevice' \in Seq(Messages)
  <2>1. toDevice # <<>> => Tail(toDevice) \in Seq(Calls \cup Queries)
    BY Heads DEF Parts
  <2>2. fromDevice # <<>> => Tail(fromDevice) \in Seq(Messages)
    BY Heads DEF Parts
  <2>. QED  BY <2>1, <2>2 DEF Lose, Parts
<1>3. ASSUME fromDevice # <<>> PROVE Missing(Head(fromDevice)) \in Nat
  <2>1. Head(fromDevice) \in Messages
    BY <1>3, Heads DEF Parts
  <2>2. Head(fromDevice).version \in Nat
    BY <2>1 DEF Messages, Answers, Notifications
  <2>. QED  BY <2>2 DEF Missing, Parts
<1>4. unseen' \in Nat
  BY <1>3 DEF Lose, Parts
<1>5. missed' \in Nat
  BY DEF Lose, Parts
<1>. QED  BY <1>1, <1>2, <1>4, <1>5 DEF Lose, Parts

\* What the network thread takes.
LEMMA MessageTaken ==
  ASSUME Parts, Receive
  PROVE  /\ Head(fromDevice) \in Messages /\ Tail(fromDevice) \in Seq(Messages)
         /\ fromDevice' = Tail(fromDevice) /\ UNCHANGED <<setting, device, losses>>
         /\ \/ NotificationReceived(Head(fromDevice)) \/ AnswerReceived(Head(fromDevice))
            \/ QueryAnswered(Head(fromDevice))
BY Heads DEF Receive, Parts

LEMMA NotificationTypes ==
  ASSUME Parts, NEW m \in Messages, NotificationReceived(m), setting' = setting
  PROVE  /\ entity' \in Entity /\ told' \in Values \cup {None}
         /\ toDevice' \in Seq(Calls \cup Queries)
         /\ unseen' \in Nat /\ missed' \in Nat /\ skipped' \in BOOLEAN /\ calls' = calls
<1> DEFINE handled == Notified(m)
           expecting == Expecting(handled, m.about)
           deregister == <<"deregister", entity.stays>>
<1>1. m.about \in 0..(Width - 1) /\ m.value \in Values /\ m.version \in Nat
  BY DEF NotificationReceived, IsNotification, Messages, Answers, Notifications
<1>2. entity \in Entity
  BY DEF Parts
<1>3. handled \in Entity
  BY <1>1, <1>2, EntityTyping DEF Notified, Deregistered
<1>4. expecting \in Entity
  BY <1>1, <1>3, EntityTyping
<1>5. handled.value \in Values \cup {None}
  BY <1>3 DEF Entity
<1>6. told' = Shown(handled)
  BY DEF NotificationReceived
<1>7. Shown(handled) \in Values \cup {None}
  BY <1>5 DEF Shown, Parts
<1>8. deregister \in Queries
  BY <1>2 DEF Entity, Queries
<1>9. Append(toDevice, deregister) \in Seq(Calls \cup Queries)
  BY <1>8, AppendProperties DEF Parts
<1>10. [Unsubscribed(expecting) EXCEPT !.asked = @ \cup {deregister}] \in Entity
  <2>1. Unsubscribed(expecting) \in Entity
    BY <1>4, EntityTyping
  <2>2. \A e \in Entity, query \in Queries : [e EXCEPT !.asked = @ \cup {query}] \in Entity
    BY DEF Entity
  <2>. QED  BY <1>8, <2>1, <2>2
<1>11. /\ \/ entity' = expecting /\ UNCHANGED toDevice
          \/ /\ entity' = [Unsubscribed(expecting) EXCEPT !.asked = @ \cup {deregister}]
             /\ toDevice' = Append(toDevice, deregister)
       /\ unseen' = unseen \/ unseen' = Seen(entity, m.version)
       /\ missed' = 0 /\ calls' = calls
  BY DEF NotificationReceived
<1>12. skipped' \in BOOLEAN
  <2>1. skipped' = (skipped \/ (missed \in 1..(Width - 1) /\ Counts(entity) /\ entity.expected # None))
    BY DEF NotificationReceived
  <2>. QED  BY <2>1
<1> HIDE DEF handled, expecting, deregister
<1>13. unseen' \in Nat
  BY <1>11 DEF Seen, Parts
<1>14. entity' \in Entity /\ toDevice' \in Seq(Calls \cup Queries)
  BY <1>4, <1>9, <1>10, <1>11 DEF Parts
<1>. QED  BY <1>6, <1>7, <1>11, <1>12, <1>13, <1>14

LEMMA AnswerTypes ==
  ASSUME Parts, NEW m \in Messages, AnswerReceived(m)
  PROVE  /\ entity' \in Entity /\ told' \in Values \cup {None} /\ calls' \in [Calls -> Call]
         /\ unseen' \in Nat /\ UNCHANGED <<toDevice, missed, skipped>>
<1>1. /\ m.about \in Calls /\ m.value \in Values /\ m.version \in Nat
      /\ m.status \in {"Success", "Refused"}
  BY DEF AnswerReceived, Messages, Answers, Notifications
<1>2. entity \in Entity /\ unseen \in Nat /\ calls \in [Calls -> Call] /\ told \in Values \cup {None}
  BY DEF Parts
<1>3. CASE /\ entity' = ResultApplied(m) /\ told' = Shown(ResultApplied(m))
           /\ unseen' = IF Known /\ m.status = "Success" THEN Seen(entity, m.version) ELSE unseen
           /\ Ended(m.about, m.status)
  <2>1. ResultApplied(m) \in Entity
    BY <1>1, <1>2, EntityTyping DEF ResultApplied
  <2>2. Shown(ResultApplied(m)) \in Values \cup {None}
    BY <1>2, <2>1 DEF Shown, Entity
  <2>3. calls' \in [Calls -> Call]
    BY <1>1, <1>2, <1>3, EndedTyping
  <2>4. unseen' \in Nat
    BY <1>2, <1>3 DEF Seen
  <2>. QED  BY <1>3, <2>1, <2>2, <2>3, <2>4 DEF AnswerReceived
<1>4. CASE unseen' = Dropped(m) /\ UNCHANGED <<entity, told, calls>>
  BY <1>1, <1>2, <1>4 DEF AnswerReceived, Dropped, Seen, Missing
<1>. QED  BY <1>3, <1>4 DEF AnswerReceived

LEMMA QueryTypes ==
  ASSUME Parts, NEW m \in Messages, QueryAnswered(m)
  PROVE  /\ entity' \in Entity /\ told' \in Values \cup {None}
         /\ toDevice' \in Seq(Calls \cup Queries) /\ unseen' \in Nat
         /\ UNCHANGED <<calls, missed, skipped>>
<1> DEFINE answered == Forgotten(entity, m.about)
           query == <<"get", entity.stays>>
<1>1. m.value \in Values /\ m.version \in Nat
  BY DEF Messages, Answers, Notifications
<1>2. entity \in Entity /\ unseen \in Nat /\ told \in Values \cup {None}
  BY DEF Parts
<1>3. answered \in Entity
  BY <1>2, EntityTyping
<1>4. query \in Queries
  BY <1>2 DEF Entity, Queries
<1>5. Append(toDevice, query) \in Seq(Calls \cup Queries)
  BY <1>4, AppendProperties DEF Parts
<1>6. [answered EXCEPT !.subscribed = TRUE, !.asked = @ \cup {query}] \in Entity
  <2>1. \A e \in Entity, q \in Queries : [e EXCEPT !.subscribed = TRUE, !.asked = @ \cup {q}] \in Entity
    BY DEF Entity
  <2>. QED  BY <1>3, <1>4, <2>1
<1>7. [answered EXCEPT !.status = "advertised", !.value = m.value] \in Entity
  <2>1. \A e \in Entity, v \in Values : [e EXCEPT !.status = "advertised", !.value = v] \in Entity
    BY DEF Entity
  <2>. QED  BY <1>1, <1>3, <2>1
<1>8. Unsubscribed(answered) \in Entity
  BY <1>3, EntityTyping
<1>9. /\ \/ /\ entity' = [answered EXCEPT !.subscribed = TRUE, !.asked = @ \cup {query}]
            /\ toDevice' = Append(toDevice, query) /\ UNCHANGED <<told, unseen>>
         \/ /\ entity' = [answered EXCEPT !.status = "advertised", !.value = m.value]
            /\ told' = m.value /\ unseen' = (IF m.version >= unseen THEN 0 ELSE unseen)
            /\ UNCHANGED toDevice
         \/ entity' = Unsubscribed(answered) /\ UNCHANGED <<told, unseen, toDevice>>
         \/ UNCHANGED <<entity, told, unseen, toDevice>>
      /\ UNCHANGED <<calls, missed, skipped>>
  BY DEF QueryAnswered
<1> HIDE DEF answered, query
<1>10. entity' \in Entity
  BY <1>2, <1>6, <1>7, <1>8, <1>9
<1>11. told' \in Values \cup {None} /\ unseen' \in Nat
  BY <1>1, <1>2, <1>9
<1>12. toDevice' \in Seq(Calls \cup Queries)
  BY <1>5, <1>9 DEF Parts
<1>. QED  BY <1>9, <1>10, <1>11, <1>12

LEMMA ReceiveTyping == ASSUME Parts, Receive PROVE Parts'
<1> DEFINE m == Head(fromDevice)
<1>1. /\ m \in Messages /\ Tail(fromDevice) \in Seq(Messages)
      /\ fromDevice' = Tail(fromDevice) /\ UNCHANGED <<setting, device, losses>>
      /\ NotificationReceived(m) \/ AnswerReceived(m) \/ QueryAnswered(m)
  BY MessageTaken
<1> HIDE DEF m
<1>2. CASE NotificationReceived(m)
  BY <1>1, <1>2, NotificationTypes DEF Parts
<1>3. CASE AnswerReceived(m)
  BY <1>1, <1>3, AnswerTypes DEF Parts
<1>4. CASE QueryAnswered(m)
  BY <1>1, <1>4, QueryTypes DEF Parts
<1>. QED  BY <1>1, <1>2, <1>3, <1>4

LEMMA UserTyping ==
  ASSUME Parts, NEW c \in Calls, UserCall(c) \/ FindAddress(c) \/ Send(c) \/ TimesOut(c)
  PROVE  Parts'
<1>1. calls \in [Calls -> Call] /\ Append(toDevice, c) \in Seq(Calls \cup Queries)
  BY AppendProperties DEF Parts
<1>2. ASSUME NEW status \in {"UnknownEntity", "TimedOut"}, Ended(c, status)
      PROVE  calls' \in [Calls -> Call]
  BY <1>1, <1>2, EndedTyping
<1>3. \A at \in {"found", "addressed"} : [calls EXCEPT ![c].at = at] \in [Calls -> Call]
  BY <1>1 DEF Call
<1>4. /\ [calls EXCEPT ![c].at = "inflight", ![c].sends = 1] \in [Calls -> Call]
      /\ [calls EXCEPT ![c].sends = 2] \in [Calls -> Call]
  <2>1. [calls[c] EXCEPT !.at = "inflight", !.sends = 1] \in Call
    <3>1. \A n \in 0..2 : [calls[c] EXCEPT !.at = "inflight", !.sends = n] \in Call
      BY <1>1 DEF Call
    <3>2. 1 \in 0..2
      OBVIOUS
    <3>. QED  BY <3>1, <3>2
  <2>2. [calls EXCEPT ![c].at = "inflight", ![c].sends = 1]
          = [calls EXCEPT ![c] = [calls[c] EXCEPT !.at = "inflight", !.sends = 1]]
    BY <1>1
  <2>3. [calls EXCEPT ![c].sends = 2] \in [Calls -> Call]
    BY <1>1 DEF Call
  <2>. QED  BY <1>1, <2>1, <2>2, <2>3
<1>5. calls' \in [Calls -> Call]
  BY <1>2, <1>3, <1>4 DEF UserCall, FindAddress, Send, TimesOut
<1>6. toDevice' \in Seq(Calls \cup Queries)
  BY <1>1 DEF UserCall, FindAddress, Send, TimesOut, Parts
<1>7. UNCHANGED <<setting, device, entity, told, fromDevice, losses, unseen, missed, skipped>>
  BY DEF UserCall, FindAddress, Send, TimesOut
<1>. QED  BY <1>5, <1>6, <1>7 DEF Parts

LEMMA StaysTyping == ASSUME Parts, OnEntityOnline \/ OnEntityOffline PROVE Parts'
<1>1. entity \in Entity /\ calls \in [Calls -> Call] /\ device \in Device
  BY DEF Parts
<1>2. CASE OnEntityOnline
  <2> DEFINE stay == entity.stays + 1
             register == <<"register", stay>>
  <2>1. stay \in 0..MaxStays
    BY <1>1, <1>2, ControlAssumption DEF OnEntityOnline, Entity
  <2>2. register \in Queries
    BY <2>1 DEF Queries
  <2>3. Append(toDevice, register) \in Seq(Calls \cup Queries)
    BY <2>2, AppendProperties DEF Parts
  <2>4. entity' = [status |-> "enumerating", value |-> None, subscribed |-> FALSE, expected |-> None,
                   asked |-> {register}, stays |-> stay] /\ toDevice' = Append(toDevice, register)
    BY <1>2 DEF OnEntityOnline
  <2> HIDE DEF stay, register
  <2>5. entity' \in Entity
    BY <2>1, <2>2, <2>4 DEF Entity
  <2>. QED  BY <1>2, <2>3, <2>4, <2>5 DEF OnEntityOnline, Parts
<1>3. CASE OnEntityOffline
  <2>1. NoEntity(entity.stays) \in Entity
    BY <1>1 DEF NoEntity, Entity
  <2>2. Discarded \in [Calls -> Call]
    BY <1>1 DEF Discarded, Call
  <2>3. [device EXCEPT !.registered = FALSE, !.seq = 0] \in Device
    <3>1. 0 \in 0..(Width - 1)
      BY ControlAssumption
    <3>. QED  BY <1>1, <3>1 DEF Device
  <2>. QED  BY <1>1, <1>3, <2>1, <2>2, <2>3 DEF OnEntityOffline, Parts
<1>. QED  BY <1>2, <1>3

LEMMA TypingNext == Parts /\ [Next]_vars => Parts'
<1>1. ASSUME Parts, UNCHANGED vars PROVE Parts'
  BY <1>1 DEF Parts, vars
<1>. QED  BY <1>1, DeviceSteps, LoseTyping, ReceiveTyping, UserTyping, StaysTyping DEF Next

\* Every variable keeps its type, whatever the device, the network and the user do.
THEOREM TypeCorrect == Spec => []TypeOK
<1>. QED  BY TypingInit, TypingNext, TypingParts, PTL DEF Spec

-----------------------------------------------------------------------------
(* What observers and users are told                                         *)

\* An answer that the device gave to a command it executed has the command's value.
Own(m) == m.kind = "response" /\ m.about \in Calls /\ m.status = "Success" => m.value = m.about
AnswersOwn == \A i \in 1 .. Len(fromDevice) : Own(fromDevice[i])

\* An entity is advertised with a value.
HasValue == entity.status = "advertised" => entity.value # None

Agreement == AnswersOwn /\ HasValue /\ ObserversSeeTheModel

LEMMA AgreementInit == Init => Agreement
<1>1. \A i : i \notin 1 .. Len(<<>>)
  OBVIOUS
<1>. QED  BY <1>1 DEF Init, Agreement, AnswersOwn, HasValue, ObserversSeeTheModel, NoEntity

\* A message more, or one less.
LEMMA AnswersKept ==
  ASSUME Parts, AnswersOwn, NEW m \in Messages,
         \/ fromDevice' = fromDevice
         \/ fromDevice # <<>> /\ fromDevice' = Tail(fromDevice)
         \/ fromDevice' = Append(fromDevice, m) /\ Own(m)
  PROVE  AnswersOwn'
<1>1. fromDevice \in Seq(Messages)
  BY DEF Parts
<1>2. CASE fromDevice' = fromDevice
  BY <1>2 DEF AnswersOwn
<1>3. CASE fromDevice # <<>> /\ fromDevice' = Tail(fromDevice)
  <2>1. \A i \in 1 .. Len(Tail(fromDevice)) :
          i + 1 \in 1 .. Len(fromDevice) /\ Tail(fromDevice)[i] = fromDevice[i + 1]
    BY <1>1, <1>3, HeadTailProperties, LenProperties
  <2>. QED  BY <1>3, <2>1 DEF AnswersOwn
<1>4. CASE fromDevice' = Append(fromDevice, m) /\ Own(m)
  <2>1. \A i \in 1 .. Len(Append(fromDevice, m)) :
          \/ i \in 1 .. Len(fromDevice) /\ Append(fromDevice, m)[i] = fromDevice[i]
          \/ Append(fromDevice, m)[i] = m
    BY <1>1, AppendProperties, LenProperties
  <2>. QED  BY <1>4, <2>1 DEF AnswersOwn
<1>. QED  BY <1>2, <1>3, <1>4

LEMMA DeviceAnswersOwn ==
  ASSUME Parts, AnswersOwn, DeviceTakes \/ DeviceChanges \/ DeviceDeregisters
  PROVE  AnswersOwn'
<1>d. device \in Device
  BY DEF Parts
<1>1. CASE DeviceTakes
  <2> DEFINE message == Head(toDevice)
  <2>1. message \in Calls \cup Queries
    BY <1>1, Heads DEF DeviceTakes, Parts
  <2>2. PICK status \in {"Success", "Refused"} :
           /\ fromDevice' = Append(fromDevice, News("response", message, status, device'))
           /\ message \in Calls /\ status = "Success" => device'.value = message
    <3>1. CASE message \in Calls
      <4>1. CASE /\ device' = [device EXCEPT !.value = message, !.version = @ + 1]
                 /\ fromDevice' = Append(fromDevice, News("response", message, "Success", device'))
        BY <1>d, <4>1 DEF Device
      <4>2. CASE /\ device' = device
                 /\ fromDevice' = Append(fromDevice, News("response", message, "Refused", device))
        BY <4>2
      <4>. QED  BY <1>1, <3>1, <4>1, <4>2 DEF DeviceTakes
    <3>2. CASE message \notin Calls
      BY <1>1, <3>2 DEF DeviceTakes
    <3>. QED  BY <3>1, <3>2
  <2>3. device' \in Device
    BY DeviceSteps DEF Parts
  <2>4. News("response", message, status, device') \in Messages
    BY <2>1, <2>3, NewsTyping
  <2>5. Own(News("response", message, status, device'))
    BY <2>2 DEF Own, News
  <2>. QED  BY <2>2, <2>4, <2>5, AnswersKept
<1>2. ASSUME NEW kind \in {"changed", "deregistered"}, NEW d \in Device,
             fromDevice' = Append(fromDevice, Notification(kind, d))
      PROVE  AnswersOwn'
  <2>1. Notification(kind, d) \in Messages
    BY NotificationTyping
  <2>2. Own(Notification(kind, d))
    BY DEF Own, Notification, News
  <2>. QED  BY <1>2, <2>1, <2>2, AnswersKept
<1>3. CASE DeviceChanges
  <2> DEFINE changed == [device EXCEPT !.changes = @ + 1, !.version = @ + 1, !.value = device.changes + 1]
  <2>1. changed \in Device
    <3>1. device.changes + 1 \in 0..MaxChanges /\ device.version + 1 \in Nat
      BY <1>3, <1>d, ControlAssumption DEF DeviceChanges, Device
    <3>. QED  BY <1>d, <3>1 DEF Device, Values
  <2>2. fromDevice' = Append(fromDevice, Notification("changed", changed)) \/ fromDevice' = fromDevice
    BY <1>3 DEF DeviceChanges
  <2> HIDE DEF changed
  <2>3. CASE fromDevice' = fromDevice
    BY <2>3 DEF AnswersOwn
  <2>. QED  BY <1>2, <2>1, <2>2, <2>3
<1>4. CASE DeviceDeregisters
  BY <1>2, <1>4, <1>d DEF DeviceDeregisters
<1>. QED  BY <1>1, <1>3, <1>4

\* An update that is not shown would be one of an item that nobody sets or tells of.
LEMMA UpdateShown ==
  ASSUME Parts, HasValue, ObserversSeeTheModel, NEW value \in Values,
         setting.item.settable \/ setting.item.told
  PROVE  LET e == Updated(entity, value) IN
         /\ e.status = entity.status
         /\ entity.status = "advertised" => e.value = value
         /\ Shown(e) = IF e.status = "advertised" THEN e.value ELSE None
<1>1. setting.item.shown
  <2>1. setting.item \in Behaviours
    BY DEF Parts
  <2>. QED  BY <2>1, UpdatedIsShown
<1>2. entity \in Entity
  BY DEF Parts
<1>. QED  BY <1>1, <1>2 DEF Updated, Shown, HasValue, ObserversSeeTheModel, Entity

\* Whatever is handled leaves an agreed entity agreed.
Agreed(e, shown) ==
  /\ e.status = "advertised" => e.value # None
  /\ shown = IF e.status = "advertised" THEN e.value ELSE None

LEMMA UnsubscribedAgreed ==
  ASSUME NEW e \in Entity, NEW shown, Agreed(e, shown)
  PROVE  /\ Agreed(Unsubscribed(e), shown)
         /\ \A query : Agreed(Forgotten(e, query), shown)
         /\ \A asked : Agreed([e EXCEPT !.asked = asked], shown)
         /\ \A seq \in 0..(Width - 1) : Agreed(Expecting(e, seq), shown)
<1>1. Agreed(Unsubscribed(e), shown)
  BY DEF Agreed, Unsubscribed, Entity
<1>2. \A query : Agreed(Forgotten(e, query), shown)
  BY DEF Agreed, Forgotten, Entity
<1>3. \A asked : Agreed([e EXCEPT !.asked = asked], shown)
  BY DEF Agreed, Entity
<1>4. \A n : Agreed([e EXCEPT !.expected = n], shown)
  BY DEF Agreed, Entity
<1>5. \A seq \in 0..(Width - 1) : Agreed(Expecting(e, seq), shown)
  BY <1>4 DEF Expecting
<1>. QED  BY <1>1, <1>2, <1>3, <1>5

LEMMA AgreedIs == HasValue /\ ObserversSeeTheModel <=> Agreed(entity, told)
BY DEF Agreed, HasValue, ObserversSeeTheModel

LEMMA AgreedIsNext == Agreed(entity', told') => HasValue' /\ ObserversSeeTheModel'
BY DEF Agreed, HasValue, ObserversSeeTheModel

\* A handler that updates the item, or not, shows what it did.
LEMMA UpdateAgreed ==
  ASSUME Parts, Agreed(entity, told), NEW e \in Entity,
         \/ e = entity
         \/ e = Unsubscribed(entity)
         \/ /\ setting.item.settable \/ setting.item.told
            /\ \E value \in Values : e = Updated(entity, value)
  PROVE  Agreed(e, Shown(e))
<1>1. entity \in Entity
  BY DEF Parts
<1>2. CASE e = entity
  BY <1>2 DEF Agreed, Shown
<1>3. CASE e = Unsubscribed(entity)
  <2>1. Agreed(e, told)
    BY <1>1, <1>3, UnsubscribedAgreed
  <2>. QED  BY <2>1 DEF Agreed, Shown
<1>4. ASSUME setting.item.settable \/ setting.item.told,
             NEW value \in Values, e = Updated(entity, value)
      PROVE  Agreed(e, Shown(e))
  <2>1. /\ e.status = entity.status
        /\ entity.status = "advertised" => e.value = value
        /\ Shown(e) = IF e.status = "advertised" THEN e.value ELSE None
    BY <1>4, AgreedIs, UpdateShown
  <2>2. None \notin Values
    BY ControlAssumption DEF Values
  <2>. QED  BY <2>1, <2>2 DEF Agreed
<1>. QED  BY <1>2, <1>3, <1>4

\* Only items that a user can set have commands.
SetOnly == \A c \in Calls : calls[c].at \in {"found", "addressed", "inflight"} => setting.item.settable

LEMMA SetOnlyNext == Parts /\ SetOnly /\ [Next]_vars => SetOnly'
<1>. SUFFICES ASSUME Parts, SetOnly, [Next]_vars PROVE SetOnly'
  OBVIOUS
<1>1. calls \in [Calls -> Call] /\ setting' = setting
  BY DEF Parts, Next, vars, UserCall, FindAddress, Send, TimesOut, Receive, OnEntityOnline,
         OnEntityOffline, DeviceTakes, DeviceChanges, DeviceDeregisters, Lose
<1>same. ASSUME calls' = calls PROVE SetOnly'
  BY <1>1, <1>same DEF SetOnly
<1>2. ASSUME NEW c \in Calls, UserCall(c) \/ FindAddress(c) \/ Send(c) \/ TimesOut(c)
      PROVE  SetOnly'
  <2>1. setting.item.settable \/ calls[c].at \in {"found", "addressed", "inflight"}
    BY <1>2 DEF UserCall, FindAddress, Send, TimesOut
  <2>2. setting.item.settable
    BY <2>1 DEF SetOnly
  <2>. QED  BY <1>1, <2>2 DEF SetOnly
<1>3. CASE Receive
  <2> DEFINE m == Head(fromDevice)
  <2>1. m \in Messages /\ (NotificationReceived(m) \/ AnswerReceived(m) \/ QueryAnswered(m))
    BY <1>3, MessageTaken
  <2> HIDE DEF m
  <2>2. CASE calls' = calls
    BY <1>same, <2>2
  <2>3. CASE m.about \in Calls /\ m.status \in {"Success", "Refused"} /\ Ended(m.about, m.status)
    <3>1. /\ calls'[m.about].at = "done"
          /\ \A d \in Calls : d # m.about => calls'[d] = calls[d]
      BY <1>1, <2>3 DEF Ended, Call
    <3>. QED  BY <1>1, <3>1 DEF SetOnly
  <2>4. NotificationReceived(m) \/ QueryAnswered(m) => calls' = calls
    BY DEF NotificationReceived, QueryAnswered
  <2>5. AnswerReceived(m) => \/ calls' = calls
                             \/ /\ m.about \in Calls /\ m.status \in {"Success", "Refused"}
                                /\ Ended(m.about, m.status)
    BY <2>1 DEF AnswerReceived, Messages, Answers, Notifications
  <2>. QED  BY <2>1, <2>2, <2>3, <2>4, <2>5
<1>4. CASE OnEntityOffline
  <2>1. \A c \in Calls : Discarded[c].at = calls[c].at \/ Discarded[c].at = "discarded"
    BY <1>1 DEF Discarded, Call
  <2>. QED  BY <1>1, <1>4, <2>1 DEF OnEntityOffline, SetOnly
<1>5. CASE OnEntityOnline \/ DeviceTakes \/ DeviceChanges \/ DeviceDeregisters \/ Lose \/ UNCHANGED vars
  BY <1>5, <1>same DEF OnEntityOnline, DeviceTakes, DeviceChanges, DeviceDeregisters, Lose, vars
<1>. QED  BY <1>2, <1>3, <1>4, <1>5 DEF Next

\* A command that is not answered has no success.
Unanswered == \A c \in Calls : calls[c].at # "done" => calls[c].status # "Success"

\* The one step that answers a command of the user with a success.
LEMMA Successes ==
  ASSUME Parts, [Next]_vars, NEW c \in Calls, calls'[c].status = "Success", calls[c].status # "Success"
  PROVE  /\ fromDevice # <<>> /\ AnswerReceived(Head(fromDevice))
         /\ Head(fromDevice).about = c /\ Head(fromDevice).status = "Success"
         /\ calls[c].at = "inflight" /\ calls'[c].at = "done" /\ Receive
<1>1. calls \in [Calls -> Call]
  BY DEF Parts
<1>2. CASE Receive
  <2> DEFINE m == Head(fromDevice)
  <2>1. m \in Messages /\ (NotificationReceived(m) \/ AnswerReceived(m) \/ QueryAnswered(m))
        /\ fromDevice # <<>>
    BY <1>2, MessageTaken DEF Receive
  <2> HIDE DEF m
  <2>2. calls' # calls
    OBVIOUS
  <2>3. AnswerReceived(m)
    BY <2>1, <2>2 DEF NotificationReceived, QueryAnswered
  <2>4. /\ m.about \in Calls /\ calls[m.about].at = "inflight"
        /\ Ended(m.about, m.status) /\ m.status \in {"Success", "Refused"}
    BY <2>1, <2>2, <2>3 DEF AnswerReceived, Messages, Answers, Notifications
  <2>5. /\ calls'[m.about].status = m.status /\ calls'[m.about].at = "done"
        /\ \A d \in Calls : d # m.about => calls'[d] = calls[d]
    BY <1>1, <2>4 DEF Ended, Call
  <2>6. m.about = c
    BY <2>5
  <2>. QED  BY <1>2, <2>1, <2>3, <2>4, <2>5, <2>6 DEF m
<1>3. ASSUME NEW d \in Calls, UserCall(d) \/ FindAddress(d) \/ Send(d) \/ TimesOut(d)
      PROVE  calls'[c].status # "Success"
  <2>1. ASSUME NEW status \in {"UnknownEntity", "TimedOut"}, Ended(d, status)
        PROVE  calls'[c].status # "Success"
    BY <1>1, <2>1 DEF Ended, Call
  <2>2. CASE \/ \E at : calls' = [calls EXCEPT ![d].at = at]
             \/ calls' = [calls EXCEPT ![d].at = "inflight", ![d].sends = 1]
             \/ calls' = [calls EXCEPT ![d].sends = 2]
    BY <1>1, <2>2 DEF Call
  <2>. QED  BY <1>3, <2>1, <2>2 DEF UserCall, FindAddress, Send, TimesOut
<1>4. CASE OnEntityOffline
  <2>1. Discarded[c].status = calls[c].status
    BY <1>1 DEF Discarded, Call
  <2>. QED  BY <1>4, <2>1 DEF OnEntityOffline
<1>5. CASE OnEntityOnline \/ DeviceTakes \/ DeviceChanges \/ DeviceDeregisters \/ Lose \/ UNCHANGED vars
  BY <1>5 DEF OnEntityOnline, DeviceTakes, DeviceChanges, DeviceDeregisters, Lose, vars
<1>. QED  BY <1>2, <1>3, <1>4, <1>5 DEF Next

LEMMA DoneStays ==
  ASSUME Parts, [Next]_vars, NEW c \in Calls, calls[c].at = "done"
  PROVE  calls'[c].at = "done"
<1>1. calls \in [Calls -> Call]
  BY DEF Parts
<1>2. CASE Receive
  <2> DEFINE m == Head(fromDevice)
  <2>1. NotificationReceived(m) \/ AnswerReceived(m) \/ QueryAnswered(m)
    BY <1>2, MessageTaken
  <2> HIDE DEF m
  <2>2. calls' = calls \/ (m.about \in Calls /\ Ended(m.about, m.status))
    BY <2>1 DEF NotificationReceived, AnswerReceived, QueryAnswered
  <2>. QED  BY <1>1, <2>2 DEF Ended, Call
<1>3. ASSUME NEW d \in Calls, UserCall(d) \/ FindAddress(d) \/ Send(d) \/ TimesOut(d)
      PROVE  calls'[c] = calls[c]
  <2>1. d # c
    BY <1>3 DEF UserCall, FindAddress, Send, TimesOut
  <2>. QED  BY <1>1, <1>3, <2>1 DEF UserCall, FindAddress, Send, TimesOut, Ended
<1>4. CASE OnEntityOffline
  BY <1>1, <1>4 DEF OnEntityOffline, Discarded
<1>5. CASE OnEntityOnline \/ DeviceTakes \/ DeviceChanges \/ DeviceDeregisters \/ Lose \/ UNCHANGED vars
  BY <1>5 DEF OnEntityOnline, DeviceTakes, DeviceChanges, DeviceDeregisters, Lose, vars
<1>. QED  BY <1>2, <1>3, <1>4, <1>5 DEF Next

LEMMA UnansweredNext == Parts /\ Unanswered /\ [Next]_vars => Unanswered'
<1>. SUFFICES ASSUME Parts, Unanswered, [Next]_vars, NEW c \in Calls, calls'[c].at # "done"
              PROVE  calls'[c].status # "Success"
  BY DEF Unanswered
<1>1. CASE calls[c].status # "Success"
  BY <1>1, Successes
<1>2. CASE calls[c].at = "done"
  BY <1>2, DoneStays
<1>. QED  BY <1>1, <1>2 DEF Unanswered

LEMMA AgreementNext == Parts /\ Parts' /\ SetOnly /\ Agreement /\ [Next]_vars => Agreement'
<1>. SUFFICES ASSUME Parts, Parts', SetOnly, Agreement, [Next]_vars PROVE Agreement'
  OBVIOUS
<1>types. entity \in Entity /\ entity' \in Entity /\ calls \in [Calls -> Call]
  BY DEF Parts
<1>now. AnswersOwn /\ Agreed(entity, told)
  BY AgreedIs DEF Agreement
<1>next. AnswersOwn' /\ Agreed(entity', told') => Agreement'
  BY AgreedIsNext DEF Agreement
<1>same. UNCHANGED <<entity, told>> => Agreed(entity', told')
  BY <1>now DEF Agreed
<1>1. CASE Receive
  <2> DEFINE m == Head(fromDevice)
  <2>1. /\ m \in Messages /\ fromDevice # <<>> /\ fromDevice' = Tail(fromDevice)
        /\ NotificationReceived(m) \/ AnswerReceived(m) \/ QueryAnswered(m)
    BY <1>1, MessageTaken DEF Receive
  <2> HIDE DEF m
  <2>2. AnswersOwn'
    BY <1>now, <2>1, AnswersKept
  <2>3. CASE NotificationReceived(m)
    <3> DEFINE handled == Notified(m)
               expecting == Expecting(handled, m.about)
               deregister == <<"deregister", entity.stays>>
    <3>1. m.about \in 0..(Width - 1) /\ m.value \in Values
      BY <2>1, <2>3 DEF NotificationReceived, IsNotification, Messages, Answers, Notifications
    <3>2. handled \in Entity
      BY <1>types, <3>1, EntityTyping DEF Notified, Deregistered
    <3>3. \/ handled = entity \/ handled = Unsubscribed(entity)
          \/ /\ setting.item.settable \/ setting.item.told
             /\ \E value \in Values : handled = Updated(entity, value)
      BY <3>1 DEF Notified, Deregistered
    <3>4. told' = Shown(handled)
          /\ (entity' = expecting \/ entity' = [Unsubscribed(expecting) EXCEPT !.asked = @ \cup {deregister}])
      BY <2>3 DEF NotificationReceived
    <3> HIDE DEF handled, deregister
    <3>5. Agreed(handled, told')
      BY <1>now, <3>2, <3>3, <3>4, UpdateAgreed
    <3>6. expecting \in Entity /\ Agreed(expecting, told')
      BY <3>1, <3>2, <3>5, EntityTyping, UnsubscribedAgreed
    <3> HIDE DEF expecting
    <3>7. Unsubscribed(expecting) \in Entity /\ Agreed(Unsubscribed(expecting), told')
      BY <3>6, EntityTyping, UnsubscribedAgreed
    <3>8. Agreed([Unsubscribed(expecting) EXCEPT !.asked = @ \cup {deregister}], told')
      BY <3>7, UnsubscribedAgreed
    <3>. QED  BY <1>next, <2>2, <3>4, <3>6, <3>8
  <2>4. CASE AnswerReceived(m)
    <3>1. CASE UNCHANGED <<entity, told>>
      BY <1>same, <1>next, <2>2, <3>1
    <3>2. CASE /\ calls[m.about].at = "inflight" /\ m.about \in Calls
               /\ entity' = ResultApplied(m) /\ told' = Shown(ResultApplied(m))
      <4>1. m.value \in Values
        BY <2>1 DEF Messages, Answers, Notifications
      <4>2. setting.item.settable
        BY <3>2 DEF SetOnly
      <4>3. \/ ResultApplied(m) = entity
            \/ \E value \in Values : ResultApplied(m) = Updated(entity, value)
        BY <4>1 DEF ResultApplied
      <4>4. Agreed(entity', told')
        BY <1>now, <1>types, <3>2, <4>2, <4>3, UpdateAgreed
      <4>. QED  BY <1>next, <2>2, <4>4
    <3>. QED  BY <2>4, <3>1, <3>2 DEF AnswerReceived
  <2>5. CASE QueryAnswered(m)
    <3> DEFINE answered == Forgotten(entity, m.about)
               query == <<"get", entity.stays>>
    <3>1. answered \in Entity /\ Agreed(answered, told)
      BY <1>now, <1>types, EntityTyping, UnsubscribedAgreed
    <3>2. m.value \in Values /\ None \notin Values
      BY <2>1, ControlAssumption DEF Messages, Answers, Notifications, Values
    <3>3. \/ /\ entity' = [answered EXCEPT !.subscribed = TRUE, !.asked = @ \cup {query}]
             /\ told' = told
          \/ /\ entity' = [answered EXCEPT !.status = "advertised", !.value = m.value]
             /\ told' = m.value
          \/ entity' = Unsubscribed(answered) /\ told' = told
          \/ UNCHANGED <<entity, told>>
      BY <2>5 DEF QueryAnswered
    <3> HIDE DEF answered, query
    <3>4. CASE /\ entity' = [answered EXCEPT !.subscribed = TRUE, !.asked = @ \cup {query}]
               /\ told' = told
      <4>1. entity'.status = answered.status /\ entity'.value = answered.value
        BY <3>1, <3>4 DEF Entity
      <4>2. Agreed(entity', told')
        BY <3>1, <3>4, <4>1 DEF Agreed
      <4>. QED  BY <1>next, <2>2, <4>2
    <3>5. CASE /\ entity' = [answered EXCEPT !.status = "advertised", !.value = m.value]
               /\ told' = m.value
      <4>1. entity'.status = "advertised" /\ entity'.value = m.value
        BY <3>1, <3>5 DEF Entity
      <4>2. Agreed(entity', told')
        BY <3>2, <3>5, <4>1 DEF Agreed
      <4>. QED  BY <1>next, <2>2, <4>2
    <3>6. CASE entity' = Unsubscribed(answered) /\ told' = told
      <4>1. Agreed(entity', told')
        BY <3>1, <3>6, UnsubscribedAgreed
      <4>. QED  BY <1>next, <2>2, <4>1
    <3>. QED  BY <1>next, <1>same, <2>2, <3>3, <3>4, <3>5, <3>6
  <2>. QED  BY <2>1, <2>3, <2>4, <2>5
<1>2. CASE DeviceTakes \/ DeviceChanges \/ DeviceDeregisters
  <2>1. UNCHANGED <<entity, told>>
    BY <1>2 DEF DeviceTakes, DeviceChanges, DeviceDeregisters
  <2>. QED  BY <1>2, <1>now, <1>same, <1>next, <2>1, DeviceAnswersOwn
<1>own. UNCHANGED fromDevice => AnswersOwn'
  BY <1>now DEF AnswersOwn
<1>3. CASE Lose
  <2>1. UNCHANGED <<entity, told>>
        /\ (UNCHANGED fromDevice \/ (fromDevice # <<>> /\ fromDevice' = Tail(fromDevice)))
    BY <1>3 DEF Lose
  <2>2. AnswersOwn'
    <3>1. CASE fromDevice # <<>> /\ fromDevice' = Tail(fromDevice)
      <4>1. Head(fromDevice) \in Messages
        BY <3>1, Heads DEF Parts
      <4>. QED  BY <1>now, <3>1, <4>1, AnswersKept
    <3>. QED  BY <1>own, <2>1, <3>1
  <2>. QED  BY <1>same, <1>next, <2>1, <2>2
<1>4. ASSUME NEW c \in Calls, UserCall(c) \/ FindAddress(c) \/ Send(c) \/ TimesOut(c)
      PROVE  Agreement'
  BY <1>4, <1>own, <1>same, <1>next DEF UserCall, FindAddress, Send, TimesOut
<1>5. CASE OnEntityOnline
  <2>1. UNCHANGED <<fromDevice, told>> /\ entity.status = "offline" /\ entity'.status = "enumerating"
    BY <1>5 DEF OnEntityOnline, Known
  <2>2. Agreed(entity', told')
    BY <1>now, <2>1 DEF Agreed
  <2>. QED  BY <1>own, <1>next, <2>1, <2>2
<1>6. CASE OnEntityOffline
  <2>1. UNCHANGED fromDevice /\ told' = None /\ entity'.status = "offline"
    BY <1>6 DEF OnEntityOffline, NoEntity
  <2>2. Agreed(entity', told')
    BY <2>1 DEF Agreed
  <2>. QED  BY <1>own, <1>next, <2>1, <2>2
<1>7. CASE UNCHANGED vars
  BY <1>7, <1>own, <1>same, <1>next DEF vars
<1>. QED  BY <1>1, <1>2, <1>3, <1>4, <1>5, <1>6, <1>7 DEF Next

Inv == Parts /\ Agreement /\ SetOnly /\ Unanswered

LEMMA InvAlways == Spec => []Inv
<1>1. Init => Inv
  <2>1. Init => SetOnly /\ Unanswered
    BY ControlAssumption DEF Init, SetOnly, Unanswered
  <2>. QED  BY <2>1, TypingInit, AgreementInit DEF Inv
<1>2. Inv /\ [Next]_vars => Inv'
  BY TypingNext, AgreementNext, SetOnlyNext, UnansweredNext DEF Inv
<1>. QED  BY <1>1, <1>2, PTL DEF Spec

\* Observers were told of exactly the value that the model of an advertised entity has,
\* through any order of commands, answers, notifications and departures.
THEOREM ObserversAlwaysSeeTheModel == Spec => []ObserversSeeTheModel
<1>1. Inv => ObserversSeeTheModel
  BY DEF Inv, Agreement
<1>. QED  BY InvAlways, <1>1, PTL

\* A user who is told of a success, and whose entity is still advertised, sees the value
\* that was set: what was last told to observers.
THEOREM SuccessAlwaysShown == Spec => SuccessIsShown
<1>1. Inv /\ [Next]_vars => [\A c \in Calls : ShowsSuccess(c)]_vars
  <2>. SUFFICES ASSUME Inv, [Next]_vars, NEW c \in Calls, calls[c].at = "inflight",
                       calls'[c].status = "Success", entity'.status = "advertised"
                PROVE  told' = c
    BY DEF ShowsSuccess
  <2> DEFINE m == Head(fromDevice)
  <2>1. Parts /\ AnswersOwn /\ HasValue /\ ObserversSeeTheModel /\ setting.item.settable
        /\ calls[c].status # "Success"
    BY DEF Inv, Agreement, SetOnly, Unanswered
  <2>2. /\ fromDevice # <<>> /\ AnswerReceived(m)
        /\ m.about = c /\ m.status = "Success" /\ calls[c].at = "inflight"
    BY <2>1, Successes
  <2>3. m = fromDevice[1] /\ 1 \in 1 .. Len(fromDevice) /\ m \in Messages
    BY <2>1, <2>2, HeadTailProperties, LenProperties, EmptySeq DEF Parts
  <2>4. m.value = c /\ m.value \in Values
    BY <2>1, <2>2, <2>3 DEF AnswersOwn, Own, AnswerReceived, Values
  <2> HIDE DEF m
  <2>5. entity' = ResultApplied(m) /\ told' = Shown(ResultApplied(m))
    BY <2>2 DEF AnswerReceived
  <2>6. /\ Updated(entity, m.value).status = entity.status
        /\ entity.status = "advertised" => Updated(entity, m.value).value = m.value
        /\ Shown(Updated(entity, m.value))
             = IF Updated(entity, m.value).status = "advertised" THEN Updated(entity, m.value).value ELSE None
    BY <2>1, <2>4, UpdateShown
  <2>7. CASE Known
    <3>1. ResultApplied(m) = Updated(entity, m.value)
      BY <2>2, <2>7 DEF ResultApplied
    <3>. QED  BY <2>4, <2>5, <2>6, <3>1
  <2>8. CASE ~Known
    <3>1. entity' = entity
      BY <2>5, <2>8 DEF ResultApplied
    <3>. QED  BY <2>8, <3>1 DEF Known
  <2>. QED  BY <2>7, <2>8
<1>. QED  BY InvAlways, <1>1, PTL DEF Spec, SuccessIsShown

-----------------------------------------------------------------------------
(* The model follows the device                                              *)

\* What a user can set, the device tells of.
LEMMA SettableIsTold == Settable \subseteq Told
BY DEF Told, HandedOn, TakenStreams, TakenEntityNames, TakenObjectNames, TakenRates, TakenStates,
    TakenCounters, TakenObjects, Settable, SetStreams, SetEntityNames, SetStreamNames, SetJackNames,
    SetSourceNames, SetControlNames, SetPtpNames, SetRates, SetControls, SetRunning, AddMappings,
    RemoveMappings, SetLength, SetTransit, SetSystem, ToldStreams, ToldEntityNames, ToldObjectNames,
    ToldRates, ToldRunning, ToldMappings, ToldLength, ToldTransit, ToldVendor, ToldStates, ToldCounters

\* A message that tells of a change of the device: a notification, or the answer to a
\* command that the device executed.
Useful(m) ==
  m.kind = "changed" \/ (m.kind = "response" /\ m.about \in Calls /\ m.status = "Success")

\* Messages come in the order of the changes, none of a change that is still to come,
\* and the last change is the value that the device has.
Ages(q, d, u) ==
  /\ u <= d.version
  /\ \A i \in 1 .. Len(q) :
       /\ q[i].version <= d.version
       /\ q[i].version = d.version => q[i].value = d.value
       /\ Useful(q[i]) => q[i].version > 0
  /\ \A i, j \in 1 .. Len(q) : i < j => q[i].version <= q[j].version

\* The answer that ends the enumeration of this stay.
GetOf(e, m) ==
  m.kind = "response" /\ m.about \notin Calls /\ m.about = <<"get", e.stays>> /\ m.about \in e.asked

\* The query of the item is sent once the registration of its stay was answered.
Fresh(e, query) ==
  query \notin Calls /\ query[1] = "get" =>
    /\ query[2] <= e.stays
    /\ query[2] = e.stays => <<"register", e.stays>> \notin e.asked
InTime(e, sent, q) ==
  /\ \A query \in e.asked : query[2] = e.stays
  /\ \A i \in 1 .. Len(sent) : Fresh(e, sent[i])
  /\ \A i \in 1 .. Len(q) : q[i].kind = "response" => Fresh(e, q[i].about)

\* Who has taken the messages up to the one of index k does not have the last change: its
\* news was lost, or is one of the messages after it.
Behind(q, version, u, k) ==
  \/ u = version /\ u > 0
  \/ \E j \in 1 .. Len(q) : j > k /\ Useful(q[j]) /\ q[j].version = version
Newest(q, version) == \A i \in 1 .. Len(q) : q[i].version = version

\* The model, and the value that ends the enumeration, are that of the device, or behind it.
CatchesUp(e, q, d, u) ==
  /\ e.status = "advertised" => \/ Behind(q, d.version, u, 0)
                                \/ e.value = d.value /\ Newest(q, d.version)
  /\ \A k \in 1 .. Len(q) : GetOf(e, q[k]) => Behind(q, d.version, u, k) \/ q[k].version = d.version

LEMMA Tails ==
  ASSUME NEW q \in Seq(Messages), q # <<>>
  PROVE  /\ Head(q) = q[1] /\ Head(q) \in Messages /\ Tail(q) \in Seq(Messages)
         /\ 1 \in 1 .. Len(q) /\ Len(q) \in Nat /\ Len(Tail(q)) = Len(q) - 1
         /\ \A i \in 1 .. Len(Tail(q)) : i + 1 \in 1 .. Len(q) /\ Tail(q)[i] = q[i + 1]
         /\ \A i \in 1 .. Len(q) : i # 1 => i - 1 \in 1 .. Len(Tail(q)) /\ Tail(q)[i - 1] = q[i]
BY HeadTailProperties, LenProperties, EmptySeq

LEMMA Appended ==
  ASSUME NEW q \in Seq(Messages), NEW n \in Messages
  PROVE  /\ Append(q, n) \in Seq(Messages) /\ Len(q) \in Nat /\ Len(Append(q, n)) = Len(q) + 1
         /\ \A i \in 1 .. Len(q) : i \in 1 .. Len(Append(q, n)) /\ Append(q, n)[i] = q[i]
         /\ Len(q) + 1 \in 1 .. Len(Append(q, n)) /\ Append(q, n)[Len(q) + 1] = n
         /\ \A i \in 1 .. Len(Append(q, n)) : i \in 1 .. Len(q) \/ i = Len(q) + 1
BY AppendProperties, LenProperties

LEMMA MessageTypes ==
  ASSUME NEW m \in Messages
  PROVE  /\ m.version \in Nat /\ m.value \in Values
         /\ Useful(m) => m.kind # "deregistered" /\ m.status = "Success"
BY DEF Messages, Answers, Notifications, Useful

\* What becomes of the news that is still to come when the first message is taken: it was
\* lost before, or is lost with this message, or was caught up with by it.
Taken(m, u, after) ==
  \/ after = u
  \/ after = IF m.kind # "deregistered" /\ m.status = "Success" /\ m.version > u THEN m.version ELSE u
  \/ after = 0 /\ m.version >= u

LEMMA AgesTaken ==
  ASSUME NEW q \in Seq(Messages), q # <<>>, NEW d \in Device, NEW u \in Nat, NEW after \in Nat,
         Ages(q, d, u), Taken(Head(q), u, after)
  PROVE  Ages(Tail(q), d, after)
<1>1. d.version \in Nat /\ \A i \in 1 .. Len(q) : q[i].version \in Nat
  BY MessageTypes DEF Device
<1>2. after <= d.version
  BY <1>1, Tails DEF Ages, Taken
<1>3. \A i \in 1 .. Len(Tail(q)) :
        /\ Tail(q)[i].version <= d.version
        /\ Tail(q)[i].version = d.version => Tail(q)[i].value = d.value
        /\ Useful(Tail(q)[i]) => Tail(q)[i].version > 0
  BY Tails DEF Ages
<1>4. \A i, j \in 1 .. Len(Tail(q)) : i < j => Tail(q)[i].version <= Tail(q)[j].version
  <2>. SUFFICES ASSUME NEW i \in 1 .. Len(Tail(q)), NEW j \in 1 .. Len(Tail(q)), i < j
                PROVE  Tail(q)[i].version <= Tail(q)[j].version
    OBVIOUS
  <2>1. /\ i + 1 \in 1 .. Len(q) /\ Tail(q)[i] = q[i + 1]
        /\ j + 1 \in 1 .. Len(q) /\ Tail(q)[j] = q[j + 1] /\ i + 1 < j + 1
    BY Tails
  <2>. QED  BY <2>1 DEF Ages
<1>. QED  BY <1>2, <1>3, <1>4 DEF Ages

\* Once a message of the last change was taken, all that follow are of it.
LEMMA NewestFollow ==
  ASSUME NEW q \in Seq(Messages), q # <<>>, NEW d \in Device, NEW u \in Nat,
         Ages(q, d, u), Head(q).version = d.version \/ Newest(q, d.version)
  PROVE  Newest(Tail(q), d.version)
<1>. SUFFICES ASSUME NEW i \in 1 .. Len(Tail(q)) PROVE Tail(q)[i].version = d.version
  BY DEF Newest
<1>1. /\ i + 1 \in 1 .. Len(q) /\ Tail(q)[i] = q[i + 1] /\ 1 \in 1 .. Len(q) /\ Head(q) = q[1]
      /\ 1 < i + 1
  BY Tails
<1>2. d.version \in Nat /\ q[i + 1].version \in Nat
  BY <1>1, MessageTypes DEF Device
<1>3. CASE Newest(q, d.version)
  BY <1>1, <1>3 DEF Newest
<1>4. CASE Head(q).version = d.version
  <2>1. q[1].version <= q[i + 1].version /\ q[i + 1].version <= d.version
    BY <1>1 DEF Ages
  <2>. QED  BY <1>1, <1>2, <1>4, <2>1
<1>. QED  BY <1>3, <1>4

LEMMA BehindTaken ==
  ASSUME NEW q \in Seq(Messages), q # <<>>, NEW d \in Device, NEW u \in Nat, NEW after \in Nat,
         Ages(q, d, u), Taken(Head(q), u, after), NEW k \in 1 .. Len(q), Behind(q, d.version, u, k)
  PROVE  Behind(Tail(q), d.version, after, k - 1) \/ Newest(Tail(q), d.version)
<1>1. d.version \in Nat /\ Head(q).version \in Nat /\ Head(q).version <= d.version
  <2>1. Head(q) = q[1] /\ Head(q) \in Messages /\ 1 \in 1 .. Len(q)
    BY Tails
  <2>. QED  BY <2>1, MessageTypes DEF Device, Ages
<1>2. CASE u = d.version /\ u > 0
  <2>1. after = u \/ Head(q).version = d.version
    BY <1>1, <1>2 DEF Taken
  <2>2. CASE after = u
    BY <1>2, <2>2 DEF Behind
  <2>3. CASE Head(q).version = d.version
    BY <2>3, NewestFollow
  <2>. QED  BY <2>1, <2>2, <2>3
<1>3. ASSUME NEW j \in 1 .. Len(q), j > k, Useful(q[j]), q[j].version = d.version
      PROVE  Behind(Tail(q), d.version, after, k - 1)
  <2>1. j - 1 \in 1 .. Len(Tail(q)) /\ Tail(q)[j - 1] = q[j] /\ j - 1 > k - 1
    BY <1>3, Tails
  <2>. QED  BY <1>3, <2>1 DEF Behind
<1>. QED  BY <1>2, <1>3 DEF Behind

\* The first message is taken, or lost.  The entity has its value, or keeps its own, and
\* then the news of the message was lost if there was any.
LEMMA CatchesUpTaken ==
  ASSUME NEW q \in Seq(Messages), q # <<>>, NEW d \in Device, NEW u \in Nat, NEW after \in Nat,
         NEW e \in Entity, NEW f \in Entity,
         Ages(q, d, u), CatchesUp(e, q, d, u), Taken(Head(q), u, after),
         \A m \in Messages : GetOf(f, m) /\ (\E i \in 1 .. Len(Tail(q)) : m = Tail(q)[i]) => GetOf(e, m),
         f.status = "advertised" =>
           \/ /\ e.status = "advertised" \/ GetOf(e, Head(q))
              /\ f.value = Head(q).value
              /\ after = IF Head(q).version >= u THEN 0 ELSE u
           \/ /\ e.status = "advertised" /\ f.value = e.value
              /\ \/ after = u /\ ~Useful(Head(q))
                 \/ after = IF /\ Head(q).kind # "deregistered" /\ Head(q).status = "Success"
                               /\ Head(q).version > u
                            THEN Head(q).version ELSE u
  PROVE  CatchesUp(f, Tail(q), d, after)
<1> DEFINE m == Head(q)
<1>1. /\ m = q[1] /\ m \in Messages /\ 1 \in 1 .. Len(q) /\ Tail(q) \in Seq(Messages)
      /\ m.version \in Nat /\ d.version \in Nat /\ m.version <= d.version
      /\ m.version = d.version => m.value = d.value
      /\ Useful(m) => m.version > 0 /\ m.kind # "deregistered" /\ m.status = "Success"
      /\ u <= d.version
  <2>1. Head(q) = q[1] /\ Head(q) \in Messages /\ 1 \in 1 .. Len(q) /\ Tail(q) \in Seq(Messages)
    BY Tails
  <2>. QED  BY <2>1, MessageTypes DEF Device, Ages
<1>2. ASSUME NEW k \in 1 .. Len(Tail(q)), GetOf(f, Tail(q)[k])
      PROVE  Behind(Tail(q), d.version, after, k) \/ Tail(q)[k].version = d.version
  <2>1. k + 1 \in 1 .. Len(q) /\ Tail(q)[k] = q[k + 1] /\ Tail(q)[k] \in Messages /\ (k + 1) - 1 = k
    BY <1>1, Tails
  <2>2. GetOf(e, q[k + 1])
    BY <1>2, <2>1
  <2>3. Behind(q, d.version, u, k + 1) \/ q[k + 1].version = d.version
    BY <2>1, <2>2 DEF CatchesUp
  <2>4. CASE Behind(q, d.version, u, k + 1)
    <3>1. Behind(Tail(q), d.version, after, k) \/ Newest(Tail(q), d.version)
      BY <2>1, <2>4, BehindTaken
    <3>. QED  BY <3>1 DEF Newest
  <2>. QED  BY <2>1, <2>3, <2>4
<1>3. ASSUME f.status = "advertised"
      PROVE  \/ Behind(Tail(q), d.version, after, 0)
             \/ f.value = d.value /\ Newest(Tail(q), d.version)
  <2>later. ASSUME NEW j \in 1 .. Len(q), j # 1, Useful(q[j]), q[j].version = d.version
            PROVE  Behind(Tail(q), d.version, after, 0)
    <3>1. j - 1 \in 1 .. Len(Tail(q)) /\ Tail(q)[j - 1] = q[j] /\ j - 1 > 0
      BY <2>later, Tails
    <3>. QED  BY <2>later, <3>1 DEF Behind
  <2>1. CASE /\ e.status = "advertised" \/ GetOf(e, Head(q))
             /\ f.value = m.value
             /\ after = IF m.version >= u THEN 0 ELSE u
    <3>1. CASE m.version = d.version
      BY <1>1, <2>1, <3>1, NewestFollow
    <3>2. CASE m.version # d.version
      <4>1. Behind(q, d.version, u, 0)
        <5>1. \/ Behind(q, d.version, u, 0) \/ Behind(q, d.version, u, 1)
              \/ Newest(q, d.version) \/ m.version = d.version
          BY <1>1, <2>1 DEF CatchesUp
        <5>2. Newest(q, d.version) => m.version = d.version
          BY <1>1 DEF Newest
        <5>3. Behind(q, d.version, u, 1) => Behind(q, d.version, u, 0)
          BY DEF Behind
        <5>. QED  BY <3>2, <5>1, <5>2, <5>3
      <4>2. CASE u = d.version /\ u > 0
        <5>1. after = u
          BY <1>1, <2>1, <3>2, <4>2
        <5>. QED  BY <4>2, <5>1 DEF Behind
      <4>3. ASSUME NEW j \in 1 .. Len(q), Useful(q[j]), q[j].version = d.version
            PROVE  Behind(Tail(q), d.version, after, 0)
        BY <1>1, <2>later, <3>2, <4>3
      <4>. QED  BY <4>1, <4>2, <4>3 DEF Behind
    <3>. QED  BY <3>1, <3>2
  <2>2. CASE /\ e.status = "advertised" /\ f.value = e.value
             /\ \/ after = u /\ ~Useful(m)
                \/ after = IF m.kind # "deregistered" /\ m.status = "Success" /\ m.version > u
                           THEN m.version ELSE u
    <3>1. CASE u = d.version /\ u > 0
      <4>1. after = u
        BY <1>1, <2>2, <3>1
      <4>. QED  BY <3>1, <4>1 DEF Behind
    <3>2. ASSUME NEW j \in 1 .. Len(q), Useful(q[j]), q[j].version = d.version
          PROVE  Behind(Tail(q), d.version, after, 0)
      <4>1. CASE j = 1
        <5>1. after = d.version /\ after > 0
          BY <1>1, <2>2, <3>2, <4>1
        <5>. QED  BY <5>1 DEF Behind
      <4>. QED  BY <2>later, <3>2, <4>1
    <3>3. CASE e.value = d.value /\ Newest(q, d.version)
      BY <2>2, <3>3, NewestFollow
    <3>. QED  BY <2>2, <3>1, <3>2, <3>3 DEF CatchesUp, Behind
  <2>. QED  BY <1>3, <2>1, <2>2
<1>. QED  BY <1>2, <1>3 DEF CatchesUp

\* The device sends a message: of the change it made last, or of the one it just made.
LEMMA AgesAppended ==
  ASSUME NEW q \in Seq(Messages), NEW n \in Messages, NEW d \in Device, NEW f \in Device, NEW u \in Nat,
         Ages(q, d, u), n.version = f.version, n.value = f.value, Useful(n) => f.version > 0,
         \/ f.version = d.version /\ f.value = d.value
         \/ f.version = d.version + 1
  PROVE  Ages(Append(q, n), f, u)
<1>1. /\ d.version \in Nat /\ f.version \in Nat /\ d.version <= f.version
      /\ \A i \in 1 .. Len(q) : q[i].version \in Nat
  BY MessageTypes DEF Device
<1>2. ASSUME NEW i \in 1 .. Len(q)
      PROVE  /\ q[i].version <= f.version
             /\ q[i].version = f.version => q[i].value = f.value
             /\ Useful(q[i]) => q[i].version > 0
  <2>1. /\ q[i].version <= d.version
        /\ q[i].version = d.version => q[i].value = d.value
        /\ Useful(q[i]) => q[i].version > 0
    BY <1>2 DEF Ages
  <2>. QED  BY <1>1, <2>1
<1>3. u <= f.version
  BY <1>1 DEF Ages
<1>4. ASSUME NEW i \in 1 .. Len(Append(q, n))
      PROVE  /\ Append(q, n)[i].version <= f.version
             /\ Append(q, n)[i].version = f.version => Append(q, n)[i].value = f.value
             /\ Useful(Append(q, n)[i]) => Append(q, n)[i].version > 0
  <2>1. CASE i \in 1 .. Len(q)
    <3>1. Append(q, n)[i] = q[i]
      BY <2>1, Appended
    <3>. QED  BY <1>2, <2>1, <3>1
  <2>2. CASE i = Len(q) + 1
    <3>1. Append(q, n)[i] = n
      BY <2>2, Appended
    <3>. QED  BY <1>1, <3>1
  <2>. QED  BY <2>1, <2>2, Appended
<1>5. ASSUME NEW i \in 1 .. Len(Append(q, n)), NEW j \in 1 .. Len(Append(q, n)), i < j
      PROVE  Append(q, n)[i].version <= Append(q, n)[j].version
  <2>1. i \in 1 .. Len(q)
    BY <1>5, Appended
  <2>2. Append(q, n)[i] = q[i]
    BY <2>1, Appended
  <2>3. CASE j \in 1 .. Len(q)
    <3>1. Append(q, n)[j] = q[j]
      BY <2>3, Appended
    <3>2. q[i].version <= q[j].version
      BY <1>5, <2>1, <2>3 DEF Ages
    <3>. QED  BY <2>2, <3>1, <3>2
  <2>4. CASE j = Len(q) + 1
    <3>1. Append(q, n)[j] = n
      BY <2>4, Appended
    <3>. QED  BY <1>2, <2>1, <2>2, <3>1
  <2>. QED  BY <2>3, <2>4, Appended
<1>. QED  BY <1>3, <1>4, <1>5 DEF Ages

LEMMA CatchesUpAppended ==
  ASSUME NEW q \in Seq(Messages), NEW n \in Messages, NEW d \in Device, NEW f \in Device, NEW u \in Nat,
         NEW e \in Entity, CatchesUp(e, q, d, u), n.version = f.version,
         \/ f.version = d.version /\ f.value = d.value
         \/ Useful(n)
  PROVE  CatchesUp(e, Append(q, n), f, u)
<1>1. /\ \A i \in 1 .. Len(q) : i \in 1 .. Len(Append(q, n)) /\ Append(q, n)[i] = q[i]
      /\ Len(q) + 1 \in 1 .. Len(Append(q, n)) /\ Append(q, n)[Len(q) + 1] = n /\ Len(q) \in Nat
      /\ \A i \in 1 .. Len(Append(q, n)) : i \in 1 .. Len(q) \/ i = Len(q) + 1
  BY Appended
<1>2. CASE Useful(n)
  <2>1. \A k \in 0 .. Len(q) : Behind(Append(q, n), f.version, u, k)
    <3>1. \A k \in 0 .. Len(q) : Len(q) + 1 > k
      BY <1>1
    <3>. QED  BY <1>1, <1>2, <3>1 DEF Behind
  <2>2. ASSUME NEW k \in 1 .. Len(Append(q, n))
        PROVE  Behind(Append(q, n), f.version, u, k) \/ Append(q, n)[k].version = f.version
    <3>1. CASE k \in 1 .. Len(q)
      BY <2>1, <3>1
    <3>2. CASE k = Len(q) + 1
      BY <1>1, <3>2
    <3>. QED  BY <1>1, <3>1, <3>2
  <2>3. Behind(Append(q, n), f.version, u, 0)
    BY <1>1, <2>1
  <2>. QED  BY <2>2, <2>3 DEF CatchesUp
<1>3. CASE f.version = d.version /\ f.value = d.value
  <2>1. ASSUME NEW k \in 0 .. Len(q), Behind(q, d.version, u, k)
        PROVE  Behind(Append(q, n), f.version, u, k)
    BY <1>1, <1>3, <2>1 DEF Behind
  <2>2. Newest(q, d.version) => Newest(Append(q, n), f.version)
    BY <1>1, <1>3 DEF Newest
  <2>3. e.status = "advertised" => \/ Behind(Append(q, n), f.version, u, 0)
                                   \/ e.value = f.value /\ Newest(Append(q, n), f.version)
    <3>1. 0 \in 0 .. Len(q)
      BY <1>1
    <3>. QED  BY <1>3, <2>1, <2>2, <3>1 DEF CatchesUp
  <2>4. ASSUME NEW k \in 1 .. Len(Append(q, n)), GetOf(e, Append(q, n)[k])
        PROVE  Behind(Append(q, n), f.version, u, k) \/ Append(q, n)[k].version = f.version
    <3>1. CASE k \in 1 .. Len(q)
      <4>1. Append(q, n)[k] = q[k] /\ k \in 0 .. Len(q)
        BY <1>1, <3>1
      <4>2. Behind(q, d.version, u, k) \/ q[k].version = d.version
        BY <2>4, <3>1, <4>1 DEF CatchesUp
      <4>. QED  BY <1>3, <2>1, <4>1, <4>2
    <3>2. CASE k = Len(q) + 1
      BY <1>1, <3>2
    <3>. QED  BY <1>1, <3>1, <3>2
  <2>. QED  BY <2>3, <2>4 DEF CatchesUp
<1>. QED  BY <1>2, <1>3

\* The device changes without telling anybody: that news is lost.
LEMMA ChangedUntold ==
  ASSUME NEW q \in Seq(Messages), NEW d \in Device, NEW f \in Device, NEW u \in Nat, NEW e \in Entity,
         Ages(q, d, u), f.version = d.version + 1
  PROVE  Ages(q, f, f.version) /\ CatchesUp(e, q, f, f.version)
<1>1. d.version \in Nat /\ f.version \in Nat /\ f.version > 0
  BY DEF Device
<1>2. \A k : Behind(q, f.version, f.version, k)
  BY <1>1 DEF Behind
<1>3. ASSUME NEW i \in 1 .. Len(q)
      PROVE  /\ q[i].version <= f.version
             /\ q[i].version = f.version => q[i].value = f.value
             /\ Useful(q[i]) => q[i].version > 0
  <2>1. q[i].version \in Nat
    BY MessageTypes
  <2>2. q[i].version <= d.version /\ (Useful(q[i]) => q[i].version > 0)
    BY DEF Ages
  <2>. QED  BY <1>1, <2>1, <2>2
<1>. QED  BY <1>1, <1>2, <1>3 DEF Ages, CatchesUp

Mirror ==
  /\ Ages(fromDevice, device, unseen) /\ InTime(entity, toDevice, fromDevice)
  /\ setting.item.told => CatchesUp(entity, fromDevice, device, unseen)

LEMMA MirrorInit == Init => Mirror
<1>. SUFFICES ASSUME Init PROVE Mirror
  OBVIOUS
<1>1. /\ \A i : i \notin 1 .. Len(<<>>)
      /\ device.version = 0 /\ unseen = 0 /\ fromDevice = <<>> /\ toDevice = <<>>
      /\ entity.status = "offline" /\ entity.asked = {}
  BY DEF Init, NoEntity
<1>2. InTime(entity, toDevice, fromDevice)
  BY <1>1 DEF InTime
<1>3. Ages(fromDevice, device, unseen) /\ CatchesUp(entity, fromDevice, device, unseen)
  BY <1>1 DEF Ages, CatchesUp
<1>. QED  BY <1>2, <1>3 DEF Mirror

LEMMA MirrorDevice ==
  ASSUME Parts, Parts', Mirror, DeviceTakes \/ DeviceChanges \/ DeviceDeregisters
  PROVE  /\ Ages(fromDevice', device', unseen')
         /\ setting.item.told => CatchesUp(entity, fromDevice', device', unseen')
<1>d. /\ device \in Device /\ device' \in Device /\ fromDevice \in Seq(Messages)
      /\ entity \in Entity /\ unseen \in Nat
  BY DEF Parts
<1>m. Ages(fromDevice, device, unseen)
      /\ (setting.item.told => CatchesUp(entity, fromDevice, device, unseen))
  BY DEF Mirror
<1>sent. ASSUME NEW n \in Messages, fromDevice' = Append(fromDevice, n), unseen' = unseen,
                n.version = device'.version, n.value = device'.value, Useful(n) => device'.version > 0,
                \/ device'.version = device.version /\ device'.value = device.value
                \/ device'.version = device.version + 1 /\ Useful(n)
         PROVE  /\ Ages(fromDevice', device', unseen')
                /\ setting.item.told => CatchesUp(entity, fromDevice', device', unseen')
  <2>1. Ages(fromDevice', device', unseen')
    BY <1>d, <1>m, <1>sent, AgesAppended
  <2>2. setting.item.told => CatchesUp(entity, fromDevice', device', unseen')
    BY <1>d, <1>m, <1>sent, CatchesUpAppended
  <2>. QED  BY <2>1, <2>2
<1>1. CASE DeviceTakes
  <2> DEFINE message == Head(toDevice)
  <2>1. message \in Calls \cup Queries /\ unseen' = unseen
    BY <1>1, Heads DEF DeviceTakes, Parts
  <2>2. PICK status \in {"Success", "Refused"} :
           /\ fromDevice' = Append(fromDevice, News("response", message, status, device'))
           /\ \/ device'.version = device.version + 1
              \/ /\ device'.version = device.version /\ device'.value = device.value
                 /\ message \notin Calls \/ status = "Refused"
           /\ device'.version = device.version + 1 => message \in Calls /\ status = "Success"
    <3>1. CASE message \in Calls
      <4>1. CASE /\ device' = [device EXCEPT !.value = message, !.version = @ + 1]
                 /\ fromDevice' = Append(fromDevice, News("response", message, "Success", device'))
        <5>1. device'.version = device.version + 1
          BY <1>d, <4>1 DEF Device
        <5>. QED  BY <3>1, <4>1, <5>1
      <4>2. CASE /\ device' = device
                 /\ fromDevice' = Append(fromDevice, News("response", message, "Refused", device))
        <5>1. device.version + 1 # device.version
          BY <1>d DEF Device
        <5>. QED  BY <4>2, <5>1
      <4>. QED  BY <1>1, <3>1, <4>1, <4>2 DEF DeviceTakes
    <3>2. CASE message \notin Calls
      <4>1. /\ device' \in {device, [device EXCEPT !.registered = FALSE],
                            [device EXCEPT !.registered = TRUE, !.seq = 0]}
            /\ fromDevice' = Append(fromDevice, News("response", message, "Success", device'))
        BY <1>1, <3>2 DEF DeviceTakes
      <4>2. device'.version = device.version /\ device'.value = device.value
        BY <1>d, <4>1 DEF Device
      <4>3. device.version + 1 # device.version
        BY <1>d DEF Device
      <4>. QED  BY <3>2, <4>1, <4>2, <4>3
    <3>. QED  BY <3>1, <3>2
  <2> DEFINE n == News("response", message, status, device')
  <2>3. n \in Messages
    BY <1>d, <2>1, NewsTyping
  <2>4. /\ n.version = device'.version /\ n.value = device'.value
        /\ Useful(n) <=> message \in Calls /\ status = "Success"
    BY <2>2 DEF News, Useful
  <2> HIDE DEF n
  <2>5. device.version + 1 > 0
    BY <1>d DEF Device
  <2>6. fromDevice' = Append(fromDevice, n)
    BY <2>2 DEF n
  <2> HIDE DEF message
  <2>. QED  BY <1>sent, <2>1, <2>2, <2>3, <2>4, <2>5, <2>6
<1>2. CASE DeviceChanges
  <2> DEFINE changed == [device EXCEPT !.changes = @ + 1, !.version = @ + 1, !.value = device.changes + 1]
  <2>1. changed.version = device.version + 1 /\ device.version + 1 > 0
    BY <1>d DEF Device
  <2>2. changed \in Device
    <3>1. device.changes + 1 \in 0..MaxChanges /\ device.version + 1 \in Nat
      BY <1>2, <1>d, ControlAssumption DEF DeviceChanges, Device
    <3>. QED  BY <1>d, <3>1 DEF Device, Values
  <2>3. \/ /\ fromDevice' = Append(fromDevice, Notification("changed", changed))
           /\ device' = [changed EXCEPT !.seq = (@ + 1) % Width]
           /\ UNCHANGED unseen
        \/ device' = changed /\ unseen' = changed.version /\ UNCHANGED fromDevice
    BY <1>2 DEF DeviceChanges
  <2> HIDE DEF changed
  <2> DEFINE n == Notification("changed", changed)
  <2>4. /\ n \in Messages /\ Useful(n)
        /\ n.version = changed.version /\ n.value = changed.value
    BY <2>2, NotificationTyping DEF Notification, News, Useful
  <2> HIDE DEF n
  <2>5. CASE /\ fromDevice' = Append(fromDevice, n)
             /\ device' = [changed EXCEPT !.seq = (@ + 1) % Width]
             /\ UNCHANGED unseen
    <3>1. device'.version = changed.version /\ device'.value = changed.value
      BY <2>2, <2>5 DEF Device
    <3>. QED  BY <1>sent, <2>1, <2>4, <2>5, <3>1
  <2>6. CASE device' = changed /\ unseen' = changed.version /\ UNCHANGED fromDevice
    BY <1>d, <1>m, <2>1, <2>6, ChangedUntold
  <2>. QED  BY <2>3, <2>5, <2>6 DEF n
<1>3. CASE DeviceDeregisters
  <2> DEFINE n == Notification("deregistered", device)
  <2>1. /\ n \in Messages /\ ~Useful(n)
        /\ n.version = device.version /\ n.value = device.value
    BY <1>d, NotificationTyping DEF Notification, News, Useful
  <2>2. /\ device' = [device EXCEPT !.registered = FALSE] /\ unseen' = unseen
        /\ fromDevice' = Append(fromDevice, n)
    BY <1>3 DEF DeviceDeregisters
  <2> HIDE DEF n
  <2>3. device'.version = device.version /\ device'.value = device.value
    BY <1>d, <2>2 DEF Device
  <2>. QED  BY <1>sent, <2>1, <2>2, <2>3
<1>. QED  BY <1>1, <1>2, <1>3

\* What an operation on a queue leaves in it.
LEMMA Queued ==
  ASSUME NEW S, NEW q \in Seq(S), NEW x \in S, NEW r,
         r = q \/ (q # <<>> /\ r = Tail(q)) \/ r = Append(q, x)
  PROVE  \A i \in 1 .. Len(r) :
           (\E j \in 1 .. Len(q) : r[i] = q[j]) \/ (r = Append(q, x) /\ r[i] = x)
<1>1. CASE r = q
  BY <1>1
<1>2. CASE q # <<>> /\ r = Tail(q)
  <2>1. \A i \in 1 .. Len(r) : i + 1 \in 1 .. Len(q) /\ r[i] = q[i + 1]
    BY <1>2, HeadTailProperties, LenProperties
  <2>. QED  BY <2>1
<1>3. CASE r = Append(q, x)
  <2>1. \A i \in 1 .. Len(r) : (i \in 1 .. Len(q) /\ r[i] = q[i]) \/ r[i] = x
    BY <1>3, AppendProperties, LenProperties
  <2>. QED  BY <1>3, <2>1
<1>. QED  BY <1>1, <1>2, <1>3

\* The queries of an entity go with its stay, and a new one of the item comes after the
\* registration.
Asks(e, f) ==
  \/ /\ f.stays = e.stays
     /\ \A query \in f.asked :
          query \in e.asked \/ (query[1] # "register" /\ query[2] = e.stays)
  \/ /\ f.stays = e.stays + 1
     /\ f.asked \subseteq {<<"register", f.stays>>}

LEMMA FreshKept ==
  ASSUME NEW e \in Entity, NEW f \in Entity, Asks(e, f), NEW query \in Calls \cup Queries, Fresh(e, query)
  PROVE  Fresh(f, query)
<1>1. e.stays \in Nat /\ f.stays \in Nat
  BY DEF Entity
<1>2. ASSUME query \notin Calls, query[1] = "get"
      PROVE  /\ query[2] <= f.stays /\ query[2] \in Nat
             /\ query[2] = f.stays => <<"register", f.stays>> \notin f.asked
  <2>1. query[2] \in Nat
    BY <1>2 DEF Queries
  <2>2. /\ query[2] <= e.stays
        /\ query[2] = e.stays => <<"register", e.stays>> \notin e.asked
    BY <1>2 DEF Fresh
  <2>3. CASE f.stays = e.stays + 1
    BY <1>1, <2>1, <2>2, <2>3
  <2>4. CASE /\ f.stays = e.stays
             /\ \A p \in f.asked : p \in e.asked \/ (p[1] # "register" /\ p[2] = e.stays)
    <3>1. <<"register", e.stays>>[1] = "register"
      OBVIOUS
    <3>. QED  BY <2>1, <2>2, <2>4, <3>1
  <2>. QED  BY <2>3, <2>4 DEF Asks
<1>. QED  BY <1>2 DEF Fresh

LEMMA InTimeKept ==
  ASSUME Parts, Parts', InTime(entity, toDevice, fromDevice), Asks(entity, entity'),
         NEW x \in Calls \cup Queries, NEW n \in Messages,
         \/ toDevice' = toDevice
         \/ toDevice # <<>> /\ toDevice' = Tail(toDevice)
         \/ toDevice' = Append(toDevice, x) /\ Fresh(entity', x),
         \/ fromDevice' = fromDevice
         \/ fromDevice # <<>> /\ fromDevice' = Tail(fromDevice)
         \/ fromDevice' = Append(fromDevice, n) /\ (n.kind = "response" => Fresh(entity, n.about))
  PROVE  InTime(entity', toDevice', fromDevice')
<1>1. /\ entity \in Entity /\ entity' \in Entity /\ toDevice \in Seq(Calls \cup Queries)
      /\ fromDevice \in Seq(Messages)
  BY DEF Parts
<1>about. \A m \in Messages : m.kind = "response" => m.about \in Calls \cup Queries
  BY DEF Messages, Answers, Notifications
<1>2. ASSUME NEW query \in entity'.asked PROVE query[2] = entity'.stays
  <2>1. <<"register", entity'.stays>>[2] = entity'.stays
    OBVIOUS
  <2>. QED  BY <1>2, <2>1 DEF Asks, InTime
<1>3. ASSUME NEW i \in 1 .. Len(toDevice') PROVE Fresh(entity', toDevice'[i])
  <2>1. (\E j \in 1 .. Len(toDevice) : toDevice'[i] = toDevice[j])
        \/ (toDevice' = Append(toDevice, x) /\ toDevice'[i] = x)
    <3> DEFINE Sent == Calls \cup Queries
    <3>0. toDevice \in Seq(Sent) /\ x \in Sent
      BY <1>1
    <3> HIDE DEF Sent
    <3>1. \/ toDevice' = toDevice \/ (toDevice # <<>> /\ toDevice' = Tail(toDevice))
          \/ toDevice' = Append(toDevice, x)
      OBVIOUS
    <3>. QED  BY ONLY <3>0, <3>1, Queued, i \in 1 .. Len(toDevice')
  <2>2. CASE \E j \in 1 .. Len(toDevice) : toDevice'[i] = toDevice[j]
    <3>1. PICK j \in 1 .. Len(toDevice) : toDevice'[i] = toDevice[j]
      BY <2>2
    <3>2. Fresh(entity, toDevice[j]) /\ toDevice[j] \in Calls \cup Queries
      BY <1>1 DEF InTime
    <3>. QED  BY <1>1, <3>1, <3>2, FreshKept
  <2>3. CASE toDevice' = Append(toDevice, x) /\ toDevice'[i] = x
    <3>1. toDevice' # toDevice /\ ~(toDevice # <<>> /\ toDevice' = Tail(toDevice))
      <4>1. Len(toDevice') = Len(toDevice) + 1 /\ Len(toDevice) \in Nat
        BY <1>1, <2>3, AppendProperties, LenProperties
      <4>2. toDevice # <<>> => Len(Tail(toDevice)) = Len(toDevice) - 1
        BY <1>1, HeadTailProperties
      <4>. QED  BY <4>1, <4>2
    <3>. QED  BY <2>3, <3>1
  <2>. QED  BY <2>1, <2>2, <2>3
<1>4. ASSUME NEW i \in 1 .. Len(fromDevice'), fromDevice'[i].kind = "response"
      PROVE  Fresh(entity', fromDevice'[i].about)
  <2>1. (\E j \in 1 .. Len(fromDevice) : fromDevice'[i] = fromDevice[j])
        \/ (fromDevice' = Append(fromDevice, n) /\ fromDevice'[i] = n)
    <3>1. \/ fromDevice' = fromDevice \/ (fromDevice # <<>> /\ fromDevice' = Tail(fromDevice))
          \/ fromDevice' = Append(fromDevice, n)
      OBVIOUS
    <3>. QED  BY ONLY <1>1, <3>1, Queued, i \in 1 .. Len(fromDevice')
  <2>2. CASE \E j \in 1 .. Len(fromDevice) : fromDevice'[i] = fromDevice[j]
    <3>1. PICK j \in 1 .. Len(fromDevice) : fromDevice'[i] = fromDevice[j]
      BY <2>2
    <3>2. fromDevice[j] \in Messages /\ fromDevice[j].kind = "response"
      BY <1>1, <1>4, <3>1
    <3>3. Fresh(entity, fromDevice[j].about) /\ fromDevice[j].about \in Calls \cup Queries
      BY <1>about, <3>2 DEF InTime
    <3>. QED  BY <1>1, <3>1, <3>3, FreshKept
  <2>3. CASE fromDevice' = Append(fromDevice, n) /\ fromDevice'[i] = n
    <3>1. fromDevice' # fromDevice /\ ~(fromDevice # <<>> /\ fromDevice' = Tail(fromDevice))
      <4>1. Len(fromDevice') = Len(fromDevice) + 1 /\ Len(fromDevice) \in Nat
        BY <1>1, <2>3, AppendProperties, LenProperties
      <4>2. fromDevice # <<>> => Len(Tail(fromDevice)) = Len(fromDevice) - 1
        BY <1>1, HeadTailProperties
      <4>. QED  BY <4>1, <4>2
    <3>2. Fresh(entity, n.about) /\ n.about \in Calls \cup Queries
      BY <1>about, <1>4, <2>3, <3>1
    <3>. QED  BY <1>1, <2>3, <3>2, FreshKept
  <2>. QED  BY <2>1, <2>2, <2>3
<1>. QED  BY <1>2, <1>3, <1>4 DEF InTime

\* What an operation on the entity leaves of it.
LEMMA EntityKept ==
  ASSUME NEW e \in Entity
  PROVE  /\ \A value : LET f == Updated(e, value)
                       IN  f.asked = e.asked /\ f.stays = e.stays /\ f.status = e.status
         /\ LET f == Unsubscribed(e)
            IN  f.asked = e.asked /\ f.stays = e.stays /\ f.status = e.status /\ f.value = e.value
         /\ \A seq : LET f == Expecting(e, seq)
                     IN  f.asked = e.asked /\ f.stays = e.stays /\ f.status = e.status /\ f.value = e.value
         /\ \A query : LET f == Forgotten(e, query)
                       IN  /\ f.asked = e.asked \ {query} /\ f.stays = e.stays
                           /\ f.status = e.status /\ f.value = e.value
<1>1. \A value : LET f == Updated(e, value)
                 IN  f.asked = e.asked /\ f.stays = e.stays /\ f.status = e.status
  BY DEF Updated, Entity
<1>2. LET f == Unsubscribed(e)
      IN  f.asked = e.asked /\ f.stays = e.stays /\ f.status = e.status /\ f.value = e.value
  BY DEF Unsubscribed, Entity
<1>3. \A seq : LET f == Expecting(e, seq)
               IN  f.asked = e.asked /\ f.stays = e.stays /\ f.status = e.status /\ f.value = e.value
  BY DEF Expecting, Entity
<1>4. \A query : LET f == Forgotten(e, query)
                 IN  /\ f.asked = e.asked \ {query} /\ f.stays = e.stays
                     /\ f.status = e.status /\ f.value = e.value
  BY DEF Forgotten, Entity
<1>. QED  BY <1>1, <1>2, <1>3, <1>4

\* What the handling of a message does to the model and to what is still to come.
Handling(m) ==
  /\ Asks(entity, entity')
  /\ \/ toDevice' = toDevice
     \/ \E x \in Queries : toDevice' = Append(toDevice, x) /\ Fresh(entity', x)
  /\ Taken(m, unseen, unseen')
  /\ \A i \in 1 .. Len(fromDevice) : GetOf(entity', fromDevice[i]) => GetOf(entity, fromDevice[i])
  /\ setting.item.told /\ entity'.status = "advertised" =>
       \/ /\ entity.status = "advertised" \/ GetOf(entity, m)
          /\ entity'.value = m.value
          /\ unseen' = IF m.version >= unseen THEN 0 ELSE unseen
       \/ /\ entity.status = "advertised" /\ entity'.value = entity.value
          /\ \/ unseen' = unseen /\ ~Useful(m)
             \/ unseen' = IF m.kind # "deregistered" /\ m.status = "Success" /\ m.version > unseen
                          THEN m.version ELSE unseen

LEMMA HandlingNotification ==
  ASSUME Parts, Inv, NEW m \in Messages, NotificationReceived(m), setting' = setting
  PROVE  Handling(m)
<1> DEFINE handled == Notified(m)
           expecting == Expecting(handled, m.about)
           deregister == <<"deregister", entity.stays>>
<1>1. m.about \in 0..(Width - 1) /\ m.value \in Values /\ m.version \in Nat /\ m.kind # "response"
  BY DEF NotificationReceived, IsNotification, Messages, Answers, Notifications
<1>2. entity \in Entity /\ None \notin Values
  BY ControlAssumption DEF Parts, Values
<1>3. handled \in Entity /\ handled.asked = entity.asked /\ handled.stays = entity.stays
      /\ handled.status = entity.status
  BY <1>1, <1>2, EntityTyping, EntityKept DEF Notified, Deregistered
<1>4. entity.status = "advertised" =>
        handled.value = IF m.kind = "changed" /\ setting.item.told THEN m.value ELSE entity.value
  <2>1. entity.status = "advertised" => entity.value # None
    BY DEF Inv, Agreement, HasValue
  <2>2. entity.value # None => Updated(entity, m.value).value = m.value
    BY <1>2 DEF Updated, Entity
  <2>3. Unsubscribed(entity).value = entity.value
    BY <1>2, EntityKept
  <2>. QED  BY <2>1, <2>2, <2>3 DEF Notified, Deregistered
<1> HIDE DEF handled
<1>5. /\ expecting \in Entity
      /\ expecting.asked = entity.asked /\ expecting.stays = entity.stays
      /\ expecting.status = entity.status /\ expecting.value = handled.value
  BY <1>1, <1>3, EntityTyping, EntityKept
<1>6. /\ \/ entity' = expecting /\ UNCHANGED toDevice
         \/ /\ entity' = [Unsubscribed(expecting) EXCEPT !.asked = @ \cup {deregister}]
            /\ toDevice' = Append(toDevice, deregister)
      /\ unseen' = IF m.kind = "changed" /\ Known /\ setting.item.told THEN Seen(entity, m.version) ELSE unseen
  BY DEF NotificationReceived, handled
<1> HIDE DEF expecting
<1>7. LET f == [Unsubscribed(expecting) EXCEPT !.asked = @ \cup {deregister}]
      IN  /\ f.asked = entity.asked \cup {deregister} /\ f.stays = entity.stays
          /\ f.status = entity.status /\ f.value = handled.value
  <2>1. Unsubscribed(expecting) \in Entity
    BY <1>5, EntityTyping
  <2>2. \A e \in Entity, q \in {deregister} :
          LET f == [e EXCEPT !.asked = @ \cup {q}]
          IN  /\ f.asked = e.asked \cup {q} /\ f.stays = e.stays
              /\ f.status = e.status /\ f.value = e.value
    BY DEF Entity
  <2>. QED  BY <1>5, <2>1, <2>2, EntityKept
<1>8. /\ entity'.stays = entity.stays /\ entity'.status = entity.status
      /\ entity'.value = handled.value
      /\ entity'.asked = entity.asked \/ entity'.asked = entity.asked \cup {deregister}
  BY <1>5, <1>6, <1>7
<1>9. deregister \in Queries /\ deregister[1] = "deregister" /\ deregister[2] = entity.stays
  BY <1>2 DEF Entity, Queries
<1>10. deregister # <<"get", entity.stays>>
  OBVIOUS
<1> HIDE DEF deregister
<1>11. Asks(entity, entity')
  BY <1>8, <1>9 DEF Asks
<1>12. \/ toDevice' = toDevice
       \/ \E x \in Queries : toDevice' = Append(toDevice, x) /\ Fresh(entity', x)
  BY <1>6, <1>9 DEF Fresh
<1>13. Taken(m, unseen, unseen')
  BY <1>6 DEF Taken, Seen
<1>14. \A i \in 1 .. Len(fromDevice) : GetOf(entity', fromDevice[i]) => GetOf(entity, fromDevice[i])
  BY <1>8, <1>10 DEF GetOf
<1>15. ASSUME setting.item.told, entity'.status = "advertised"
       PROVE  \/ /\ entity.status = "advertised" \/ GetOf(entity, m)
                 /\ entity'.value = m.value
                 /\ unseen' = IF m.version >= unseen THEN 0 ELSE unseen
              \/ /\ entity.status = "advertised" /\ entity'.value = entity.value
                 /\ unseen' = unseen /\ ~Useful(m)
  <2>1. entity.status = "advertised" /\ Known /\ entity.value # None
    BY <1>8, <1>15 DEF Known, Inv, Agreement, HasValue
  <2>2. CASE m.kind = "changed"
    BY <1>4, <1>6, <1>8, <1>15, <2>1, <2>2 DEF Seen
  <2>3. CASE m.kind # "changed"
    BY <1>1, <1>4, <1>6, <1>8, <2>1, <2>3 DEF Useful
  <2>. QED  BY <2>2, <2>3
<1>. QED  BY <1>11, <1>12, <1>13, <1>14, <1>15 DEF Handling

LEMMA HandlingAnswer ==
  ASSUME Parts, Inv, NEW m \in Messages, AnswerReceived(m)
  PROVE  Handling(m)
<1>1. m.value \in Values /\ m.version \in Nat /\ m.kind = "response" /\ m.about \in Calls
  BY DEF AnswerReceived, Messages, Answers, Notifications
<1>2. entity \in Entity /\ toDevice' = toDevice
  BY DEF Parts, AnswerReceived
<1>3. CASE /\ entity' = ResultApplied(m)
           /\ unseen' = IF Known /\ m.status = "Success" THEN Seen(entity, m.version) ELSE unseen
  <2>1. entity'.stays = entity.stays /\ entity'.status = entity.status /\ entity'.asked = entity.asked
    BY <1>2, <1>3, EntityKept DEF ResultApplied
  <2>2. Asks(entity, entity')
    BY <2>1 DEF Asks
  <2>3. Taken(m, unseen, unseen')
    BY <1>3 DEF Taken, Seen
  <2>4. \A i \in 1 .. Len(fromDevice) : GetOf(entity', fromDevice[i]) => GetOf(entity, fromDevice[i])
    BY <2>1 DEF GetOf
  <2>5. ASSUME entity'.status = "advertised"
        PROVE  \/ /\ entity.status = "advertised" /\ entity'.value = m.value
                  /\ unseen' = IF m.version >= unseen THEN 0 ELSE unseen
               \/ /\ entity.status = "advertised" /\ entity'.value = entity.value
                  /\ unseen' = unseen /\ ~Useful(m)
    <3>1. entity.status = "advertised" /\ Known /\ entity.value # None
      BY <2>1, <2>5 DEF Known, Inv, Agreement, HasValue
    <3>2. CASE m.status = "Success"
      <4>1. entity' = Updated(entity, m.value)
        BY <1>3, <3>1, <3>2 DEF ResultApplied
      <4>2. entity'.value = m.value
        BY <1>2, <3>1, <4>1 DEF Updated, Entity
      <4>. QED  BY <1>3, <3>1, <3>2, <4>2 DEF Seen
    <3>3. CASE m.status # "Success"
      <4>1. entity' = entity /\ unseen' = unseen
        BY <1>3, <3>3 DEF ResultApplied
      <4>. QED  BY <1>1, <3>1, <3>3, <4>1 DEF Useful
    <3>. QED  BY <3>2, <3>3
  <2>. QED  BY <1>2, <2>2, <2>3, <2>4, <2>5 DEF Handling
<1>4. CASE unseen' = Dropped(m) /\ entity' = entity
  <2>1. Asks(entity, entity')
    BY <1>4 DEF Asks
  <2>2. Taken(m, unseen, unseen')
    BY <1>4 DEF Taken, Dropped, Seen, Missing
  <2>3. \A i \in 1 .. Len(fromDevice) : GetOf(entity', fromDevice[i]) => GetOf(entity, fromDevice[i])
    BY <1>4
  <2>4. ASSUME entity'.status = "advertised"
        PROVE  \/ /\ entity.status = "advertised" /\ entity'.value = m.value
                  /\ unseen' = IF m.version >= unseen THEN 0 ELSE unseen
               \/ /\ entity.status = "advertised" /\ entity'.value = entity.value
                  /\ unseen' = IF m.kind # "deregistered" /\ m.status = "Success" /\ m.version > unseen
                               THEN m.version ELSE unseen
    <3>1. entity.status = "advertised" /\ entity.value # None
      BY <1>4, <2>4 DEF Inv, Agreement, HasValue
    <3>. QED  BY <1>4, <3>1 DEF Dropped, Seen, Missing
  <2>. QED  BY <1>2, <2>1, <2>2, <2>3, <2>4 DEF Handling
<1>. QED  BY <1>3, <1>4 DEF AnswerReceived

LEMMA HandlingQuery ==
  ASSUME Parts, Inv, NEW m \in Messages, QueryAnswered(m), InTime(entity, toDevice, fromDevice)
  PROVE  Handling(m)
<1> DEFINE answered == Forgotten(entity, m.about)
           query == <<"get", entity.stays>>
<1>1. /\ m.value \in Values /\ m.version \in Nat /\ m.kind = "response"
      /\ m.about \notin Calls /\ m.about \in Queries /\ ~Useful(m)
  BY DEF QueryAnswered, Messages, Answers, Notifications, Useful
<1>2. entity \in Entity /\ fromDevice \in Seq(Messages)
  BY DEF Parts
<1>3. /\ answered \in Entity
      /\ answered.asked = entity.asked \ {m.about} /\ answered.stays = entity.stays
      /\ answered.status = entity.status /\ answered.value = entity.value
  BY <1>2, EntityTyping, EntityKept
<1>4. query \in Queries /\ query[1] = "get" /\ query[2] = entity.stays
  BY <1>2 DEF Entity, Queries
<1>5. m.about \in entity.asked => m.about = <<m.about[1], entity.stays>>
  BY <1>1 DEF InTime, Queries
<1>same. ASSUME /\ entity'.stays = entity.stays /\ entity'.asked \subseteq entity.asked
                /\ entity'.status = entity.status /\ entity'.value = entity.value
                /\ unseen' = unseen /\ toDevice' = toDevice
         PROVE  Handling(m)
  <2>1. Asks(entity, entity')
    BY <1>same DEF Asks
  <2>2. Taken(m, unseen, unseen')
    BY <1>same DEF Taken
  <2>3. \A i \in 1 .. Len(fromDevice) : GetOf(entity', fromDevice[i]) => GetOf(entity, fromDevice[i])
    BY <1>same DEF GetOf
  <2>. QED  BY <1>1, <1>same, <2>1, <2>2, <2>3 DEF Handling
<1>6. CASE /\ m.about \in entity.asked /\ m.about[1] = "register"
           /\ entity' = [answered EXCEPT !.subscribed = TRUE, !.asked = @ \cup {query}]
           /\ toDevice' = Append(toDevice, query) /\ unseen' = unseen
  <2>1. /\ entity'.stays = entity.stays /\ entity'.asked = (entity.asked \ {m.about}) \cup {query}
        /\ entity'.status = entity.status /\ entity'.value = entity.value
    <3> HIDE DEF answered, query
    <3>1. /\ entity'.stays = answered.stays /\ entity'.asked = answered.asked \cup {query}
          /\ entity'.status = answered.status /\ entity'.value = answered.value
      BY <1>3, <1>6 DEF Entity
    <3>. QED  BY <1>3, <3>1
  <2>2. m.about = <<"register", entity.stays>> /\ m.about # query
    BY <1>5, <1>6
  <2> HIDE DEF query, answered
  <2>3. Asks(entity, entity')
    BY <1>4, <2>1 DEF Asks
  <2>4. Fresh(entity', query)
    <3>1. query[2] <= entity'.stays
      BY <1>2, <1>4, <2>1 DEF Entity
    <3>2. <<"register", entity'.stays>> \notin entity'.asked
      BY <2>1, <2>2
    <3>. QED  BY <3>1, <3>2 DEF Fresh
  <2>5. ASSUME NEW i \in 1 .. Len(fromDevice), GetOf(entity', fromDevice[i])
        PROVE  GetOf(entity, fromDevice[i])
    <3>1. /\ fromDevice[i].kind = "response" /\ fromDevice[i].about \notin Calls
          /\ fromDevice[i].about = query
      BY <2>1, <2>5 DEF GetOf, query
    <3>2. Fresh(entity, fromDevice[i].about)
      BY <3>1 DEF InTime
    <3>3. m.about \notin entity.asked
      BY <1>4, <2>2, <3>1, <3>2 DEF Fresh
    <3>. QED  BY <1>6, <3>3
  <2>6. Taken(m, unseen, unseen')
    BY <1>6 DEF Taken
  <2>7. entity'.status = "advertised" =>
           entity.status = "advertised" /\ entity'.value = entity.value /\ unseen' = unseen /\ ~Useful(m)
    BY <1>1, <1>6, <2>1
  <2>. QED  BY <1>4, <1>6, <2>3, <2>4, <2>5, <2>6, <2>7 DEF Handling
<1>7. CASE /\ m.about \in entity.asked /\ m.about[1] = "get"
           /\ entity' = [answered EXCEPT !.status = "advertised", !.value = m.value]
           /\ unseen' = (IF m.version >= unseen THEN 0 ELSE unseen) /\ toDevice' = toDevice
  <2>1. GetOf(entity, m)
    BY <1>1, <1>5, <1>7 DEF GetOf
  <2> HIDE DEF answered, query
  <2>2. /\ entity'.stays = entity.stays /\ entity'.asked = entity.asked \ {m.about}
        /\ entity'.value = m.value
    BY <1>3, <1>7 DEF Entity
  <2>3. Asks(entity, entity')
    BY <2>2 DEF Asks
  <2>4. Taken(m, unseen, unseen')
    BY <1>7 DEF Taken
  <2>5. \A i \in 1 .. Len(fromDevice) : GetOf(entity', fromDevice[i]) => GetOf(entity, fromDevice[i])
    BY <2>2 DEF GetOf
  <2>. QED  BY <1>7, <2>1, <2>2, <2>3, <2>4, <2>5 DEF Handling
<1>8. CASE entity' = Unsubscribed(answered) /\ UNCHANGED <<unseen, toDevice>>
  <2>1. /\ entity'.stays = entity.stays /\ entity'.asked = entity.asked \ {m.about}
        /\ entity'.status = entity.status /\ entity'.value = entity.value
    BY <1>3, <1>8, EntityKept
  <2>. QED  BY <1>8, <1>same, <2>1
<1>9. CASE UNCHANGED <<entity, unseen, toDevice>>
  BY <1>9, <1>same
<1>. QED  BY <1>6, <1>7, <1>8, <1>9 DEF QueryAnswered

LEMMA InTimeNext ==
  ASSUME Parts, Parts', InTime(entity, toDevice, fromDevice), Asks(entity, entity'),
         \/ toDevice' = toDevice
         \/ toDevice # <<>> /\ toDevice' = Tail(toDevice)
         \/ \E x \in Calls \cup Queries : toDevice' = Append(toDevice, x) /\ Fresh(entity', x),
         \/ fromDevice' = fromDevice
         \/ fromDevice # <<>> /\ fromDevice' = Tail(fromDevice)
         \/ \E n \in Messages : /\ fromDevice' = Append(fromDevice, n)
                                /\ n.kind = "response" => Fresh(entity, n.about)
  PROVE  InTime(entity', toDevice', fromDevice')
<1>1. PICK x \in Calls \cup Queries :
        \/ toDevice' = toDevice
        \/ toDevice # <<>> /\ toDevice' = Tail(toDevice)
        \/ toDevice' = Append(toDevice, x) /\ Fresh(entity', x)
  <2>1. <<"get", 0>> \in Queries
    BY ControlAssumption DEF Queries
  <2>. QED  BY <2>1
<1>2. PICK n \in Messages :
        \/ fromDevice' = fromDevice
        \/ fromDevice # <<>> /\ fromDevice' = Tail(fromDevice)
        \/ fromDevice' = Append(fromDevice, n) /\ (n.kind = "response" => Fresh(entity, n.about))
  <2>1. device \in Device
    BY DEF Parts
  <2>2. Notification("changed", device) \in Messages
    BY <2>1, NotificationTyping
  <2>. QED  BY <2>2
<1>. QED  BY <1>1, <1>2, InTimeKept

LEMMA MirrorReceive == ASSUME Parts, Parts', Inv, Mirror, Receive PROVE Mirror'
<1> DEFINE m == Head(fromDevice)
<1>1. /\ m \in Messages /\ fromDevice # <<>> /\ fromDevice' = Tail(fromDevice)
      /\ setting' = setting /\ device' = device
      /\ NotificationReceived(m) \/ AnswerReceived(m) \/ QueryAnswered(m)
  BY MessageTaken DEF Receive
<1>2. /\ fromDevice \in Seq(Messages) /\ device \in Device /\ unseen \in Nat /\ unseen' \in Nat
      /\ entity \in Entity /\ entity' \in Entity
  BY DEF Parts
<1>3. /\ Ages(fromDevice, device, unseen) /\ InTime(entity, toDevice, fromDevice)
      /\ setting.item.told => CatchesUp(entity, fromDevice, device, unseen)
  BY DEF Mirror
<1>4. Handling(m)
  <2> HIDE DEF m
  <2>. QED  BY <1>1, <1>3, HandlingNotification, HandlingAnswer, HandlingQuery
<1>5. Taken(Head(fromDevice), unseen, unseen')
  BY <1>4 DEF Handling
<1>6. Ages(fromDevice', device', unseen')
  BY <1>1, <1>2, <1>3, <1>5, AgesTaken
<1>7. InTime(entity', toDevice', fromDevice')
  <2>1. /\ Asks(entity, entity')
        /\ \/ toDevice' = toDevice
           \/ \E x \in Calls \cup Queries : toDevice' = Append(toDevice, x) /\ Fresh(entity', x)
    BY <1>4 DEF Handling
  <2>. QED  BY <1>1, <1>3, <2>1, InTimeNext
<1>8. ASSUME setting.item.told PROVE CatchesUp(entity', fromDevice', device', unseen')
  <2>1. \A p \in Messages :
           GetOf(entity', p) /\ (\E i \in 1 .. Len(Tail(fromDevice)) : p = Tail(fromDevice)[i])
             => GetOf(entity, p)
    <3>1. \A i \in 1 .. Len(Tail(fromDevice)) :
             i + 1 \in 1 .. Len(fromDevice) /\ Tail(fromDevice)[i] = fromDevice[i + 1]
      BY <1>1, <1>2, Tails
    <3>. QED  BY <1>4, <3>1 DEF Handling
  <2>2. entity'.status = "advertised" =>
           \/ /\ entity.status = "advertised" \/ GetOf(entity, Head(fromDevice))
              /\ entity'.value = Head(fromDevice).value
              /\ unseen' = IF Head(fromDevice).version >= unseen THEN 0 ELSE unseen
           \/ /\ entity.status = "advertised" /\ entity'.value = entity.value
              /\ \/ unseen' = unseen /\ ~Useful(Head(fromDevice))
                 \/ unseen' = IF /\ Head(fromDevice).kind # "deregistered"
                                 /\ Head(fromDevice).status = "Success"
                                 /\ Head(fromDevice).version > unseen
                              THEN Head(fromDevice).version ELSE unseen
    BY <1>4, <1>8 DEF Handling
  <2>3. CatchesUp(entity, fromDevice, device, unseen)
    BY <1>3, <1>8
  <2>4. CatchesUp(entity', Tail(fromDevice), device, unseen')
    <3> HIDE DEF m
    <3>. QED  BY ONLY <1>1, <1>2, <1>3, <1>5, <2>1, <2>2, <2>3, CatchesUpTaken
  <2>. QED  BY <1>1, <2>4
<1>. QED  BY <1>1, <1>6, <1>7, <1>8 DEF Mirror

LEMMA MirrorLose == ASSUME Parts, Parts', Mirror, Lose PROVE Mirror'
<1>1. /\ fromDevice \in Seq(Messages) /\ device \in Device /\ unseen \in Nat /\ unseen' \in Nat
      /\ entity \in Entity
  BY DEF Parts
<1>2. /\ Ages(fromDevice, device, unseen) /\ InTime(entity, toDevice, fromDevice)
      /\ setting.item.told => CatchesUp(entity, fromDevice, device, unseen)
  BY DEF Mirror
<1>3. /\ UNCHANGED <<setting, device, entity>>
      /\ \/ toDevice # <<>> /\ toDevice' = Tail(toDevice) /\ UNCHANGED <<fromDevice, unseen>>
         \/ /\ fromDevice # <<>> /\ fromDevice' = Tail(fromDevice) /\ toDevice' = toDevice
            /\ unseen' = Missing(Head(fromDevice))
  BY DEF Lose
<1>4. InTime(entity', toDevice', fromDevice')
  <2>1. Asks(entity, entity')
    BY <1>3 DEF Asks
  <2>. QED  BY <1>2, <1>3, <2>1, InTimeNext
<1>5. CASE UNCHANGED <<fromDevice, unseen>>
  BY <1>2, <1>3, <1>4, <1>5 DEF Mirror
<1>6. CASE /\ fromDevice # <<>> /\ fromDevice' = Tail(fromDevice)
           /\ unseen' = Missing(Head(fromDevice))
  <2>1. unseen' = IF /\ Head(fromDevice).kind # "deregistered" /\ Head(fromDevice).status = "Success"
                     /\ Head(fromDevice).version > unseen
                  THEN Head(fromDevice).version ELSE unseen
    BY <1>6 DEF Missing
  <2>2. Taken(Head(fromDevice), unseen, unseen')
    BY <2>1 DEF Taken
  <2>3. Ages(fromDevice', device', unseen')
    BY <1>1, <1>2, <1>3, <1>6, <2>2, AgesTaken
  <2>4. setting.item.told => CatchesUp(entity, Tail(fromDevice), device, unseen')
    BY ONLY <1>1, <1>2, <1>6, <2>1, <2>2, CatchesUpTaken
  <2>. QED  BY <1>3, <1>4, <1>6, <2>3, <2>4 DEF Mirror
<1>. QED  BY <1>3, <1>5, <1>6

LEMMA MirrorStays ==
  ASSUME Parts, Parts', Mirror, OnEntityOnline \/ OnEntityOffline
  PROVE  Mirror'
<1>1. /\ entity \in Entity /\ device \in Device /\ device' \in Device
  BY DEF Parts
<1>2. /\ Ages(fromDevice, device, unseen) /\ InTime(entity, toDevice, fromDevice)
  BY DEF Mirror
<1>3. /\ UNCHANGED <<setting, fromDevice, unseen>>
      /\ device'.version = device.version /\ device'.value = device.value
  <2>1. device' = device \/ device' = [device EXCEPT !.registered = FALSE, !.seq = 0]
    BY DEF OnEntityOnline, OnEntityOffline
  <2>2. device'.version = device.version /\ device'.value = device.value
    BY <1>1, <2>1 DEF Device
  <2>. QED  BY <2>2 DEF OnEntityOnline, OnEntityOffline
<1>4. Ages(fromDevice', device', unseen')
  BY <1>2, <1>3 DEF Ages
<1>5. ASSUME entity'.status # "advertised", \A n : <<"get", n>> \notin entity'.asked
      PROVE  CatchesUp(entity', fromDevice', device', unseen')
  BY <1>5 DEF CatchesUp, GetOf
<1>6. CASE OnEntityOnline
  <2> DEFINE register == <<"register", entity.stays + 1>>
  <2>1. /\ entity'.asked = {register} /\ entity'.stays = entity.stays + 1
        /\ entity'.status = "enumerating"
        /\ toDevice' = Append(toDevice, register)
    BY <1>6 DEF OnEntityOnline
  <2>2. register \in Queries
    <3>1. entity'.stays \in 0..MaxStays
      BY DEF Parts, Entity
    <3>. QED  BY <2>1, <3>1 DEF Queries
  <2>3. register[1] = "register" /\ \A n : register # <<"get", n>>
    OBVIOUS
  <2>4. Asks(entity, entity')
    BY <2>1 DEF Asks
  <2>5. Fresh(entity', register)
    BY <2>3 DEF Fresh
  <2> HIDE DEF register
  <2>6. InTime(entity', toDevice', fromDevice')
    BY <1>2, <1>3, <2>1, <2>2, <2>4, <2>5, InTimeNext
  <2>. QED  BY <1>4, <1>5, <2>1, <2>3, <2>6 DEF Mirror
<1>7. CASE OnEntityOffline
  <2>1. /\ entity'.asked = {} /\ entity'.stays = entity.stays /\ entity'.status = "offline"
        /\ toDevice' = toDevice
    BY <1>7 DEF OnEntityOffline, NoEntity
  <2>2. Asks(entity, entity')
    BY <2>1 DEF Asks
  <2>3. InTime(entity', toDevice', fromDevice')
    BY <1>2, <1>3, <2>1, <2>2, InTimeNext
  <2>. QED  BY <1>4, <1>5, <2>1, <2>3 DEF Mirror
<1>. QED  BY <1>6, <1>7

LEMMA MirrorNext == Parts /\ Parts' /\ Inv /\ Mirror /\ [Next]_vars => Mirror'
<1>. SUFFICES ASSUME Parts, Parts', Inv, Mirror, [Next]_vars PROVE Mirror'
  OBVIOUS
<1>1. InTime(entity, toDevice, fromDevice) /\ fromDevice \in Seq(Messages)
  BY DEF Mirror, Parts
<1>same. Asks(entity, entity)
  BY DEF Asks
<1>2. CASE DeviceTakes \/ DeviceChanges \/ DeviceDeregisters
  <2>1. UNCHANGED <<setting, entity>>
    BY <1>2 DEF DeviceTakes, DeviceChanges, DeviceDeregisters
  <2>2. InTime(entity', toDevice', fromDevice')
    <3>1. CASE DeviceTakes
      <4> DEFINE message == Head(toDevice)
      <4>1. /\ toDevice # <<>> /\ toDevice' = Tail(toDevice) /\ message \in Calls \cup Queries
            /\ \E status \in {"Success", "Refused"} :
                 fromDevice' = Append(fromDevice, News("response", message, status, device'))
        BY <3>1, Heads DEF DeviceTakes, Parts
      <4>2. Fresh(entity, message)
        <5>1. message = toDevice[1] /\ 1 \in 1 .. Len(toDevice)
          BY <4>1, HeadTailProperties, LenProperties, EmptySeq DEF Parts
        <5>. QED  BY <1>1, <5>1 DEF InTime
      <4>3. \A status \in {"Success", "Refused"} :
               /\ News("response", message, status, device') \in Messages
               /\ News("response", message, status, device').about = message
        <5>1. device' \in Device
          BY DEF Parts
        <5>2. \A status \in {"Success", "Refused"} : News("response", message, status, device') \in Messages
          BY <4>1, <5>1, NewsTyping
        <5>. QED  BY <5>2 DEF News
      <4> HIDE DEF message
      <4>4. \E n \in Messages : /\ fromDevice' = Append(fromDevice, n)
                                /\ n.kind = "response" => Fresh(entity, n.about)
        BY <4>1, <4>2, <4>3
      <4>. QED  BY <1>1, <1>same, <2>1, <4>1, <4>4, InTimeNext
    <3>2. CASE DeviceChanges \/ DeviceDeregisters
      <4>1. toDevice' = toDevice /\ (\/ fromDevice' = fromDevice
                                     \/ \E kind \in {"changed", "deregistered"} : \E d :
                                          fromDevice' = Append(fromDevice, Notification(kind, d)))
        BY <3>2 DEF DeviceChanges, DeviceDeregisters
      <4>2. CASE fromDevice' = fromDevice
        BY <1>1, <1>same, <2>1, <4>1, <4>2, InTimeNext
      <4>3. ASSUME NEW kind \in {"changed", "deregistered"}, NEW d,
                   fromDevice' = Append(fromDevice, Notification(kind, d))
            PROVE  InTime(entity', toDevice', fromDevice')
        <5>1. Notification(kind, d).kind # "response"
          BY DEF Notification, News
        <5>2. fromDevice'[Len(fromDevice')] = Notification(kind, d)
              /\ Len(fromDevice') \in 1 .. Len(fromDevice')
          BY <1>1, <4>3, AppendProperties, LenProperties
        <5>3. Notification(kind, d) \in Messages
          BY <5>2 DEF Parts
        <5>. QED  BY <1>1, <1>same, <2>1, <4>1, <4>3, <5>1, <5>3, InTimeNext
      <4>. QED  BY <4>1, <4>2, <4>3
    <3>. QED  BY <1>2, <3>1, <3>2
  <2>. QED  BY <1>2, <2>1, <2>2, MirrorDevice DEF Mirror
<1>3. ASSUME NEW c \in Calls, UserCall(c) \/ FindAddress(c) \/ Send(c) \/ TimesOut(c)
      PROVE  Mirror'
  <2>1. /\ UNCHANGED <<setting, device, entity, fromDevice, unseen>>
        /\ toDevice' = toDevice \/ toDevice' = Append(toDevice, c)
    BY <1>3 DEF UserCall, FindAddress, Send, TimesOut
  <2>2. Fresh(entity', c)
    BY DEF Fresh
  <2>3. InTime(entity', toDevice', fromDevice')
    BY <1>1, <1>same, <2>1, <2>2, InTimeNext
  <2>. QED  BY <2>1, <2>3 DEF Mirror
<1>4. CASE UNCHANGED vars
  BY <1>4 DEF Mirror, vars
<1>. QED  BY <1>2, <1>3, <1>4, MirrorReceive, MirrorLose, MirrorStays DEF Next

\* What the controller shows of an entity that it is subscribed to is what the device has,
\* once every message of the device was handled, unless the news of the last change was
\* lost, or dropped with an answer that nobody waits for and that says something else
\* than the model: for every item that a user sets or a device tells of, whatever
\* commands, refusals, losses and stays went before.
THEOREM MirrorAlwaysFollows == Spec => []MirrorFollowsDevice
<1>1. Parts /\ Mirror => MirrorFollowsDevice
  <2>. SUFFICES ASSUME Parts, Mirror, entity.status = "advertised", fromDevice = <<>>, unseen = 0,
                       setting.item.settable \/ setting.item.told
                PROVE  entity.value = device.value
    BY DEF MirrorFollowsDevice
  <2>1. setting.item.told
    <3>1. PICK item \in Settable \cup HandedOn : setting.item = Behaviour(item)
      BY DEF Parts, Behaviours
    <3>2. setting.item.settable = (item \in Settable) /\ setting.item.told = (item \in Told)
      BY <3>1 DEF Behaviour
    <3>. QED  BY <3>2, SettableIsTold
  <2>2. ~Behind(fromDevice, device.version, unseen, 0)
    BY DEF Behind
  <2>. QED  BY <2>1, <2>2 DEF Mirror, CatchesUp
<1>2. Init => Mirror
  BY MirrorInit
<1>3. Inv /\ Inv' /\ Mirror /\ [Next]_vars => Mirror'
  BY MirrorNext DEF Inv
<1>4. Inv => Parts
  BY DEF Inv
<1>. QED  BY <1>1, <1>2, <1>3, <1>4, InvAlways, PTL DEF Spec

-----------------------------------------------------------------------------
(* Lost notifications                                                        *)

\* No notification is between the messages of index k and j.
Quietly(q, k, j) == \A h \in 1 .. Len(q) : k < h /\ h < j => ~IsNotification(q[h])

\* The first notification after the message of index k has the number n; the next one of
\* the device has, if there is none and the device still has the controller registered.
Follows(q, d, k, n) ==
  /\ \A j \in 1 .. Len(q) : k < j /\ IsNotification(q[j]) /\ Quietly(q, k, j) => q[j].about = n
  /\ Quietly(q, k, Len(q) + 1) /\ d.registered => d.seq = n

NextID(n) == (n + 1) % Width

\* What comes after the message of index i.
Ordered(q, d, i) ==
  /\ q[i].kind = "changed" => Follows(q, d, i, NextID(q[i].about))
  /\ q[i].kind = "deregistered" => ~d.registered /\ Quietly(q, i, Len(q) + 1)

IsRegister(query) == query \notin Calls /\ query[1] = "register"
NoRegister(sent) == \A i \in 1 .. Len(sent) : ~IsRegister(sent[i])
LastRegister(sent, query) ==
  \A i, j \in 1 .. Len(sent) : sent[i] = query /\ i < j => ~IsRegister(sent[j])

\* The notifications after the message of index k are numbered one after the other, and
\* no registration on its way to the device makes it start again.
Numbered(sent, q, d, k) ==
  /\ NoRegister(sent)
  /\ \A i \in 1 .. Len(q) : k < i => Ordered(q, d, i)

Registering(e) == <<"register", e.stays>>

\* The stay waits for the answer to its registration, which is the last one under way.
Awaited(e, sent, q, d) ==
  Registering(e) \in e.asked \ Calls =>
    /\ LastRegister(sent, Registering(e))
    /\ \A i \in 1 .. Len(q) :
         q[i].kind = "response" /\ q[i].about = Registering(e) => Numbered(sent, q, d, i)

\* An entity that counts the notifications knows the number of the next one.
Counting(e, sent, q, d, lost) ==
  /\ e.subscribed => Numbered(sent, q, d, 0)
  /\ e.expected # None => Follows(q, d, 0, (e.expected + lost) % Width)

\* Only a stay of which the registration was answered is subscribed, or skipped one.
Subscription(e, milan, skip) ==
  /\ e.subscribed => Registering(e) \notin e.asked /\ e.status # "offline"
  /\ e.expected # None => e.subscribed /\ milan
  /\ skip => ~e.subscribed /\ Registering(e) \notin e.asked
  /\ e.status = "offline" => e.asked = {}

\* No registration is of a stay that is still to come.
Registers(e, sent, q) ==
  /\ \A query \in e.asked : query[2] = e.stays
  /\ \A i \in 1 .. Len(sent) : IsRegister(sent[i]) => sent[i][2] <= e.stays
  /\ \A i \in 1 .. Len(q) :
       q[i].kind = "response" /\ IsRegister(q[i].about) => q[i].about[2] <= e.stays

\* Kept by every step.
Losses ==
  /\ Subscription(entity, setting.milan, skipped)
  /\ Counting(entity, toDevice, fromDevice, device, missed)
  /\ Awaited(entity, toDevice, fromDevice, device)
  /\ Registers(entity, toDevice, fromDevice)

LEMMA SentKept ==
  ASSUME NEW S, NEW sent \in Seq(S), NEW x \in S, ~IsRegister(x), NEW after,
         after = sent \/ (sent # <<>> /\ after = Tail(sent)) \/ after = Append(sent, x)
  PROVE  /\ NoRegister(sent) => NoRegister(after)
         /\ \A query : LastRegister(sent, query) => LastRegister(after, query) \/ query = x
<1>1. CASE after = sent
  BY <1>1
<1>2. CASE sent # <<>> /\ after = Tail(sent)
  <2>1. \A i \in 1 .. Len(after) : i + 1 \in 1 .. Len(sent) /\ after[i] = sent[i + 1]
    BY <1>2, HeadTailProperties, LenProperties
  <2>2. \A i, j \in 1 .. Len(after) : i < j => i + 1 < j + 1
    BY <1>2, HeadTailProperties, LenProperties
  <2>. QED  BY <2>1, <2>2 DEF NoRegister, LastRegister
<1>3. CASE after = Append(sent, x)
  <2>1. \A i \in 1 .. Len(after) : (i \in 1 .. Len(sent) /\ after[i] = sent[i]) \/ after[i] = x
    BY <1>3, AppendProperties, LenProperties
  <2>2. \A i \in 1 .. Len(after) : i \in 1 .. Len(sent) => after[i] = sent[i]
    BY <1>3, AppendProperties, LenProperties
  <2>. QED  BY <2>1, <2>2 DEF NoRegister, LastRegister
<1>. QED  BY <1>1, <1>2, <1>3

LEMMA QuietlyTaken ==
  ASSUME NEW q \in Seq(Messages), q # <<>>, NEW k \in Nat, k > 0, NEW j \in Nat
  PROVE  Quietly(Tail(q), k - 1, j - 1) <=> Quietly(q, k, j)
<1>1. ASSUME Quietly(q, k, j) PROVE Quietly(Tail(q), k - 1, j - 1)
  <2>. SUFFICES ASSUME NEW h \in 1 .. Len(Tail(q)), k - 1 < h, h < j - 1
                PROVE  ~IsNotification(Tail(q)[h])
    BY DEF Quietly
  <2>1. h + 1 \in 1 .. Len(q) /\ Tail(q)[h] = q[h + 1]
    BY Tails
  <2>2. k < h + 1 /\ h + 1 < j
    BY <2>1
  <2>. QED  BY <1>1, <2>1, <2>2 DEF Quietly
<1>2. ASSUME Quietly(Tail(q), k - 1, j - 1) PROVE Quietly(q, k, j)
  <2>. SUFFICES ASSUME NEW h \in 1 .. Len(q), k < h, h < j
                PROVE  ~IsNotification(q[h])
    BY DEF Quietly
  <2>1. h - 1 \in 1 .. Len(Tail(q)) /\ Tail(q)[h - 1] = q[h]
    BY Tails
  <2>2. k - 1 < h - 1 /\ h - 1 < j - 1
    BY <2>1
  <2>. QED  BY <1>2, <2>1, <2>2 DEF Quietly
<1>. QED  BY <1>1, <1>2

LEMMA FollowsTaken ==
  ASSUME NEW q \in Seq(Messages), q # <<>>, NEW d, NEW n, NEW k \in Nat, k > 0, Follows(q, d, k, n)
  PROVE  Follows(Tail(q), d, k - 1, n)
<1>1. ASSUME NEW j \in 1 .. Len(Tail(q)), k - 1 < j, IsNotification(Tail(q)[j]), Quietly(Tail(q), k - 1, j)
      PROVE  Tail(q)[j].about = n
  <2>1. j + 1 \in 1 .. Len(q) /\ Tail(q)[j] = q[j + 1] /\ k < j + 1 /\ (j + 1) - 1 = j /\ j + 1 \in Nat
    BY <1>1, Tails
  <2>2. Quietly(q, k, j + 1)
    BY <1>1, <2>1, QuietlyTaken
  <2>. QED  BY <1>1, <2>1, <2>2 DEF Follows
<1>2. ASSUME Quietly(Tail(q), k - 1, Len(Tail(q)) + 1) PROVE Quietly(q, k, Len(q) + 1)
  <2>1. Len(Tail(q)) + 1 = (Len(q) + 1) - 1 /\ Len(q) + 1 \in Nat
    BY Tails
  <2>. QED  BY <1>2, <2>1, QuietlyTaken
<1>. QED  BY <1>1, <1>2 DEF Follows

\* A message that is no notification goes unnoticed.
LEMMA FollowsUnnoticed ==
  ASSUME NEW q \in Seq(Messages), q # <<>>, NEW d, NEW n, ~IsNotification(Head(q)), Follows(q, d, 0, n)
  PROVE  Follows(Tail(q), d, 0, n)
<1>1. Head(q) = q[1] /\ Len(q) \in Nat
  BY Tails
<1>2. \A j \in Nat : Quietly(q, 1, j) => Quietly(q, 0, j)
  <2>1. \A h \in 1 .. Len(q) : h = 1 \/ 1 < h
    BY <1>1
  <2>. QED  BY <1>1, <2>1 DEF Quietly
<1>3. Follows(q, d, 1, n)
  <2>1. \A j \in 1 .. Len(q) : 0 < j /\ j \in Nat
    BY <1>1
  <2>2. Len(q) + 1 \in Nat
    BY <1>1
  <2>. QED  BY <1>2, <2>1, <2>2 DEF Follows
<1>. QED  BY <1>3, FollowsTaken, 1 - 1 = 0

LEMMA NumberedTaken ==
  ASSUME NEW sent, NEW q \in Seq(Messages), q # <<>>, NEW d, NEW k \in Nat, Numbered(sent, q, d, k)
  PROVE  /\ k > 0 => Numbered(sent, Tail(q), d, k - 1)
         /\ k = 0 => Numbered(sent, Tail(q), d, 0)
<1>1. ASSUME NEW i \in 1 .. Len(Tail(q)), k < i + 1 PROVE Ordered(Tail(q), d, i)
  <2>1. i + 1 \in 1 .. Len(q) /\ Tail(q)[i] = q[i + 1] /\ (i + 1) - 1 = i /\ i + 1 \in Nat /\ i + 1 > 0
    BY Tails
  <2>2. Ordered(q, d, i + 1)
    BY <1>1, <2>1 DEF Numbered
  <2>3. Quietly(q, i + 1, Len(q) + 1) => Quietly(Tail(q), i, Len(Tail(q)) + 1)
    <3>1. Len(Tail(q)) + 1 = (Len(q) + 1) - 1 /\ Len(q) + 1 \in Nat
      BY Tails
    <3>. QED  BY <2>1, <3>1, QuietlyTaken
  <2>4. \A n : Follows(q, d, i + 1, n) => Follows(Tail(q), d, i, n)
    BY <2>1, FollowsTaken
  <2>. QED  BY <2>1, <2>2, <2>3, <2>4 DEF Ordered
<1>2. Len(q) \in Nat
  BY Tails
<1>3. \A i \in 1 .. Len(Tail(q)) : (k > 0 /\ k - 1 < i => k < i + 1) /\ (k = 0 => k < i + 1)
  BY <1>2, Tails
<1>. QED  BY <1>1, <1>3 DEF Numbered

\* A message that the device sends, and how it goes on.
Emits(d, m, after) ==
  /\ IsNotification(m) => d.registered /\ m.about = d.seq
  /\ ~IsNotification(m) /\ after.registered => d.registered /\ after.seq = d.seq
  /\ m.kind = "changed" => after.seq = NextID(d.seq)
  /\ m.kind = "deregistered" => ~after.registered

LEMMA QuietlyAppended ==
  ASSUME NEW q \in Seq(Messages), NEW m \in Messages, NEW k \in Nat, k <= Len(q)
  PROVE  /\ \A j \in 1 .. Len(q) : Quietly(Append(q, m), k, j) => Quietly(q, k, j)
         /\ Quietly(Append(q, m), k, Len(q) + 1) => Quietly(q, k, Len(q) + 1)
         /\ Quietly(Append(q, m), k, Len(Append(q, m)) + 1) =>
              Quietly(q, k, Len(q) + 1) /\ ~IsNotification(m)
         /\ Quietly(q, k, Len(q) + 1) /\ ~IsNotification(m) =>
              Quietly(Append(q, m), k, Len(Append(q, m)) + 1)
<1> DEFINE r == Append(q, m)
<1>1. /\ Len(q) \in Nat /\ Len(r) = Len(q) + 1 /\ r[Len(q) + 1] = m /\ Len(q) + 1 \in 1 .. Len(r)
      /\ \A i \in 1 .. Len(q) : i \in 1 .. Len(r) /\ r[i] = q[i]
      /\ \A i \in 1 .. Len(r) : i \in 1 .. Len(q) \/ i = Len(q) + 1
  BY Appended
<1> HIDE DEF r
<1>2. \A j : Quietly(r, k, j) => Quietly(q, k, j)
  BY <1>1 DEF Quietly
<1>3. ASSUME Quietly(r, k, Len(r) + 1) PROVE Quietly(q, k, Len(q) + 1) /\ ~IsNotification(m)
  <2>1. \A h \in 1 .. Len(q) : h < Len(q) + 1 => h < Len(r) + 1
    BY <1>1
  <2>2. k < Len(q) + 1 /\ Len(q) + 1 < Len(r) + 1
    BY <1>1
  <2>. QED  BY <1>1, <1>3, <2>1, <2>2 DEF Quietly
<1>4. ASSUME Quietly(q, k, Len(q) + 1), ~IsNotification(m) PROVE Quietly(r, k, Len(r) + 1)
  <2>1. \A h \in 1 .. Len(q) : h < Len(q) + 1
    BY <1>1
  <2>. QED  BY <1>1, <1>4, <2>1 DEF Quietly
<1>. QED  BY <1>2, <1>3, <1>4 DEF r

LEMMA FollowsAppended ==
  ASSUME NEW q \in Seq(Messages), NEW m \in Messages, NEW k \in Nat, k <= Len(q),
         NEW d, NEW after, Emits(d, m, after), NEW n, Follows(q, d, k, n)
  PROVE  Follows(Append(q, m), after, k, n)
<1> DEFINE r == Append(q, m)
<1>1. /\ Len(q) \in Nat /\ Len(r) = Len(q) + 1 /\ r[Len(q) + 1] = m
      /\ \A i \in 1 .. Len(q) : i \in 1 .. Len(r) /\ r[i] = q[i]
      /\ \A i \in 1 .. Len(r) : i \in 1 .. Len(q) \/ i = Len(q) + 1
  BY Appended
<1>2. /\ \A j \in 1 .. Len(q) : Quietly(r, k, j) => Quietly(q, k, j)
      /\ Quietly(r, k, Len(q) + 1) => Quietly(q, k, Len(q) + 1)
      /\ Quietly(r, k, Len(r) + 1) => Quietly(q, k, Len(q) + 1) /\ ~IsNotification(m)
  BY QuietlyAppended
<1> HIDE DEF r
<1>3. ASSUME NEW j \in 1 .. Len(r), k < j, IsNotification(r[j]), Quietly(r, k, j)
      PROVE  r[j].about = n
  <2>1. CASE j \in 1 .. Len(q)
    BY <1>1, <1>2, <1>3, <2>1 DEF Follows
  <2>2. CASE j = Len(q) + 1
    BY <1>1, <1>2, <1>3, <2>2 DEF Follows, Emits
  <2>. QED  BY <1>1, <2>1, <2>2
<1>4. ASSUME Quietly(r, k, Len(r) + 1), after.registered PROVE after.seq = n
  BY <1>2, <1>4 DEF Follows, Emits
<1>. QED  BY <1>3, <1>4 DEF Follows, r

LEMMA NumberedAppended ==
  ASSUME NEW sent, NEW then, NoRegister(sent) => NoRegister(then),
         NEW q \in Seq(Messages), NEW m \in Messages, NEW k \in Nat,
         NEW d, NEW after, Emits(d, m, after), Numbered(sent, q, d, k)
  PROVE  Numbered(then, Append(q, m), after, k)
<1> DEFINE r == Append(q, m)
<1>1. /\ Len(q) \in Nat /\ Len(r) = Len(q) + 1 /\ r[Len(q) + 1] = m
      /\ \A i \in 1 .. Len(q) : i \in 1 .. Len(r) /\ r[i] = q[i]
      /\ \A i \in 1 .. Len(r) : i \in 1 .. Len(q) \/ i = Len(q) + 1
  BY Appended
<1>2. ASSUME NEW i \in 1 .. Len(q), k < i PROVE Ordered(r, after, i)
  <2>1. Ordered(q, d, i) /\ r[i] = q[i] /\ i \in Nat /\ i <= Len(q)
    BY <1>1, <1>2 DEF Numbered
  <2>2. CASE q[i].kind = "changed"
    <3>1. Follows(r, after, i, NextID(q[i].about))
      BY <2>1, <2>2, FollowsAppended DEF Ordered
    <3>. QED  BY <2>1, <2>2, <3>1 DEF Ordered
  <2>3. CASE q[i].kind = "deregistered"
    <3>1. ~d.registered /\ Quietly(q, i, Len(q) + 1)
      BY <2>1, <2>3 DEF Ordered
    <3>2. ~IsNotification(m) /\ ~after.registered
      BY <3>1 DEF Emits
    <3>3. Quietly(r, i, Len(r) + 1)
      BY <2>1, <3>1, <3>2, QuietlyAppended
    <3>. QED  BY <2>1, <2>3, <3>2, <3>3 DEF Ordered
  <2>. QED  BY <2>1, <2>2, <2>3 DEF Ordered
<1>3. Ordered(r, after, Len(q) + 1)
  <2>1. \A h \in 1 .. Len(r) : ~(Len(q) + 1 < h)
    BY <1>1
  <2>2. (m.kind = "changed" \/ m.kind = "deregistered") => m.about = d.seq
    BY DEF Emits, IsNotification
  <2>. QED  BY <1>1, <2>1, <2>2 DEF Ordered, Follows, Quietly, Emits
<1> HIDE DEF r
<1>. QED  BY <1>1, <1>2, <1>3 DEF Numbered, r

\* Taking a message that changes nothing of the subscription.
LEMMA AwaitedTaken ==
  ASSUME NEW e \in Entity, NEW f \in Entity, f.stays = e.stays,
         Registering(f) \in f.asked => Registering(e) \in e.asked,
         NEW sent, NEW then, NoRegister(sent) => NoRegister(then),
         LastRegister(sent, Registering(e)) => LastRegister(then, Registering(e)),
         NEW q \in Seq(Messages), NEW d, Awaited(e, sent, q, d), NEW after,
         after = q \/ (q # <<>> /\ after = Tail(q))
  PROVE  Awaited(f, then, after, d)
<1>. SUFFICES ASSUME Registering(f) \in f.asked \ Calls
              PROVE  /\ LastRegister(then, Registering(e))
                     /\ \A i \in 1 .. Len(after) :
                          after[i].kind = "response" /\ after[i].about = Registering(e)
                            => Numbered(then, after, d, i)
  BY DEF Awaited, Registering
<1>1. /\ LastRegister(sent, Registering(e))
      /\ \A i \in 1 .. Len(q) :
           q[i].kind = "response" /\ q[i].about = Registering(e) => Numbered(sent, q, d, i)
  BY DEF Awaited, Registering
<1>2. ASSUME NEW i \in 1 .. Len(q), q[i].kind = "response", q[i].about = Registering(e)
      PROVE  Numbered(then, q, d, i)
  BY <1>1, <1>2 DEF Numbered
<1>3. CASE after = q
  BY <1>1, <1>2, <1>3
<1>4. CASE q # <<>> /\ after = Tail(q)
  <2>. SUFFICES ASSUME NEW i \in 1 .. Len(after), after[i].kind = "response",
                       after[i].about = Registering(e)
                PROVE  Numbered(then, after, d, i)
    BY <1>1
  <2>1. /\ i + 1 \in 1 .. Len(q) /\ after[i] = q[i + 1] /\ i + 1 \in Nat /\ i + 1 > 0
        /\ (i + 1) - 1 = i
    BY <1>4, Tails
  <2>2. Numbered(then, q, d, i + 1)
    BY <1>2, <2>1
  <2>. QED  BY <1>4, <2>1, <2>2, NumberedTaken
<1>. QED  BY <1>3, <1>4

\* A message that the device sends, if it is not the answer to a registration.
LEMMA AwaitedAppended ==
  ASSUME NEW e \in Entity, NEW sent, NEW then, NoRegister(sent) => NoRegister(then),
         LastRegister(sent, Registering(e)) => LastRegister(then, Registering(e)),
         NEW q \in Seq(Messages), NEW d, NEW m \in Messages, NEW after, Emits(d, m, after),
         m.kind = "response" => m.about # Registering(e) \/ m.about \in Calls, Awaited(e, sent, q, d)
  PROVE  Awaited(e, then, Append(q, m), after)
<1> DEFINE r == Append(q, m)
<1>1. /\ Len(q) \in Nat /\ r[Len(q) + 1] = m
      /\ \A i \in 1 .. Len(q) : r[i] = q[i]
      /\ \A i \in 1 .. Len(r) : i \in 1 .. Len(q) \/ i = Len(q) + 1
  BY Appended
<1>2. \A i \in 1 .. Len(q) : Numbered(sent, q, d, i) => Numbered(then, r, after, i)
  <2>1. \A i \in 1 .. Len(q) : i \in Nat
    BY <1>1
  <2>. QED  BY <2>1, NumberedAppended
<1> HIDE DEF r
<1>3. ASSUME Registering(e) \in e.asked \ Calls, NEW i \in 1 .. Len(r), r[i].kind = "response",
             r[i].about = Registering(e)
      PROVE  Numbered(then, r, after, i)
  <2>1. i \in 1 .. Len(q) /\ r[i] = q[i]
    BY <1>1, <1>3
  <2>2. Numbered(sent, q, d, i)
    BY <1>3, <2>1 DEF Awaited
  <2>. QED  BY <1>2, <2>1, <2>2
<1>. QED  BY <1>3 DEF Awaited, r

LEMMA CountingAppended ==
  ASSUME NEW e \in Entity, NEW sent, NEW then, NoRegister(sent) => NoRegister(then),
         NEW q \in Seq(Messages), NEW d, NEW m \in Messages, NEW after, Emits(d, m, after),
         NEW lost, Counting(e, sent, q, d, lost)
  PROVE  Counting(e, then, Append(q, m), after, lost)
<1>1. Len(q) \in Nat /\ 0 \in Nat /\ 0 <= Len(q)
  BY Appended
<1>2. e.subscribed => Numbered(then, Append(q, m), after, 0)
  BY <1>1, NumberedAppended DEF Counting
<1>3. e.expected # None => Follows(Append(q, m), after, 0, (e.expected + lost) % Width)
  <2> DEFINE n == (e.expected + lost) % Width
  <2>1. e.expected # None => Follows(q, d, 0, n)
    BY DEF Counting
  <2> HIDE DEF n
  <2>2. Follows(q, d, 0, n) => Follows(Append(q, m), after, 0, n)
    BY <1>1, FollowsAppended
  <2>3. e.expected # None => Follows(Append(q, m), after, 0, n)
    BY <2>1, <2>2
  <2>. QED  BY <2>3 DEF n
<1>. QED  BY <1>2, <1>3 DEF Counting

\* Taking a message that is no notification.
LEMMA CountingUnnoticed ==
  ASSUME NEW e \in Entity, NEW f \in Entity, f.expected = e.expected, f.subscribed = e.subscribed,
         NEW sent, NEW then, NoRegister(sent) => NoRegister(then),
         NEW q \in Seq(Messages), NEW d, NEW after,
         after = q \/ (q # <<>> /\ after = Tail(q) /\ ~IsNotification(Head(q))),
         NEW lost, Counting(e, sent, q, d, lost)
  PROVE  Counting(f, then, after, d, lost)
<1> DEFINE n == (e.expected + lost) % Width
<1>1. /\ e.subscribed => Numbered(sent, q, d, 0)
      /\ e.expected # None => Follows(q, d, 0, n)
  BY DEF Counting
<1>2. f.subscribed => Numbered(then, q, d, 0)
  BY <1>1 DEF Numbered
<1> HIDE DEF n
<1>3. CASE after = q
  <2>1. f.expected # None => Follows(after, d, 0, n)
    BY <1>1, <1>3
  <2>. QED  BY <1>2, <1>3, <2>1 DEF Counting, n
<1>4. CASE q # <<>> /\ after = Tail(q) /\ ~IsNotification(Head(q))
  <2>1. f.subscribed => Numbered(then, after, d, 0)
    BY <1>2, <1>4, NumberedTaken, 0 \in Nat
  <2>2. f.expected # None => Follows(after, d, 0, n)
    BY <1>1, <1>4, FollowsUnnoticed
  <2>. QED  BY <2>1, <2>2 DEF Counting, n
<1>. QED  BY <1>3, <1>4

\* The first notification is the one that was counted on, if none was lost before.
LEMMA FirstNotification ==
  ASSUME NEW q \in Seq(Messages), q # <<>>, IsNotification(Head(q)), NEW d, NEW n, Follows(q, d, 0, n)
  PROVE  Head(q).about = n
<1>1. Head(q) = q[1] /\ 1 \in 1 .. Len(q) /\ 0 < 1
  BY Tails
<1>2. Quietly(q, 0, 1)
  <2>1. \A h \in 1 .. Len(q) : ~(h < 1)
    BY Tails
  <2>. QED  BY <2>1 DEF Quietly
<1>. QED  BY <1>1, <1>2 DEF Follows

\* And the one after it has the next number.
LEMMA NextNotification ==
  ASSUME NEW sent, NEW q \in Seq(Messages), q # <<>>, IsNotification(Head(q)), NEW d,
         Numbered(sent, q, d, 0)
  PROVE  Follows(Tail(q), d, 0, NextID(Head(q).about))
<1>1. Head(q) = q[1] /\ 1 \in 1 .. Len(q) /\ 0 < 1 /\ Head(q) \in Messages
  BY Tails
<1>2. Ordered(q, d, 1)
  BY <1>1 DEF Numbered
<1>3. Head(q).kind = "changed" \/ Head(q).kind = "deregistered"
  BY <1>1 DEF IsNotification, Messages, Answers, Notifications
<1>4. Follows(q, d, 1, NextID(Head(q).about))
  <2>1. CASE Head(q).kind = "changed"
    BY <1>1, <1>2, <2>1 DEF Ordered
  <2>2. CASE Head(q).kind = "deregistered"
    <3>1. ~d.registered /\ Quietly(q, 1, Len(q) + 1)
      BY <1>1, <1>2, <2>2 DEF Ordered
    <3>2. \A j \in 1 .. Len(q) : j < Len(q) + 1
      BY Tails
    <3>. QED  BY <3>1, <3>2 DEF Follows, Quietly
  <2>. QED  BY <1>3, <2>1, <2>2
<1>. QED  BY <1>4, FollowsTaken, 1 - 1 = 0, 1 \in Nat

\* Division: the remainder is the only one.
LEMMA Multiples ==
  ASSUME NEW W \in Nat, W > 1, NEW a \in Nat, NEW b \in Nat, a < b
  PROVE  W * (a + 1) <= W * b
<1>1. PICK c \in Nat : b = (a + 1) + c
  <2>1. b - (a + 1) \in Nat /\ b = (a + 1) + (b - (a + 1))
    OBVIOUS
  <2>. QED  BY <2>1
<1>2. W * b = W * (a + 1) + W * c
  BY <1>1
<1>3. W * c \in Nat /\ W * (a + 1) \in Nat
  OBVIOUS
<1>. QED  BY <1>2, <1>3

LEMMA Remainder ==
  ASSUME NEW W \in Nat, W > 1, NEW k \in Nat, NEW r \in 0..(W - 1), NEW x \in Nat, x = W * k + r
  PROVE  x % W = r
<1>1. PICK q \in Nat, s \in 0..(W - 1) : x = W * q + s /\ s = x % W
  <2>1. x % W \in 0..(W - 1) /\ x \div W \in Nat /\ x = W * (x \div W) + (x % W)
    OBVIOUS
  <2>. QED  BY <2>1
<1>w. W * k \in Nat /\ W * q \in Nat /\ W * (q + 1) = W * q + W /\ W * (k + 1) = W * k + W
  OBVIOUS
<1>2. CASE q < k
  <2>1. W * (q + 1) <= W * k
    BY <1>2, Multiples
  <2>. QED  BY <1>1, <1>w, <2>1
<1>3. CASE k < q
  <2>1. W * (k + 1) <= W * q
    BY <1>3, Multiples
  <2>. QED  BY <1>1, <1>w, <2>1
<1>4. CASE k = q
  <2>1. W * k = W * q
    BY <1>4
  <2>2. r = s
    BY <1>1, <1>w, <2>1
  <2>. QED  BY <1>1, <2>2
<1>. QED  BY <1>2, <1>3, <1>4

LEMMA NextRemainder ==
  ASSUME NEW W \in Nat, W > 1, NEW a \in Nat
  PROVE  ((a % W) + 1) % W = (a + 1) % W
<1> DEFINE k == a \div W
           r == a % W
<1>1. r \in 0..(W - 1) /\ k \in Nat /\ a = W * k + r
  OBVIOUS
<1> HIDE DEF k, r
<1>w. W * k \in Nat /\ W * (k + 1) = W * k + W /\ W * 0 = 0
  BY <1>1
<1>4. CASE r = W - 1
  <2>1. a + 1 = W * (k + 1) + 0 /\ r + 1 = W * 1 + 0
    BY <1>1, <1>w, <1>4
  <2>2. (a + 1) % W = 0
    BY <2>1, <1>1, Remainder, k + 1 \in Nat, 0 \in 0..(W - 1), a + 1 \in Nat
  <2>3. (r + 1) % W = 0
    BY <2>1, <1>1, Remainder, 0 \in 0..(W - 1), r + 1 \in Nat, 1 \in Nat
  <2>4. (r + 1) % W = (a + 1) % W
    BY <2>2, <2>3
  <2>. QED  BY ONLY <2>4 DEF r
<1>5. CASE r # W - 1
  <2>1. PICK y \in Nat, t \in 0..(W - 1) : y = a + 1 /\ t = r + 1
    BY <1>1, <1>5
  <2>2. y = W * k + t /\ t = W * 0 + t
    BY <1>1, <1>w, <2>1
  <2>3. y % W = t /\ t % W = t
    BY <1>1, <2>2, Remainder
  <2>4. (r + 1) % W = (a + 1) % W
    BY <2>1, <2>3
  <2>. QED  BY ONLY <2>4 DEF r
<1>. QED  BY <1>4, <1>5

LEMMA Numbers ==
  /\ \A n \in Int : NextID(n) \in 0..(Width - 1) /\ (NextID(n) + 0) % Width = NextID(n)
  /\ \A n \in 0..(Width - 1), lost \in Nat : (NextID((n + lost) % Width) = (n + (lost + 1)) % Width)
  /\ \A n \in 0..(Width - 1), lost \in 0..(Width - 1) : (n + lost) % Width = n => lost = 0
<1>1. Width \in Nat \ {0, 1} /\ Width \in Nat /\ Width > 1
  BY ControlAssumption
<1>2. \A n \in Int : NextID(n) \in 0..(Width - 1) /\ (NextID(n) + 0) % Width = NextID(n)
  BY <1>1 DEF NextID
<1>3. \A n \in 0..(Width - 1), lost \in 0..(Width - 1) : (n + lost) % Width = n => lost = 0
  BY <1>1
<1>4. \A n \in 0..(Width - 1), lost \in Nat : (NextID((n + lost) % Width) = (n + (lost + 1)) % Width)
  <2>. SUFFICES ASSUME NEW n \in 0..(Width - 1), NEW lost \in Nat
                PROVE  NextID((n + lost) % Width) = (n + (lost + 1)) % Width
    OBVIOUS
  <2>1. PICK a \in Nat : a = n + lost /\ a + 1 = n + (lost + 1)
    BY <1>1
  <2>2. ((a % Width) + 1) % Width = (a + 1) % Width
    BY <1>1, NextRemainder
  <2>. QED  BY <2>1, <2>2 DEF NextID
<1>. QED  BY <1>2, <1>3, <1>4

LEMMA RegistersKept ==
  ASSUME NEW e \in Entity, NEW f \in Entity, e.stays <= f.stays,
         \A query \in f.asked : query[2] = f.stays,
         NEW sent \in Seq(Calls \cup Queries), NEW then,
         NEW x \in Calls \cup Queries, IsRegister(x) => x[2] <= f.stays,
         then = sent \/ (sent # <<>> /\ then = Tail(sent)) \/ then = Append(sent, x),
         NEW q \in Seq(Messages), NEW after,
         NEW m \in Messages,
         m.kind = "response" /\ IsRegister(m.about) =>
           \E i \in 1 .. Len(sent) : IsRegister(sent[i]) /\ sent[i][2] = m.about[2],
         after = q \/ (q # <<>> /\ after = Tail(q)) \/ after = Append(q, m),
         Registers(e, sent, q)
  PROVE  Registers(f, then, after)
<1>1. /\ \A i \in 1 .. Len(sent) : IsRegister(sent[i]) => sent[i][2] <= e.stays
      /\ \A i \in 1 .. Len(q) :
           q[i].kind = "response" /\ IsRegister(q[i].about) => q[i].about[2] <= e.stays
      /\ e.stays \in Nat /\ f.stays \in Nat
  BY DEF Registers, Entity
<1>2. /\ \A i \in 1 .. Len(sent) : IsRegister(sent[i]) => sent[i][2] \in Nat
      /\ \A i \in 1 .. Len(q) : q[i].kind = "response" /\ IsRegister(q[i].about) => q[i].about[2] \in Nat
      /\ m.kind = "response" /\ IsRegister(m.about) => m.about[2] \in Nat
  <2>1. \A query \in Calls \cup Queries : IsRegister(query) => query[2] \in Nat
    BY DEF IsRegister, Queries
  <2>2. \A n \in Messages : n.kind = "response" => n.about \in Calls \cup Queries
    BY DEF Messages, Answers, Notifications
  <2>. QED  BY <2>1, <2>2
<1>3. ASSUME NEW i \in 1 .. Len(then), IsRegister(then[i]) PROVE then[i][2] <= f.stays
  <2> DEFINE Sent == Calls \cup Queries
  <2>1. sent \in Seq(Sent) /\ x \in Sent
    OBVIOUS
  <2> HIDE DEF Sent
  <2>2. (\E j \in 1 .. Len(sent) : then[i] = sent[j]) \/ then[i] = x
    BY <2>1, Queued
  <2>3. CASE \E j \in 1 .. Len(sent) : then[i] = sent[j]
    BY <1>1, <1>2, <1>3, <2>3
  <2>. QED  BY <1>3, <2>2, <2>3
<1>4. ASSUME NEW i \in 1 .. Len(after), after[i].kind = "response", IsRegister(after[i].about)
      PROVE  after[i].about[2] <= f.stays
  <2>1. (\E j \in 1 .. Len(q) : after[i] = q[j]) \/ after[i] = m
    <3>1. CASE after = q
      BY <3>1
    <3>2. CASE q # <<>> /\ after = Tail(q)
      BY <3>2, Tails
    <3>3. CASE after = Append(q, m)
      BY <3>3, Appended
    <3>. QED  BY <3>1, <3>2, <3>3
  <2>2. CASE \E j \in 1 .. Len(q) : after[i] = q[j]
    <3>1. PICK j \in 1 .. Len(q) : after[i] = q[j]
      BY <2>2
    <3>2. q[j].about[2] \in Nat /\ q[j].about[2] <= e.stays /\ e.stays \in Nat /\ f.stays \in Nat
      BY <1>1, <1>2, <1>4, <3>1
    <3>3. q[j].about[2] <= f.stays
      BY <3>2
    <3>. QED  BY <3>1, <3>3
  <2>3. CASE after[i] = m
    BY <1>1, <1>2, <1>4, <2>3
  <2>. QED  BY <2>1, <2>2, <2>3
<1>. QED  BY <1>3, <1>4 DEF Registers

\* The messages of the device are numbered as it counts them.
LEMMA DeviceEmits ==
  ASSUME NEW d \in Device, d.registered, NEW changed \in Device,
         changed.registered = d.registered, changed.seq = d.seq
  PROVE  Emits(d, Notification("changed", changed), [changed EXCEPT !.seq = (@ + 1) % Width])
<1>1. /\ [changed EXCEPT !.seq = (@ + 1) % Width].registered = d.registered
      /\ [changed EXCEPT !.seq = (@ + 1) % Width].seq = NextID(d.seq)
  BY DEF Device, NextID
<1>2. /\ Notification("changed", changed).kind = "changed"
      /\ Notification("changed", changed).about = changed.seq
  BY DEF Notification, News
<1>. QED  BY <1>1, <1>2 DEF Emits, IsNotification

LEMMA LossesInit == Init => Losses
<1>. SUFFICES ASSUME Init PROVE Losses
  OBVIOUS
<1>1. /\ entity.subscribed = FALSE /\ entity.expected = None /\ entity.asked = {}
      /\ toDevice = <<>> /\ fromDevice = <<>> /\ skipped = FALSE
  BY DEF Init, NoEntity
<1>2. Len(toDevice) = 0 /\ Len(fromDevice) = 0
  BY <1>1
<1>. QED  BY <1>1, <1>2 DEF Losses, Subscription, Counting, Awaited, Registers

LEMMA LossesTakes == ASSUME Parts, Parts', Losses, DeviceTakes PROVE Losses'
<1> DEFINE message == Head(toDevice)
           Sent == Calls \cup Queries
<1>1. /\ toDevice # <<>> /\ toDevice' = Tail(toDevice) /\ message \in Calls \cup Queries
      /\ UNCHANGED <<setting, entity, missed, skipped>>
      /\ \E status \in {"Success", "Refused"} :
           fromDevice' = Append(fromDevice, News("response", message, status, device'))
      /\ \/ device'.registered => device.registered /\ device'.seq = device.seq
         \/ message \notin Calls /\ message[1] = "register"
  <2>1. /\ toDevice # <<>> /\ toDevice' = Tail(toDevice) /\ message \in Calls \cup Queries
        /\ UNCHANGED <<setting, entity, missed, skipped>>
        /\ \E status \in {"Success", "Refused"} :
             fromDevice' = Append(fromDevice, News("response", message, status, device'))
    BY Heads DEF DeviceTakes, Parts
  <2>2. device \in Device
    BY DEF Parts
  <2>3. CASE message \in Calls
    <3>1. device' = device \/ device' = [device EXCEPT !.value = message, !.version = @ + 1]
      BY <2>3 DEF DeviceTakes
    <3>2. device'.registered = device.registered /\ device'.seq = device.seq
      BY <2>2, <3>1 DEF Device
    <3>. QED  BY <2>1, <3>2
  <2>4. CASE message \notin Calls
    <3>1. message[1] \in {"register", "get", "deregister"}
      BY <2>1, <2>4 DEF Queries
    <3>2. \/ message[1] = "register"
          \/ device' = device
          \/ device' = [device EXCEPT !.registered = FALSE]
      BY <2>4, <3>1 DEF DeviceTakes
    <3>. QED  BY <2>1, <2>2, <2>4, <3>2 DEF Device
  <2>. QED  BY <2>1, <2>3, <2>4
<1>2. /\ entity \in Entity /\ toDevice \in Seq(Sent) /\ fromDevice \in Seq(Messages)
      /\ device \in Device /\ device' \in Device /\ missed \in Nat /\ toDevice \in Seq(Calls \cup Queries)
  BY DEF Parts
<1>3. PICK m \in Messages : /\ fromDevice' = Append(fromDevice, m)
                            /\ m.kind = "response" /\ m.about = message
  <2>1. \A status \in {"Success", "Refused"} :
           /\ News("response", message, status, device') \in Messages
           /\ News("response", message, status, device').kind = "response"
           /\ News("response", message, status, device').about = message
    <3>1. \A status \in {"Success", "Refused"} : News("response", message, status, device') \in Messages
      BY <1>1, <1>2, NewsTyping
    <3>. QED  BY <3>1 DEF News
  <2> HIDE DEF message
  <2>. QED  BY <1>1, <2>1
<1>head. /\ message = toDevice[1] /\ 1 \in 1 .. Len(toDevice)
         /\ \A i \in 1 .. Len(toDevice') : 1 < i + 1 /\ i + 1 \in 1 .. Len(toDevice) /\ toDevice'[i] = toDevice[i + 1]
  BY <1>1, <1>2, HeadTailProperties, LenProperties, EmptySeq
<1>sent. /\ NoRegister(toDevice) => NoRegister(toDevice')
         /\ \A query : LastRegister(toDevice, query) => LastRegister(toDevice', query)
  <2>1. \A i, j \in 1 .. Len(toDevice') : i < j => i + 1 < j + 1
    BY <1>head
  <2>. QED  BY <1>head, <2>1 DEF NoRegister, LastRegister
<1>losses. /\ Subscription(entity, setting.milan, skipped)
           /\ Counting(entity, toDevice, fromDevice, device, missed)
           /\ Awaited(entity, toDevice, fromDevice, device)
           /\ Registers(entity, toDevice, fromDevice)
  BY DEF Losses
<1> HIDE DEF message, Sent
<1>4. Registers(entity, toDevice', fromDevice')
  <2>1. /\ IsRegister(message) => message[2] <= entity.stays
        /\ entity.stays <= entity.stays
        /\ \A query \in entity.asked : query[2] = entity.stays
    BY <1>2, <1>head, <1>losses DEF Registers, Entity
  <2>2. m.kind = "response" /\ IsRegister(m.about) =>
          \E i \in 1 .. Len(toDevice) : IsRegister(toDevice[i]) /\ toDevice[i][2] = m.about[2]
    BY <1>3, <1>head
  <2>3. toDevice' = toDevice \/ (toDevice # <<>> /\ toDevice' = Tail(toDevice)) \/ toDevice' = Append(toDevice, message)
    BY <1>1
  <2>4. \/ fromDevice' = fromDevice \/ (fromDevice # <<>> /\ fromDevice' = Tail(fromDevice))
        \/ fromDevice' = Append(fromDevice, m)
    BY <1>3
  <2>. QED  BY ONLY <1>1, <1>2, <1>losses, <2>1, <2>2, <2>3, <2>4, m \in Messages, RegistersKept
<1>5. Subscription(entity, setting.milan, skipped)
  BY <1>losses
<1>6. CASE ~IsRegister(message)
  <2>1. Emits(device, m, device')
    BY <1>1, <1>3, <1>6 DEF Emits, IsNotification, IsRegister
  <2>2. m.about # Registering(entity) \/ m.about \in Calls
    BY <1>3, <1>6 DEF IsRegister, Registering
  <2>3. Counting(entity, toDevice', fromDevice', device', missed)
    BY <1>2, <1>3, <1>sent, <1>losses, <2>1, CountingAppended
  <2>4. Awaited(entity, toDevice', fromDevice', device')
    BY <1>2, <1>3, <1>sent, <1>losses, <2>1, <2>2, AwaitedAppended
  <2>. QED  BY <1>1, <1>4, <1>5, <2>3, <2>4 DEF Losses
<1>7. CASE IsRegister(message)
  <2>1. ~NoRegister(toDevice)
    BY <1>7, <1>head DEF NoRegister
  <2>2. ~entity.subscribed /\ entity.expected = None
    BY <1>losses, <2>1 DEF Counting, Numbered, Subscription
  <2>3. Counting(entity, toDevice', fromDevice', device', missed)
    BY <2>2 DEF Counting
  <2>4. ASSUME Registering(entity) \in entity.asked \ Calls
        PROVE  /\ LastRegister(toDevice', Registering(entity))
               /\ \A i \in 1 .. Len(fromDevice') :
                    fromDevice'[i].kind = "response" /\ fromDevice'[i].about = Registering(entity)
                      => Numbered(toDevice', fromDevice', device', i)
    <3>1. /\ LastRegister(toDevice, Registering(entity))
          /\ \A i \in 1 .. Len(fromDevice) :
               ~(fromDevice[i].kind = "response" /\ fromDevice[i].about = Registering(entity))
      BY <1>losses, <2>1, <2>4 DEF Awaited, Numbered
    <3>2. ASSUME NEW i \in 1 .. Len(fromDevice'), fromDevice'[i].kind = "response",
                 fromDevice'[i].about = Registering(entity)
          PROVE  Numbered(toDevice', fromDevice', device', i)
      <4>1. i = Len(fromDevice) + 1 /\ Len(fromDevice') = i /\ fromDevice'[i] = m /\ i \in Nat
        BY <1>2, <1>3, <3>1, <3>2, Appended
      <4>2. NoRegister(toDevice')
        <5>1. toDevice[1] = Registering(entity)
          BY <1>3, <1>head, <3>2, <4>1
        <5>2. \A j \in 1 .. Len(toDevice) : 1 < j => ~IsRegister(toDevice[j])
          BY <1>head, <3>1, <5>1 DEF LastRegister
        <5>. QED  BY <1>head, <5>2 DEF NoRegister
      <4>3. \A j \in 1 .. Len(fromDevice') : ~(i < j)
        BY <4>1
      <4>. QED  BY <4>2, <4>3 DEF Numbered
    <3>. QED  BY <1>sent, <3>1, <3>2
  <2>. QED  BY <1>1, <1>4, <1>5, <2>3, <2>4 DEF Losses, Awaited
<1>. QED  BY <1>6, <1>7

\* The device sends a notification, or nothing.
LEMMA LossesEmits ==
  ASSUME Parts, Parts', Losses, UNCHANGED <<setting, entity, missed, skipped, toDevice>>,
         NEW m \in Messages, m.kind # "response",
         \/ fromDevice' = Append(fromDevice, m) /\ Emits(device, m, device')
         \/ /\ fromDevice' = fromDevice
            /\ device'.registered = device.registered /\ device'.seq = device.seq
  PROVE  Losses'
<1>1. /\ entity \in Entity /\ toDevice \in Seq(Calls \cup Queries) /\ fromDevice \in Seq(Messages)
  BY DEF Parts
<1>2. /\ Subscription(entity, setting.milan, skipped)
      /\ Counting(entity, toDevice, fromDevice, device, missed)
      /\ Awaited(entity, toDevice, fromDevice, device)
      /\ Registers(entity, toDevice, fromDevice)
  BY DEF Losses
<1>3. CASE fromDevice' = Append(fromDevice, m) /\ Emits(device, m, device')
  <2>1. Counting(entity, toDevice, fromDevice', device', missed)
    BY <1>1, <1>2, <1>3, CountingAppended
  <2>2. Awaited(entity, toDevice, fromDevice', device')
    BY <1>1, <1>2, <1>3, AwaitedAppended
  <2>3. Registers(entity, toDevice, fromDevice')
    <3>1. \A i \in 1 .. Len(fromDevice') :
             (i \in 1 .. Len(fromDevice) /\ fromDevice'[i] = fromDevice[i]) \/ fromDevice'[i] = m
      BY <1>1, <1>3, Appended
    <3>. QED  BY <1>2, <3>1 DEF Registers
  <2>. QED  BY <1>2, <2>1, <2>2, <2>3 DEF Losses
<1>4. CASE /\ fromDevice' = fromDevice
           /\ device'.registered = device.registered /\ device'.seq = device.seq
  <2>1. \A k, n : Follows(fromDevice, device, k, n) => Follows(fromDevice, device', k, n)
    BY <1>4 DEF Follows
  <2>2. \A i : Ordered(fromDevice, device, i) => Ordered(fromDevice, device', i)
    BY <1>4, <2>1 DEF Ordered
  <2>3. \A k : Numbered(toDevice, fromDevice, device, k) => Numbered(toDevice, fromDevice, device', k)
    BY <2>2 DEF Numbered
  <2>4. Counting(entity, toDevice, fromDevice, device', missed)
    BY <1>2, <2>1, <2>3 DEF Counting
  <2>5. Awaited(entity, toDevice, fromDevice, device')
    BY <1>2, <2>3 DEF Awaited
  <2>. QED  BY <1>2, <1>4, <2>4, <2>5 DEF Losses
<1>. QED  BY <1>3, <1>4

LEMMA LossesDevice ==
  ASSUME Parts, Parts', Losses, DeviceChanges \/ DeviceDeregisters
  PROVE  Losses'
<1>1. device \in Device /\ UNCHANGED <<setting, entity, missed, skipped, toDevice>>
  BY DEF Parts, DeviceChanges, DeviceDeregisters
<1>2. CASE DeviceChanges
  <2> DEFINE changed == [device EXCEPT !.changes = @ + 1, !.version = @ + 1, !.value = device.changes + 1]
             n == Notification("changed", changed)
  <2>1. changed.registered = device.registered /\ changed.seq = device.seq /\ n.kind # "response"
    BY <1>1 DEF Device, Notification, News
  <2>2. changed \in Device
    <3>1. device.changes + 1 \in 0..MaxChanges /\ device.version + 1 \in Nat
      BY <1>1, <1>2, ControlAssumption DEF DeviceChanges, Device
    <3>. QED  BY <1>1, <3>1 DEF Device, Values
  <2>3. \/ /\ fromDevice' = Append(fromDevice, n) /\ device.registered
           /\ device' = [changed EXCEPT !.seq = (@ + 1) % Width]
        \/ device' = changed /\ fromDevice' = fromDevice
    BY <1>2 DEF DeviceChanges
  <2> HIDE DEF changed
  <2>4. n \in Messages
    BY <2>2, NotificationTyping
  <2>5. device.registered => Emits(device, n, [changed EXCEPT !.seq = (@ + 1) % Width])
    BY <1>1, <2>1, <2>2, DeviceEmits
  <2> HIDE DEF n
  <2>. QED  BY <1>1, <2>1, <2>3, <2>4, <2>5, LossesEmits
<1>3. CASE DeviceDeregisters
  <2> DEFINE n == Notification("deregistered", device)
  <2>1. n \in Messages
    BY <1>1, NotificationTyping
  <2>2. n.kind = "deregistered" /\ n.about = device.seq
    BY DEF Notification, News
  <2>3. /\ device.registered /\ fromDevice' = Append(fromDevice, n)
        /\ device' = [device EXCEPT !.registered = FALSE]
    BY <1>3 DEF DeviceDeregisters
  <2> HIDE DEF n
  <2>4. device'.registered = FALSE
    BY <1>1, <2>3 DEF Device
  <2>5. Emits(device, n, device')
    BY <2>2, <2>3, <2>4 DEF Emits, IsNotification
  <2>. QED  BY <1>1, <2>1, <2>2, <2>3, <2>5, LossesEmits
<1>. QED  BY <1>2, <1>3

\* A user's command or a query is sent.
LEMMA LossesSends ==
  ASSUME Parts, Parts', Losses, UNCHANGED <<setting, device, entity, missed, skipped, fromDevice>>,
         \/ toDevice' = toDevice \/ (toDevice # <<>> /\ toDevice' = Tail(toDevice))
         \/ \E c \in Calls : toDevice' = Append(toDevice, c)
  PROVE  Losses'
<1>1. /\ entity \in Entity /\ toDevice \in Seq(Calls \cup Queries) /\ fromDevice \in Seq(Messages)
      /\ device \in Device
  BY DEF Parts
<1>2. /\ Subscription(entity, setting.milan, skipped)
      /\ Counting(entity, toDevice, fromDevice, device, missed)
      /\ Awaited(entity, toDevice, fromDevice, device)
      /\ Registers(entity, toDevice, fromDevice)
  BY DEF Losses
<1>3. PICK x \in Calls \cup Queries : /\ ~IsRegister(x) /\ (x # Registering(entity) \/ x \in Calls)
                                      /\ \/ toDevice' = toDevice \/ (toDevice # <<>> /\ toDevice' = Tail(toDevice))
                                         \/ toDevice' = Append(toDevice, x)
  <2>1. <<"get", 0>> \in Queries /\ ~IsRegister(<<"get", 0>>)
    BY ControlAssumption DEF Queries, IsRegister
  <2>2. <<"get", 0>> # Registering(entity)
    BY DEF Registering
  <2>3. \A c \in Calls : ~IsRegister(c)
    BY DEF IsRegister
  <2>. QED  BY <2>1, <2>2, <2>3
<1>4. PICK m \in Messages : m.kind # "response"
  <2>1. Notification("changed", device) \in Messages /\ Notification("changed", device).kind # "response"
    BY <1>1, NotificationTyping DEF Notification, News
  <2>. QED  BY <2>1
<1>5. /\ NoRegister(toDevice) => NoRegister(toDevice')
      /\ \A query : LastRegister(toDevice, query) => LastRegister(toDevice', query) \/ query = x
  <2> DEFINE Sent == Calls \cup Queries
  <2>1. toDevice \in Seq(Sent) /\ x \in Sent
    BY <1>1
  <2> HIDE DEF Sent
  <2>. QED  BY ONLY <1>3, <2>1, SentKept
<1>6. Counting(entity, toDevice', fromDevice, device, missed)
  BY <1>1, <1>2, <1>5 DEF Counting, Numbered
<1>7. Awaited(entity, toDevice', fromDevice, device)
  BY <1>2, <1>3, <1>5 DEF Awaited, Numbered
<1>8. Registers(entity, toDevice', fromDevice)
  <2>1. /\ \A query \in entity.asked : query[2] = entity.stays
        /\ entity.stays <= entity.stays
    BY <1>1, <1>2 DEF Registers, Entity
  <2>2. fromDevice = fromDevice \/ (fromDevice # <<>> /\ fromDevice = Tail(fromDevice))
          \/ fromDevice = Append(fromDevice, m)
    OBVIOUS
  <2>. QED  BY ONLY <1>1, <1>2, <1>3, <1>4, <2>1, <2>2, RegistersKept
<1>. QED  BY <1>2, <1>6, <1>7, <1>8 DEF Losses

LEMMA LossesLose == ASSUME Parts, Parts', Losses, Lose PROVE Losses'
<1>1. /\ entity \in Entity /\ toDevice \in Seq(Calls \cup Queries) /\ fromDevice \in Seq(Messages)
      /\ device \in Device /\ missed \in Nat
  BY DEF Parts
<1>2. /\ Subscription(entity, setting.milan, skipped)
      /\ Counting(entity, toDevice, fromDevice, device, missed)
      /\ Awaited(entity, toDevice, fromDevice, device)
      /\ Registers(entity, toDevice, fromDevice)
  BY DEF Losses
<1>3. /\ UNCHANGED <<setting, device, entity, skipped>>
      /\ \/ toDevice # <<>> /\ toDevice' = Tail(toDevice) /\ UNCHANGED <<fromDevice, missed>>
         \/ /\ fromDevice # <<>> /\ fromDevice' = Tail(fromDevice) /\ toDevice' = toDevice
            /\ missed' = IF IsNotification(Head(fromDevice)) THEN missed + 1 ELSE missed
  BY DEF Lose
<1>4. CASE toDevice # <<>> /\ toDevice' = Tail(toDevice) /\ UNCHANGED <<fromDevice, missed>>
  BY <1>3, <1>4, LossesSends
<1>5. CASE /\ fromDevice # <<>> /\ fromDevice' = Tail(fromDevice) /\ toDevice' = toDevice
           /\ missed' = IF IsNotification(Head(fromDevice)) THEN missed + 1 ELSE missed
  <2>1. Awaited(entity, toDevice, fromDevice', device)
    BY <1>1, <1>2, <1>5, AwaitedTaken
  <2>2. Registers(entity, toDevice, fromDevice')
    <3>1. \A i \in 1 .. Len(fromDevice') :
             i + 1 \in 1 .. Len(fromDevice) /\ fromDevice'[i] = fromDevice[i + 1]
      BY <1>1, <1>5, Tails
    <3>. QED  BY <1>2, <3>1 DEF Registers
  <2>3. Counting(entity, toDevice, fromDevice', device, missed')
    <3>1. CASE ~IsNotification(Head(fromDevice))
      BY <1>1, <1>2, <1>5, <3>1, CountingUnnoticed
    <3>2. CASE IsNotification(Head(fromDevice))
      <4>1. entity.subscribed => Numbered(toDevice, fromDevice', device, 0)
        BY <1>1, <1>2, <1>5, NumberedTaken, 0 \in Nat DEF Counting
      <4>2. ASSUME entity.expected # None
            PROVE  Follows(fromDevice', device, 0, (entity.expected + missed') % Width)
        <5> DEFINE n == (entity.expected + missed) % Width
        <5>1. entity.expected \in 0..(Width - 1) /\ entity.subscribed
          BY <1>1, <1>2, <4>2 DEF Entity, Subscription
        <5>2. Follows(fromDevice, device, 0, n) /\ Numbered(toDevice, fromDevice, device, 0)
          BY <1>2, <4>2, <5>1 DEF Counting
        <5>3. NextID(n) = (entity.expected + missed') % Width
          BY <1>1, <1>5, <3>2, <5>1, Numbers
        <5> HIDE DEF n
        <5>4. Head(fromDevice).about = n
          BY <1>1, <1>5, <3>2, <5>2, FirstNotification
        <5>5. Follows(fromDevice', device, 0, NextID(Head(fromDevice).about))
          BY <1>1, <1>5, <3>2, <5>2, NextNotification
        <5>. QED  BY <5>3, <5>4, <5>5
      <4>. QED  BY <4>1, <4>2 DEF Counting
    <3>. QED  BY <3>1, <3>2
  <2>. QED  BY <1>2, <1>3, <1>5, <2>1, <2>2, <2>3 DEF Losses
<1>. QED  BY <1>3, <1>4, <1>5

\* What the handling of a notification does to the subscription.
LEMMA Subscribing ==
  ASSUME NEW e \in Entity, NEW m \in Messages, IsNotification(m)
  PROVE  /\ \A seq : /\ Expecting(e, seq).subscribed = e.subscribed
                     /\ Expecting(e, seq).expected = IF Counts(e) THEN NextID(seq) ELSE e.expected
         /\ Unsubscribed(e).subscribed = FALSE /\ Unsubscribed(e).expected = None
         /\ \A query : /\ Forgotten(e, query).subscribed = e.subscribed
                       /\ Forgotten(e, query).expected = e.expected
         /\ \A value : /\ Updated(e, value).subscribed = e.subscribed
                       /\ Updated(e, value).expected = e.expected
<1>1. \A seq : /\ Expecting(e, seq).subscribed = e.subscribed
               /\ Expecting(e, seq).expected = IF Counts(e) THEN NextID(seq) ELSE e.expected
  <2>1. ASSUME NEW n
        PROVE  [e EXCEPT !.expected = n].subscribed = e.subscribed /\ [e EXCEPT !.expected = n].expected = n
    BY DEF Entity
  <2>. QED  BY <2>1 DEF Expecting, NextID
<1>2. Unsubscribed(e).subscribed = FALSE /\ Unsubscribed(e).expected = None
  BY DEF Unsubscribed, Entity
<1>3. \A query : /\ Forgotten(e, query).subscribed = e.subscribed
                 /\ Forgotten(e, query).expected = e.expected
  BY DEF Forgotten, Entity
<1>4. \A value : /\ Updated(e, value).subscribed = e.subscribed
                 /\ Updated(e, value).expected = e.expected
  BY DEF Updated, Entity
<1>. QED  BY <1>1, <1>2, <1>3, <1>4

\* The handled entity is that of before, or not subscribed any more; one that is given up
\* by its device is not.
LEMMA NotifiedSubscription ==
  ASSUME entity \in Entity, NEW m \in Messages, IsNotification(m)
  PROVE  /\ Notified(m).asked = entity.asked /\ Notified(m).stays = entity.stays
         /\ Notified(m).status = entity.status
         /\ \/ Notified(m).subscribed = entity.subscribed /\ Notified(m).expected = entity.expected
            \/ Notified(m).subscribed = FALSE /\ Notified(m).expected = None
         /\ m.kind = "deregistered" /\ Known => Notified(m).subscribed = FALSE
         /\ m.kind = "changed" => /\ Notified(m).subscribed = entity.subscribed
                                  /\ Notified(m).expected = entity.expected
<1>1. m.kind \in {"changed", "deregistered"}
  BY DEF IsNotification, Messages, Answers, Notifications
<1>2. CASE m.kind = "changed"
  <2>1. Notified(m) = entity \/ Notified(m) = Updated(entity, m.value)
    BY <1>2 DEF Notified
  <2> DEFINE e == Updated(entity, m.value)
  <2>2. e.asked = entity.asked /\ e.stays = entity.stays /\ e.status = entity.status
    BY EntityKept
  <2>3. e.subscribed = entity.subscribed /\ e.expected = entity.expected
    BY Subscribing
  <2> HIDE DEF e
  <2>. QED  BY <1>2, <2>1, <2>2, <2>3 DEF e
<1>3. CASE m.kind = "deregistered"
  <2>1. Notified(m) = IF Known THEN Unsubscribed(entity) ELSE entity
    BY <1>3 DEF Notified, Deregistered
  <2>. QED  BY <1>3, <2>1, EntityKept, Subscribing
<1>. QED  BY <1>1, <1>2, <1>3

\* The number of a notification that comes.
LEMMA Due ==
  ASSUME Parts, Losses, fromDevice # <<>>, IsNotification(Head(fromDevice)), entity.expected # None
  PROVE  /\ entity.expected \in 0..(Width - 1) /\ entity.subscribed /\ Counts(entity)
         /\ Head(fromDevice).about = (entity.expected + missed) % Width
         /\ missed = 0 => Head(fromDevice).about = entity.expected
         /\ missed \in 1..(Width - 1) => Head(fromDevice).about # entity.expected
<1> DEFINE n == (entity.expected + missed) % Width
<1>1. entity.expected \in 0..(Width - 1) /\ entity.subscribed /\ Counts(entity)
  BY DEF Parts, Entity, Losses, Subscription, Counts
<1>2. Follows(fromDevice, device, 0, n) /\ fromDevice \in Seq(Messages) /\ missed \in Nat
  BY DEF Parts, Losses, Counting
<1> HIDE DEF n
<1>3. Head(fromDevice).about = n
  BY <1>2, FirstNotification
<1>4. missed = 0 => n = entity.expected
  BY <1>1, ControlAssumption DEF n
<1>5. missed \in 1..(Width - 1) => n # entity.expected
  <2>1. missed \in 1..(Width - 1) => missed \in 0..(Width - 1) /\ missed # 0
    BY ControlAssumption
  <2>2. missed \in 0..(Width - 1) /\ n = entity.expected => missed = 0
    BY <1>1, Numbers DEF n
  <2>. QED  BY <2>1, <2>2
<1>. QED  BY <1>1, <1>3, <1>4, <1>5 DEF n

LEMMA LossesNotified ==
  ASSUME Parts, Parts', Losses, setting' = setting, device' = device, fromDevice # <<>>,
         fromDevice' = Tail(fromDevice), NotificationReceived(Head(fromDevice))
  PROVE  /\ Losses'
         /\ <<"deregister", entity.stays>> \in entity'.asked \ entity.asked => missed > 0
<1> DEFINE m == Head(fromDevice)
           handled == Notified(m)
           expecting == Expecting(handled, m.about)
           deregister == <<"deregister", entity.stays>>
<1>1. /\ entity \in Entity /\ entity' \in Entity /\ device \in Device /\ missed \in Nat /\ skipped \in BOOLEAN
      /\ toDevice \in Seq(Calls \cup Queries) /\ fromDevice \in Seq(Messages)
      /\ m \in Messages /\ IsNotification(m) /\ m.about \in 0..(Width - 1) /\ m.value \in Values
  <2>1. m \in Messages
    BY Heads DEF Parts
  <2>. QED  BY <2>1 DEF Parts, NotificationReceived, IsNotification, Messages, Answers, Notifications
<1>2. /\ Subscription(entity, setting.milan, skipped)
      /\ Counting(entity, toDevice, fromDevice, device, missed)
      /\ Awaited(entity, toDevice, fromDevice, device)
      /\ Registers(entity, toDevice, fromDevice)
  BY DEF Losses
<1>3. /\ \/ /\ ~HasLost(handled, m.about) /\ entity' = expecting /\ toDevice' = toDevice
         \/ /\ HasLost(handled, m.about)
            /\ entity' = [Unsubscribed(expecting) EXCEPT !.asked = @ \cup {deregister}]
            /\ toDevice' = Append(toDevice, deregister)
      /\ missed' = 0
      /\ skipped' = (skipped \/ (missed \in 1..(Width - 1) /\ Counts(entity) /\ entity.expected # None))
  BY DEF NotificationReceived
<1>4. handled \in Entity /\ expecting \in Entity
  BY <1>1, EntityTyping DEF Notified, Deregistered
<1>5. /\ handled.asked = entity.asked /\ handled.stays = entity.stays /\ handled.status = entity.status
      /\ \/ handled.subscribed = entity.subscribed /\ handled.expected = entity.expected
         \/ handled.subscribed = FALSE /\ handled.expected = None
      /\ m.kind = "deregistered" /\ Known => handled.subscribed = FALSE
  BY <1>1, NotifiedSubscription
<1>6. /\ expecting.asked = entity.asked /\ expecting.stays = entity.stays /\ expecting.status = entity.status
      /\ expecting.subscribed = handled.subscribed
      /\ expecting.expected = IF Counts(handled) THEN NextID(m.about) ELSE handled.expected
  <2> HIDE DEF handled
  <2>1. /\ expecting.asked = handled.asked /\ expecting.stays = handled.stays
        /\ expecting.status = handled.status
    BY <1>4, EntityKept
  <2>2. /\ expecting.subscribed = handled.subscribed
        /\ expecting.expected = IF Counts(handled) THEN NextID(m.about) ELSE handled.expected
    BY <1>1, <1>4, Subscribing
  <2>. QED  BY <1>5, <2>1, <2>2
<1>7. deregister \in Queries /\ ~IsRegister(deregister) /\ deregister[2] = entity.stays
  BY <1>1 DEF Entity, Queries, IsRegister
<1>8. /\ Registering(entity) # deregister
      /\ \A e \in Entity : \A query : [e EXCEPT !.asked = @ \cup {query}].asked = e.asked \cup {query}
      /\ \A e \in Entity : \A query : LET f == [e EXCEPT !.asked = @ \cup {query}]
                                  IN  f.stays = e.stays /\ f.status = e.status /\ f.subscribed = e.subscribed
                                      /\ f.expected = e.expected
  BY DEF Registering, Entity
<1> HIDE DEF deregister
<1>9. /\ entity'.stays = entity.stays /\ entity'.status = entity.status
      /\ entity'.asked = entity.asked \/ entity'.asked = entity.asked \cup {deregister}
      /\ \/ /\ ~HasLost(handled, m.about) /\ entity'.asked = entity.asked
            /\ entity'.subscribed = handled.subscribed
            /\ entity'.expected = IF Counts(handled) THEN NextID(m.about) ELSE handled.expected
         \/ HasLost(handled, m.about) /\ entity'.subscribed = FALSE /\ entity'.expected = None
  <2>1. CASE ~HasLost(handled, m.about) /\ entity' = expecting
    <3> HIDE DEF handled, expecting
    <3>. QED  BY <1>6, <2>1
  <2>2. CASE /\ HasLost(handled, m.about)
             /\ entity' = [Unsubscribed(expecting) EXCEPT !.asked = @ \cup {deregister}]
    <3>1. /\ Unsubscribed(expecting) \in Entity
          /\ Unsubscribed(expecting).asked = expecting.asked /\ Unsubscribed(expecting).stays = expecting.stays
          /\ Unsubscribed(expecting).status = expecting.status
          /\ Unsubscribed(expecting).subscribed = FALSE /\ Unsubscribed(expecting).expected = None
      <4> HIDE DEF handled, expecting
      <4>. QED  BY <1>1, <1>4, EntityTyping, EntityKept, Subscribing
    <3> DEFINE f == Unsubscribed(expecting)
    <3>2. entity' = [f EXCEPT !.asked = @ \cup {deregister}]
      BY <2>2
    <3> HIDE DEF f
    <3>3. /\ entity'.asked = f.asked \cup {deregister} /\ entity'.stays = f.stays /\ entity'.status = f.status
          /\ entity'.subscribed = f.subscribed /\ entity'.expected = f.expected
      BY <1>8, <3>1, <3>2 DEF f
    <3> HIDE DEF handled, expecting
    <3>. QED  BY <1>6, <2>2, <3>1, <3>3 DEF f
  <2>. QED  BY <1>3, <2>1, <2>2
<1>10. skipped' => ~entity'.subscribed /\ Registering(entity') \notin entity'.asked
  <2>1. Registering(entity') = Registering(entity)
    BY <1>9 DEF Registering
  <2>2. CASE skipped
    BY <1>2, <1>5, <1>8, <1>9, <2>1, <2>2 DEF Subscription, HasLost, Counts
  <2>3. CASE missed \in 1..(Width - 1) /\ Counts(entity) /\ entity.expected # None
    <3>1. m.about # entity.expected /\ entity.subscribed
      BY <1>1, <2>3, Due
    <3>2. ~entity'.subscribed
      BY <1>5, <1>9, <2>3, <3>1 DEF HasLost, Counts
    <3>. QED  BY <1>2, <1>8, <1>9, <2>1, <3>1, <3>2 DEF Subscription
  <2>. QED  BY <1>3, <2>2, <2>3
<1>11. Subscription(entity', setting.milan, skipped')
  <2>1. Registering(entity') = Registering(entity)
    BY <1>9 DEF Registering
  <2>2. entity'.subscribed => entity.subscribed
    BY <1>5, <1>9
  <2>3. entity'.expected # None => entity'.subscribed /\ setting.milan
    BY <1>2, <1>5, <1>9 DEF Subscription, Counts
  <2>4. entity'.status = "offline" => entity'.asked = {}
    BY <1>2, <1>5, <1>9 DEF Subscription, HasLost, Counts
  <2>. QED  BY <1>2, <1>8, <1>9, <1>10, <2>1, <2>2, <2>3, <2>4 DEF Subscription
<1>sent. /\ NoRegister(toDevice) => NoRegister(toDevice')
         /\ LastRegister(toDevice, Registering(entity)) => LastRegister(toDevice', Registering(entity))
  <2> DEFINE Sent == Calls \cup Queries
  <2>1. toDevice \in Seq(Sent) /\ deregister \in Sent
    BY <1>1, <1>7
  <2> HIDE DEF Sent
  <2>. QED  BY <1>3, <1>7, <1>8, <2>1, SentKept
<1>12. Counting(entity', toDevice', fromDevice', device, missed')
  <2>1. entity'.subscribed => Numbered(toDevice', fromDevice', device, 0)
    <3>1. entity'.subscribed => entity.subscribed
      BY <1>5, <1>9
    <3>2. entity'.subscribed => Numbered(toDevice, fromDevice', device, 0)
      BY <1>1, <1>2, <3>1, NumberedTaken, 0 \in Nat DEF Counting
    <3>. QED  BY <1>sent, <3>2 DEF Numbered
  <2>2. ASSUME entity'.expected # None
        PROVE  Follows(fromDevice', device, 0, (entity'.expected + missed') % Width)
    <3>1. entity.subscribed /\ Counts(handled) /\ entity'.expected = NextID(m.about)
      BY <1>2, <1>5, <1>9, <2>2 DEF Subscription, Counts
    <3>2. Numbered(toDevice, fromDevice, device, 0)
      BY <1>2, <3>1 DEF Counting
    <3>3. Follows(fromDevice', device, 0, NextID(m.about))
      BY <1>1, <3>2, NextNotification
    <3>4. (entity'.expected + missed') % Width = NextID(m.about)
      <4>1. m.about \in Int
        BY <1>1, ControlAssumption
      <4> HIDE DEF m
      <4>. QED  BY <1>3, <3>1, <4>1, Numbers
    <3>. QED  BY <3>3, <3>4
  <2>. QED  BY <2>1, <2>2 DEF Counting
<1>13. Awaited(entity', toDevice', fromDevice', device)
  <2>1. Registering(entity') \in entity'.asked => Registering(entity) \in entity.asked
    BY <1>8, <1>9 DEF Registering
  <2>. QED  BY <1>1, <1>2, <1>9, <1>sent, <2>1, AwaitedTaken
<1>14. Registers(entity', toDevice', fromDevice')
  <2>1. /\ entity.stays <= entity'.stays
        /\ \A query \in entity'.asked : query[2] = entity'.stays
        /\ IsRegister(deregister) => deregister[2] <= entity'.stays
        /\ deregister \in Calls \cup Queries
    BY <1>1, <1>2, <1>7, <1>9 DEF Registers, Entity
  <2>2. \/ toDevice' = toDevice \/ (toDevice # <<>> /\ toDevice' = Tail(toDevice))
        \/ toDevice' = Append(toDevice, deregister)
    BY <1>3
  <2>3. \/ fromDevice' = fromDevice \/ (fromDevice # <<>> /\ fromDevice' = Tail(fromDevice))
        \/ fromDevice' = Append(fromDevice, m)
    OBVIOUS
  <2>4. m.kind # "response"
    BY <1>1 DEF IsNotification
  <2> HIDE DEF m
  <2>. QED  BY ONLY <1>1, <1>2, <2>1, <2>2, <2>3, <2>4, RegistersKept
<1>15. deregister \in entity'.asked \ entity.asked => missed > 0
  <2>1. ASSUME deregister \in entity'.asked \ entity.asked PROVE HasLost(handled, m.about)
    BY <1>9, <2>1
  <2>2. ASSUME HasLost(handled, m.about) PROVE missed # 0
    <3>1. entity.expected # None /\ m.about # entity.expected
      BY <1>5, <2>2 DEF HasLost, Counts
    <3>. QED  BY <1>1, <3>1, Due
  <2>. QED  BY <1>1, <2>1, <2>2
<1>. QED  BY <1>11, <1>12, <1>13, <1>14, <1>15 DEF Losses, deregister

\* An answer that nothing of the subscription follows from, or its end.
LEMMA LossesUnnoticed ==
  ASSUME Parts, Parts', Losses, UNCHANGED <<setting, device, missed, skipped, toDevice>>,
         fromDevice # <<>>, fromDevice' = Tail(fromDevice), ~IsNotification(Head(fromDevice)),
         entity'.stays = entity.stays, entity'.asked \subseteq entity.asked,
         entity'.status = "offline" => entity.status = "offline",
         \/ entity'.subscribed = entity.subscribed /\ entity'.expected = entity.expected
         \/ entity'.subscribed = FALSE /\ entity'.expected = None
  PROVE  Losses'
<1>1. /\ entity \in Entity /\ entity' \in Entity /\ toDevice \in Seq(Calls \cup Queries)
      /\ fromDevice \in Seq(Messages)
  BY DEF Parts
<1>2. /\ Subscription(entity, setting.milan, skipped)
      /\ Counting(entity, toDevice, fromDevice, device, missed)
      /\ Awaited(entity, toDevice, fromDevice, device)
      /\ Registers(entity, toDevice, fromDevice)
  BY DEF Losses
<1>3. Registering(entity') = Registering(entity)
  BY DEF Registering
<1>4. Subscription(entity', setting.milan, skipped)
  BY <1>2, <1>3 DEF Subscription
<1>5. Counting(entity', toDevice, fromDevice', device, missed)
  <2>1. CASE entity'.subscribed = entity.subscribed /\ entity'.expected = entity.expected
    BY <1>1, <1>2, <2>1, CountingUnnoticed
  <2>2. CASE entity'.subscribed = FALSE /\ entity'.expected = None
    BY <2>2 DEF Counting
  <2>. QED  BY <2>1, <2>2
<1>6. Awaited(entity', toDevice, fromDevice', device)
  BY <1>1, <1>2, <1>3, AwaitedTaken
<1>7. Registers(entity', toDevice, fromDevice')
  <2>1. \A i \in 1 .. Len(fromDevice') :
           i + 1 \in 1 .. Len(fromDevice) /\ fromDevice'[i] = fromDevice[i + 1]
    BY <1>1, Tails
  <2>. QED  BY <1>2, <2>1 DEF Registers
<1>. QED  BY <1>4, <1>5, <1>6, <1>7 DEF Losses

LEMMA AnsweredSubscription ==
  ASSUME NEW e \in Entity, NEW query, NEW value
  PROVE  /\ Forgotten(e, query).subscribed = e.subscribed /\ Forgotten(e, query).expected = e.expected
         /\ Unsubscribed(e).subscribed = FALSE /\ Unsubscribed(e).expected = None
         /\ Updated(e, value).subscribed = e.subscribed /\ Updated(e, value).expected = e.expected
BY DEF Forgotten, Unsubscribed, Updated, Entity

LEMMA LossesAnswered ==
  ASSUME Parts, Parts', Losses, UNCHANGED <<setting, device>>, fromDevice # <<>>,
         fromDevice' = Tail(fromDevice), AnswerReceived(Head(fromDevice))
  PROVE  Losses' /\ entity'.asked = entity.asked
<1> DEFINE m == Head(fromDevice)
<1>1. /\ entity \in Entity /\ ~IsNotification(m) /\ UNCHANGED <<missed, skipped, toDevice>>
      /\ entity' = entity \/ entity' = Updated(entity, m.value)
  BY DEF Parts, AnswerReceived, IsNotification, ResultApplied
<1> DEFINE e == Updated(entity, m.value)
<1>2. /\ e.asked = entity.asked /\ e.stays = entity.stays /\ e.status = entity.status
      /\ e.subscribed = entity.subscribed /\ e.expected = entity.expected
  BY <1>1, EntityKept, AnsweredSubscription
<1>3. /\ entity'.asked = entity.asked /\ entity'.stays = entity.stays /\ entity'.status = entity.status
      /\ entity'.subscribed = entity.subscribed /\ entity'.expected = entity.expected
  <2> HIDE DEF e
  <2>. QED  BY <1>1, <1>2 DEF e
<1>. QED  BY <1>1, <1>3, LossesUnnoticed

LEMMA LossesQueried ==
  ASSUME Parts, Parts', Losses, UNCHANGED <<setting, device>>, fromDevice # <<>>,
         fromDevice' = Tail(fromDevice), QueryAnswered(Head(fromDevice))
  PROVE  Losses' /\ <<"deregister", entity.stays>> \notin entity'.asked \ entity.asked
<1> DEFINE m == Head(fromDevice)
           answered == Forgotten(entity, m.about)
           query == <<"get", entity.stays>>
<1>1. /\ m.kind = "response" /\ m.about \notin Calls /\ UNCHANGED <<missed, skipped>>
      /\ \/ /\ m.about \in entity.asked /\ m.about[1] = "register"
            /\ entity' = [answered EXCEPT !.subscribed = TRUE, !.asked = @ \cup {query}]
            /\ toDevice' = Append(toDevice, query)
         \/ /\ entity' = [answered EXCEPT !.status = "advertised", !.value = m.value]
            /\ toDevice' = toDevice
         \/ entity' = Unsubscribed(answered) /\ toDevice' = toDevice
         \/ entity' = entity /\ toDevice' = toDevice
  BY DEF QueryAnswered
<1>2. /\ entity \in Entity /\ toDevice \in Seq(Calls \cup Queries)
      /\ fromDevice \in Seq(Messages) /\ ~IsNotification(m) /\ m = fromDevice[1]
      /\ 1 \in 1 .. Len(fromDevice)
  BY <1>1, Tails DEF Parts, IsNotification
<1>3. /\ answered \in Entity
      /\ answered.asked = entity.asked \ {m.about} /\ answered.stays = entity.stays
      /\ answered.status = entity.status
      /\ answered.subscribed = entity.subscribed /\ answered.expected = entity.expected
  BY <1>2, EntityTyping, EntityKept, AnsweredSubscription
<1> HIDE DEF answered, m
<1>4. CASE /\ m.about \in entity.asked /\ m.about[1] = "register"
           /\ entity' = [answered EXCEPT !.subscribed = TRUE, !.asked = @ \cup {query}]
           /\ toDevice' = Append(toDevice, query)
  <2>1. /\ Subscription(entity, setting.milan, skipped)
        /\ Awaited(entity, toDevice, fromDevice, device)
        /\ Registers(entity, toDevice, fromDevice)
    BY DEF Losses
  <2>2. m.about = Registering(entity)
    <3>1. m.about \in Queries /\ m.about[2] = entity.stays
      BY <1>2, <1>4, <2>1 DEF Entity, Registers
    <3>. QED  BY <1>4, <3>1 DEF Registering, Queries
  <2>3. /\ ~skipped /\ ~entity.subscribed /\ entity.expected = None /\ entity.status # "offline"
        /\ Numbered(toDevice, fromDevice, device, 1)
    BY <1>1, <1>2, <1>4, <2>1, <2>2 DEF Subscription, Awaited, m
  <2>4. query \in Queries /\ ~IsRegister(query) /\ query # Registering(entity) /\ query[2] = entity.stays
        /\ query # <<"deregister", entity.stays>>
    BY <1>2 DEF Entity, Queries, IsRegister, Registering
  <2> HIDE DEF query
  <2>5. /\ entity'.stays = entity.stays /\ entity'.status = entity.status /\ entity'.subscribed = TRUE
        /\ entity'.expected = None /\ entity'.asked = (entity.asked \ {m.about}) \cup {query}
    BY <1>3, <1>4, <2>3 DEF Entity
  <2>6. Registering(entity') = Registering(entity) /\ Registering(entity') \notin entity'.asked
    BY <2>2, <2>4, <2>5 DEF Registering
  <2>7. Subscription(entity', setting.milan, skipped)
    BY <2>3, <2>5, <2>6 DEF Subscription
  <2>8. NoRegister(toDevice')
    <3> DEFINE Sent == Calls \cup Queries
    <3>1. toDevice \in Seq(Sent) /\ query \in Sent
      BY <1>2, <2>4
    <3> HIDE DEF Sent
    <3>2. NoRegister(toDevice)
      BY <2>3 DEF Numbered
    <3>3. \/ toDevice' = toDevice \/ (toDevice # <<>> /\ toDevice' = Tail(toDevice))
          \/ toDevice' = Append(toDevice, query)
      BY <1>4
    <3>. QED  BY ONLY <2>4, <3>1, <3>2, <3>3, SentKept
  <2>9. Counting(entity', toDevice', fromDevice', device, missed)
    <3>1. Numbered(toDevice, Tail(fromDevice), device, 1 - 1)
      BY <1>2, <2>3, NumberedTaken, 1 \in Nat, 1 > 0
    <3>2. Numbered(toDevice', fromDevice', device, 0)
      BY <2>8, <3>1, 1 - 1 = 0 DEF Numbered
    <3>. QED  BY <2>5, <3>2 DEF Counting
  <2>10. Awaited(entity', toDevice', fromDevice', device)
    BY <2>6 DEF Awaited
  <2>11. Registers(entity', toDevice', fromDevice')
    <3>1. /\ entity.stays <= entity'.stays /\ entity' \in Entity
          /\ \A p \in entity'.asked : p[2] = entity'.stays
          /\ IsRegister(query) => query[2] <= entity'.stays
          /\ query \in Calls \cup Queries
      BY <1>2, <2>1, <2>4, <2>5 DEF Registers, Entity, Parts
    <3>2. \/ toDevice' = toDevice \/ (toDevice # <<>> /\ toDevice' = Tail(toDevice))
          \/ toDevice' = Append(toDevice, query)
      BY <1>4
    <3>3. PICK n \in Messages : n.kind # "response"
      <4>1. device \in Device
        BY DEF Parts
      <4>2. /\ Notification("changed", device) \in Messages
            /\ Notification("changed", device).kind # "response"
        BY <4>1, NotificationTyping DEF Notification, News
      <4>. QED  BY <4>2
    <3>4. \/ fromDevice' = fromDevice \/ (fromDevice # <<>> /\ fromDevice' = Tail(fromDevice))
          \/ fromDevice' = Append(fromDevice, n)
      OBVIOUS
    <3>. QED  BY ONLY <1>2, <2>1, <3>1, <3>2, <3>3, <3>4, RegistersKept
  <2>. QED  BY <1>1, <2>4, <2>5, <2>7, <2>9, <2>10, <2>11 DEF Losses
<1>5. CASE /\ entity' = [answered EXCEPT !.status = "advertised", !.value = m.value]
           /\ toDevice' = toDevice
  <2>1. /\ entity'.stays = entity.stays /\ entity'.asked \subseteq entity.asked
        /\ entity'.status = "advertised" /\ entity'.subscribed = entity.subscribed
        /\ entity'.expected = entity.expected
    BY <1>3, <1>5 DEF Entity
  <2>. QED  BY <1>1, <1>2, <1>5, <2>1, LossesUnnoticed DEF m
<1>6. CASE entity' = Unsubscribed(answered) /\ toDevice' = toDevice
  <2>1. /\ Unsubscribed(answered).stays = entity.stays
        /\ Unsubscribed(answered).asked \subseteq entity.asked
        /\ Unsubscribed(answered).status = entity.status
        /\ Unsubscribed(answered).subscribed = FALSE /\ Unsubscribed(answered).expected = None
    BY <1>3, EntityKept, AnsweredSubscription
  <2>. QED  BY <1>1, <1>2, <1>6, <2>1, LossesUnnoticed DEF m
<1>7. CASE entity' = entity /\ toDevice' = toDevice
  BY <1>1, <1>2, <1>7, LossesUnnoticed DEF m
<1>. QED  BY <1>1, <1>4, <1>5, <1>6, <1>7

LEMMA LossesStays == ASSUME Parts, Parts', Losses, OnEntityOnline \/ OnEntityOffline PROVE Losses'
<1>1. /\ entity \in Entity /\ toDevice \in Seq(Calls \cup Queries) /\ fromDevice \in Seq(Messages)
      /\ Registers(entity, toDevice, fromDevice) /\ entity' \in Entity
  BY DEF Parts, Losses
<1>2. CASE OnEntityOffline
  <2>1. /\ entity'.subscribed = FALSE /\ entity'.expected = None /\ entity'.asked = {}
        /\ entity'.stays = entity.stays /\ UNCHANGED <<setting, toDevice, fromDevice, missed, skipped>>
    BY <1>2 DEF OnEntityOffline, NoEntity
  <2>. QED  BY <1>1, <2>1 DEF Losses, Subscription, Counting, Awaited, Registers
<1>3. CASE OnEntityOnline
  <2> DEFINE register == Registering(entity')
  <2>1. /\ entity'.subscribed = FALSE /\ entity'.expected = None /\ entity'.asked = {register}
        /\ entity'.stays = entity.stays + 1 /\ entity'.status = "enumerating"
        /\ toDevice' = Append(toDevice, register) /\ skipped' = FALSE /\ fromDevice' = fromDevice
    BY <1>3 DEF OnEntityOnline, Registering
  <2>2. register[2] = entity'.stays /\ register \in Queries
    BY <1>1 DEF Registering, Entity, Queries
  <2>new. ASSUME NEW query, IsRegister(query), query[2] <= entity.stays PROVE query # register
    <3>1. ~(entity.stays + 1 <= entity.stays)
      BY <1>1 DEF Entity
    <3>. QED  BY <2>1, <2>2, <2>new, <3>1
  <2>is. register \notin Calls => IsRegister(register)
    BY DEF Registering, IsRegister
  <2> HIDE DEF register
  <2>3. Subscription(entity', setting'.milan, skipped')
    BY <2>1 DEF Subscription
  <2>4. Counting(entity', toDevice', fromDevice', device', missed')
    BY <2>1 DEF Counting
  <2>5. Awaited(entity', toDevice', fromDevice', device')
    <3>. SUFFICES ASSUME register \notin Calls
                  PROVE  /\ LastRegister(toDevice', register)
                         /\ \A i \in 1 .. Len(fromDevice) :
                              ~(fromDevice[i].kind = "response" /\ fromDevice[i].about = register)
      BY <2>1 DEF Awaited, register
    <3>1. \A i \in 1 .. Len(fromDevice) :
            ~(fromDevice[i].kind = "response" /\ fromDevice[i].about = register)
      BY <1>1, <2>new, <2>is DEF Registers
    <3>2. \A i \in 1 .. Len(toDevice) : toDevice[i] # register
      BY <1>1, <2>new, <2>is DEF Registers
    <3>3. /\ Len(toDevice) \in Nat /\ Len(toDevice') = Len(toDevice) + 1
          /\ \A i \in 1 .. Len(toDevice) : toDevice'[i] = toDevice[i]
      BY <1>1, <2>1, <2>2, AppendProperties, LenProperties
    <3>4. LastRegister(toDevice', register)
      <4>1. \A i, j \in 1 .. Len(toDevice') : i < j => i \in 1 .. Len(toDevice)
        BY <3>3
      <4>. QED  BY <3>2, <3>3, <4>1 DEF LastRegister
    <3>. QED  BY <3>1, <3>4
  <2>6. Registers(entity', toDevice', fromDevice')
    <3>1. /\ entity.stays <= entity'.stays
          /\ \A p \in entity'.asked : p[2] = entity'.stays
          /\ IsRegister(register) => register[2] <= entity'.stays
          /\ register \in Calls \cup Queries
      BY <1>1, <2>1, <2>2 DEF Entity
    <3>2. \/ toDevice' = toDevice \/ (toDevice # <<>> /\ toDevice' = Tail(toDevice))
          \/ toDevice' = Append(toDevice, register)
      BY <2>1
    <3>3. PICK n \in Messages : n.kind # "response"
      <4>1. device \in Device
        BY DEF Parts
      <4>2. /\ Notification("changed", device) \in Messages
            /\ Notification("changed", device).kind # "response"
        BY <4>1, NotificationTyping DEF Notification, News
      <4>. QED  BY <4>2
    <3>4. \/ fromDevice' = fromDevice \/ (fromDevice # <<>> /\ fromDevice' = Tail(fromDevice))
          \/ fromDevice' = Append(fromDevice, n)
      BY <2>1
    <3>. QED  BY ONLY <1>1, <3>1, <3>2, <3>3, <3>4, RegistersKept
  <2>. QED  BY <2>3, <2>4, <2>5, <2>6 DEF Losses
<1>. QED  BY <1>2, <1>3

LEMMA LossesReceive ==
  ASSUME Parts, Parts', Losses, Receive
  PROVE  Losses' /\ (<<"deregister", entity.stays>> \in entity'.asked \ entity.asked => missed > 0)
<1>1. /\ fromDevice # <<>> /\ fromDevice' = Tail(fromDevice) /\ setting' = setting /\ device' = device
      /\ \/ NotificationReceived(Head(fromDevice)) \/ AnswerReceived(Head(fromDevice))
         \/ QueryAnswered(Head(fromDevice))
  BY DEF Receive
<1>2. CASE NotificationReceived(Head(fromDevice))
  BY <1>1, <1>2, LossesNotified
<1>3. CASE AnswerReceived(Head(fromDevice))
  BY <1>1, <1>3, LossesAnswered
<1>4. CASE QueryAnswered(Head(fromDevice))
  BY <1>1, <1>4, LossesQueried
<1>. QED  BY <1>1, <1>2, <1>3, <1>4

LEMMA LossesNext ==
  Parts /\ Parts' /\ Losses /\ [Next]_vars =>
    Losses' /\ (<<"deregister", entity.stays>> \in entity'.asked \ entity.asked => missed > 0)
<1>. SUFFICES ASSUME Parts, Parts', Losses, [Next]_vars
              PROVE  /\ Losses'
                     /\ <<"deregister", entity.stays>> \in entity'.asked \ entity.asked => missed > 0
  OBVIOUS
<1>1. CASE Receive
  BY <1>1, LossesReceive
<1>2. ASSUME NEW c \in Calls, UserCall(c) \/ FindAddress(c) \/ Send(c) \/ TimesOut(c)
      PROVE  Losses' /\ entity' = entity
  <2>1. /\ UNCHANGED <<setting, device, entity, missed, skipped, fromDevice>>
        /\ toDevice' = toDevice \/ toDevice' = Append(toDevice, c)
    BY <1>2 DEF UserCall, FindAddress, Send, TimesOut
  <2>. QED  BY <2>1, LossesSends
<1>3. CASE OnEntityOnline \/ OnEntityOffline
  <2>1. <<"deregister", entity.stays>> \notin entity'.asked
    <3>1. entity'.asked = {} \/ entity'.asked = {<<"register", entity.stays + 1>>}
      BY <1>3 DEF OnEntityOnline, OnEntityOffline, NoEntity
    <3>. QED  BY <3>1
  <2>. QED  BY <1>3, <2>1, LossesStays
<1>4. CASE DeviceTakes \/ DeviceChanges \/ DeviceDeregisters \/ Lose
  <2>1. entity' = entity
    BY <1>4 DEF DeviceTakes, DeviceChanges, DeviceDeregisters, Lose
  <2>. QED  BY <1>4, <2>1, LossesTakes, LossesDevice, LossesLose
<1>5. CASE UNCHANGED vars
  BY <1>5 DEF vars, Losses
<1>. QED  BY <1>1, <1>2, <1>3, <1>4, <1>5 DEF Next

\* An entity that skipped a notification is not subscribed any more once the next one was
\* handled, and a subscription is given up because of numbers only after a loss: for any
\* range of the numbers, although devices restart, deregister the controller by themselves
\* and answer registrations of earlier stays.
THEOREM LossesAlwaysDetected == Spec => LossesAreDetected
<1>1. Losses => (skipped => ~entity.subscribed)
  BY DEF Losses, Subscription
<1>2. Parts /\ Parts' /\ Losses /\ [Next]_vars =>
        [entity'.asked \ entity.asked = {<<"deregister", entity.stays>>} => missed > 0]_vars
  BY LossesNext
<1>3. Parts /\ Parts' /\ Losses /\ [Next]_vars => Losses'
  BY LossesNext
<1>4. Init => Parts /\ Losses
  BY TypingInit, LossesInit
<1>5. Parts /\ [Next]_vars => Parts'
  BY TypingNext
<1>. QED  BY <1>1, <1>2, <1>3, <1>4, <1>5, PTL DEF Spec, LossesAreDetected
=============================================================================
