--------------------------- MODULE DiscoveryProofs ---------------------------
(***************************************************************************)
(* Proofs about Discovery, for any entities, local or announced or both,   *)
(* any interfaces and observers, any indexes and any number of restarts.   *)
(***************************************************************************)
EXTENDS Discovery, FiniteSetTheorems, TLAPS

-----------------------------------------------------------------------------
(* Operators                                                                 *)

\* The elements below each of S are ordered by inclusion, which is well-founded.
LEMMA MinIsIn ==
  ASSUME NEW S \in SUBSET Nat, S # {}, IsFiniteSet(S)
  PROVE  Min(S) \in S
<1> DEFINE Below(x) == {y \in S : y < x}
           T == {Below(x) : x \in S}
<1>1. T # {} /\ T \subseteq SUBSET S
  OBVIOUS
<1>2. IsWellFoundedOn(StrictSubsetOrdering(S), SUBSET S)
  BY FS_StrictSubsetOrderingWellFounded, FS_FiniteSubsetsOfFinite
<1>3. \E D \in T : \A B \in T : <<B, D>> \notin StrictSubsetOrdering(S)
  BY <1>1, <1>2, WFMin
<1>4. PICK x \in S : \A y \in S : <<Below(y), Below(x)>> \notin StrictSubsetOrdering(S)
  <2>1. PICK D \in T : \A B \in T : <<B, D>> \notin StrictSubsetOrdering(S)
    BY <1>3
  <2>2. PICK x \in S : D = Below(x)
    OBVIOUS
  <2>. QED  BY <2>1, <2>2
<1>5. ASSUME NEW y \in S PROVE x =< y
  <2>1. SUFFICES ASSUME y < x PROVE FALSE
    OBVIOUS
  <2>2. Below(y) \subseteq Below(x) /\ Below(y) # Below(x)
    <3>1. x \in Nat /\ y \in Nat /\ \A z \in S : z \in Nat
      OBVIOUS
    <3>2. \A z \in S : z < y => z < x
      BY <2>1, <3>1
    <3>3. y \in Below(x) /\ y \notin Below(y)
      BY <2>1, <3>1
    <3>. QED  BY <3>2, <3>3
  <2>3. <<Below(y), Below(x)>> \in StrictSubsetOrdering(S)
    BY <2>2 DEF StrictSubsetOrdering
  <2>. QED  BY <1>4, <2>3
<1>. QED  BY <1>5 DEF Min

\* The main interface of an entity is one it has.
LEMMA MainIsThere ==
  ASSUME NEW entity \in Entity, InterfacesOf(entity) # {}
  PROVE  MainInterfaceIndex(entity) \in InterfacesOf(entity)
<1>1. InterfacesOf(entity) \in SUBSET Nat /\ IsFiniteSet(InterfacesOf(entity))
  BY FS_Subset, ConstantsAssumption DEF InterfacesOf
<1>. QED  BY <1>1, MinIsIn DEF MainInterfaceIndex

LEMMA MakeEntityTyped ==
  ASSUME NEW m \in Available
  PROVE  /\ MakeEntity(m) \in Entity
         /\ InterfacesOf(MakeEntity(m)) = {m.interface}
BY NoneIsApart DEF MakeEntity, Entity, Available, InterfacesOf

LEMMA UpdateEntityTyped ==
  ASSUME NEW entity \in Entity, NEW m \in Available
  PROVE  LET update == UpdateEntity(entity, m) IN
         /\ update.entity \in Entity
         /\ m.interface \in InterfacesOf(update.entity)
         /\ update.action \in {"NotifyOfflineOnline", "NotifyUpdate", "NoNotify"}
<1> DEFINE merged == [entity EXCEPT !.common = m.common, !.interfaces[m.interface] = m.info]
<1>1. merged \in Entity /\ m.interface \in InterfacesOf(merged)
  BY NoneIsApart DEF Entity, Available, InterfacesOf
<1>2. MakeEntity(m) \in Entity /\ m.interface \in InterfacesOf(MakeEntity(m))
  BY MakeEntityTyped
<1>. QED  BY <1>1, <1>2 DEF UpdateEntity

LEMMA LocalEntityTyped ==
  ASSUME TypeOK, NEW e \in Entities
  PROVE  LocalEntity(e) \in Entity /\ InterfacesOf(LocalEntity(e)) # {}
<1> DEFINE m == [entity |-> e, model |-> device[e].model, common |-> CHOOSE c \in Commons : TRUE,
                 interface |-> Min(Interfaces),
                 info |-> [mac |-> CHOOSE x \in Macs : TRUE, index |-> 0,
                           clock |-> CHOOSE c \in Clocks : TRUE]]
<1>1. Min(Interfaces) \in Interfaces
  BY MinIsIn, ConstantsAssumption
<1>2. m \in Available
  BY <1>1, ConstantsAssumption DEF TypeOK, Available, InterfaceInformation
<1>. QED  BY <1>2, MakeEntityTyped DEF LocalEntity

LEMMA ToldTyped ==
  ASSUME NEW v \in View \cup {None}, NEW entity \in Entity, InterfacesOf(entity) # {}
  PROVE  /\ ToldOnline(v, entity) \in View
         /\ ToldOfflineOnline(v, entity) \in View
         /\ ToldUpdated(v, entity) \in View
<1>1. MainInterfaceIndex(entity) \in Interfaces
  BY MainIsThere DEF InterfacesOf
<1>2. \A b \in BOOLEAN : [entity |-> entity, main |-> MainInterfaceIndex(entity), session |-> b] \in View
  BY <1>1 DEF View
<1>3. v # None => v.session \in BOOLEAN
  BY DEF View
<1>4. ToldOnline(v, entity) \in View
  BY <1>2, <1>3 DEF ToldOnline
<1>5. ToldOfflineOnline(v, entity) \in View
  BY <1>1, <1>3 DEF ToldOfflineOnline, ToldOnline, ToldOffline, View
<1>6. v # None => [v EXCEPT !.entity = entity] \in View
  BY DEF View
<1>. QED  BY <1>4, <1>5, <1>6 DEF ToldUpdated
-----------------------------------------------------------------------------
(* Typing                                                                    *)

\* An entity that is known has an interface: that of its main interface is taken from
\* a set that is not empty.
Present == \A e \in Entities : Known(e) => InterfacesOf(discovered[e]) # {}
Typing == TypeOK /\ Present

LEMMA TypingInit == Init => Typing
BY ConstantsAssumption DEF Init, Typing, TypeOK, Present, Known, NoTimeouts, NoDevice

\* What each notification leaves in the views.
LEMMA NotificationsTyped ==
  ASSUME Typing, NEW e \in Entities, NEW entity \in Entity, InterfacesOf(entity) # {},
         \/ NotifyOnline(e, entity) \/ NotifyOfflineOnline(e, entity) \/ NotifyUpdated(e, entity)
         \/ NotifyOffline(e)
  PROVE  view' \in [Observers -> [Entities -> View \cup {None}]]
<1>1. \A o \in Observers : /\ view[o] \in [Entities -> View \cup {None}]
                           /\ view[o][e] \in View \cup {None}
  BY DEF Typing, TypeOK
<1>2. \A o \in Observers : /\ ToldOnline(view[o][e], entity) \in View
                           /\ ToldOfflineOnline(view[o][e], entity) \in View
                           /\ ToldUpdated(view[o][e], entity) \in View
  BY <1>1, ToldTyped
<1>3. CASE NotifyOnline(e, entity)
  BY <1>1, <1>2, <1>3 DEF NotifyOnline
<1>4. CASE NotifyOfflineOnline(e, entity)
  BY <1>1, <1>2, <1>4 DEF NotifyOfflineOnline
<1>5. CASE NotifyUpdated(e, entity)
  BY <1>1, <1>2, <1>5 DEF NotifyUpdated
<1>6. CASE NotifyOffline(e)
  BY <1>1, <1>6 DEF NotifyOffline, ToldOffline
<1>. QED  BY <1>3, <1>4, <1>5, <1>6

LEMMA DoublesTyped == Doubles => doubled' \in SUBSET Entities
BY DEF Doubles

LEMMA TypingNext == Typing /\ [Next]_vars => Typing'
<1>. SUFFICES ASSUME Typing, [Next]_vars PROVE Typing'
  OBVIOUS
<1>. USE DEF Typing
<1>1. ASSUME NEW m \in Available, ReceiveAvailable(m) PROVE Typing'
  BY <1>1 DEF ReceiveAvailable, TypeOK, Present, Known
<1>2. ASSUME NEW e \in Entities, ReceiveDeparting(e) PROVE Typing'
  BY <1>2 DEF ReceiveDeparting, TypeOK, Present, Known
<1>3. CASE HandleAvailable
  <2> DEFINE m == receiver.adpdu
             e == m.entity
             update == UpdateEntity(discovered[e], m)
             entity == IF Known(e) THEN update.entity ELSE MakeEntity(m)
  <2>1. m \in Available /\ e \in Entities
    BY <1>3, NoneIsApart DEF HandleAvailable, TypeOK, Available
  <2>2. entity \in Entity /\ InterfacesOf(entity) # {}
    BY <2>1, UpdateEntityTyped, MakeEntityTyped DEF TypeOK, Known
  <2>3. view' \in [Observers -> [Entities -> View \cup {None}]] /\ failed' \in SUBSET Assertions
    <3>1. CASE NotifyOnline(e, entity)
      <4>1. view' \in [Observers -> [Entities -> View \cup {None}]]
        BY <2>1, <2>2, <3>1, NotificationsTyped
      <4>2. failed' \in SUBSET Assertions
        BY <3>1 DEF NotifyOnline, TypeOK, Assertions
      <4>. QED  BY <4>1, <4>2
    <3>2. CASE NotifyUpdated(e, entity)
      <4>1. view' \in [Observers -> [Entities -> View \cup {None}]]
        BY <2>1, <2>2, <3>2, NotificationsTyped
      <4>2. failed' \in SUBSET Assertions
        BY <3>2 DEF NotifyUpdated, TypeOK, Assertions
      <4>. QED  BY <4>1, <4>2
    <3>3. CASE NotifyOfflineOnline(e, entity) /\ UNCHANGED failed
      BY <2>1, <2>2, <3>3, NotificationsTyped DEF TypeOK
    <3>4. CASE UNCHANGED <<view, failed>>
      BY <3>4 DEF TypeOK
    <3>. QED  BY <1>3, <3>1, <3>2, <3>3, <3>4 DEF HandleAvailable
  <2>4. discovered' \in [Entities -> Entity \cup {None}] /\ Present'
    BY <1>3, <2>1, <2>2 DEF HandleAvailable, TypeOK, Present, Known
  <2>5. timeouts' \in [Entities -> [Interfaces -> {"none", "armed", "expired"}]]
    BY <1>3, <2>1 DEF HandleAvailable, ArmTimeout, TypeOK, Available
  <2>. QED  BY <1>3, <2>3, <2>4, <2>5, DoublesTyped DEF HandleAvailable, TypeOK
<1>forget. ASSUME NEW e \in Entities, Forget(e)
           PROVE  /\ discovered' \in [Entities -> Entity \cup {None}] /\ Present'
                  /\ timeouts' \in [Entities -> [Interfaces -> {"none", "armed", "expired"}]]
                  /\ view' \in [Observers -> [Entities -> View \cup {None}]]
                  /\ failed' \in SUBSET Assertions
  <2>1. view' \in [Observers -> [Entities -> View \cup {None}]]
    BY <1>forget DEF Forget, NotifyOffline, ToldOffline, TypeOK
  <2>2. discovered' \in [Entities -> Entity \cup {None}] /\ Present'
    BY <1>forget DEF Forget, TypeOK, Present, Known
  <2>3. timeouts' \in [Entities -> [Interfaces -> {"none", "armed", "expired"}]]
    BY <1>forget DEF Forget, NoTimeouts, TypeOK
  <2>. QED  BY <1>forget, <2>1, <2>2, <2>3 DEF Forget, TypeOK
<1>4. CASE HandleDeparting
  <2>1. receiver.adpdu \in Entities
    BY <1>4, NoneIsApart DEF HandleDeparting, TypeOK
  <2>. QED  BY <1>4, <1>forget, <2>1, DoublesTyped DEF HandleDeparting, TypeOK
<1>5. ASSUME NEW e \in Entities, ForgetRemoteEntity(e) PROVE Typing'
  BY <1>5, <1>forget, DoublesTyped DEF ForgetRemoteEntity, TypeOK
<1>6. CASE CheckTimeouts
  <2>1. \A e \in Entities : Shrinks(e) => Remaining(e) \in Entity /\ InterfacesOf(Remaining(e)) # {}
    BY DEF Shrinks, Leaves, Known, Remaining, WithoutInterfaces, TypeOK, Entity
  <2>2. \A o \in Observers, e \in Entities :
          Shrinks(e) => ToldUpdated(view[o][e], Remaining(e)) \in View
    BY <2>1, ToldTyped DEF TypeOK
  <2>3. view' \in [Observers -> [Entities -> View \cup {None}]]
    BY <1>6, <2>2 DEF CheckTimeouts, ToldOffline, TypeOK
  <2>4. discovered' \in [Entities -> Entity \cup {None}] /\ Present'
    BY <1>6, <2>1 DEF CheckTimeouts, TypeOK, Present, Known, Leaves
  <2>5. timeouts' \in [Entities -> [Interfaces -> {"none", "armed", "expired"}]]
    BY <1>6 DEF CheckTimeouts, NoTimeouts, TypeOK
  <2>6. failed' \in SUBSET Assertions
    BY <1>6 DEF CheckTimeouts, Assertions, TypeOK
  <2>. QED  BY <1>6, <2>3, <2>4, <2>5, <2>6, DoublesTyped DEF CheckTimeouts, TypeOK
<1>7. ASSUME NEW e \in Entities, NEW i \in Interfaces, Expire(e, i) PROVE Typing'
  BY <1>7 DEF Expire, TypeOK, Present, Known
<1>8. ASSUME NEW e \in Entities, RegisterLocalEntity(e) PROVE Typing'
  <2>1. LocalEntity(e) \in Entity /\ InterfacesOf(LocalEntity(e)) # {}
    BY LocalEntityTyped
  <2>2. view' \in [Observers -> [Entities -> View \cup {None}]] /\ failed' \in SUBSET Assertions
    BY <1>8, <2>1, NotificationsTyped DEF RegisterLocalEntity, NotifyOnline, Assertions, TypeOK
  <2>. QED  BY <1>8, <2>2, DoublesTyped DEF RegisterLocalEntity, TypeOK, Present, Known
<1>9. ASSUME NEW e \in Entities, UnregisterLocalEntity(e) PROVE Typing'
  BY <1>9, DoublesTyped
  DEF UnregisterLocalEntity, NotifyOffline, ToldOffline, TypeOK, Present, Known
<1>10. ASSUME NEW o \in Observers, RegisterObserver(o) \/ UnregisterObserver(o) PROVE Typing'
  <2>1. CASE RegisterObserver(o)
    BY <2>1 DEF RegisterObserver, TypeOK, Present, Known
  <2>2. CASE UnregisterObserver(o)
    BY <2>2 DEF UnregisterObserver, TypeOK, Present, Known
  <2>. QED  BY <1>10, <2>1, <2>2
<1>11. ASSUME NEW o \in Observers, NotifyLocalEntities(o) \/ NotifyDiscoveredRemoteEntities(o)
       PROVE  Typing'
  <2>1. \A e \in Entities : /\ ToldOnline(view[o][e], LocalEntity(e)) \in View
                            /\ Known(e) => ToldOnline(view[o][e], discovered[e]) \in View
    BY LocalEntityTyped, ToldTyped DEF TypeOK, Present, Known
  <2>2. \A e \in Entities : LocalEntity(e) \in Entity
    BY LocalEntityTyped
  <2>3. view' \in [Observers -> [Entities -> View \cup {None}]]
    <3>1. CASE NotifyLocalEntities(o)
      <4>1. \A e \in Entities : view'[o][e] \in View \cup {None}
        BY <2>1, <2>2, <3>1 DEF NotifyLocalEntities, TellKnown, TypeOK
      <4>. QED  BY <3>1, <4>1 DEF NotifyLocalEntities, TellKnown, TypeOK
    <3>2. CASE NotifyDiscoveredRemoteEntities(o)
      BY <2>1, <3>2 DEF NotifyDiscoveredRemoteEntities, TellKnown, Known, TypeOK
    <3>. QED  BY <1>11, <3>1, <3>2
  <2>. QED  BY <1>11, <2>3
            DEF NotifyLocalEntities, NotifyDiscoveredRemoteEntities, TellKnown, Assertions,
                TypeOK, Present, Known
<1>12. ASSUME NEW e \in Entities, SwitchOff(e) \/ Advance(e) \/ (\E m \in Models : SwitchOn(e, m))
       PROVE  Typing'
  <2>1. device' \in [Entities -> [on: BOOLEAN, model: Models, index: 0 .. MaxIndex,
                                 restarts: 0 .. MaxRestarts]]
    <3>1. CASE SwitchOff(e)
      BY <3>1, ConstantsAssumption DEF SwitchOff, TypeOK
    <3>2. CASE Advance(e)
      <4>1. device[e].index \in Nat /\ device[e].index + 1 \in 0 .. MaxIndex
        BY <3>2, ConstantsAssumption DEF Advance, TypeOK
      <4>2. [device[e] EXCEPT !.index = @ + 1] \in
              [on: BOOLEAN, model: Models, index: 0 .. MaxIndex, restarts: 0 .. MaxRestarts]
        BY <4>1 DEF TypeOK
      <4>3. device' = [device EXCEPT ![e] = [device[e] EXCEPT !.index = @ + 1]]
        BY <3>2 DEF Advance, TypeOK
      <4>. QED  BY <4>2, <4>3 DEF TypeOK
    <3>3. ASSUME NEW m \in Models, SwitchOn(e, m)
          PROVE  device' \in [Entities -> [on: BOOLEAN, model: Models, index: 0 .. MaxIndex,
                                          restarts: 0 .. MaxRestarts]]
      BY <3>3, ConstantsAssumption DEF SwitchOn, TypeOK
    <3>. QED  BY <1>12, <3>1, <3>2, <3>3
  <2>. QED  BY <1>12, <2>1 DEF SwitchOff, Advance, SwitchOn, TypeOK, Present, Known
<1>13. CASE UNCHANGED vars
  BY <1>13 DEF vars, TypeOK, Present, Known
<1>. QED
  BY <1>1, <1>2, <1>3, <1>4, <1>5, <1>6, <1>7, <1>8, <1>9, <1>10, <1>11, <1>12, <1>13
  DEF Next, Deliver, Announcement, Receive, Check

\* The variables keep their types (discoveryStateMachine.hpp:81-95): an entity that is
\* known has the fields of one, whatever messages made it up.
THEOREM TypeCorrect == Spec => []TypeOK
BY TypingInit, TypingNext, PTL DEF Spec, Typing
-----------------------------------------------------------------------------
(* What observers know                                                       *)

\* An ID is doubled as soon as it is local and remote, and until it is neither.
Apart ==
  \A e \in Entities : /\ Known(e) /\ e \in localEntities => e \in doubled
                      /\ e \in doubled => Known(e) \/ e \in localEntities

\* What an observer knows of an entity, at each stage of its registration.
Shown(o, e) == /\ Visible(view[o][e].entity) = Visible(discovered[e])
               /\ view[o][e].main \in InterfacesOf(discovered[e])
Agrees(o, e) ==
  /\ view[o][e] # None /\ Known(e) => Shown(o, e)
  /\ stage[o] \in {"remotes", "registered"} /\ e \in localEntities => view[o][e] # None
  /\ stage[o] = "registered" /\ Known(e) => view[o][e] # None
Follows(o, e) ==
  /\ view[o][e] # None => Listed(o) /\ (Known(e) \/ e \in localEntities)
  /\ e \notin doubled => Agrees(o, e)

Inv == Typing /\ Apart /\ \A o \in Observers, e \in Entities : Follows(o, e)

LEMMA InvInit == Init => Inv
BY TypingInit, ConstantsAssumption
DEF Init, Inv, Apart, Follows, Agrees, Known, Listed, NoDevice

\* The steps that change what is local or remote.
LEMMA DoublesApart == Doubles => Apart'
BY DEF Doubles, Apart, Known
LEMMA NotDoubled ==
  ASSUME Doubles, NEW e \in Entities, e \notin doubled', discovered'[e] # None \/ e \in localEntities'
  PROVE  e \notin doubled /\ ~(discovered'[e] # None /\ e \in localEntities')
BY DEF Doubles
LEMMA DoubledKept ==
  ASSUME Inv, Doubles, NEW e \in Entities, discovered'[e] = discovered[e],
         e \in localEntities' <=> e \in localEntities
  PROVE  e \in doubled => e \in doubled'
BY DEF Doubles, Inv, Apart, Known

\* A step that does not touch what o knows of e, or should.
LEMMA FollowsKept ==
  ASSUME NEW o \in Observers, NEW e \in Entities, Follows(o, e),
         discovered'[e] = discovered[e], view'[o][e] = view[o][e], stage'[o] = stage[o],
         e \in localEntities' <=> e \in localEntities, e \in doubled => e \in doubled'
  PROVE  Follows(o, e)'
BY DEF Follows, Agrees, Known, Listed, Shown, Visible, InterfacesOf

\* What updateEntity returns: another entity, or the same one with more interfaces or
\* other common fields; and what it does not have told, nobody could see.
LEMMA UpdateKeepsEntity ==
  ASSUME NEW entity \in Entity, NEW m \in Available
  PROVE  LET update == UpdateEntity(entity, m) IN
         update.action # "NotifyOfflineOnline" =>
           /\ update.entity.model = entity.model
           /\ InterfacesOf(entity) \subseteq InterfacesOf(update.entity)
           /\ \A i \in InterfacesOf(entity) :
                /\ update.entity.interfaces[i].mac = entity.interfaces[i].mac
                /\ update.entity.interfaces[i].index >= entity.interfaces[i].index
           /\ update.action = "NoNotify" => /\ Visible(update.entity) = Visible(entity)
                                            /\ InterfacesOf(update.entity) = InterfacesOf(entity)
<1> DEFINE merged == [entity EXCEPT !.common = m.common, !.interfaces[m.interface] = m.info]
           old == entity.interfaces[m.interface]
           update == UpdateEntity(entity, m)
<1> SUFFICES ASSUME update.action # "NotifyOfflineOnline"
             PROVE  /\ update.entity.model = entity.model
                    /\ InterfacesOf(entity) \subseteq InterfacesOf(update.entity)
                    /\ \A i \in InterfacesOf(entity) :
                         /\ update.entity.interfaces[i].mac = entity.interfaces[i].mac
                         /\ update.entity.interfaces[i].index >= entity.interfaces[i].index
                    /\ update.action = "NoNotify" =>
                         /\ Visible(update.entity) = Visible(entity)
                         /\ InterfacesOf(update.entity) = InterfacesOf(entity)
  OBVIOUS
<1>1. /\ update.entity = merged
      /\ entity.model = m.model
      /\ old # None => old.mac = m.info.mac /\ ~(old.index >= m.info.index)
      /\ update.action = "NoNotify" =>
           old # None /\ old.clock = m.info.clock /\ entity.common = m.common
  BY DEF UpdateEntity
<1>2. /\ entity.interfaces \in [Interfaces -> InterfaceInformation \cup {None}]
      /\ m.interface \in Interfaces /\ m.info \in InterfaceInformation /\ m.info # None
  BY NoneIsApart DEF Entity, Available
<1>3. /\ merged.model = entity.model /\ merged.common = m.common
      /\ merged.interfaces = [entity.interfaces EXCEPT ![m.interface] = m.info]
  BY DEF Entity
<1>4. InterfacesOf(entity) \subseteq InterfacesOf(merged)
  BY <1>2, <1>3 DEF InterfacesOf
<1>5. ASSUME NEW i \in InterfacesOf(entity)
      PROVE  /\ merged.interfaces[i].mac = entity.interfaces[i].mac
             /\ merged.interfaces[i].index >= entity.interfaces[i].index
  <2>1. /\ entity.interfaces[i] \in InterfaceInformation /\ i \in Interfaces
        /\ entity.interfaces[i].index \in Nat /\ m.info.index \in Nat
    BY <1>2, ConstantsAssumption DEF InterfacesOf, InterfaceInformation
  <2>2. CASE i = m.interface
    BY <1>1, <1>2, <1>3, <2>1, <2>2 DEF InterfacesOf
  <2>3. CASE i # m.interface
    BY <1>2, <1>3, <2>1, <2>3
  <2>. QED  BY <2>2, <2>3
<1>6. ASSUME update.action = "NoNotify"
      PROVE  Visible(merged) = Visible(entity) /\ InterfacesOf(merged) = InterfacesOf(entity)
  <2> DEFINE V(x) == [i \in Interfaces |-> IF x.interfaces[i] = None THEN None
                        ELSE [mac |-> x.interfaces[i].mac, clock |-> x.interfaces[i].clock]]
  <2>1. \A i \in Interfaces : V(merged)[i] = V(entity)[i]
    BY <1>1, <1>2, <1>3, <1>6
  <2>2. V(merged) = V(entity)
    BY <2>1
  <2>3. InterfacesOf(merged) = InterfacesOf(entity)
    BY <1>1, <1>2, <1>3, <1>6 DEF InterfacesOf
  <2>4. merged \in Entity /\ merged.common = entity.common
    BY <1>1, <1>2, <1>3, <1>6 DEF Entity, Available
  <2>5. \A x \in Entity : Visible(x) = [model |-> x.model, common |-> x.common, interfaces |-> V(x)]
    BY DEF Visible, Entity
  <2>. QED  BY <1>3, <2>2, <2>3, <2>4, <2>5
<1>. QED  BY <1>1, <1>3, <1>4, <1>5, <1>6

\* What o knows of an entity after it was told.
LEMMA ToldShown ==
  ASSUME NEW v \in View \cup {None}, NEW entity \in Entity, InterfacesOf(entity) # {},
         NEW told \in {ToldOnline(v, entity), ToldOfflineOnline(v, entity), ToldUpdated(v, entity)}
  PROVE  told # None /\ told.entity = entity /\ told.main \in InterfacesOf(entity)
<1>1. told \in View /\ told # None
  BY ToldTyped, NoneIsApart
<1>2. MainInterfaceIndex(entity) \in InterfacesOf(entity)
  BY MainIsThere
<1>3. ToldOnline(v, entity).entity = entity /\ ToldOnline(v, entity).main \in InterfacesOf(entity)
  BY <1>2 DEF ToldOnline
<1>4. /\ ToldOfflineOnline(v, entity).entity = entity
      /\ ToldOfflineOnline(v, entity).main \in InterfacesOf(entity)
  BY <1>2 DEF ToldOfflineOnline, ToldOnline, ToldOffline
<1>5. ToldUpdated(v, entity).entity = entity /\ ToldUpdated(v, entity).main \in InterfacesOf(entity)
  BY <1>3, <1>4 DEF ToldUpdated, View
<1>. QED  BY <1>1, <1>3, <1>4, <1>5

-----------------------------------------------------------------------------
(* The steps                                                                 *)

\* handleAdpEntityAvailable: what it makes of the entity, and what it tells each observer.
LEMMA AvailableFollows ==
  ASSUME Inv, HandleAvailable
  PROVE  Apart' /\ \A o \in Observers, f \in Entities : Follows(o, f)'
<1>m. PICK m \in Available : m = receiver.adpdu
  BY NoneIsApart DEF HandleAvailable, Inv, Typing, TypeOK
<1>e. PICK e \in Entities : e = m.entity
  BY DEF Available
<1> DEFINE update == UpdateEntity(discovered[e], m)
           entity == IF Known(e) THEN update.entity ELSE MakeEntity(m)
<1>0. /\ receiver # None /\ receiver.kind = "available" /\ receiver' = None
      /\ UNCHANGED <<localEntities, stage, device>>
  BY DEF HandleAvailable
<1>1. discovered' = [discovered EXCEPT ![e] = entity]
  BY <1>m, <1>e DEF HandleAvailable
<1>told. \/ NotifyOnline(e, entity) \/ NotifyUpdated(e, entity) \/ NotifyOfflineOnline(e, entity)
         \/ Known(e) /\ update.action = "NoNotify" /\ UNCHANGED view
  BY <1>m, <1>e DEF HandleAvailable
<1>2. localEntities' = localEntities /\ stage' = stage /\ Doubles
  BY <1>0 DEF HandleAvailable
<1>3. /\ entity \in Entity /\ InterfacesOf(entity) # {} /\ entity # None
      /\ discovered' = [discovered EXCEPT ![e] = entity]
  <2>1. discovered[e] \in Entity \cup {None}
    BY DEF Inv, Typing, TypeOK
  <2>2. entity \in Entity /\ InterfacesOf(entity) # {}
    <3>1. CASE Known(e)
      <4>1. discovered[e] \in Entity
        BY <2>1, <3>1 DEF Known
      <4>2. update.entity \in Entity /\ m.interface \in InterfacesOf(update.entity)
        BY <4>1, UpdateEntityTyped
      <4>. QED  BY <3>1, <4>2
    <3>2. CASE ~Known(e)
      BY <3>2, MakeEntityTyped
    <3>. QED  BY <3>1, <3>2
  <2>. QED  BY <1>1, <2>2, NoneIsApart
<1>4. Apart'
  BY <1>2, DoublesApart
<1>5. ASSUME NEW o \in Observers, e \notin doubled' PROVE Agrees(o, e)'
  <2>1. /\ view[o] \in [Entities -> View \cup {None}] /\ view[o][e] \in View \cup {None}
        /\ discovered[e] \in Entity \cup {None} /\ discovered'[e] = entity
    BY <1>1, <1>3 DEF Inv, Typing, TypeOK
  <2>2. Follows(o, e) /\ Agrees(o, e) /\ e \notin localEntities
    BY <1>2, <1>3, <1>5, <2>1, NotDoubled DEF Inv, Follows
  <2>3. CASE ~Listed(o)
    <3>1. view'[o][e] = None
      BY <1>told, <2>2, <2>3 DEF NotifyOnline, NotifyUpdated, NotifyOfflineOnline, Follows
    <3>. QED  BY <1>2, <2>2, <2>3, <3>1 DEF Agrees, Listed
  <2> DEFINE Told == view'[o][e] \in {ToldOnline(view[o][e], entity),
                                      ToldOfflineOnline(view[o][e], entity),
                                      ToldUpdated(view[o][e], entity)}
  <2>4. CASE Listed(o) /\ Told
    <3>1. view'[o][e] # None /\ view'[o][e].entity = entity
          /\ view'[o][e].main \in InterfacesOf(entity)
      BY <1>3, <2>1, <2>4, ToldShown
    <3>. QED  BY <1>2, <1>3, <2>1, <2>4, <3>1
              DEF Agrees, Shown, Known, Listed, Visible, InterfacesOf
  <2>5. CASE Known(e) /\ update.action = "NoNotify" /\ view'[o][e] = view[o][e]
    <3>1. Visible(entity) = Visible(discovered[e]) /\ InterfacesOf(entity) = InterfacesOf(discovered[e])
      BY <1>1, <2>1, <2>5, UpdateKeepsEntity DEF Known
    <3>2. discovered[e] # None /\ discovered'[e] = entity /\ entity # None
      BY <1>3, <2>1, <2>5, NoneIsApart DEF Known
    <3>3. view[o][e] # None => Shown(o, e)'
      <4>1. view[o][e] # None => Shown(o, e)
        BY <2>2, <2>5 DEF Agrees
      <4>2. Visible(discovered'[e]) = Visible(discovered[e])
            /\ InterfacesOf(discovered'[e]) = InterfacesOf(discovered[e])
        BY <3>1, <3>2
      <4>. QED  BY <2>5, <4>1, <4>2 DEF Shown, Visible, InterfacesOf
    <3>. QED  BY <1>2, <2>2, <2>5, <3>2, <3>3 DEF Agrees, Known, Listed
  <2>6. \/ ~Listed(o) \/ Told
        \/ Known(e) /\ update.action = "NoNotify" /\ view'[o][e] = view[o][e]
    BY <1>told, <1>1, <2>1 DEF NotifyOnline, NotifyUpdated, NotifyOfflineOnline
  <2>. QED  BY <2>3, <2>4, <2>5, <2>6
<1>listed. ASSUME NEW o \in Observers, view'[o][e] # None PROVE Listed(o)
  <2>1. view[o][e] # None => Listed(o)
    BY DEF Inv, Follows
  <2>. QED  BY <1>told, <1>listed, <2>1 DEF NotifyOnline, NotifyUpdated, NotifyOfflineOnline
<1>follows. ASSUME NEW o \in Observers PROVE Follows(o, e)'
  <2>1. discovered'[e] # None
    BY <1>3 DEF Inv, Typing, TypeOK
  <2>. QED  BY <1>2, <1>5, <1>listed, <2>1 DEF Follows, Known, Listed
<1>6. ASSUME NEW o \in Observers, NEW f \in Entities, f # e PROVE Follows(o, f)'
  <2>1. Follows(o, f)
    BY DEF Inv
  <2>2. discovered'[f] = discovered[f] /\ view'[o][f] = view[o][f]
    <3>1. view[o] \in [Entities -> View \cup {None}]
      BY DEF Inv, Typing, TypeOK
    <3>2. view'[o][f] = view[o][f]
      BY <1>told, <1>6, <3>1 DEF NotifyOnline, NotifyUpdated, NotifyOfflineOnline
    <3>. QED  BY <1>1, <1>3, <1>6, <3>2 DEF Inv, Typing, TypeOK
  <2>. QED  BY <1>2, <2>1, <2>2, DoubledKept, FollowsKept
<1>. QED  BY <1>1, <1>4, <1>follows, <1>6

\* forgetRemoteEntity, which an application, a departing message and nothing else call.
LEMMA ForgetFollows ==
  ASSUME Inv, NEW e \in Entities, Forget(e), Doubles, UNCHANGED <<localEntities, stage>>
  PROVE  Apart' /\ \A o \in Observers, f \in Entities : Follows(o, f)'
<1>1. ASSUME NEW o \in Observers PROVE Follows(o, e)'
  <2>1. Follows(o, e) /\ view[o] \in [Entities -> View \cup {None}]
    BY DEF Inv, Typing, TypeOK
  <2>2. discovered'[e] = None
    BY DEF Forget, Inv, Typing, TypeOK
  <2>3. CASE Known(e) /\ e \in localEntities
    <3>1. e \in doubled' /\ view'[o][e] = None
      BY <2>1, <2>3 DEF Forget, NotifyOffline, ToldOffline, Doubles, Inv, Apart, Follows
    <3>. QED  BY <3>1 DEF Follows
  <2>4. CASE Known(e) /\ e \notin localEntities
    <3>1. view'[o][e] = None
      BY <2>1, <2>4 DEF Forget, NotifyOffline, ToldOffline, Follows
    <3>. QED  BY <2>2, <2>4, <3>1 DEF Follows, Agrees, Known
  <2>5. CASE ~Known(e)
    BY <2>1, <2>2, <2>5, DoubledKept, FollowsKept DEF Forget, Known
  <2>. QED  BY <2>3, <2>4, <2>5
<1>2. ASSUME NEW o \in Observers, NEW f \in Entities, f # e PROVE Follows(o, f)'
  <2>1. Follows(o, f)
    BY DEF Inv
  <2>2. view'[o][f] = view[o][f]
    <3>1. view[o] \in [Entities -> View \cup {None}]
      BY DEF Inv, Typing, TypeOK
    <3>2. view' = view \/ NotifyOffline(e)
      BY DEF Forget
    <3>. QED  BY <1>2, <3>1, <3>2 DEF NotifyOffline
  <2>3. discovered'[f] = discovered[f]
    BY <1>2 DEF Forget, Inv, Typing, TypeOK
  <2>. QED  BY <2>1, <2>2, <2>3, DoubledKept, FollowsKept
<1>. QED  BY <1>1, <1>2, DoublesApart

\* checkRemoteEntitiesTimeoutExpiracy.
LEMMA TimeoutsFollow ==
  ASSUME Inv, CheckTimeouts
  PROVE  Apart' /\ \A o \in Observers, e \in Entities : Follows(o, e)'
<1>1. Doubles /\ Apart'
  BY DoublesApart DEF CheckTimeouts
<1>2. ASSUME NEW o \in Observers, NEW e \in Entities PROVE Follows(o, e)'
  <2>1. /\ view[o][e] \in View \cup {None} /\ Follows(o, e)
        /\ localEntities' = localEntities /\ stage' = stage
    <3>1. view[o][e] \in View \cup {None} /\ Follows(o, e)
      BY DEF Inv, Typing, TypeOK
    <3>2. localEntities' = localEntities /\ stage' = stage
      BY DEF CheckTimeouts
    <3>. QED  BY <3>1, <3>2
  <2>2. CASE Leaves(e)
    <3>1. discovered'[e] = None /\ view'[o][e] = None
      BY <2>1, <2>2 DEF CheckTimeouts, ToldOffline, Follows
    <3>2. e \in localEntities => e \in doubled'
      BY <1>1, <2>1, <2>2 DEF Leaves, Doubles, Inv, Apart
    <3>. QED  BY <3>1, <3>2, <2>1 DEF Follows, Agrees, Known
  <2>3. CASE Shrinks(e)
    <3>1. Remaining(e) \in Entity /\ Remaining(e) # None /\ InterfacesOf(Remaining(e)) # {}
      <4>1. discovered[e] \in Entity
        BY <2>3 DEF Shrinks, Known, Inv, Typing, TypeOK
      <4>2. Remaining(e) \in Entity
        BY <4>1 DEF Remaining, WithoutInterfaces, Entity
      <4>. QED  BY <2>3, <4>2, NoneIsApart DEF Shrinks, Leaves
    <3>2. /\ discovered'[e] = Remaining(e)
          /\ e \in localEntities => e \in doubled'
      BY <1>1, <2>1, <2>3, <3>1 DEF CheckTimeouts, Shrinks, Doubles
    <3>3. CASE Listed(o)
      <4>1. view'[o][e] = ToldUpdated(view[o][e], Remaining(e))
        BY <2>3, <3>3 DEF CheckTimeouts, Shrinks
      <4>2. /\ view'[o][e] # None /\ view'[o][e].entity = Remaining(e)
            /\ view'[o][e].main \in InterfacesOf(Remaining(e))
        BY <2>1, <3>1, <4>1, ToldShown
      <4>. QED  BY <2>1, <3>1, <3>2, <3>3, <4>2
                DEF Follows, Agrees, Shown, Known, Listed, Visible, InterfacesOf
    <3>4. CASE ~Listed(o)
      <4>1. view'[o][e] = None
        BY <2>1, <3>4 DEF CheckTimeouts, Follows
      <4>. QED  BY <2>1, <3>2, <3>4, <4>1 DEF Follows, Agrees, Listed
    <3>. QED  BY <3>3, <3>4
  <2>4. CASE ~Leaves(e) /\ ~Shrinks(e)
    <3>1. discovered'[e] = discovered[e] /\ view'[o][e] = view[o][e]
      BY <2>4 DEF CheckTimeouts
    <3>. QED  BY <1>1, <2>1, <3>1, DoubledKept, FollowsKept
  <2>. QED  BY <2>2, <2>3, <2>4
<1>. QED  BY <1>1, <1>2

\* notifyDiscoveredEntities.
LEMMA TellFollows ==
  ASSUME Inv, NEW o \in Observers, NotifyLocalEntities(o) \/ NotifyDiscoveredRemoteEntities(o)
  PROVE  \A p \in Observers, e \in Entities : Follows(p, e)'
<1>1. ASSUME NEW p \in Observers, NEW e \in Entities, p # o PROVE Follows(p, e)'
  <2>1. /\ view'[p][e] = view[p][e] /\ stage'[p] = stage[p] /\ doubled' = doubled
        /\ discovered' = discovered /\ localEntities' = localEntities
    BY <1>1 DEF NotifyLocalEntities, NotifyDiscoveredRemoteEntities, TellKnown, Inv, Typing, TypeOK
  <2>. QED  BY <2>1, FollowsKept DEF Inv
<1>2. ASSUME NEW e \in Entities, NotifyLocalEntities(o) PROVE Follows(o, e)'
  <2>1. /\ stage[o] = "locals" /\ stage'[o] = "remotes" /\ Follows(o, e)
        /\ discovered' = discovered /\ localEntities' = localEntities /\ doubled' = doubled
    BY <1>2 DEF NotifyLocalEntities, Inv, Typing, TypeOK
  <2>2. LocalEntity(e) \in Entity /\ LocalEntity(e) # None /\ view[o][e] \in View \cup {None}
    BY LocalEntityTyped, NoneIsApart DEF Inv, Typing, TypeOK
  <2>3. CASE e \in localEntities
    <3>1. view'[o][e] = ToldOnline(view[o][e], LocalEntity(e))
      BY <1>2, <2>2, <2>3 DEF NotifyLocalEntities, TellKnown, Inv, Typing, TypeOK
    <3>2. view'[o][e] # None
      BY <2>2, <3>1, ToldShown, LocalEntityTyped DEF Inv, Typing
    <3>3. e \notin doubled => ~Known(e)
      BY <2>3 DEF Inv, Apart
    <3>. QED  BY <2>1, <2>3, <3>2, <3>3 DEF Follows, Agrees, Known, Listed
  <2>4. CASE e \notin localEntities
    <3>1. view'[o][e] = view[o][e]
      BY <1>2, <2>4 DEF NotifyLocalEntities, TellKnown, Inv, Typing, TypeOK
    <3>. QED  BY <2>1, <2>4, <3>1 DEF Follows, Agrees, Known, Listed, Shown, Visible, InterfacesOf
  <2>. QED  BY <2>3, <2>4
<1>3. ASSUME NEW e \in Entities, NotifyDiscoveredRemoteEntities(o) PROVE Follows(o, e)'
  <2>1. /\ stage[o] = "remotes" /\ stage'[o] = "registered" /\ Follows(o, e)
        /\ discovered' = discovered /\ localEntities' = localEntities /\ doubled' = doubled
    BY <1>3 DEF NotifyDiscoveredRemoteEntities, Inv, Typing, TypeOK
  <2>2. view[o][e] \in View \cup {None}
    BY DEF Inv, Typing, TypeOK
  <2>3. CASE Known(e)
    <3>1. view'[o][e] = ToldOnline(view[o][e], discovered[e])
      BY <1>3, <2>3 DEF NotifyDiscoveredRemoteEntities, TellKnown, Known, Inv, Typing, TypeOK
    <3>2. discovered[e] \in Entity /\ InterfacesOf(discovered[e]) # {}
      BY <2>3 DEF Inv, Typing, TypeOK, Present, Known
    <3>3. /\ view'[o][e] # None /\ view'[o][e].entity = discovered[e]
          /\ view'[o][e].main \in InterfacesOf(discovered[e])
      BY <2>2, <3>1, <3>2, ToldShown
    <3>. QED  BY <2>1, <2>3, <3>3 DEF Follows, Agrees, Known, Listed, Shown, Visible, InterfacesOf
  <2>4. CASE ~Known(e)
    <3>1. view'[o][e] = view[o][e]
      BY <1>3, <2>4 DEF NotifyDiscoveredRemoteEntities, TellKnown, Known, Inv, Typing, TypeOK
    <3>. QED  BY <2>1, <2>4, <3>1 DEF Follows, Agrees, Known, Listed
  <2>. QED  BY <2>3, <2>4
<1>. QED  BY <1>1, <1>2, <1>3

LEMMA InvNext == Inv /\ [Next]_vars => Inv'
<1>. SUFFICES ASSUME Inv, [Next]_vars
              PROVE  Apart' /\ \A o \in Observers, e \in Entities : Follows(o, e)'
  BY TypingNext DEF Inv
<1>0. \A o \in Observers : view[o] \in [Entities -> View \cup {None}]
  BY DEF Inv, Typing, TypeOK
<1>same. ASSUME UNCHANGED <<discovered, view, stage, localEntities, doubled>>
         PROVE  Apart' /\ \A o \in Observers, e \in Entities : Follows(o, e)'
  BY <1>same, FollowsKept DEF Inv, Apart, Known
<1>1. CASE Deliver
  BY <1>1, <1>same DEF Deliver, ReceiveAvailable
<1>2. ASSUME NEW e \in Entities,
             \/ ReceiveDeparting(e) \/ SwitchOff(e) \/ Advance(e)
             \/ (\E m \in Models : SwitchOn(e, m)) \/ (\E i \in Interfaces : Expire(e, i))
      PROVE  Apart' /\ \A o \in Observers, f \in Entities : Follows(o, f)'
  BY <1>2, <1>same DEF ReceiveDeparting, SwitchOff, Advance, SwitchOn, Expire
<1>3. CASE HandleAvailable
  BY <1>3, AvailableFollows
<1>4. CASE HandleDeparting
  <2>1. receiver.adpdu \in Entities
    BY <1>4, NoneIsApart DEF HandleDeparting, Inv, Typing, TypeOK
  <2>. QED  BY <1>4, <2>1, ForgetFollows DEF HandleDeparting
<1>5. ASSUME NEW e \in Entities, ForgetRemoteEntity(e)
      PROVE  Apart' /\ \A o \in Observers, f \in Entities : Follows(o, f)'
  BY <1>5, ForgetFollows DEF ForgetRemoteEntity
<1>6. CASE CheckTimeouts
  BY <1>6, TimeoutsFollow
<1>7. ASSUME NEW e \in Entities, RegisterLocalEntity(e) \/ UnregisterLocalEntity(e)
      PROVE  Apart' /\ \A o \in Observers, f \in Entities : Follows(o, f)'
  <2>1. /\ discovered' = discovered /\ stage' = stage /\ Doubles
        /\ \A f \in Entities \ {e} : f \in localEntities' <=> f \in localEntities
    BY <1>7 DEF RegisterLocalEntity, UnregisterLocalEntity
  <2>2. Apart'
    BY <2>1, DoublesApart
  <2>3. ASSUME NEW o \in Observers, NEW f \in Entities \ {e} PROVE Follows(o, f)'
    <3>1. view'[o][f] = view[o][f]
      BY <1>0, <1>7, <2>3
      DEF RegisterLocalEntity, UnregisterLocalEntity, NotifyOnline, NotifyOffline
    <3>. QED  BY <2>1, <3>1, DoubledKept, FollowsKept DEF Inv
  <2>4. ASSUME NEW o \in Observers PROVE Follows(o, e)'
    <3>1. Follows(o, e) /\ view[o][e] \in View \cup {None}
      BY DEF Inv, Typing, TypeOK
    <3>2. CASE RegisterLocalEntity(e)
      <4>1. /\ e \in localEntities'
            /\ view'[o][e] = IF Listed(o) THEN ToldOnline(view[o][e], LocalEntity(e)) ELSE view[o][e]
        BY <1>0, <3>2 DEF RegisterLocalEntity, NotifyOnline
      <4>2. ToldOnline(view[o][e], LocalEntity(e)) # None
        BY <3>1, LocalEntityTyped, ToldShown DEF Inv, Typing
      <4>3. e \notin doubled' => ~Known(e)
        BY <2>1, <4>1 DEF Doubles, Known
      <4>. QED  BY <2>1, <3>1, <4>1, <4>2, <4>3 DEF Follows, Agrees, Known, Listed
    <3>3. CASE UnregisterLocalEntity(e)
      <4>1. e \notin localEntities' /\ view'[o][e] = None
        BY <1>0, <3>1, <3>3 DEF UnregisterLocalEntity, NotifyOffline, ToldOffline, Follows
      <4>2. e \notin doubled' => ~Known(e)
        BY <2>1, <3>3 DEF UnregisterLocalEntity, Doubles, Inv, Apart, Known
      <4>. QED  BY <2>1, <4>1, <4>2 DEF Follows, Agrees, Known
    <3>. QED  BY <1>7, <3>2, <3>3
  <2>. QED  BY <2>2, <2>3, <2>4
<1>8. ASSUME NEW o \in Observers, RegisterObserver(o) \/ UnregisterObserver(o)
      PROVE  Apart' /\ \A p \in Observers, f \in Entities : Follows(p, f)'
  <2>1. /\ discovered' = discovered /\ localEntities' = localEntities /\ doubled' = doubled
        /\ \A p \in Observers \ {o} : stage'[p] = stage[p] /\ view'[p] = view[p]
    BY <1>8 DEF RegisterObserver, UnregisterObserver, Inv, Typing, TypeOK
  <2>2. Apart'
    BY <2>1 DEF Inv, Apart, Known
  <2>3. ASSUME NEW p \in Observers \ {o}, NEW f \in Entities PROVE Follows(p, f)'
    BY <2>1, FollowsKept DEF Inv
  <2>4. ASSUME NEW f \in Entities PROVE Follows(o, f)'
    <3>1. Follows(o, f)
      BY DEF Inv
    <3>2. view'[o][f] = None /\ stage'[o] \in {"locals", "none"}
      BY <1>8, <3>1
      DEF RegisterObserver, UnregisterObserver, Follows, Listed, Inv, Typing, TypeOK
    <3>. QED  BY <3>2 DEF Follows, Agrees
  <2>. QED  BY <2>2, <2>3, <2>4
<1>9. ASSUME NEW o \in Observers, NotifyLocalEntities(o) \/ NotifyDiscoveredRemoteEntities(o)
      PROVE  Apart' /\ \A p \in Observers, f \in Entities : Follows(p, f)'
  <2>1. Apart'
    BY <1>9 DEF NotifyLocalEntities, NotifyDiscoveredRemoteEntities, Inv, Apart, Known
  <2>. QED  BY <1>9, <2>1, TellFollows
<1>10. CASE UNCHANGED vars
  BY <1>10, <1>same DEF vars
<1>. QED
  BY <1>1, <1>2, <1>3, <1>4, <1>5, <1>6, <1>7, <1>8, <1>9, <1>10 DEF Next, Receive, Check

\* Every observer that has registered knows exactly the entities that are there, as they
\* were last announced, by a main interface they still have, whatever messages, timeouts
\* and registrations crossed (controllerCapabilityDelegate.cpp:2259-2362): for any number
\* of entities, interfaces and observers, whatever local entities announce.  Of an ID that
\* became local and remote at once it knows nothing that is not there.
THEOREM ObserversAlwaysAgree == Spec => []ObserversAgree
<1>1. Inv => ObserversAgree
  BY DEF Inv, Follows, Agrees, Shown, ObserversAgree, Known
<1>. QED  BY <1>1, InvInit, InvNext, PTL DEF Spec

-----------------------------------------------------------------------------
(* The identity of entities, and the assertions of the observers             *)

\* A step that leaves an entity alone, or that a registered observer is told is another.
LEMMA IdentityUntouched ==
  ASSUME Inv, NEW o \in Observers, NEW e \in Entities,
         \/ discovered'[e] = discovered[e] /\ (view'[o][e] = view[o][e] \/ view'[o][e] = None)
         \/ discovered'[e] = None
  PROVE  KeepsIdentity(o, e)
<1>1. \A i \in InterfacesOf(discovered[e]) :
        Known(e) => discovered[e].interfaces[i].index >= discovered[e].interfaces[i].index
  <2>1. SUFFICES ASSUME Known(e), NEW i \in InterfacesOf(discovered[e])
                 PROVE  discovered[e].interfaces[i].index \in Nat
    OBVIOUS
  <2>2. discovered[e] \in Entity
    BY <2>1 DEF Inv, Typing, TypeOK, Known
  <2>3. discovered[e].interfaces[i] \in InterfaceInformation
    BY <2>2 DEF Entity, InterfacesOf
  <2>. QED  BY <2>3, ConstantsAssumption DEF InterfaceInformation
<1>. QED  BY <1>1 DEF KeepsIdentity, SameEntity

\* ToldUpdated keeps the session only of an entity whose main interface remains.
LEMMA SessionTells ==
  ASSUME NEW v \in View, NEW entity \in Entity
  PROVE  /\ ToldUpdated(v, entity).session = v.session =>
              ToldUpdated(v, entity).main = v.main
         /\ ToldOfflineOnline(v, entity).session # v.session
BY NoneIsApart DEF ToldUpdated, ToldOfflineOnline, ToldOnline, View

LEMMA AvailableKeeps ==
  ASSUME Inv, HandleAvailable
  PROVE  (\A o \in Observers, e \in Entities : KeepsIdentity(o, e)) /\ Alternates
<1>m. PICK m \in Available : m = receiver.adpdu
  BY NoneIsApart DEF HandleAvailable, Inv, Typing, TypeOK
<1>e. PICK e \in Entities : e = m.entity
  BY DEF Available
<1> DEFINE update == UpdateEntity(discovered[e], m)
           entity == IF Known(e) THEN update.entity ELSE MakeEntity(m)
<1>1. discovered' = [discovered EXCEPT ![e] = entity] /\ stage' = stage
  BY <1>m, <1>e DEF HandleAvailable
<1>2. \/ ~Known(e) /\ NotifyOnline(e, entity)
      \/ Known(e) /\ update.action = "NotifyUpdate" /\ NotifyUpdated(e, entity)
      \/ /\ Known(e) /\ update.action = "NotifyOfflineOnline"
         /\ NotifyOfflineOnline(e, entity) /\ UNCHANGED failed
      \/ Known(e) /\ update.action = "NoNotify" /\ UNCHANGED <<view, failed>>
  <2>1. Known(e) => update.action \in {"NotifyOfflineOnline", "NotifyUpdate", "NoNotify"}
    BY UpdateEntityTyped DEF Inv, Typing, TypeOK, Known
  <2> DEFINE action == IF Known(e) THEN update.action ELSE "NotifyOnline"
  <2>2. \/ action = "NotifyOnline" /\ NotifyOnline(e, entity)
        \/ action = "NotifyUpdate" /\ NotifyUpdated(e, entity)
        \/ action = "NotifyOfflineOnline" /\ NotifyOfflineOnline(e, entity) /\ UNCHANGED failed
        \/ action = "NoNotify" /\ UNCHANGED <<view, failed>>
    BY <1>m, <1>e DEF HandleAvailable
  <2>. QED  BY <2>1, <2>2
<1>3. /\ discovered'[e] # None
      /\ e \notin doubled' => e \notin doubled /\ e \notin localEntities
  <2>1. entity \in Entity
    BY UpdateEntityTyped, MakeEntityTyped DEF Inv, Typing, TypeOK, Known
  <2>2. discovered'[e] = entity /\ entity # None
    BY <1>1, <2>1, NoneIsApart DEF Inv, Typing, TypeOK
  <2>. QED  BY <2>2, NotDoubled DEF HandleAvailable
<1>4. Alternates
  <2>1. SUFFICES ASSUME \A o \in Observers : stage[o] \in {"none", "registered"}, doubled' = {}
                 PROVE  failed' = failed
    BY DEF Alternates
  <2>2. \A o \in Observers : Listed(o) => (view[o][e] # None <=> Known(e))
    BY <1>3, <2>1 DEF Inv, Follows, Agrees, Listed
  <2>. QED  BY <1>2, <2>2 DEF NotifyOnline, NotifyUpdated
<1>5. ASSUME NEW o \in Observers PROVE KeepsIdentity(o, e)
  <2>1. SUFFICES ASSUME e \notin doubled', stage[o] = "registered", Known(e),
                        view[o][e] # None, view'[o][e] # None,
                        view[o][e].session = view'[o][e].session
                 PROVE  SameEntity(o, e)
    BY DEF KeepsIdentity
  <2>2. /\ view[o] \in [Entities -> View \cup {None}] /\ view[o][e] \in View
        /\ discovered[e] \in Entity /\ discovered'[e] = update.entity
        /\ view[o][e].main \in InterfacesOf(discovered[e])
    <3>1. Agrees(o, e)
      BY <1>3, <2>1 DEF Inv, Follows
    <3>. QED  BY <1>1, <2>1, <3>1 DEF Inv, Typing, TypeOK, Agrees, Shown, Known
  <2>3. update.entity \in Entity
    BY <2>2, UpdateEntityTyped
  <2>4. update.action # "NotifyOfflineOnline"
    <3>1. SUFFICES ASSUME NotifyOfflineOnline(e, update.entity) PROVE FALSE
      BY <1>2, <2>1
    <3>2. view'[o][e] = ToldOfflineOnline(view[o][e], update.entity)
      BY <2>1, <2>2, <3>1 DEF NotifyOfflineOnline, Listed
    <3>. QED  BY <2>1, <2>2, <2>3, <3>2, SessionTells
  <2>5. view'[o][e].main = view[o][e].main
    <3>1. CASE NotifyUpdated(e, update.entity)
      <4>1. view'[o][e] = ToldUpdated(view[o][e], update.entity)
        BY <2>1, <2>2, <3>1 DEF NotifyUpdated, Listed
      <4>. QED  BY <2>1, <2>2, <2>3, <4>1, SessionTells
    <3>2. CASE UNCHANGED view
      BY <3>2
    <3>. QED  BY <1>2, <2>1, <2>4, <3>1, <3>2
  <2>6. /\ update.entity.model = discovered[e].model
        /\ \A i \in InterfacesOf(discovered[e]) :
             /\ update.entity.interfaces[i].mac = discovered[e].interfaces[i].mac
             /\ update.entity.interfaces[i].index >= discovered[e].interfaces[i].index
    BY <2>2, <2>4, UpdateKeepsEntity
  <2>. QED  BY <2>2, <2>5, <2>6 DEF SameEntity
<1>6. ASSUME NEW o \in Observers, NEW f \in Entities, f # e PROVE KeepsIdentity(o, f)
  <2>1. view[o] \in [Entities -> View \cup {None}] /\ discovered'[f] = discovered[f]
    BY <1>1, <1>6 DEF Inv, Typing, TypeOK
  <2>2. view'[o][f] = view[o][f]
    BY <1>2, <1>6, <2>1 DEF NotifyOnline, NotifyUpdated, NotifyOfflineOnline
  <2>. QED  BY <2>1, <2>2, IdentityUntouched
<1>. QED  BY <1>4, <1>5, <1>6

LEMMA TimeoutsKeep ==
  ASSUME Inv, CheckTimeouts
  PROVE  (\A o \in Observers, e \in Entities : KeepsIdentity(o, e)) /\ Alternates
<1>1. Alternates
  <2>1. SUFFICES ASSUME \A o \in Observers : stage[o] \in {"none", "registered"}, doubled' = {},
                        NEW o \in Observers, NEW e \in Entities, Listed(o), Shrinks(e)
                 PROVE  view[o][e] # None
    BY DEF Alternates, CheckTimeouts
  <2>2. discovered'[e] # None
    <3>1. discovered'[e] = Remaining(e) /\ discovered[e] \in Entity
      BY <2>1 DEF CheckTimeouts, Shrinks, Known, Inv, Typing, TypeOK
    <3>2. Remaining(e) \in Entity
      BY <3>1 DEF Remaining, WithoutInterfaces, Entity
    <3>. QED  BY <3>1, <3>2, NoneIsApart
  <2>3. e \notin doubled
    BY <2>1, <2>2, NotDoubled DEF CheckTimeouts
  <2>. QED  BY <2>1, <2>3 DEF Inv, Follows, Agrees, Listed, Shrinks
<1>2. ASSUME NEW o \in Observers, NEW e \in Entities PROVE KeepsIdentity(o, e)
  <2>1. CASE ~Shrinks(e)
    <3>1. \/ discovered'[e] = discovered[e] /\ (view'[o][e] = view[o][e] \/ view'[o][e] = None)
          \/ discovered'[e] = None
      BY <2>1 DEF CheckTimeouts
    <3>. QED  BY <3>1, IdentityUntouched
  <2>2. CASE Shrinks(e)
    <3>1. SUFFICES ASSUME stage[o] = "registered", Known(e), view[o][e] # None,
                          view[o][e].session = view'[o][e].session
                   PROVE  SameEntity(o, e)
      BY DEF KeepsIdentity
    <3>2. view[o][e] \in View /\ discovered[e] \in Entity /\ discovered'[e] = Remaining(e)
      <4>1. view[o][e] \in View /\ discovered[e] \in Entity
        BY <3>1 DEF Inv, Typing, TypeOK, Known
      <4>2. ~Leaves(e)
        BY <2>2 DEF Shrinks
      <4>. QED  BY <2>2, <4>1, <4>2 DEF CheckTimeouts
    <3>3. view'[o][e] = ToldUpdated(view[o][e], Remaining(e))
      BY <2>2, <3>1 DEF CheckTimeouts, Shrinks, Listed
    <3>4. /\ Remaining(e) \in Entity /\ Remaining(e).model = discovered[e].model
          /\ \A i \in InterfacesOf(Remaining(e)) :
               /\ Remaining(e).interfaces[i] = discovered[e].interfaces[i]
               /\ discovered[e].interfaces[i] \in InterfaceInformation
      BY <3>2, NoneIsApart DEF Remaining, WithoutInterfaces, Entity, InterfacesOf
    <3>5. view'[o][e].main = view[o][e].main
      BY <3>1, <3>2, <3>3, <3>4, SessionTells
    <3>6. \A i \in InterfacesOf(Remaining(e)) :
            Remaining(e).interfaces[i].index >= discovered[e].interfaces[i].index
      <4>1. \A i \in InterfacesOf(Remaining(e)) : discovered[e].interfaces[i].index \in Nat
        BY <3>4, ConstantsAssumption DEF InterfaceInformation
      <4>. QED  BY <3>4, <4>1
    <3>. QED  BY <3>2, <3>4, <3>5, <3>6 DEF SameEntity
  <2>. QED  BY <2>1, <2>2
<1>. QED  BY <1>1, <1>2

LEMMA ForgetKeeps ==
  ASSUME Inv, NEW e \in Entities, Forget(e)
  PROVE  (\A o \in Observers, f \in Entities : KeepsIdentity(o, f)) /\ Alternates
<1>1. ASSUME NEW o \in Observers, NEW f \in Entities PROVE KeepsIdentity(o, f)
  <2>1. CASE f = e
    BY <2>1, IdentityUntouched DEF Forget, Inv, Typing, TypeOK
  <2>2. CASE f # e
    <3>1. discovered'[f] = discovered[f] /\ view'[o][f] = view[o][f]
      <4>1. view[o] \in [Entities -> View \cup {None}]
        BY DEF Inv, Typing, TypeOK
      <4>2. view' = view \/ NotifyOffline(e)
        BY DEF Forget
      <4>3. view'[o][f] = view[o][f]
        BY <2>2, <4>1, <4>2 DEF NotifyOffline
      <4>. QED  BY <2>2, <4>3 DEF Forget, Inv, Typing, TypeOK
    <3>. QED  BY <3>1, IdentityUntouched
  <2>. QED  BY <2>1, <2>2
<1>. QED  BY <1>1 DEF Alternates, Forget

LEMMA IdentityNext ==
  ASSUME Inv, [Next]_vars
  PROVE  (\A o \in Observers, e \in Entities : KeepsIdentity(o, e)) /\ Alternates
<1> DEFINE Goal == (\A o \in Observers, e \in Entities : KeepsIdentity(o, e)) /\ Alternates
<1>0. \A o \in Observers : view[o] \in [Entities -> View \cup {None}]
  BY DEF Inv, Typing, TypeOK
<1>same. ASSUME UNCHANGED <<discovered, view, failed>> PROVE Goal
  BY <1>same, IdentityUntouched DEF Alternates
<1>1. CASE HandleAvailable
  BY <1>1, AvailableKeeps
<1>2. CASE HandleDeparting
  <2>1. receiver.adpdu \in Entities
    BY <1>2, NoneIsApart DEF HandleDeparting, Inv, Typing, TypeOK
  <2>. QED  BY <1>2, <2>1, ForgetKeeps DEF HandleDeparting
<1>3. ASSUME NEW e \in Entities, ForgetRemoteEntity(e) PROVE Goal
  BY <1>3, ForgetKeeps DEF ForgetRemoteEntity
<1>4. CASE CheckTimeouts
  BY <1>4, TimeoutsKeep
<1>5. ASSUME NEW e \in Entities, RegisterLocalEntity(e) PROVE Goal
  <2>1. discovered' = discovered /\ (e \notin doubled' => ~Known(e) /\ e \notin doubled)
    BY <1>5 DEF RegisterLocalEntity, Doubles, Known
  <2>2. Alternates
    <3>1. SUFFICES ASSUME \A o \in Observers : stage[o] \in {"none", "registered"}, doubled' = {}
                   PROVE  failed' = failed
      BY DEF Alternates
    <3>2. \A o \in Observers : view[o][e] = None
      BY <1>5, <2>1, <3>1 DEF RegisterLocalEntity, Inv, Follows
    <3>. QED  BY <1>5, <3>2 DEF RegisterLocalEntity, NotifyOnline
  <2>3. ASSUME NEW o \in Observers, NEW f \in Entities PROVE KeepsIdentity(o, f)
    <3>1. CASE f = e
      BY <2>1, <3>1 DEF KeepsIdentity
    <3>2. CASE f # e
      <4>1. view'[o][f] = view[o][f]
        BY <1>0, <1>5, <3>2 DEF RegisterLocalEntity, NotifyOnline
      <4>. QED  BY <2>1, <4>1, IdentityUntouched
    <3>. QED  BY <3>1, <3>2
  <2>. QED  BY <2>2, <2>3
<1>6. ASSUME NEW e \in Entities, UnregisterLocalEntity(e) PROVE Goal
  <2>1. \A o \in Observers, f \in Entities : view'[o][f] = view[o][f] \/ view'[o][f] = None
    BY <1>0, <1>6 DEF UnregisterLocalEntity, NotifyOffline, ToldOffline
  <2>. QED  BY <1>6, <2>1, IdentityUntouched DEF UnregisterLocalEntity, Alternates
<1>7. ASSUME NEW o \in Observers, UnregisterObserver(o) PROVE Goal
  <2>1. \A p \in Observers, f \in Entities : view'[p][f] = view[p][f] \/ view'[p][f] = None
    BY <1>0, <1>7 DEF UnregisterObserver, Inv, Typing, TypeOK
  <2>. QED  BY <1>7, <2>1, IdentityUntouched DEF UnregisterObserver, Alternates
<1>8. ASSUME NEW o \in Observers, NotifyLocalEntities(o) \/ NotifyDiscoveredRemoteEntities(o)
      PROVE  Goal
  <2>1. stage[o] \in {"locals", "remotes"} /\ discovered' = discovered
    BY <1>8 DEF NotifyLocalEntities, NotifyDiscoveredRemoteEntities
  <2>2. ASSUME NEW p \in Observers, NEW f \in Entities PROVE KeepsIdentity(p, f)
    <3>1. CASE p = o
      BY <2>1, <3>1 DEF KeepsIdentity
    <3>2. CASE p # o
      <4>1. view'[p] = view[p]
        BY <1>8, <3>2
        DEF NotifyLocalEntities, NotifyDiscoveredRemoteEntities, TellKnown, Inv, Typing, TypeOK
      <4>. QED  BY <2>1, <4>1, IdentityUntouched
    <3>. QED  BY <3>1, <3>2
  <2>. QED  BY <2>1, <2>2 DEF Alternates
<1>9. CASE Deliver
  BY <1>9, <1>same DEF Deliver, ReceiveAvailable
<1>10. ASSUME NEW e \in Entities,
              \/ ReceiveDeparting(e) \/ SwitchOff(e) \/ Advance(e)
              \/ (\E m \in Models : SwitchOn(e, m)) \/ (\E i \in Interfaces : Expire(e, i))
       PROVE  Goal
  BY <1>10, <1>same DEF ReceiveDeparting, SwitchOff, Advance, SwitchOn, Expire
<1>11. ASSUME NEW o \in Observers, RegisterObserver(o) PROVE Goal
  BY <1>11, <1>same DEF RegisterObserver
<1>12. CASE UNCHANGED vars
  BY <1>12, <1>same DEF vars
<1>. QED
  BY <1>1, <1>2, <1>3, <1>4, <1>5, <1>6, <1>7, <1>8, <1>9, <1>10, <1>11, <1>12
  DEF Next, Receive, Check

\* Between two notifications that an entity left, a registered observer sees one and the
\* same entity: its model, the addresses of its interfaces and its main interface stay, no
\* availableIndex goes back (discoveryStateMachine.cpp:315-373), and no observer is told
\* online, or updated, of an entity it already, or does not, know; whatever local entities
\* announce, but for an ID that became local and remote at once.
THEOREM IdentityAlwaysKept == Spec => IdentityKept
<1>1. Inv /\ [Next]_vars =>
        [(\A o \in Observers, e \in Entities : KeepsIdentity(o, e)) /\ Alternates]_vars
  BY IdentityNext
<1>. QED  BY <1>1, InvInit, InvNext, PTL DEF Spec, IdentityKept

=============================================================================
