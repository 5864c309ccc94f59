--------------------------- MODULE ExclusiveAccess ---------------------------
(***************************************************************************)
(* Who holds an entity (src/controller): acquireEntity, releaseEntity,     *)
(* lockEntity, unlockEntity, the results of these commands, what the       *)
(* device says unasked, and the ExclusiveAccessTokens that users are given *)
(* and destroy.                                                            *)
(*                                                                         *)
(* A step is what a thread does with one lock held.  The thread of the     *)
(* network keeps the lock of the entities while it invalidates tokens one  *)
(* by one; a user's thread keeps the lock of a token while it destroys it. *)
(* A user has one token at most, which is named after the user.  The two   *)
(* accesses, "Acquire" and "Lock", go the same way unless said otherwise.  *)
(***************************************************************************)
EXTENDS Naturals, Sequences

CONSTANTS
  Users,       \* threads that use the controller, one token each
  Others,      \* other controllers
  TokenTypes,  \* the accesses that users request tokens for
  Direct,      \* what users call themselves: "take", "release"
  Milan,       \* the device says it is a Milan one: it implements no ACQUIRE_ENTITY
  Us, None,
  MaxCalls,    \* bound: calls of the users
  MaxStays,    \* bound: times the entity comes online
  MaxEvents,   \* bound: accesses taken by others and lost
  MaxFaults    \* bound: commands and responses lost

ASSUME ConstantsAssumption ==
  /\ TokenTypes \subseteq {"Acquire", "Lock"} /\ Direct \subseteq {"take", "release"}
  /\ Milan \in BOOLEAN
  /\ Us \notin Others /\ None \notin Users \cup Others \cup {Us}
  /\ "get" \notin Users \cup {None}
  /\ {MaxCalls, MaxStays, MaxEvents, MaxFaults} \subseteq Nat

VARIABLES
  entity,        \* the ControlledEntityImpl, or None
  tokens,        \* the token of each user, or None
  registered,    \* _exclusiveAccessTokens: the users whose token is in it
  pc, call,      \* where the thread of each user is, and the call it makes
  network,       \* the thread of the network, when it invalidates tokens, or None
  toDevice, toController,  \* messages, in order
  delayed,       \* _delayedQueries: queries that timed out and are sent again later
  device,        \* who holds the device, for each access
  over,          \* the controller was destroyed
  failed,        \* assertions that failed, tokens used after their end
  stray,         \* ghost: accesses a query of a former stay was sent again for, in this one
  unreleased,    \* ghost: the last token was destroyed before the entity was advertised
  calls, stays, events, faults

vars == <<entity, tokens, registered, pc, call, network, toDevice, toController,
          delayed, device, over, failed, stray, unreleased, calls, stays, events, faults>>
userVars == <<pc, call, calls>>
tokenVars == <<tokens, registered>>
queryVars == <<delayed, stray>>
worldVars == <<device, stays, events, faults>>

Accesses == {"Acquire", "Lock"}
States == {"Undefined", "NotSupported", "NotHeld", "TakeInProgress", "Held",
           "HeldByOther", "ReleaseInProgress"}
Statuses == {"Success", "HeldByOther", "NotSupported", "Busy", "UnknownEntity", "TimedOut"}
Implemented == IF Milan THEN {"Lock"} ELSE Accesses

\* The steps of the enumeration, as far as they matter here; the last one goes on until
\* the entity is advertised.
Steps == {"GetMilanInfo", "RegisterUnsol", "GetStaticModel", "GetDynamicInfo"}

\* The entity, as far as it matters here ("retry": its queries may be sent again once); a
\* token, asked for during a stay; what the thread of the network is to invalidate, and
\* whom it answers then; a query that is sent again.
Entity == [advertised : BOOLEAN, milan : BOOLEAN, step : Steps, expected : SUBSET Accesses,
           retry : BOOLEAN, state : [Accesses -> States]]
Token == [access : Accesses, valid : BOOLEAN, stay : Nat]
Invalidation == [tokens : SUBSET Users, by : Users \cup {None}, status : Statuses]
Query == [access : Accesses, stay : Nat]
ASSUME NoneIsApart == None \notin Entity \cup Token \cup Invalidation \cup Statuses

Message(kind, c, status, holder) ==
  [kind |-> kind, access |-> c.access, release |-> c.release, by |-> c.by,
   status |-> status, holder |-> holder]
Command(access, release, by) == [access |-> access, release |-> release, by |-> by]

Init ==
  /\ entity = None /\ network = None
  /\ tokens = [u \in Users |-> None] /\ registered = {}
  /\ pc = [u \in Users |-> "idle"] /\ call = [u \in Users |-> None]
  /\ toDevice = <<>> /\ toController = <<>> /\ delayed = {} /\ stray = {} /\ unreleased = FALSE
  /\ device = [a \in Accesses |-> None]
  /\ over = FALSE /\ failed = {}
  /\ calls = 0 /\ stays = 0 /\ events = 0 /\ faults = 0

-----------------------------------------------------------------------------
(* What a call, a result and a notification do to the entity                 *)

InProgress(state) == state \in {"TakeInProgress", "ReleaseInProgress"}
StateOf(holder) ==
  CASE holder = Us -> "Held" [] holder = None -> "NotHeld" [] OTHER -> "HeldByOther"

\* getAcquiredInfoFromStatus and getLockedInfoFromStatus.
InfoFromStatus_NobodyHolds(m) ==
  CASE m.status = "Success" -> IF m.release THEN "NotHeld" ELSE StateOf(m.holder)
    [] m.status = "HeldByOther" -> "NotHeld"
    [] m.status = "NotSupported" -> "NotSupported"
    [] OTHER -> "Undefined"
InfoFromStatus(m) ==
  CASE m.status = "Success" -> IF m.release THEN "NotHeld" ELSE StateOf(m.holder)
    [] m.status = "HeldByOther" -> "HeldByOther"
    [] m.status = "NotSupported" -> "NotSupported"
    [] OTHER -> "Undefined"
\* The same: a Milan device locks, and does not acquire.
StillMilan(m) ==
  IF m.access = "Acquire" THEN m.status \notin {"Success", "HeldByOther"}
  ELSE m.status # "NotSupported"

Updated(m) ==
  [entity EXCEPT !.state[m.access] =
                   IF m.kind = "notification" THEN StateOf(m.holder) ELSE InfoFromStatus(m),
                 !.milan = @ /\ (m.kind = "notification" \/ StillMilan(m))]

\* updateAcquiredState, updateLockedState: the tokens that are to be invalidated,
\* when nobody holds the entity any more.
Revoked_WhenTaken(e, access) ==
  IF e.advertised /\ e.state[access] = "HeldByOther"
  THEN {u \in registered : tokens[u].access = access}
  ELSE {}
Revoked(e, access) ==
  IF e.advertised /\ e.state[access] = "NotHeld"
  THEN {u \in registered : tokens[u].access = access}
  ELSE {}

\* The handler the user gave is called: that of requestExclusiveAccess makes a
\* token and registers it.
Answer(u, status) ==
  /\ pc' = [pc EXCEPT ![u] = "idle"]
  /\ call' = [call EXCEPT ![u] = None]
  /\ IF call[u].token /\ status = "Success"
     THEN /\ tokens' = [tokens EXCEPT ![u] =
                          [access |-> call[u].access, valid |-> TRUE, stay |-> call[u].stay]]
          /\ registered' = registered \cup {u}
     ELSE UNCHANGED tokenVars

-----------------------------------------------------------------------------
(* The threads of the users                                                  *)

Advertised == entity # None /\ entity.advertised
\* What acquireEntity, releaseEntity, lockEntity and unlockEntity answer at once.
Immediate(access, release) ==
  IF ~Advertised THEN "UnknownEntity"
  ELSE IF ~release /\ entity.state[access] = "Held" THEN "Success"
  ELSE IF InProgress(entity.state[access]) THEN "Busy"
  ELSE None
Begun(access, release) ==
  [entity EXCEPT !.state[access] = IF release THEN "ReleaseInProgress" ELSE "TakeInProgress"]

\* A call, with the lock of the entities; the command is sent once it is released.
Calls(u, access, release, token) ==
  /\ pc[u] = "idle" /\ network = None /\ ~over /\ calls < MaxCalls
  /\ calls' = calls + 1
  /\ LET c == [access |-> access, release |-> release, token |-> token, stay |-> stays]
         now == Immediate(access, release)
     IN IF now = None
        THEN /\ entity' = Begun(access, release)
             /\ pc' = [pc EXCEPT ![u] = "sending"] /\ call' = [call EXCEPT ![u] = c]
             /\ UNCHANGED tokenVars
        ELSE /\ IF token /\ now = "Success"
                THEN /\ tokens' = [tokens EXCEPT ![u] =
                                     [access |-> access, valid |-> TRUE, stay |-> stays]]
                     /\ registered' = registered \cup {u}
                ELSE UNCHANGED tokenVars
             /\ UNCHANGED <<entity, pc, call>>
  /\ UNCHANGED <<network, toDevice, toController, queryVars, worldVars, over, failed, unreleased>>

RequestExclusiveAccess(u) ==
  tokens[u] = None /\ \E access \in TokenTypes : Calls(u, access, FALSE, TRUE)
CallDirectly(u) ==
  \E access \in Accesses, what \in Direct : Calls(u, access, what = "release", FALSE)

\* sendAemAecpCommand, with the lock of the protocol interface: an entity that left
\* is unknown.
Send(u) ==
  /\ pc[u] = "sending" /\ network = None
  /\ IF entity # None
     THEN /\ toDevice' = Append(toDevice, Command(call[u].access, call[u].release, u))
          /\ pc' = [pc EXCEPT ![u] = "waiting"]
          /\ UNCHANGED <<call, tokenVars>>
     ELSE Answer(u, "UnknownEntity") /\ UNCHANGED toDevice
  /\ UNCHANGED <<entity, calls, network, toController, queryVars, worldVars, over, failed, unreleased>>

\* The token is destroyed: with its lock, it asks whether it is still valid.
DestroyToken(u) ==
  /\ pc[u] = "idle" /\ tokens[u] # None
  /\ IF tokens[u].valid
     THEN pc' = [pc EXCEPT ![u] = "destroying"] /\ UNCHANGED tokens
     ELSE tokens' = [tokens EXCEPT ![u] = None] /\ UNCHANGED pc
  /\ UNCHANGED <<entity, registered, call, calls, network, toDevice, toController,
                 queryVars, worldVars, over, failed, unreleased>>

\* unregisterExclusiveAccessToken: the last token of an entity releases it.
LastToken_BeforeItIsErased(u) == registered = {}
LastToken(u) == registered = {u}
Unregister(u) ==
  /\ pc[u] = "destroying"
  /\ registered' = registered \ {u}
  /\ failed' = failed \cup {f \in {"Token reference not found"} : registered # {} /\ u \notin registered}
  /\ IF u \in registered /\ LastToken(u)
     THEN pc' = [pc EXCEPT ![u] = "releasing"] /\ UNCHANGED tokens
     ELSE pc' = [pc EXCEPT ![u] = "idle"] /\ tokens' = [tokens EXCEPT ![u] = None]
  /\ UNCHANGED <<entity, call, calls, network, toDevice, toController, queryVars, worldVars, over, unreleased>>

\* releaseEntity or unlockEntity, of no handler.
ReleaseForToken(u) ==
  /\ pc[u] = "releasing" /\ network = None
  /\ IF Immediate(tokens[u].access, TRUE) = None
     THEN /\ entity' = Begun(tokens[u].access, TRUE)
          /\ pc' = [pc EXCEPT ![u] = "sendingRelease"] /\ UNCHANGED tokens
     ELSE /\ pc' = [pc EXCEPT ![u] = "idle"] /\ tokens' = [tokens EXCEPT ![u] = None]
          /\ UNCHANGED entity
  /\ unreleased' = (unreleased \/ (entity # None /\ ~entity.advertised))
  /\ UNCHANGED <<registered, call, calls, network, toDevice, toController, queryVars, worldVars,
                 over, failed>>
SendRelease(u) ==
  /\ pc[u] = "sendingRelease" /\ network = None
  /\ toDevice' = IF entity = None THEN toDevice
                 ELSE Append(toDevice, Command(tokens[u].access, TRUE, None))
  /\ pc' = [pc EXCEPT ![u] = "idle"] /\ tokens' = [tokens EXCEPT ![u] = None]
  /\ UNCHANGED <<entity, registered, call, calls, network, toController, queryVars, worldVars,
                 over, failed, unreleased>>

-----------------------------------------------------------------------------
(* The thread of the network                                                 *)

\* What follows an update: tokens are invalidated one by one, then the handler is
\* called.
Continue(u, status, revoked) ==
  IF revoked # {}
  THEN /\ registered' = registered \ revoked
       /\ network' = [tokens |-> revoked, by |-> u, status |-> status]
       /\ UNCHANGED <<tokens, pc, call>>
  ELSE /\ UNCHANGED network
       /\ IF u \in Users THEN Answer(u, status) ELSE UNCHANGED <<tokenVars, pc, call>>

\* onGetAcquiredStateResult, onGetLockedStateResult: the query was a release.  A query that
\* timed out may be sent again later, unless the queries of the entity used up their
\* retries (those of all the information count).  The entity is advertised when nothing
\* else is expected: what else is asked for is not modelled, and is there or not.
Answered(m) == [Updated(m) EXCEPT !.expected = @ \ {m.access}]
GetResult(m) ==
  IF entity = None \/ m.access \notin entity.expected
  THEN UNCHANGED <<entity, delayed>>
  ELSE \/ /\ m.status = "TimedOut" /\ entity.retry
          /\ entity' = [Updated(m) EXCEPT !.retry = FALSE]
          /\ delayed' = delayed \cup {[access |-> m.access, stay |-> stays]}
       \/ /\ \E last \in BOOLEAN :
               /\ last => Answered(m).expected = {}
               /\ entity' = [Answered(m) EXCEPT !.advertised = last]
          /\ UNCHANGED delayed

Receive ==
  /\ network = None /\ ~over /\ toController # <<>>
  /\ toController' = Tail(toController)
  /\ LET m == Head(toController) IN
     IF m.by = "get"
     THEN GetResult(m) /\ UNCHANGED <<tokenVars, pc, call, network>>
     ELSE LET e == IF entity = None THEN None ELSE Updated(m)
          IN /\ entity' = e
             /\ Continue(m.by, m.status, IF e = None THEN {} ELSE Revoked(e, m.access))
             /\ UNCHANGED delayed
  /\ UNCHANGED <<calls, toDevice, stray, worldVars, over, failed, unreleased>>

\* invalidateToken waits for the lock of a token that is being destroyed.
TokenLocked(u) == pc[u] \in {"destroying", "releasing", "sendingRelease"}
InvalidateToken ==
  /\ network # None
  /\ \E u \in network.tokens :
       /\ ~TokenLocked(u)
       /\ network' = [network EXCEPT !.tokens = @ \ {u}]
       /\ IF tokens[u] = None
          THEN failed' = failed \cup {"Token used after its end"} /\ UNCHANGED tokens
          ELSE tokens' = [tokens EXCEPT ![u].valid = FALSE] /\ UNCHANGED failed
  /\ UNCHANGED <<entity, registered, userVars, toDevice, toController, queryVars, worldVars,
                 over, unreleased>>
TokensInvalidated_NoAnswer ==
  /\ network # None /\ network.tokens = {}
  /\ network' = None
  /\ UNCHANGED <<entity, tokenVars, userVars, toDevice, toController, queryVars, worldVars,
                 over, failed, unreleased>>
TokensInvalidated ==
  /\ network # None /\ network.tokens = {}
  /\ network' = None
  /\ IF network.by \in Users THEN Answer(network.by, network.status)
     ELSE UNCHANGED <<tokenVars, pc, call>>
  /\ UNCHANGED <<entity, calls, toDevice, toController, queryVars, worldVars, over, failed, unreleased>>

\* onEntityOnline: the entity is created, and its enumeration begins (checkEnumerationSteps):
\* first, whether it is a Milan one; then, to be told of what others do; then its model.
OnEntityOnline ==
  /\ entity = None /\ network = None /\ ~over /\ stays < MaxStays
  /\ stays' = stays + 1
  /\ entity' = [advertised |-> FALSE, milan |-> FALSE, step |-> "GetMilanInfo", expected |-> {},
                retry |-> TRUE, state |-> [a \in Accesses |-> "Undefined"]]
  /\ stray' = {} /\ unreleased' = FALSE
  /\ UNCHANGED <<tokenVars, userVars, network, toDevice, toController, delayed, device,
                 events, faults, over, failed>>

Enumerates(step) == entity # None /\ network = None /\ ~over /\ entity.step = step
OnGetMilanInfoResult ==
  /\ Enumerates("GetMilanInfo")
  /\ entity' = [entity EXCEPT !.milan = Milan, !.step = "RegisterUnsol"]
  /\ UNCHANGED <<tokenVars, userVars, network, toDevice, toController, queryVars, worldVars,
                 over, failed, unreleased>>
OnRegisterUnsolicitedNotificationsResult ==
  /\ Enumerates("RegisterUnsol")
  /\ entity' = [entity EXCEPT !.step = "GetStaticModel"]
  /\ UNCHANGED <<tokenVars, userVars, network, toDevice, toController, queryVars, worldVars,
                 over, failed, unreleased>>

\* getDynamicInfo, when the model is complete; the visit of the entity.
Queried(milan) == IF milan THEN {"Lock"} ELSE Accesses
Queries(milan) ==
  IF milan THEN <<Command("Lock", TRUE, "get")>>
  ELSE <<Command("Acquire", TRUE, "get"), Command("Lock", TRUE, "get")>>
GetDynamicInfo ==
  /\ Enumerates("GetStaticModel")
  /\ entity' = [entity EXCEPT
                  !.step = "GetDynamicInfo", !.expected = Queried(entity.milan),
                  !.state = [a \in Accesses |->
                               IF a \in Queried(entity.milan) THEN @[a] ELSE "NotSupported"]]
  /\ toDevice' = toDevice \o Queries(entity.milan)
  /\ UNCHANGED <<tokenVars, userVars, network, toController, queryVars, worldVars, over, failed, unreleased>>
\* The last of the other information is there.
Advertise ==
  /\ Enumerates("GetDynamicInfo") /\ entity.expected = {} /\ ~entity.advertised
  /\ entity' = [entity EXCEPT !.advertised = TRUE]
  /\ UNCHANGED <<tokenVars, userVars, network, toDevice, toController, queryVars, worldVars,
                 over, failed, unreleased>>
\* The thread of the state machines: a query is sent again, to the entity of that name,
\* which may have left and come back.
SendDelayed ==
  /\ network = None /\ ~over
  /\ \E q \in delayed :
       /\ delayed' = delayed \ {q}
       /\ IF entity = None THEN UNCHANGED <<toDevice, stray>>
          ELSE /\ toDevice' = Append(toDevice, Command(q.access, TRUE, "get"))
               /\ stray' = stray \cup {a \in {q.access} : q.stay # stays}
  /\ UNCHANGED <<entity, tokenVars, userVars, network, toController, worldVars, over, failed, unreleased>>

\* The commands towards the entity are forgotten, and their handlers with them; the
\* device may have restarted.
OnEntityOffline ==
  /\ entity # None /\ network = None /\ ~over
  /\ entity' = None /\ toDevice' = <<>> /\ toController' = <<>>
  /\ LET gone == {u \in Users : pc[u] = "waiting"}
     IN /\ pc' = [u \in Users |-> IF u \in gone THEN "idle" ELSE pc[u]]
        /\ call' = [u \in Users |-> IF u \in gone THEN None ELSE call[u]]
  /\ device' \in {device, [a \in Accesses |-> None]}
  /\ UNCHANGED <<tokenVars, calls, network, queryVars, stays, events, faults, over, failed, unreleased>>

-----------------------------------------------------------------------------
(* The end of the controller                                                 *)

MustRelease(state) == state = "Held" \/ InProgress(state)
Shutdown ==
  /\ ~over /\ network = None /\ \A u \in Users : pc[u] \in {"idle", "waiting"}
  /\ over' = TRUE
  /\ registered' = {}
  /\ tokens' = [u \in Users |-> IF u \in registered THEN [tokens[u] EXCEPT !.valid = FALSE]
                                 ELSE tokens[u]]
  /\ LET Release(a) == IF entity # None /\ MustRelease(entity.state[a])
                       THEN <<Command(a, TRUE, None)>> ELSE <<>>
     IN toDevice' = toDevice \o Release("Acquire") \o Release("Lock")
  /\ UNCHANGED <<entity, userVars, network, toController, queryVars, worldVars, failed, unreleased>>

-----------------------------------------------------------------------------
(* The device, and other controllers                                         *)

Processed(c) ==
  IF c.access \notin Implemented THEN Message("response", c, "NotSupported", None)
  ELSE IF device[c.access] \in Others
  THEN Message("response", c, "HeldByOther", device[c.access])
  ELSE Message("response", c, "Success", IF c.release THEN None ELSE Us)

\* A command is processed; its response may be lost, and then it times out.
Process ==
  /\ toDevice # <<>>
  /\ toDevice' = Tail(toDevice)
  /\ LET c == Head(toDevice)
         m == Processed(c)
     IN /\ device' = IF m.status = "Success" THEN [device EXCEPT ![c.access] = m.holder] ELSE device
        /\ \/ toController' = Append(toController, m) /\ UNCHANGED faults
           \/ /\ faults < MaxFaults /\ faults' = faults + 1
              /\ toController' = Append(toController, Message("response", c, "TimedOut", None))
  /\ UNCHANGED <<entity, tokenVars, userVars, network, queryVars, stays, events, over, failed, unreleased>>
Lose ==
  /\ toDevice # <<>> /\ faults < MaxFaults /\ faults' = faults + 1
  /\ toDevice' = Tail(toDevice)
  /\ toController' = Append(toController, Message("response", Head(toDevice), "TimedOut", None))
  /\ UNCHANGED <<entity, tokenVars, userVars, network, queryVars, device, stays, events, over,
                 failed, unreleased>>

\* Another controller takes or releases the device, or our access ends (a lock that
\* is not renewed); who is registered is told, and before the answer of the
\* registration came we may be registered or not.
Registered == entity # None /\ entity.step \in {"GetStaticModel", "GetDynamicInfo"}
Becomes(access, holder) ==
  /\ events < MaxEvents /\ events' = events + 1
  /\ device' = [device EXCEPT ![access] = holder]
  /\ \E told \in {entity # None, Registered} :
       toController' = IF told
         THEN Append(toController,
                Message("notification", Command(access, holder = None, None), "Success", holder))
         ELSE toController
  /\ UNCHANGED <<entity, tokenVars, userVars, network, toDevice, queryVars, stays, faults, over,
                 failed, unreleased>>
OtherTakes == \E a \in Implemented, o \in Others : device[a] = None /\ Becomes(a, o)
AccessEnds == \E a \in Implemented : device[a] # None /\ Becomes(a, None)

-----------------------------------------------------------------------------
UserStep(u) ==
  \/ Send(u) \/ Unregister(u) \/ ReleaseForToken(u) \/ SendRelease(u)
NetworkStep == Receive \/ InvalidateToken \/ TokensInvalidated
Next ==
  \/ \E u \in Users : RequestExclusiveAccess(u) \/ CallDirectly(u) \/ DestroyToken(u) \/ UserStep(u)
  \/ NetworkStep \/ OnEntityOnline \/ OnEntityOffline \/ Shutdown
  \/ OnGetMilanInfoResult \/ OnRegisterUnsolicitedNotificationsResult
  \/ GetDynamicInfo \/ Advertise \/ SendDelayed
  \/ Process \/ Lose \/ OtherTakes \/ AccessEnds

Spec == Init /\ [][Next]_vars
\* Threads go on, and the command state machine has every command answered.
Fairness == (\A u \in Users : WF_vars(UserStep(u))) /\ WF_vars(NetworkStep) /\ WF_vars(Process)
FairSpec == Spec /\ Fairness

-----------------------------------------------------------------------------
(* Properties                                                                *)

Quiet ==
  /\ toDevice = <<>> /\ toController = <<>> /\ network = None
  /\ \A u \in Users : pc[u] = "idle"

\* When nothing is under way, what the controller says of an entity is true, however
\* its commands crossed with those of others; or it says that it does not know.
StateFollowsDevice ==
  Quiet /\ Advertised /\ ~over =>
    \A a \in Implemented :
      \/ entity.state[a] = StateOf(device[a])
      \/ faults # 0 /\ (entity.state[a] = "Undefined" \/ a \in stray)

\* "If the call succeeded (AemCommandStatus::Success), a valid token will be returned"
\* (avdeccController.hpp:657): while a token asked for and given during this stay online is
\* valid, we hold the entity once the messages are read, whoever took or ended it (the
\* answer of a release may have been lost).  It is not so of a token asked for before the
\* entity left and given during its next enumeration: the query of that enumeration
\* releases the access, and no token is invalidated before the entity is advertised.
TokensAreHeld ==
  Quiet /\ Advertised /\ ~over =>
    \A u \in Users : tokens[u] # None /\ tokens[u].valid /\ tokens[u].stay = stays =>
      device[tokens[u].access] = Us \/ faults # 0

\* The last token releases the entity: when all are destroyed, and users did not take
\* it themselves, it is not held for nobody.  (A command that was begun before the entity
\* left and is sent after it came back may give a token during the enumeration, and no
\* command is sent when that token is destroyed before the entity is advertised.  And
\* tokens of both accesses are one set, the last of which releases its own access only.)
\* Nor does a controller that is destroyed leave an entity held, not even by a command
\* whose result it does not wait for.  (A notification about another controller, or an
\* entity that came back before the command was sent, replaces the state that says that
\* the command is in progress.)
OneAccess == \A a, b \in TokenTypes : a = b
NothingHeldForNobody ==
  Advertised =>
    /\ Quiet /\ ~over /\ ~unreleased /\ registered = {} /\ "take" \notin Direct /\ OneAccess =>
         \A a \in Accesses : device[a] = Us => entity.state[a] = "Undefined"
    /\ over /\ toDevice = <<>> /\ faults + events = 0 /\ stays = 1 =>
         \A a \in Accesses : device[a] # Us

\* "The handler will always be called" (avdeccController.hpp:657), unless the entity
\* leaves or the controller is destroyed.
RequestsAnswered == \A u \in Users : pc[u] = "waiting" ~> (pc[u] = "idle" \/ over)

\* The assertion of unregisterExclusiveAccessToken.  It does not hold: see the README.
NoAssertionFails == failed = {}
=============================================================================
