------------------------ MODULE CommandStateMachine ------------------------
(***************************************************************************)
(* The command state machine of a protocol interface                       *)
(* (src/stateMachine/commandStateMachine.cpp and .hpp): it gives every     *)
(* AECP and ACMP command a sequence ID, queues it per destination, keeps a *)
(* bounded number of commands in flight, sends a command that was not      *)
(* answered a second time, and runs the command's result handler.          *)
(*                                                                         *)
(* Every public method holds the recursive lock of the Manager, so a method*)
(* is one action, with two exceptions: the periodic timeout check and      *)
(* unregisterLocalEntity run result handlers in the middle of their loops, *)
(* and a handler may send commands, which changes the lists the loop is    *)
(* walking.  Those two methods are therefore broken up: `loop' is the place*)
(* they have reached, and SendCommand may run whenever a handler is running.*)
(*                                                                         *)
(* Time is abstract.  `expired' holds the commands in flight whose timeout *)
(* lies in the past, `throttled' the destinations to which something was   *)
(* sent less than the send interval ago.  The network may lose, repeat,    *)
(* delay and reorder: a response may arrive for any command ever sent.     *)
(***************************************************************************)
EXTENDS Naturals, Sequences, FiniteSets, Functions

CONSTANTS
  Locals,        \* entity IDs of the local entities
  AecpTargets,   \* AECP destinations: the entity IDs of remote entities
  AcmpTargets,   \* ACMP destinations: MAC addresses
  Commands,      \* the commands ever sent: a PDU and its result handler
  None,          \* no local entity, destination or command
  MaxInflight,   \* DefaultMaxAecpInflightCommands, ...: 10 in the code
  SeqMod,        \* sequence IDs are counted modulo this: 2^16 in the code
  MaxEra,        \* bound: restarts and wraps of a sequence counter
  MaxInProgress  \* bound: IN_PROGRESS responses a remote gives to a command

Keys == AecpTargets \cup AcmpTargets

ASSUME ConstantsAssumption ==
  /\ AecpTargets \cap AcmpTargets = {}
  /\ None \notin Locals \cup Keys \cup Commands
  /\ IsFiniteSet(Commands)
  /\ MaxInflight \in Nat \ {0}
  /\ SeqMod \in Nat \ {0}
  /\ MaxEra \in Nat
  /\ MaxInProgress \in Nat

VARIABLES
  registered,        \* keys of _commandEntities
  currentSequenceID, \* the next AECP and the next ACMP sequence ID of a local
  inflightKeys,      \* keys of inflightAecpCommands and inflightAcmpCommands
  inflightCommands,  \* the commands in flight, per local and destination
  queuedCommands,    \* the commands not sent yet, per local and destination
  scheduledErrors,   \* the commands whose transmission failed
  retried,           \* commands sent a second time
  expired,           \* commands whose timeoutTime has passed
  throttled,         \* <<local, destination>> used within the send interval
  loop,              \* progress of the method that is running handlers
  \* What the properties need to know, and the code does not keep:
  era,               \* restarts and wraps of each sequence counter
  frame,             \* the header the PDU of a command was sent with
  sends,             \* transmissions of a command that the transport accepted
  inProgress,        \* IN_PROGRESS responses received for a command
  calls,             \* runs of a command's result handler
  outcome,           \* the error its handler was given
  answeredBy,        \* the command whose response its handler was given
  dropped,           \* commands discarded without running their handler
  rewalked           \* commands cancelled, whose destination is to be walked again

codeVars == <<registered, currentSequenceID, inflightKeys, inflightCommands,
              queuedCommands, scheduledErrors, retried, expired, throttled, loop>>
ghostVars == <<era, frame, sends, inProgress, calls, outcome, answeredBy, dropped,
               rewalked>>
vars == <<codeVars, ghostVars>>

Protocols == {"aecp", "acmp"}
Protocol(k) == IF k \in AecpTargets THEN "aecp" ELSE "acmp"
Destinations(p) == IF p = "aecp" THEN AecpTargets ELSE AcmpTargets

\* Who sent a message that carries the IDs of a command: the destination in answer
\* to it; a talker, in answer to the same type of ACMP command of a listener, which
\* has our controller ID and may have our sequence ID; or someone else, for ACMP in
\* a message of another type.
Senders == {"recipient", "talker", "other"}
ASSUME SendersAreApart == (Commands \cup {None}) \cap Senders = {}
\* What a handler is given; "TransportError" stands for any error of sendMessage.
Errors == {"NoError", "Timeout", "TransportError", "UnknownLocalEntity"}
ASSUME NoneIsNoError == None \notin Errors

Frame == [local: Locals, key: Keys, sequenceID: 0 .. SeqMod - 1, era: 0 .. MaxEra]
ASSUME NoneIsNoFrame == None \notin Frame
Loop == [kind: {"idle", "timeouts", "unregister"},
         locals: SUBSET Locals, local: Locals \cup {None},
         stage: {"aecp", "acmp", "aecpErrors", "acmpErrors"},
         keys: SUBSET Keys, key: Keys \cup {None},
         commands: SUBSET Commands, handler: Commands \cup {None}]

Idle == [kind |-> "idle", locals |-> {}, local |-> None, stage |-> "aecp",
         keys |-> {}, key |-> None, commands |-> {}, handler |-> None]

TypeOK ==
  /\ registered \in SUBSET Locals
  /\ currentSequenceID \in [Locals -> [Protocols -> 0 .. SeqMod - 1]]
  /\ inflightKeys \in [Locals -> SUBSET Keys]
  /\ inflightCommands \in [Locals -> [Keys -> SUBSET Commands]]
  /\ queuedCommands \in [Locals -> [Keys -> Seq(Commands)]]
  /\ scheduledErrors \in [Locals -> SUBSET Commands]
  /\ retried \in SUBSET Commands
  /\ expired \in SUBSET Commands
  /\ throttled \in SUBSET (Locals \X Keys)
  /\ loop \in Loop
  /\ era \in [Locals -> [Protocols -> 0 .. MaxEra]]
  /\ frame \in [Commands -> Frame \cup {None}]
  /\ sends \in [Commands -> Nat]
  /\ inProgress \in [Commands -> 0 .. MaxInProgress]
  /\ calls \in [Commands -> Nat]
  /\ outcome \in [Commands -> Errors \cup {None}]
  /\ answeredBy \in [Commands -> Commands \cup {None} \cup Senders]
  /\ dropped \in SUBSET Commands
  /\ rewalked \in SUBSET Commands

Init ==
  /\ registered = {}
  /\ currentSequenceID = [l \in Locals |-> [p \in Protocols |-> 0]]
  /\ inflightKeys = [l \in Locals |-> {}]
  /\ inflightCommands = [l \in Locals |-> [k \in Keys |-> {}]]
  /\ queuedCommands = [l \in Locals |-> [k \in Keys |-> <<>>]]
  /\ scheduledErrors = [l \in Locals |-> {}]
  /\ retried = {}
  /\ expired = {}
  /\ throttled = {}
  /\ loop = Idle
  /\ era = [l \in Locals |-> [p \in Protocols |-> 0]]
  /\ frame = [c \in Commands |-> None]
  /\ sends = [c \in Commands |-> 0]
  /\ inProgress = [c \in Commands |-> 0]
  /\ calls = [c \in Commands |-> 0]
  /\ outcome = [c \in Commands |-> None]
  /\ answeredBy = [c \in Commands |-> None]
  /\ dropped = {}
  /\ rewalked = {}

Accepted(c) == frame[c] # None
Sent(c) == Accepted(c) /\ sends[c] > 0
Queued(l, k) == Range(queuedCommands[l][k])

-----------------------------------------------------------------------------
(* The queue of a destination                                               *)

\* The transport takes the command, which is in flight from now on, or refuses
\* it, and the error waits for the next timeout check.
SetCommandInflight_LosesError(l, k, c, inflight) ==
  /\ UNCHANGED scheduledErrors
  /\ \/ /\ inflightCommands' = [inflight EXCEPT ![l][k] = @ \cup {c}]
        /\ sends' = [sends EXCEPT ![c] = @ + 1]
     \/ inflightCommands' = inflight /\ UNCHANGED sends
SetCommandInflight(l, k, c, inflight) ==
  \/ /\ inflightCommands' = [inflight EXCEPT ![l][k] = @ \cup {c}]
     /\ sends' = [sends EXCEPT ![c] = @ + 1]
     /\ UNCHANGED scheduledErrors
  \/ /\ inflightCommands' = inflight
     /\ scheduledErrors' = [scheduledErrors EXCEPT ![l] = @ \cup {c}]
     /\ UNCHANGED sends

CanSend_OffByOne(l, k, inflight, queued) ==
  /\ Cardinality(inflight[l][k]) <= MaxInflight
  /\ <<l, k>> \notin throttled
  /\ queued[l][k] # <<>>
CanSend(l, k, inflight, queued) ==
  /\ Cardinality(inflight[l][k]) < MaxInflight
  /\ <<l, k>> \notin throttled
  /\ queued[l][k] # <<>>

\* At most one command leaves the queue.  `inflight' and `queued' are the lists
\* as the caller leaves them.
CheckQueue(l, k, inflight, queued) ==
  \/ /\ CanSend(l, k, inflight, queued)
     /\ queuedCommands' = [queued EXCEPT ![l][k] = Tail(@)]
     /\ throttled' = throttled \cup {<<l, k>>}
     /\ SetCommandInflight(l, k, Head(queued[l][k]), inflight)
  \/ /\ ~CanSend(l, k, inflight, queued)
     /\ inflightCommands' = inflight
     /\ queuedCommands' = queued
     /\ UNCHANGED <<throttled, scheduledErrors, sends>>

RemoveInflight(l, k, c) ==
  CheckQueue(l, k, [inflightCommands EXCEPT ![l][k] = @ \ {c}], queuedCommands)

CallHandler(c, error) ==
  /\ calls' = [calls EXCEPT ![c] = @ + 1]
  /\ outcome' = [outcome EXCEPT ![c] = error]

-----------------------------------------------------------------------------
(* Commands and responses                                                   *)

\* The lock is free, or its holder is running a handler.
MayEnter == loop.kind = "idle" \/ loop.handler # None

NextSequenceID(l, p) ==
  LET next == (currentSequenceID[l][p] + 1) % SeqMod IN
  /\ currentSequenceID' = [currentSequenceID EXCEPT ![l][p] = next]
  /\ IF next = 0
     THEN era[l][p] < MaxEra /\ era' = [era EXCEPT ![l][p] = @ + 1]
     ELSE UNCHANGED era

\* What sending c to k does to a loop that walks the same lists.  A new key may
\* come before or after the iterator, or rehash the map under it: the keys that
\* were left may be skipped and those already seen may come again.  A command put
\* in flight at the end of the list of the current key is reached by
\* unregisterLocalEntity; the timeout check reaches it too, but it cannot have
\* expired.
LoopAfterSend(l, k, c) ==
  IF loop.kind = "idle" \/ l # loop.local \/ Protocol(k) # loop.stage
  THEN UNCHANGED <<loop, rewalked>>
  ELSE IF k \notin inflightKeys[l]
  THEN \E left \in SUBSET ((inflightKeys'[l] \cap Destinations(loop.stage)) \ {loop.key}) :
         /\ loop' = [loop EXCEPT !.keys = left]
         /\ rewalked' = IF loop.kind = "timeouts" THEN rewalked
              ELSE rewalked \cup UNION {inflightCommands[l][seen] : seen \in left \ loop.keys}
  ELSE /\ loop' = IF loop.kind = "unregister" /\ k = loop.key
                  THEN [loop EXCEPT !.commands =
                          @ \cup (inflightCommands'[l][k] \ inflightCommands[l][k])]
                  ELSE loop
       /\ UNCHANGED rewalked

Enqueue_Front(queue, c) == <<c>> \o queue
Enqueue(queue, c) == Append(queue, c)

SendCommand(c, l, k) ==
  /\ MayEnter
  /\ ~Accepted(c)
  /\ l \in registered
  /\ frame' = [frame EXCEPT ![c] =
       [local |-> l, key |-> k, sequenceID |-> currentSequenceID[l][Protocol(k)],
        era |-> era[l][Protocol(k)]]]
  /\ NextSequenceID(l, Protocol(k))
  /\ inflightKeys' = [inflightKeys EXCEPT ![l] = @ \cup {k}]
  /\ CheckQueue(l, k, inflightCommands, [queuedCommands EXCEPT ![l][k] = Enqueue(@, c)])
  /\ LoopAfterSend(l, k, c)
  /\ UNCHANGED <<registered, retried, expired, inProgress, calls, outcome,
                 answeredBy, dropped>>

\* The command in flight a response to the frame of f is matched with.
Matches_AnySequenceID(c, f) == c \in inflightCommands[frame[f].local][frame[f].key]
Matches(c, f) ==
  /\ c \in inflightCommands[frame[f].local][frame[f].key]
  /\ frame[c].sequenceID = frame[f].sequenceID

\* AECP compares the source address with the address of the recipient, ACMP the
\* message type with that of the response.
AcceptsSender(p, sender) ==
  \/ sender = "recipient"
  \/ sender = "talker" /\ p = "acmp"

\* A response to the frame of f, sent by `sender'.  The list of the destination
\* may belong to a later incarnation of the local or of the destination.
HandleResponse(f, c, sender) ==
  /\ loop.kind = "idle"
  /\ Sent(f)
  /\ frame[f].local \in registered
  /\ Matches(c, f)
  /\ AcceptsSender(Protocol(frame[f].key), sender)
  /\ RemoveInflight(frame[f].local, frame[f].key, c)
  /\ CallHandler(c, "NoError")
  /\ answeredBy' = [answeredBy EXCEPT ![c] = IF sender = "recipient" THEN f ELSE sender]
  /\ expired' = expired \ {c}
  /\ UNCHANGED <<registered, currentSequenceID, inflightKeys, retried, loop,
                 era, frame, inProgress, dropped, rewalked>>

\* An AECP response with status IN_PROGRESS only rearms the timer.
HandleInProgress(f, c) ==
  /\ loop.kind = "idle"
  /\ Sent(f)
  /\ frame[f].local \in registered
  /\ frame[f].key \in AecpTargets
  /\ Matches(c, f)
  /\ inProgress[c] < MaxInProgress
  /\ inProgress' = [inProgress EXCEPT ![c] = @ + 1]
  /\ expired' = expired \ {c}
  /\ UNCHANGED <<registered, currentSequenceID, inflightKeys, inflightCommands,
                 queuedCommands, scheduledErrors, retried, throttled, loop, era,
                 frame, sends, calls, outcome, answeredBy, dropped, rewalked>>

-----------------------------------------------------------------------------
(* Local entities, and remote entities that leave                           *)

RegisterLocalEntity(l) ==
  /\ loop.kind = "idle"
  /\ l \notin registered
  /\ \A p \in Protocols : era[l][p] < MaxEra
  /\ registered' = registered \cup {l}
  /\ currentSequenceID' = [currentSequenceID EXCEPT ![l] = [p \in Protocols |-> 0]]
  /\ era' = [era EXCEPT ![l] = [p \in Protocols |-> @[p] + 1]]
  /\ UNCHANGED <<inflightKeys, inflightCommands, queuedCommands, scheduledErrors,
                 retried, expired, throttled, loop, frame, sends, inProgress,
                 calls, outcome, answeredBy, dropped, rewalked>>

\* Manager::onRemoteEntityOffline.  The handlers are not run.
DiscardedQueues_KeepsQueue(k) == queuedCommands
DiscardedQueues(k) == [l \in Locals |-> [queuedCommands[l] EXCEPT ![k] = <<>>]]

DiscardAECPCommandsTowardsEntity(k) ==
  /\ loop.kind = "idle"
  /\ inflightKeys' = [l \in Locals |-> inflightKeys[l] \ {k}]
  /\ inflightCommands' = [l \in Locals |-> [inflightCommands[l] EXCEPT ![k] = {}]]
  /\ queuedCommands' = DiscardedQueues(k)
  /\ throttled' = {t \in throttled : t[2] # k}
  /\ expired' = expired \ UNION {inflightCommands[l][k] : l \in Locals}
  /\ dropped' = dropped \cup UNION {inflightCommands[l][k] \cup Queued(l, k) : l \in Locals}
  /\ UNCHANGED <<registered, currentSequenceID, scheduledErrors, retried, loop,
                 era, frame, sends, inProgress, calls, outcome, answeredBy, rewalked>>

UnregisterLocalEntity(l) ==
  /\ loop.kind = "idle"
  /\ l \in registered
  /\ loop' = [Idle EXCEPT !.kind = "unregister", !.local = l,
                          !.keys = inflightKeys[l] \cap AecpTargets]
  /\ UNCHANGED <<registered, currentSequenceID, inflightKeys, inflightCommands,
                 queuedCommands, scheduledErrors, retried, expired, throttled,
                 ghostVars>>

\* The handlers of the commands in flight are run while the commands stay where
\* they are; they go with the rest of the CommandEntityInfo.
CancelCommand(c) ==
  /\ loop.kind = "unregister"
  /\ loop.handler = None
  /\ c \in loop.commands
  /\ loop' = [loop EXCEPT !.commands = @ \ {c}, !.handler = c]
  /\ CallHandler(c, "UnknownLocalEntity")
  /\ UNCHANGED <<registered, currentSequenceID, inflightKeys, inflightCommands,
                 queuedCommands, scheduledErrors, retried, expired, throttled,
                 era, frame, sends, inProgress, answeredBy, dropped, rewalked>>

CancelHandlerReturns ==
  /\ loop.kind = "unregister"
  /\ loop.handler # None
  /\ loop' = [loop EXCEPT !.handler = None]
  /\ UNCHANGED <<registered, currentSequenceID, inflightKeys, inflightCommands,
                 queuedCommands, scheduledErrors, retried, expired, throttled,
                 ghostVars>>

Held(l) == scheduledErrors[l] \cup UNION {inflightCommands[l][k] \cup Queued(l, k) : k \in Keys}

EndUnregister ==
  LET l == loop.local IN
  /\ loop.kind = "unregister"
  /\ loop.stage = "acmp" /\ loop.key = None /\ loop.keys = {}
  /\ registered' = registered \ {l}
  /\ inflightKeys' = [inflightKeys EXCEPT ![l] = {}]
  /\ inflightCommands' = [inflightCommands EXCEPT ![l] = [k \in Keys |-> {}]]
  /\ queuedCommands' = [queuedCommands EXCEPT ![l] = [k \in Keys |-> <<>>]]
  /\ scheduledErrors' = [scheduledErrors EXCEPT ![l] = {}]
  /\ throttled' = {t \in throttled : t[1] # l}
  /\ expired' = expired \ Held(l)
  /\ dropped' = dropped \cup {c \in Held(l) : calls[c] = 0}
  /\ loop' = Idle
  /\ UNCHANGED <<currentSequenceID, retried, era, frame, sends, inProgress, calls,
                 outcome, answeredBy, rewalked>>

-----------------------------------------------------------------------------
(* The loops of unregisterLocalEntity and of the timeout check              *)

\* The next destination in flight.
NextKey(k) ==
  /\ loop.local # None
  /\ loop.stage \in Protocols
  /\ loop.key = None
  /\ k \in loop.keys
  /\ loop' = [loop EXCEPT !.keys = @ \ {k}, !.key = k,
                !.commands = IF loop.kind = "timeouts"
                             THEN inflightCommands[loop.local][k] \cap expired
                             ELSE inflightCommands[loop.local][k]]
  /\ UNCHANGED <<registered, currentSequenceID, inflightKeys, inflightCommands,
                 queuedCommands, scheduledErrors, retried, expired, throttled,
                 ghostVars>>

\* All the commands of the destination were looked at: only the timeout check
\* gives its queue a chance.
ServeQueueAfter_Never(kind) == FALSE
ServeQueueAfter(kind) == kind = "timeouts"

EndKey ==
  /\ loop.key # None
  /\ loop.commands = {} /\ loop.handler = None
  /\ loop' = [loop EXCEPT !.key = None]
  /\ \/ /\ ServeQueueAfter(loop.kind)
        /\ CheckQueue(loop.local, loop.key, inflightCommands, queuedCommands)
     \/ /\ ~ServeQueueAfter(loop.kind)
        /\ UNCHANGED <<inflightCommands, queuedCommands, scheduledErrors, throttled, sends>>
  /\ UNCHANGED <<registered, currentSequenceID, inflightKeys, retried, expired, era,
                 frame, inProgress, calls, outcome, answeredBy, dropped, rewalked>>

ScheduledErrors(p) == {c \in scheduledErrors[loop.local] : Protocol(frame[c].key) = p}

\* AECP commands, ACMP commands, AECP errors, ACMP errors, next local entity.
NextStage ==
  /\ loop.local # None
  /\ loop.key = None /\ loop.keys = {} /\ loop.handler = None
  /\ \/ /\ loop.stage = "aecp"
        /\ loop' = [loop EXCEPT !.stage = "acmp",
                                !.keys = inflightKeys[loop.local] \cap AcmpTargets]
     \/ /\ loop.stage = "acmp" /\ loop.kind = "timeouts"
        /\ loop' = [loop EXCEPT !.stage = "aecpErrors"]
     \/ /\ loop.stage = "aecpErrors" /\ ScheduledErrors("aecp") = {}
        /\ loop' = [loop EXCEPT !.stage = "acmpErrors"]
     \/ /\ loop.stage = "acmpErrors" /\ ScheduledErrors("acmp") = {}
        /\ loop' = [loop EXCEPT !.stage = "aecp", !.local = None]
  /\ UNCHANGED <<registered, currentSequenceID, inflightKeys, inflightCommands,
                 queuedCommands, scheduledErrors, retried, expired, throttled,
                 ghostVars>>

-----------------------------------------------------------------------------
(* checkInflightCommandsTimeoutExpiracy, run by the thread of the Manager   *)

BeginTimeoutCheck ==
  /\ loop.kind = "idle"
  /\ loop' = [Idle EXCEPT !.kind = "timeouts", !.locals = registered]
  /\ UNCHANGED <<registered, currentSequenceID, inflightKeys, inflightCommands,
                 queuedCommands, scheduledErrors, retried, expired, throttled,
                 ghostVars>>

NextLocal(l) ==
  /\ loop.kind = "timeouts" /\ loop.local = None
  /\ l \in loop.locals
  /\ loop' = [loop EXCEPT !.locals = @ \ {l}, !.local = l,
                          !.keys = inflightKeys[l] \cap AecpTargets]
  /\ UNCHANGED <<registered, currentSequenceID, inflightKeys, inflightCommands,
                 queuedCommands, scheduledErrors, retried, expired, throttled,
                 ghostVars>>

EndTimeoutCheck ==
  /\ loop.kind = "timeouts" /\ loop.local = None /\ loop.locals = {}
  /\ loop' = Idle
  /\ UNCHANGED <<registered, currentSequenceID, inflightKeys, inflightCommands,
                 queuedCommands, scheduledErrors, retried, expired, throttled,
                 ghostVars>>

MarkRetried(c) == retried \cup {c}
MayGiveUp_AtOnce(c) == TRUE
MayGiveUp(c) == c \in retried

\* First timeout: send again, and run the handler only if that fails.
RetryCommand(c) ==
  /\ loop.kind = "timeouts" /\ loop.handler = None
  /\ c \in loop.commands
  /\ c \notin retried
  /\ retried' = MarkRetried(c)
  /\ throttled' = throttled \cup {<<loop.local, loop.key>>}
  /\ expired' = expired \ {c}
  /\ \/ /\ sends' = [sends EXCEPT ![c] = @ + 1]
        /\ loop' = [loop EXCEPT !.commands = @ \ {c}]
        /\ UNCHANGED <<calls, outcome>>
     \/ /\ CallHandler(c, "TransportError")
        /\ loop' = [loop EXCEPT !.commands = @ \ {c}, !.handler = c]
        /\ UNCHANGED sends
  /\ UNCHANGED <<registered, currentSequenceID, inflightKeys, inflightCommands,
                 queuedCommands, scheduledErrors, era, frame, inProgress,
                 answeredBy, dropped, rewalked>>

\* Second timeout.
TimeoutCommand(c) ==
  /\ loop.kind = "timeouts" /\ loop.handler = None
  /\ c \in loop.commands
  /\ MayGiveUp(c)
  /\ CallHandler(c, "Timeout")
  /\ loop' = [loop EXCEPT !.commands = @ \ {c}, !.handler = c]
  /\ UNCHANGED <<registered, currentSequenceID, inflightKeys, inflightCommands,
                 queuedCommands, scheduledErrors, retried, expired, throttled,
                 era, frame, sends, inProgress, answeredBy, dropped, rewalked>>

\* The command leaves the list only when its handler returns.
RemoveLostCommand ==
  /\ loop.kind = "timeouts" /\ loop.key # None
  /\ loop.handler # None
  /\ loop' = [loop EXCEPT !.handler = None]
  /\ RemoveInflight(loop.local, loop.key, loop.handler)
  /\ expired' = expired \ {loop.handler}
  /\ UNCHANGED <<registered, currentSequenceID, inflightKeys, retried, era, frame,
                 inProgress, calls, outcome, answeredBy, dropped, rewalked>>

NotifyError(c) ==
  /\ loop.kind = "timeouts" /\ loop.handler = None
  /\ \/ loop.stage = "aecpErrors" /\ c \in ScheduledErrors("aecp")
     \/ loop.stage = "acmpErrors" /\ c \in ScheduledErrors("acmp")
  /\ CallHandler(c, "TransportError")
  /\ loop' = [loop EXCEPT !.handler = c]
  /\ UNCHANGED <<registered, currentSequenceID, inflightKeys, inflightCommands,
                 queuedCommands, scheduledErrors, retried, expired, throttled,
                 era, frame, sends, inProgress, answeredBy, dropped, rewalked>>

EndNotifyError ==
  /\ loop.kind = "timeouts" /\ loop.key = None
  /\ loop.handler # None
  /\ scheduledErrors' = [scheduledErrors EXCEPT ![loop.local] = @ \ {loop.handler}]
  /\ loop' = [loop EXCEPT !.handler = None]
  /\ UNCHANGED <<registered, currentSequenceID, inflightKeys, inflightCommands,
                 queuedCommands, retried, expired, throttled, ghostVars>>

-----------------------------------------------------------------------------
(* Time.  The check compares with the time it began at, so a timeout that   *)
(* expires while it runs is seen by the next one.                           *)

TimerExpires(c) ==
  /\ loop.kind = "idle"
  /\ \E l \in Locals, k \in Keys : c \in inflightCommands[l][k]
  /\ c \notin expired
  /\ expired' = expired \cup {c}
  /\ UNCHANGED <<registered, currentSequenceID, inflightKeys, inflightCommands,
                 queuedCommands, scheduledErrors, retried, throttled, loop,
                 ghostVars>>

SendIntervalElapses(l, k) ==
  /\ <<l, k>> \in throttled
  /\ throttled' = throttled \ {<<l, k>>}
  /\ UNCHANGED <<registered, currentSequenceID, inflightKeys, inflightCommands,
                 queuedCommands, scheduledErrors, retried, expired, loop,
                 ghostVars>>

-----------------------------------------------------------------------------
LoopStep ==
  \/ \E k \in Keys : NextKey(k)
  \/ EndKey
  \/ NextStage
  \/ \E l \in Locals : NextLocal(l)
  \/ EndTimeoutCheck
  \/ \E c \in Commands : RetryCommand(c) \/ TimeoutCommand(c) \/ NotifyError(c) \/ CancelCommand(c)
  \/ RemoveLostCommand
  \/ EndNotifyError
  \/ CancelHandlerReturns
  \/ EndUnregister

Next ==
  \/ \E c \in Commands, l \in Locals, k \in Keys : SendCommand(c, l, k)
  \/ \E f, c \in Commands, s \in Senders : HandleResponse(f, c, s)
  \/ \E f, c \in Commands : HandleInProgress(f, c)
  \/ \E l \in Locals : RegisterLocalEntity(l) \/ UnregisterLocalEntity(l)
  \/ \E k \in AecpTargets : DiscardAECPCommandsTowardsEntity(k)
  \/ BeginTimeoutCheck
  \/ LoopStep
  \/ \E c \in Commands : TimerExpires(c)
  \/ \E l \in Locals, k \in Keys : SendIntervalElapses(l, k)

Spec == Init /\ [][Next]_vars

\* The thread of the Manager runs the check every 5 ms, a method that holds the
\* lock finishes, and time passes (whoever holds the lock).
Fairness ==
  /\ WF_vars(BeginTimeoutCheck)
  /\ WF_vars(LoopStep)
  /\ \A c \in Commands : SF_vars(TimerExpires(c))
  /\ \A l \in Locals, k \in Keys : WF_vars(SendIntervalElapses(l, k))

FairSpec == Spec /\ Fairness

-----------------------------------------------------------------------------
(* Safety                                                                   *)

QueuedCommand(c) == \E l \in Locals, k \in Keys : c \in Queued(l, k)
InflightCommand(c) == \E l \in Locals, k \in Keys : c \in inflightCommands[l][k]
ScheduledError(c) == \E l \in Locals : c \in scheduledErrors[l]

\* Every command accepted is accounted for.  Until its handler runs it is in
\* exactly one of the three lists, unless it was discarded; the handler runs
\* once, and a command whose handler ran is in no list, except while the loop
\* that ran the handler has not come to the removal.  A handler runs twice only
\* if unregisterLocalEntity ran it and another handler run by that call sends to
\* a new destination, which rehashes the map the call is walking.
CommandsAccountedFor ==
  \A c \in Commands :
    LET places == {p \in {"queue", "inflight", "errors"} :
                     \/ p = "queue" /\ QueuedCommand(c)
                     \/ p = "inflight" /\ InflightCommand(c)
                     \/ p = "errors" /\ ScheduledError(c)} IN
    IF ~Accepted(c) \/ c \in dropped
    THEN calls[c] = 0 /\ places = {}
    ELSE \/ calls[c] = 0 /\ Cardinality(places) = 1
         \/ /\ calls[c] = 1 \/ (c \in rewalked /\ calls[c] > 1)
            /\ places = {} \/ loop.handler = c \/ loop.kind = "unregister"

\* The retry and the refill of the window by responses, timeouts and new
\* commands never put more than MaxInflight commands in flight to a destination.
InflightBounded ==
  \A l \in Locals, k \in Keys : Cardinality(inflightCommands[l][k]) <= MaxInflight

\* The periodic check serves the queues of the destinations it finds in the
\* in-flight map only: a queue without that key would wait for ever.
QueuesAreServed ==
  \A l \in Locals, k \in Keys :
    queuedCommands[l][k] # <<>> => l \in registered /\ k \in inflightKeys[l]

Before(c, d) ==
  /\ Accepted(c) /\ Accepted(d)
  /\ frame[c].local = frame[d].local /\ frame[c].key = frame[d].key
  /\ \/ frame[c].era < frame[d].era
     \/ frame[c].era = frame[d].era /\ frame[c].sequenceID < frame[d].sequenceID

\* Commands to a destination are transmitted for the first time in the order
\* they were accepted in, whoever empties the queue.
FirstAcceptedFirstSent ==
  \A c, d \in Commands :
    Before(c, d) /\ sends[d] > 0 => ~QueuedCommand(c)

\* A handler is given the response to its own command.  The response to another
\* one can only be taken for it when the sequence counter restarted (the local
\* entity was registered again) or wrapped around between the two.  An ACMP handler
\* may also be given what a talker answered to a listener.
AnswerIsOwn ==
  \A c \in Commands :
    /\ answeredBy[c] \in Senders =>
         answeredBy[c] = "talker" /\ frame[c].key \in AcmpTargets
    /\ answeredBy[c] \in Commands \ {c} => frame[answeredBy[c]].era # frame[c].era

-----------------------------------------------------------------------------
(* Refinement                                                               *)

Status(c) ==
  IF ~Accepted(c) THEN "new"
  ELSE IF c \in dropped THEN "discarded"
  ELSE IF outcome[c] = "NoError" THEN "answered"
  ELSE IF outcome[c] = "Timeout" THEN "timedOut"
  ELSE IF outcome[c] = "TransportError" THEN "refused"
  ELSE IF outcome[c] = "UnknownLocalEntity" THEN "cancelled"
  ELSE IF sends[c] = 0 THEN "waiting"
  ELSE IF sends[c] = 1 THEN "sentOnce"
  ELSE "sentTwice"

Service == INSTANCE CommandService WITH status <- [c \in Commands |-> Status(c)]

\* Seen through the status of its commands, the state machine is the service it
\* promises: every step moves each command along its life, whatever sends,
\* responses, timeouts, transport errors and departures come together.
ImplementsService == Service!Spec

-----------------------------------------------------------------------------
(* Liveness                                                                 *)

\* Every command accepted is completed or discarded: none waits for ever in a
\* queue, behind commands that are never answered or a transport that fails.
CommandsSettle ==
  \A c \in Commands : Accepted(c) ~> (calls[c] = 1 \/ c \in dropped)

\* protocolInterface.hpp:180 promises that the handler passed to sendAecpCommand
\* "will be called at some point".
HandlersAreCalled == \A c \in Commands : Accepted(c) ~> calls[c] > 0
=============================================================================
