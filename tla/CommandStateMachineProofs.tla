---------------------- MODULE CommandStateMachineProofs ----------------------
(***************************************************************************)
(* Proofs about CommandStateMachine, for any number of entities,           *)
(* destinations and commands, any window and any range of sequence IDs:    *)
(* its invariants, and then that it accounts for every command and         *)
(* implements CommandService.                                              *)
(***************************************************************************)
EXTENDS CommandStateMachine, SequenceTheorems, FiniteSetTheorems, TLAPS

-----------------------------------------------------------------------------
(* Typing                                                                   *)

\* A loop that has commands to look at has reached a destination, and one that has
\* reached a destination has reached a local entity.  unregisterLocalEntity works for
\* one, and looks at no scheduled error.
LoopInPlace ==
  /\ loop.commands # {} => loop.key # None
  /\ loop.key # None => loop.local # None
  /\ loop.kind = "unregister" => loop.local # None /\ loop.stage \in Protocols

Typing == TypeOK /\ LoopInPlace

LEMMA SequenceIDs ==
  ASSUME NEW n \in 0 .. SeqMod - 1
  PROVE  (n + 1) % SeqMod \in 0 .. SeqMod - 1
BY ConstantsAssumption

LEMMA TypingInit == Init => Typing
<1>1. <<>> \in Seq(Commands)
  BY EmptySeq
<1>. QED  BY <1>1, ConstantsAssumption
          DEF Init, Typing, TypeOK, LoopInPlace, Idle, Loop, Protocols, Keys

Inflights == [Locals -> [Keys -> SUBSET Commands]]
Queues == [Locals -> [Keys -> Seq(Commands)]]

\* What CheckQueue writes.
ListsTyping ==
  /\ inflightCommands \in Inflights
  /\ queuedCommands \in Queues
  /\ scheduledErrors \in [Locals -> SUBSET Commands]
  /\ throttled \in SUBSET (Locals \X Keys)
  /\ sends \in [Commands -> Nat]

LEMMA CheckQueueTyping ==
  ASSUME ListsTyping, NEW l \in Locals, NEW k \in Keys,
         NEW inflight \in Inflights, NEW queued \in Queues,
         CheckQueue(l, k, inflight, queued)
  PROVE  ListsTyping'
<1>. USE DEF ListsTyping, Inflights, Queues
<1>1. CASE ~CanSend(l, k, inflight, queued)
  BY <1>1 DEF CheckQueue
<1>2. CASE CanSend(l, k, inflight, queued)
  <2> DEFINE c == Head(queued[l][k])
  <2>1. queued[l][k] \in Seq(Commands) /\ queued[l][k] # <<>>
    BY <1>2 DEF CanSend
  <2>2. c \in Commands /\ Tail(queued[l][k]) \in Seq(Commands)
    BY <2>1, HeadTailProperties
  <2>3. queuedCommands' = [queued EXCEPT ![l][k] = Tail(queued[l][k])]
    BY <1>2 DEF CheckQueue
  <2>4. queuedCommands' \in Queues
    BY <2>2, <2>3
  <2>5. throttled' \in SUBSET (Locals \X Keys)
    BY <1>2 DEF CheckQueue
  <2>6. SetCommandInflight(l, k, c, inflight)
    BY <1>2 DEF CheckQueue
  <2>7. [inflight EXCEPT ![l][k] = @ \cup {c}] \in Inflights
    BY <2>2
  <2>8. [scheduledErrors EXCEPT ![l] = @ \cup {c}] \in [Locals -> SUBSET Commands]
    BY <2>2
  <2>9. [sends EXCEPT ![c] = @ + 1] \in [Commands -> Nat]
    BY <2>2
  <2>. QED  BY <2>4, <2>5, <2>6, <2>7, <2>8, <2>9 DEF SetCommandInflight
<1>. QED  BY <1>1, <1>2

LEMMA RemoveInflightTyping ==
  ASSUME ListsTyping, NEW l \in Locals, NEW k \in Keys, NEW c, RemoveInflight(l, k, c)
  PROVE  ListsTyping'
<1>1. [inflightCommands EXCEPT ![l][k] = @ \ {c}] \in Inflights
  BY DEF ListsTyping, Inflights
<1>2. queuedCommands \in Queues
  BY DEF ListsTyping
<1>. QED  BY <1>1, <1>2, CheckQueueTyping DEF RemoveInflight

\* What it does not.
OthersTyping ==
  /\ registered \in SUBSET Locals
  /\ currentSequenceID \in [Locals -> [Protocols -> 0 .. SeqMod - 1]]
  /\ inflightKeys \in [Locals -> SUBSET Keys]
  /\ retried \in SUBSET Commands
  /\ expired \in SUBSET Commands
  /\ loop \in Loop
  /\ LoopInPlace
  /\ era \in [Locals -> [Protocols -> 0 .. MaxEra]]
  /\ frame \in [Commands -> Frame \cup {None}]
  /\ inProgress \in [Commands -> 0 .. MaxInProgress]
  /\ calls \in [Commands -> Nat]
  /\ outcome \in [Commands -> Errors \cup {None}]
  /\ answeredBy \in [Commands -> Commands \cup {None} \cup Senders]
  /\ dropped \in SUBSET Commands
  /\ rewalked \in SUBSET Commands

LEMMA TypingParts == Typing <=> ListsTyping /\ OthersTyping
BY DEF Typing, TypeOK, ListsTyping, OthersTyping, Inflights, Queues

LEMMA TypingPartsNext == ListsTyping' /\ OthersTyping' => Typing'
BY DEF Typing, TypeOK, ListsTyping, OthersTyping, Inflights, Queues

LEMMA SendCommandTyping ==
  ASSUME Typing, NEW c \in Commands, NEW l \in Locals, NEW k \in Keys, SendCommand(c, l, k)
  PROVE  Typing'
<1> DEFINE p == Protocol(k)
           queued == [queuedCommands EXCEPT ![l][k] = Enqueue(@, c)]
<1>1. ListsTyping /\ OthersTyping
  BY TypingParts
<1>2. ListsTyping'
  <2>1. queuedCommands[l][k] \in Seq(Commands)
    BY <1>1 DEF ListsTyping, Queues
  <2>2. Append(queuedCommands[l][k], c) \in Seq(Commands)
    BY <2>1, AppendProperties
  <2>3. queued \in Queues /\ inflightCommands \in Inflights
    BY <1>1, <2>2 DEF ListsTyping, Queues, Enqueue
  <2>. QED  BY <1>1, <2>3, CheckQueueTyping DEF SendCommand
<1>3. p \in Protocols
  BY DEF Protocol, Protocols
<1>4. /\ currentSequenceID' \in [Locals -> [Protocols -> 0 .. SeqMod - 1]]
      /\ era' \in [Locals -> [Protocols -> 0 .. MaxEra]]
  <2> DEFINE next == (currentSequenceID[l][p] + 1) % SeqMod
  <2>1. next \in 0 .. SeqMod - 1
    BY <1>1, <1>3, SequenceIDs DEF OthersTyping
  <2>2. currentSequenceID' = [currentSequenceID EXCEPT ![l][p] = next]
    BY DEF SendCommand, NextSequenceID
  <2>3. era' = era \/ (era[l][p] < MaxEra /\ era' = [era EXCEPT ![l][p] = @ + 1])
    BY DEF SendCommand, NextSequenceID
  <2> HIDE DEF next
  <2>4. currentSequenceID' \in [Locals -> [Protocols -> 0 .. SeqMod - 1]]
    BY <1>1, <1>3, <2>1, <2>2 DEF OthersTyping
  <2>5. era[l][p] \in 0 .. MaxEra
    BY <1>1, <1>3 DEF OthersTyping
  <2>6. era' \in [Locals -> [Protocols -> 0 .. MaxEra]]
    <3>1. ASSUME NEW n \in 0 .. MaxEra, era' = [era EXCEPT ![l][p] = n]
          PROVE  era' \in [Locals -> [Protocols -> 0 .. MaxEra]]
      BY <1>1, <1>3, <3>1 DEF OthersTyping
    <3>2. era[l][p] < MaxEra => era[l][p] + 1 \in 0 .. MaxEra
      BY <2>5, ConstantsAssumption
    <3>. QED  BY <1>1, <2>3, <3>1, <3>2 DEF OthersTyping
  <2>. QED  BY <2>4, <2>6
<1>5. frame' \in [Commands -> Frame \cup {None}]
  <2> DEFINE header == [local |-> l, key |-> k, sequenceID |-> currentSequenceID[l][p],
                        era |-> era[l][p]]
  <2>1. header \in Frame
    BY <1>1, <1>3 DEF OthersTyping, Frame
  <2>2. frame' = [frame EXCEPT ![c] = header]
    BY DEF SendCommand
  <2> HIDE DEF header
  <2>. QED  BY <1>1, <2>1, <2>2 DEF OthersTyping
<1>6. inflightKeys' \in [Locals -> SUBSET Keys]
  BY <1>1 DEF SendCommand, OthersTyping
<1>7. loop' \in Loop /\ LoopInPlace' /\ rewalked' \in SUBSET Commands
  <2>1. ASSUME UNCHANGED loop PROVE loop' \in Loop /\ LoopInPlace'
    BY <1>1, <2>1 DEF OthersTyping, LoopInPlace
  <2>2. ASSUME NEW left \in SUBSET Keys, loop' = [loop EXCEPT !.keys = left]
        PROVE  loop' \in Loop /\ LoopInPlace'
    BY <1>1, <2>2 DEF OthersTyping, LoopInPlace, Loop
  <2>3. ASSUME NEW left \in SUBSET Keys,
               rewalked' = rewalked
                 \cup UNION {inflightCommands[l][seen] : seen \in left \ loop.keys}
        PROVE  rewalked' \in SUBSET Commands
    BY <1>1, <2>3 DEF OthersTyping, ListsTyping, Inflights
  <2>4. ASSUME NEW S \in SUBSET Commands, k = loop.key, loop' = [loop EXCEPT !.commands = @ \cup S]
        PROVE  loop' \in Loop /\ LoopInPlace'
    BY <1>1, <2>4, ConstantsAssumption DEF OthersTyping, LoopInPlace, Loop
  <2>7. inflightCommands'[l][k] \ inflightCommands[l][k] \in SUBSET Commands
    BY <1>2 DEF ListsTyping, Inflights
  <2>5. ASSUME NEW S, NEW left \in SUBSET ((inflightKeys'[l] \cap S) \ {loop.key})
        PROVE  left \in SUBSET Keys
    BY <1>6
  <2>6. LoopAfterSend(l, k, c)
    BY DEF SendCommand
  <2>8. rewalked \in SUBSET Commands
    BY <1>1 DEF OthersTyping
  <2>9. CASE loop.kind = "idle" \/ l # loop.local \/ Protocol(k) # loop.stage
    BY <2>1, <2>6, <2>8, <2>9 DEF LoopAfterSend
  <2>10. CASE /\ ~(loop.kind = "idle" \/ l # loop.local \/ Protocol(k) # loop.stage)
              /\ k \notin inflightKeys[l]
    <3>1. PICK left \in SUBSET ((inflightKeys'[l] \cap Destinations(loop.stage)) \ {loop.key}) :
            /\ loop' = [loop EXCEPT !.keys = left]
            /\ rewalked' = IF loop.kind = "timeouts" THEN rewalked
                 ELSE rewalked \cup UNION {inflightCommands[l][seen] : seen \in left \ loop.keys}
      BY <2>6, <2>10 DEF LoopAfterSend
    <3>2. left \in SUBSET Keys
      BY <2>5
    <3>3. loop' \in Loop /\ LoopInPlace'
      BY <2>2, <3>1, <3>2
    <3>4. rewalked' \in SUBSET Commands
      BY <2>3, <2>8, <3>1, <3>2
    <3>. QED  BY <3>3, <3>4
  <2>11. CASE /\ ~(loop.kind = "idle" \/ l # loop.local \/ Protocol(k) # loop.stage)
              /\ k \in inflightKeys[l]
    BY <2>1, <2>4, <2>6, <2>7, <2>8, <2>11 DEF LoopAfterSend
  <2>. QED  BY <2>9, <2>10, <2>11
<1>8. OthersTyping'
  BY <1>1, <1>4, <1>5, <1>6, <1>7 DEF SendCommand, OthersTyping
<1>. QED  BY <1>2, <1>8, TypingPartsNext

LEMMA CallHandlerTyping ==
  ASSUME OthersTyping, NEW c \in Commands, NEW error \in Errors, CallHandler(c, error)
  PROVE  calls' \in [Commands -> Nat] /\ outcome' \in [Commands -> Errors \cup {None}]
<1>1. calls' = [calls EXCEPT ![c] = @ + 1] /\ outcome' = [outcome EXCEPT ![c] = error]
  BY DEF CallHandler
<1>2. calls[c] + 1 \in Nat
  BY DEF OthersTyping
<1>. QED  BY <1>1, <1>2 DEF OthersTyping

LEMMA LoopCallsHandler ==
  ASSUME OthersTyping, NEW c \in Commands,
         \/ loop' = [loop EXCEPT !.commands = @ \ {c}, !.handler = c]
         \/ loop' = [loop EXCEPT !.handler = c]
         \/ loop' = [loop EXCEPT !.commands = @ \ {c}]
  PROVE  loop' \in Loop /\ LoopInPlace'
<1>1. loop \in Loop /\ LoopInPlace
  BY DEF OthersTyping
<1>2. CASE loop' = [loop EXCEPT !.commands = @ \ {c}, !.handler = c]
  BY <1>1, <1>2 DEF LoopInPlace, Loop
<1>3. CASE loop' = [loop EXCEPT !.handler = c]
  BY <1>1, <1>3 DEF LoopInPlace, Loop
<1>4. CASE loop' = [loop EXCEPT !.commands = @ \ {c}]
  BY <1>1, <1>4 DEF LoopInPlace, Loop
<1>. QED  BY <1>2, <1>3, <1>4

LEMMA TypingNext == Typing /\ [Next]_vars => Typing'
<1>. SUFFICES ASSUME Typing, [Next]_vars PROVE Typing'
  OBVIOUS
<1>types. ListsTyping /\ OthersTyping
  BY TypingParts
<1>in. loop \in Loop /\ LoopInPlace
  BY <1>types DEF OthersTyping
<1>fields. /\ loop.local \in Locals \cup {None} /\ loop.key \in Keys \cup {None}
           /\ loop.handler \in Commands \cup {None} /\ loop.keys \subseteq Keys
           /\ loop.locals \subseteq Locals /\ loop.commands \subseteq Commands
  BY <1>in DEF Loop
<1>lists. UNCHANGED <<inflightCommands, queuedCommands, scheduledErrors, throttled, sends>>
            => ListsTyping'
  BY <1>types DEF ListsTyping
<1>1. ASSUME NEW c \in Commands, NEW l \in Locals, NEW k \in Keys, SendCommand(c, l, k)
      PROVE  Typing'
  BY <1>1, SendCommandTyping
<1>2. ASSUME NEW f \in Commands, NEW c \in Commands, NEW s \in Senders, HandleResponse(f, c, s)
      PROVE  Typing'
  <2>1. frame[f] \in Frame
    BY <1>2, <1>types DEF HandleResponse, Sent, Accepted, OthersTyping
  <2>2. ListsTyping'
    BY <1>2, <1>types, <2>1, RemoveInflightTyping DEF HandleResponse, Frame
  <2>3. OthersTyping'
    BY <1>2, <1>types DEF HandleResponse, CallHandler, OthersTyping, LoopInPlace, Errors
  <2>. QED  BY <2>2, <2>3, TypingPartsNext
<1>3. ASSUME NEW f \in Commands, NEW c \in Commands, HandleInProgress(f, c) PROVE Typing'
  <2>1. inProgress[c] \in 0 .. MaxInProgress /\ inProgress[c] < MaxInProgress
    BY <1>3, <1>types DEF HandleInProgress, OthersTyping
  <2>2. inProgress[c] + 1 \in 0 .. MaxInProgress
    BY <2>1, ConstantsAssumption
  <2>3. OthersTyping'
    BY <1>3, <1>types, <2>2 DEF HandleInProgress, OthersTyping, LoopInPlace
  <2>. QED  BY <1>3, <1>lists, <2>3, TypingPartsNext DEF HandleInProgress
<1>4. ASSUME NEW l \in Locals, RegisterLocalEntity(l) PROVE Typing'
  <2>1. 0 \in 0 .. SeqMod - 1
    BY ConstantsAssumption
  <2>2. \A p \in Protocols : era[l][p] + 1 \in 0 .. MaxEra
    BY <1>4, <1>types, ConstantsAssumption DEF RegisterLocalEntity, OthersTyping
  <2>3. OthersTyping'
    BY <1>4, <1>types, <2>1, <2>2 DEF RegisterLocalEntity, OthersTyping, LoopInPlace
  <2>. QED  BY <1>4, <1>lists, <2>3, TypingPartsNext DEF RegisterLocalEntity
<1>5. ASSUME NEW l \in Locals, UnregisterLocalEntity(l) PROVE Typing'
  <2>1. OthersTyping'
    BY <1>5, <1>types, ConstantsAssumption
    DEF UnregisterLocalEntity, OthersTyping, LoopInPlace, Loop, Idle, Protocols, ghostVars
  <2>. QED  BY <1>5, <1>lists, <2>1, TypingPartsNext DEF UnregisterLocalEntity, ghostVars
<1>6. ASSUME NEW k \in AecpTargets, DiscardAECPCommandsTowardsEntity(k) PROVE Typing'
  <2>1. <<>> \in Seq(Commands) /\ k \in Keys
    BY EmptySeq DEF Keys
  <2>2. ListsTyping'
    BY <1>6, <1>types, <2>1
    DEF DiscardAECPCommandsTowardsEntity, DiscardedQueues, ListsTyping, Inflights, Queues
  <2>3. \A l \in Locals : inflightCommands[l][k] \cup Queued(l, k) \subseteq Commands
    BY <1>types, <2>1, RangeOfSeq DEF Queued, ListsTyping, Inflights, Queues
  <2>4. dropped' \in SUBSET Commands /\ expired' \in SUBSET Commands
    BY <1>6, <1>types, <2>3 DEF DiscardAECPCommandsTowardsEntity, OthersTyping
  <2>5. OthersTyping'
    BY <1>6, <1>types, <2>4 DEF DiscardAECPCommandsTowardsEntity, OthersTyping, LoopInPlace
  <2>. QED  BY <2>2, <2>5, TypingPartsNext
<1>7. CASE BeginTimeoutCheck
  <2>1. OthersTyping'
    BY <1>7, <1>types DEF BeginTimeoutCheck, OthersTyping, LoopInPlace, Loop, Idle, ghostVars
  <2>. QED  BY <1>7, <1>lists, <2>1, TypingPartsNext DEF BeginTimeoutCheck, ghostVars
<1>8. ASSUME NEW k \in Keys, NextKey(k) PROVE Typing'
  <2>1. /\ inflightCommands[loop.local][k] \subseteq Commands
        /\ inflightCommands[loop.local][k] \cap expired \subseteq Commands
    BY <1>8, <1>types, <1>fields DEF NextKey, ListsTyping, Inflights
  <2>2. OthersTyping'
    BY <1>8, <1>types, <2>1, ConstantsAssumption
    DEF NextKey, OthersTyping, LoopInPlace, Loop, ghostVars
  <2>. QED  BY <1>8, <1>lists, <2>2, TypingPartsNext DEF NextKey, ghostVars
<1>9. CASE EndKey
  <2>1. loop.local \in Locals /\ loop.key \in Keys
    BY <1>9, <1>in, <1>fields DEF EndKey, LoopInPlace
  <2>2. inflightCommands \in Inflights /\ queuedCommands \in Queues
    BY <1>types DEF ListsTyping
  <2>3. ListsTyping'
    BY <1>9, <1>types, <1>lists, <2>1, <2>2, CheckQueueTyping DEF EndKey
  <2>4. OthersTyping'
    BY <1>9, <1>types DEF EndKey, OthersTyping, LoopInPlace, Loop
  <2>. QED  BY <2>3, <2>4, TypingPartsNext
<1>10. CASE NextStage
  <2>1. inflightKeys[loop.local] \cap AcmpTargets \subseteq Keys
    BY DEF Keys
  <2>2. OthersTyping'
    BY <1>10, <1>types, <2>1 DEF NextStage, OthersTyping, LoopInPlace, Loop, Protocols, ghostVars
  <2>. QED  BY <1>10, <1>lists, <2>2, TypingPartsNext DEF NextStage, ghostVars
<1>11. ASSUME NEW l \in Locals, NextLocal(l) PROVE Typing'
  <2>1. inflightKeys[l] \cap AecpTargets \subseteq Keys
    BY DEF Keys
  <2>2. OthersTyping'
    BY <1>11, <1>types, <2>1 DEF NextLocal, OthersTyping, LoopInPlace, Loop, ghostVars
  <2>. QED  BY <1>11, <1>lists, <2>2, TypingPartsNext DEF NextLocal, ghostVars
<1>12. CASE EndTimeoutCheck
  <2>1. OthersTyping'
    BY <1>12, <1>types DEF EndTimeoutCheck, OthersTyping, LoopInPlace, Loop, Idle, ghostVars
  <2>. QED  BY <1>12, <1>lists, <2>1, TypingPartsNext DEF EndTimeoutCheck, ghostVars
<1>13. ASSUME NEW c \in Commands, RetryCommand(c) PROVE Typing'
  <2>1. loop.local \in Locals /\ loop.key \in Keys
    BY <1>13, <1>in, <1>fields DEF RetryCommand, LoopInPlace
  <2>2. throttled' \in SUBSET (Locals \X Keys) /\ retried' \in SUBSET Commands
    BY <1>13, <1>types, <2>1 DEF RetryCommand, MarkRetried, ListsTyping, OthersTyping
  <2>3. sends' \in [Commands -> Nat]
    <3>1. sends[c] + 1 \in Nat
      BY <1>types DEF ListsTyping
    <3>2. sends' = sends \/ sends' = [sends EXCEPT ![c] = @ + 1]
      BY <1>13 DEF RetryCommand
    <3>. QED  BY <1>types, <3>1, <3>2 DEF ListsTyping
  <2>4. ListsTyping'
    BY <1>13, <1>types, <2>2, <2>3 DEF RetryCommand, ListsTyping
  <2>5. calls' \in [Commands -> Nat] /\ outcome' \in [Commands -> Errors \cup {None}]
    <3>1. UNCHANGED <<calls, outcome>> \/ CallHandler(c, "TransportError")
      BY <1>13 DEF RetryCommand
    <3>2. "TransportError" \in Errors
      BY DEF Errors
    <3>3. CASE UNCHANGED <<calls, outcome>>
      BY <1>types, <3>3 DEF OthersTyping
    <3>. QED  BY <1>types, <3>1, <3>2, <3>3, CallHandlerTyping
  <2>6. loop' \in Loop /\ LoopInPlace'
    BY <1>13, <1>types, LoopCallsHandler DEF RetryCommand
  <2>7. OthersTyping'
    BY <1>13, <1>types, <2>2, <2>5, <2>6 DEF RetryCommand, OthersTyping
  <2>. QED  BY <2>4, <2>7, TypingPartsNext
<1>14. ASSUME NEW c \in Commands, TimeoutCommand(c) PROVE Typing'
  <2>1. CallHandler(c, "Timeout") /\ "Timeout" \in Errors
    BY <1>14 DEF TimeoutCommand, Errors
  <2>2. calls' \in [Commands -> Nat] /\ outcome' \in [Commands -> Errors \cup {None}]
    BY <1>types, <2>1, CallHandlerTyping
  <2>3. loop' \in Loop /\ LoopInPlace'
    BY <1>14, <1>types, LoopCallsHandler DEF TimeoutCommand
  <2>4. OthersTyping'
    BY <1>14, <1>types, <2>2, <2>3 DEF TimeoutCommand, OthersTyping
  <2>. QED  BY <1>14, <1>lists, <2>4, TypingPartsNext DEF TimeoutCommand
<1>15. ASSUME NEW c \in Commands, NotifyError(c) PROVE Typing'
  <2>1. CallHandler(c, "TransportError") /\ "TransportError" \in Errors
    BY <1>15 DEF NotifyError, Errors
  <2>2. calls' \in [Commands -> Nat] /\ outcome' \in [Commands -> Errors \cup {None}]
    BY <1>types, <2>1, CallHandlerTyping
  <2>3. loop' \in Loop /\ LoopInPlace'
    BY <1>15, <1>types, LoopCallsHandler DEF NotifyError
  <2>4. OthersTyping'
    BY <1>15, <1>types, <2>2, <2>3 DEF NotifyError, OthersTyping
  <2>. QED  BY <1>15, <1>lists, <2>4, TypingPartsNext DEF NotifyError
<1>16. ASSUME NEW c \in Commands, CancelCommand(c) PROVE Typing'
  <2>1. CallHandler(c, "UnknownLocalEntity") /\ "UnknownLocalEntity" \in Errors
    BY <1>16 DEF CancelCommand, Errors
  <2>2. calls' \in [Commands -> Nat] /\ outcome' \in [Commands -> Errors \cup {None}]
    BY <1>types, <2>1, CallHandlerTyping
  <2>3. loop' \in Loop /\ LoopInPlace'
    BY <1>16, <1>types, LoopCallsHandler DEF CancelCommand
  <2>4. OthersTyping'
    BY <1>16, <1>types, <2>2, <2>3 DEF CancelCommand, OthersTyping
  <2>. QED  BY <1>16, <1>lists, <2>4, TypingPartsNext DEF CancelCommand
<1>17. CASE RemoveLostCommand
  <2>1. loop.local \in Locals /\ loop.key \in Keys
    BY <1>17, <1>in, <1>fields DEF RemoveLostCommand, LoopInPlace
  <2>2. ListsTyping'
    BY <1>17, <1>types, <2>1, RemoveInflightTyping DEF RemoveLostCommand
  <2>3. OthersTyping'
    BY <1>17, <1>types DEF RemoveLostCommand, OthersTyping, LoopInPlace, Loop
  <2>. QED  BY <2>2, <2>3, TypingPartsNext
<1>18. CASE EndNotifyError
  <2>1. ListsTyping'
    BY <1>18, <1>types DEF EndNotifyError, ListsTyping, ghostVars
  <2>2. OthersTyping'
    BY <1>18, <1>types DEF EndNotifyError, OthersTyping, LoopInPlace, Loop, ghostVars
  <2>. QED  BY <2>1, <2>2, TypingPartsNext
<1>19. CASE CancelHandlerReturns
  <2>1. OthersTyping'
    BY <1>19, <1>types DEF CancelHandlerReturns, OthersTyping, LoopInPlace, Loop, ghostVars
  <2>. QED  BY <1>19, <1>lists, <2>1, TypingPartsNext DEF CancelHandlerReturns, ghostVars
<1>20. CASE EndUnregister
  <2>1. <<>> \in Seq(Commands)
    BY EmptySeq
  <2>2. ListsTyping'
    BY <1>20, <1>types, <2>1 DEF EndUnregister, ListsTyping, Inflights, Queues
  <2>3. loop.local \in Locals
    BY <1>20, <1>in, <1>fields DEF EndUnregister, LoopInPlace
  <2>4. \A k \in Keys : Queued(loop.local, k) \subseteq Commands
    BY <1>types, <2>3, RangeOfSeq DEF Queued, ListsTyping, Queues
  <2>5. Held(loop.local) \subseteq Commands
    BY <1>types, <2>3, <2>4 DEF Held, ListsTyping, Inflights
  <2>6. dropped' \in SUBSET Commands
    BY <1>20, <1>types, <2>5 DEF EndUnregister, OthersTyping
  <2>7. loop' \in Loop /\ LoopInPlace'
    BY <1>20 DEF EndUnregister, LoopInPlace, Loop, Idle
  <2>8. OthersTyping'
    BY <1>20, <1>types, <2>6, <2>7 DEF EndUnregister, OthersTyping
  <2>. QED  BY <2>2, <2>8, TypingPartsNext
<1>21. ASSUME NEW c \in Commands, TimerExpires(c) PROVE Typing'
  <2>1. OthersTyping'
    BY <1>21, <1>types DEF TimerExpires, OthersTyping, LoopInPlace, ghostVars
  <2>. QED  BY <1>21, <1>lists, <2>1, TypingPartsNext DEF TimerExpires, ghostVars
<1>22. ASSUME NEW l \in Locals, NEW k \in Keys, SendIntervalElapses(l, k) PROVE Typing'
  <2>1. ListsTyping'
    BY <1>22, <1>types DEF SendIntervalElapses, ListsTyping, ghostVars
  <2>2. OthersTyping'
    BY <1>22, <1>types DEF SendIntervalElapses, OthersTyping, LoopInPlace, ghostVars
  <2>. QED  BY <2>1, <2>2, TypingPartsNext
<1>23. CASE UNCHANGED vars
  BY <1>23, <1>types, TypingPartsNext
  DEF vars, codeVars, ghostVars, ListsTyping, OthersTyping, LoopInPlace
<1>. QED
  BY <1>1, <1>2, <1>3, <1>4, <1>5, <1>6, <1>7, <1>8, <1>9, <1>10, <1>11, <1>12, <1>13, <1>14,
     <1>15, <1>16, <1>17, <1>18, <1>19, <1>20, <1>21, <1>22, <1>23 DEF Next, LoopStep

\* Every variable keeps its type: sequence IDs stay in range as they wrap around, and
\* no interruption of a loop by a handler takes it out of its entities.
THEOREM TypeCorrect == Spec => []TypeOK
<1>1. Typing => TypeOK
  BY DEF Typing
<1>. QED  BY TypingInit, TypingNext, <1>1, PTL DEF Spec

-----------------------------------------------------------------------------
(* The window of commands in flight                                         *)

\* Sets of commands are finite, and removing commands from one makes it no larger.
LEMMA CommandSets ==
  ASSUME NEW S \in SUBSET Commands
  PROVE  /\ IsFiniteSet(S) /\ Cardinality(S) \in Nat
         /\ \A T \in SUBSET S : IsFiniteSet(T) /\ Cardinality(T) <= Cardinality(S)
         /\ \A c \in Commands : Cardinality(S \cup {c}) <= Cardinality(S) + 1
<1>1. IsFiniteSet(S) /\ Cardinality(S) \in Nat
  BY ConstantsAssumption, FS_Subset, FS_CardinalityType
<1>2. ASSUME NEW T \in SUBSET S PROVE IsFiniteSet(T) /\ Cardinality(T) <= Cardinality(S)
  BY <1>1, FS_Subset
<1>3. ASSUME NEW c \in Commands PROVE Cardinality(S \cup {c}) <= Cardinality(S) + 1
  <2>1. Cardinality(S \cup {c}) = IF c \in S THEN Cardinality(S) ELSE Cardinality(S) + 1
    BY <1>1, FS_AddElement, Zenon
  <2> DEFINE n == Cardinality(S)
  <2>2. n \in Nat
    BY <1>1
  <2> HIDE DEF n
  <2>. QED  BY <2>1, <2>2 DEF n
<1>. QED  BY <1>1, <1>2, <1>3

Bounded(inflight) ==
  \A l \in Locals, k \in Keys : Cardinality(inflight[l][k]) <= MaxInflight

\* CheckQueue adds one command, and only below the limit.
LEMMA CheckQueueBounded ==
  ASSUME ListsTyping, NEW l \in Locals, NEW k \in Keys, NEW inflight \in Inflights,
         NEW queued \in Queues, Bounded(inflight), CheckQueue(l, k, inflight, queued)
  PROVE  Bounded(inflightCommands')
<1>1. CASE inflightCommands' = inflight
  BY <1>1
<1>2. CASE CanSend(l, k, inflight, queued) /\ inflightCommands' # inflight
  <2> DEFINE c == Head(queued[l][k])
  <2>1. c \in Commands
    BY <1>2, HeadTailProperties DEF CanSend, Queues
  <2>2. inflightCommands' = [inflight EXCEPT ![l][k] = @ \cup {c}]
    BY <1>2 DEF CheckQueue, SetCommandInflight
  <2>3. inflight[l][k] \in SUBSET Commands
    BY DEF Inflights
  <2>4. Cardinality(inflight[l][k]) < MaxInflight
    BY <1>2 DEF CanSend
  <2>5. Cardinality(inflight[l][k] \cup {c}) <= MaxInflight
    <3>1. Cardinality(inflight[l][k]) \in Nat
      BY <2>3, CommandSets
    <3>2. Cardinality(inflight[l][k] \cup {c}) <= Cardinality(inflight[l][k]) + 1
      BY <2>1, <2>3, CommandSets
    <3>3. inflight[l][k] \cup {c} \in SUBSET Commands
      BY <2>1, <2>3
    <3>4. Cardinality(inflight[l][k] \cup {c}) \in Nat
      BY <3>3, CommandSets
    <3>. QED  BY <2>4, <3>1, <3>2, <3>4, ConstantsAssumption
  <2> HIDE DEF c
  <2>. QED  BY <2>2, <2>5 DEF Bounded, Inflights
<1>. QED  BY <1>1, <1>2 DEF CheckQueue

LEMMA RemoveInflightBounded ==
  ASSUME ListsTyping, Bounded(inflightCommands), NEW l \in Locals, NEW k \in Keys, NEW c,
         RemoveInflight(l, k, c)
  PROVE  Bounded(inflightCommands')
<1> DEFINE inflight == [inflightCommands EXCEPT ![l][k] = @ \ {c}]
<1>1. inflight \in Inflights /\ queuedCommands \in Queues
  BY DEF ListsTyping, Inflights
<1>2. inflightCommands[l][k] \in SUBSET Commands
  BY DEF ListsTyping, Inflights
<1>3. Cardinality(inflightCommands[l][k] \ {c}) <= MaxInflight
  <2>1. Cardinality(inflightCommands[l][k] \ {c}) <= Cardinality(inflightCommands[l][k])
    BY <1>2, CommandSets
  <2>2. inflightCommands[l][k] \ {c} \in SUBSET Commands
    BY <1>2
  <2>3. /\ Cardinality(inflightCommands[l][k] \ {c}) \in Nat
        /\ Cardinality(inflightCommands[l][k]) \in Nat
    BY <1>2, <2>2, CommandSets
  <2>. QED  BY <2>1, <2>3, ConstantsAssumption DEF Bounded
<1>4. Bounded(inflight)
  BY <1>3 DEF Bounded, ListsTyping, Inflights
<1> HIDE DEF inflight
<1>5. CheckQueue(l, k, inflight, queuedCommands)
  BY DEF RemoveInflight, inflight
<1>. QED  BY <1>1, <1>4, <1>5, CheckQueueBounded

LEMMA BoundedNext == Typing /\ InflightBounded /\ [Next]_vars => InflightBounded'
<1>. SUFFICES ASSUME Typing, InflightBounded, [Next]_vars PROVE InflightBounded'
  OBVIOUS
<1>types. ListsTyping /\ OthersTyping
  BY TypingParts
<1>bounded. Bounded(inflightCommands)
  BY DEF Bounded, InflightBounded
<1>goal. Bounded(inflightCommands') => InflightBounded'
  BY DEF Bounded, InflightBounded
<1>same. UNCHANGED inflightCommands => InflightBounded'
  BY DEF InflightBounded
<1>empty. Cardinality({}) <= MaxInflight
  BY FS_EmptySet, ConstantsAssumption
<1>1. ASSUME NEW c \in Commands, NEW l \in Locals, NEW k \in Keys, SendCommand(c, l, k)
      PROVE  InflightBounded'
  <2> DEFINE queued == [queuedCommands EXCEPT ![l][k] = Enqueue(@, c)]
  <2>1. Append(queuedCommands[l][k], c) \in Seq(Commands)
    BY <1>types, AppendProperties DEF ListsTyping, Queues
  <2>2. queued \in Queues /\ inflightCommands \in Inflights
    BY <1>types, <2>1 DEF ListsTyping, Queues, Enqueue
  <2>. QED  BY <1>1, <1>types, <1>bounded, <1>goal, <2>2, CheckQueueBounded DEF SendCommand
<1>2. ASSUME NEW f \in Commands, NEW c \in Commands, NEW s \in Senders, HandleResponse(f, c, s)
      PROVE  InflightBounded'
  <2>1. frame[f] \in Frame
    BY <1>2, <1>types DEF HandleResponse, Sent, Accepted, OthersTyping
  <2>. QED  BY <1>2, <1>types, <1>bounded, <1>goal, <2>1, RemoveInflightBounded
            DEF HandleResponse, Frame
<1>3. ASSUME NEW k \in AecpTargets, DiscardAECPCommandsTowardsEntity(k) PROVE InflightBounded'
  BY <1>3, <1>types, <1>empty
  DEF DiscardAECPCommandsTowardsEntity, InflightBounded, ListsTyping, Inflights
<1>4. CASE EndUnregister
  BY <1>4, <1>types, <1>empty DEF EndUnregister, InflightBounded, ListsTyping, Inflights
<1>in. /\ loop.local \in Locals \cup {None} /\ loop.key \in Keys \cup {None}
       /\ LoopInPlace
  BY <1>types DEF OthersTyping, Loop
<1>5. CASE EndKey
  <2>1. loop.local \in Locals /\ loop.key \in Keys
    BY <1>5, <1>in DEF EndKey, LoopInPlace
  <2>2. inflightCommands \in Inflights /\ queuedCommands \in Queues
    BY <1>types DEF ListsTyping
  <2>. QED  BY <1>5, <1>types, <1>bounded, <1>goal, <1>same, <2>1, <2>2, CheckQueueBounded
            DEF EndKey
<1>6. CASE RemoveLostCommand
  <2>1. loop.local \in Locals /\ loop.key \in Keys
    BY <1>6, <1>in DEF RemoveLostCommand, LoopInPlace
  <2>. QED  BY <1>6, <1>types, <1>bounded, <1>goal, <2>1, RemoveInflightBounded
            DEF RemoveLostCommand
<1>7. ASSUME NEW f \in Commands, NEW c \in Commands, HandleInProgress(f, c)
      PROVE  InflightBounded'
  BY <1>7, <1>same DEF HandleInProgress
<1>8. ASSUME NEW l \in Locals,
             RegisterLocalEntity(l) \/ UnregisterLocalEntity(l) \/ NextLocal(l)
      PROVE  InflightBounded'
  BY <1>8, <1>same DEF RegisterLocalEntity, UnregisterLocalEntity, NextLocal
<1>9. ASSUME NEW c \in Commands,
             RetryCommand(c) \/ TimeoutCommand(c) \/ NotifyError(c) \/ CancelCommand(c)
      PROVE  InflightBounded'
  BY <1>9, <1>same DEF RetryCommand, TimeoutCommand, NotifyError, CancelCommand
<1>10. ASSUME NEW k \in Keys, NextKey(k) PROVE InflightBounded'
  BY <1>10, <1>same DEF NextKey
<1>11. CASE BeginTimeoutCheck \/ NextStage \/ EndTimeoutCheck \/ EndNotifyError
              \/ CancelHandlerReturns
  BY <1>11, <1>same
  DEF BeginTimeoutCheck, NextStage, EndTimeoutCheck, EndNotifyError, CancelHandlerReturns
<1>12. ASSUME NEW c \in Commands, TimerExpires(c) PROVE InflightBounded'
  BY <1>12, <1>same DEF TimerExpires
<1>13. ASSUME NEW l \in Locals, NEW k \in Keys, SendIntervalElapses(l, k) PROVE InflightBounded'
  BY <1>13, <1>same DEF SendIntervalElapses
<1>14. CASE UNCHANGED vars
  BY <1>14, <1>same DEF vars, codeVars
<1>. QED
  BY <1>1, <1>2, <1>3, <1>4, <1>5, <1>6, <1>7, <1>8, <1>9, <1>10, <1>11, <1>12, <1>13, <1>14
  DEF Next, LoopStep

\* No destination ever has more than MaxInflight commands in flight, whatever
\* refills the window: responses, timeouts, new commands or the periodic check.
THEOREM WindowRespected == Spec => []InflightBounded
<1>1. Init => InflightBounded
  BY FS_EmptySet, ConstantsAssumption DEF Init, InflightBounded
<1>. QED  BY TypingInit, TypingNext, BoundedNext, <1>1, PTL DEF Spec

-----------------------------------------------------------------------------
(* The queues                                                               *)

\* CheckQueue fills no queue.
LEMMA CheckQueueFillsNone ==
  ASSUME NEW l \in Locals, NEW k \in Keys, NEW inflight, NEW queued \in Queues,
         CheckQueue(l, k, inflight, queued)
  PROVE  \A m \in Locals, d \in Keys :
           queuedCommands'[m][d] # <<>> => queued[m][d] # <<>>
<1>1. CASE queuedCommands' = queued
  BY <1>1
<1>2. CASE CanSend(l, k, inflight, queued)
            /\ queuedCommands' = [queued EXCEPT ![l][k] = Tail(@)]
  BY <1>2 DEF CanSend, Queues
<1>. QED  BY <1>1, <1>2 DEF CheckQueue

LEMMA ServedNext == Typing /\ QueuesAreServed /\ [Next]_vars => QueuesAreServed'
<1>. SUFFICES ASSUME Typing, QueuesAreServed, [Next]_vars PROVE QueuesAreServed'
  OBVIOUS
<1>types. ListsTyping /\ OthersTyping
  BY TypingParts
<1>queues. queuedCommands \in Queues /\ inflightKeys \in [Locals -> SUBSET Keys]
  BY <1>types DEF ListsTyping, OthersTyping
<1>check. ASSUME NEW l \in Locals, NEW k \in Keys, NEW inflight,
                 CheckQueue(l, k, inflight, queuedCommands),
                 UNCHANGED <<registered, inflightKeys>>
          PROVE  QueuesAreServed'
  BY <1>check, <1>queues, CheckQueueFillsNone DEF QueuesAreServed
<1>same. UNCHANGED <<registered, inflightKeys, queuedCommands>> => QueuesAreServed'
  BY DEF QueuesAreServed
<1>1. ASSUME NEW c \in Commands, NEW l \in Locals, NEW k \in Keys, SendCommand(c, l, k)
      PROVE  QueuesAreServed'
  <2> DEFINE queued == [queuedCommands EXCEPT ![l][k] = Enqueue(@, c)]
  <2>1. Append(queuedCommands[l][k], c) \in Seq(Commands)
    BY <1>queues, AppendProperties DEF Queues
  <2>2. queued \in Queues
    BY <1>queues, <2>1 DEF Queues, Enqueue
  <2>3. \A m \in Locals, d \in Keys :
          queued[m][d] # <<>> => queuedCommands[m][d] # <<>> \/ (m = l /\ d = k)
    BY <1>queues DEF Queues
  <2> HIDE DEF queued
  <2>4. CheckQueue(l, k, inflightCommands, queued)
    BY <1>1 DEF SendCommand, queued
  <2>5. \A m \in Locals, d \in Keys : queuedCommands'[m][d] # <<>> => queued[m][d] # <<>>
    BY <2>2, <2>4, CheckQueueFillsNone
  <2>6. /\ l \in registered /\ registered' = registered
        /\ inflightKeys' = [inflightKeys EXCEPT ![l] = @ \cup {k}]
    BY <1>1 DEF SendCommand
  <2>. QED  BY <1>queues, <2>3, <2>5, <2>6 DEF QueuesAreServed
<1>2. ASSUME NEW f \in Commands, NEW c \in Commands, NEW s \in Senders, HandleResponse(f, c, s)
      PROVE  QueuesAreServed'
  <2>1. frame[f] \in Frame
    BY <1>2, <1>types DEF HandleResponse, Sent, Accepted, OthersTyping
  <2>. QED  BY <1>2, <1>check, <2>1 DEF HandleResponse, RemoveInflight, Frame
<1>3. ASSUME NEW k \in AecpTargets, DiscardAECPCommandsTowardsEntity(k) PROVE QueuesAreServed'
  <2>1. ASSUME NEW l \in Locals, NEW d \in Keys, queuedCommands'[l][d] # <<>>
        PROVE  d # k /\ queuedCommands[l][d] # <<>>
    BY <1>3, <1>queues, <2>1 DEF DiscardAECPCommandsTowardsEntity, DiscardedQueues, Queues
  <2>. QED  BY <1>3, <1>queues, <2>1 DEF DiscardAECPCommandsTowardsEntity, QueuesAreServed
<1>4. CASE EndUnregister
  BY <1>4, <1>queues DEF EndUnregister, QueuesAreServed, Queues
<1>in. /\ loop.local \in Locals \cup {None} /\ loop.key \in Keys \cup {None}
       /\ LoopInPlace
  BY <1>types DEF OthersTyping, Loop
<1>5. CASE EndKey
  <2>1. loop.local \in Locals /\ loop.key \in Keys
    BY <1>5, <1>in DEF EndKey, LoopInPlace
  <2>. QED  BY <1>5, <1>check, <1>same, <2>1 DEF EndKey
<1>6. CASE RemoveLostCommand
  <2>1. loop.local \in Locals /\ loop.key \in Keys
    BY <1>6, <1>in DEF RemoveLostCommand, LoopInPlace
  <2>. QED  BY <1>6, <1>check, <2>1 DEF RemoveLostCommand, RemoveInflight
<1>7. ASSUME NEW f \in Commands, NEW c \in Commands, HandleInProgress(f, c)
      PROVE  QueuesAreServed'
  BY <1>7, <1>same DEF HandleInProgress
<1>8. ASSUME NEW l \in Locals, RegisterLocalEntity(l) PROVE QueuesAreServed'
  BY <1>8 DEF RegisterLocalEntity, QueuesAreServed
<1>9. ASSUME NEW l \in Locals, UnregisterLocalEntity(l) \/ NextLocal(l) PROVE QueuesAreServed'
  BY <1>9, <1>same DEF UnregisterLocalEntity, NextLocal
<1>10. ASSUME NEW c \in Commands,
              RetryCommand(c) \/ TimeoutCommand(c) \/ NotifyError(c) \/ CancelCommand(c)
       PROVE  QueuesAreServed'
  BY <1>10, <1>same DEF RetryCommand, TimeoutCommand, NotifyError, CancelCommand
<1>11. ASSUME NEW k \in Keys, NextKey(k) PROVE QueuesAreServed'
  BY <1>11, <1>same DEF NextKey
<1>12. CASE BeginTimeoutCheck \/ NextStage \/ EndTimeoutCheck \/ EndNotifyError
              \/ CancelHandlerReturns
  BY <1>12, <1>same
  DEF BeginTimeoutCheck, NextStage, EndTimeoutCheck, EndNotifyError, CancelHandlerReturns
<1>13. ASSUME NEW c \in Commands, TimerExpires(c) PROVE QueuesAreServed'
  BY <1>13, <1>same DEF TimerExpires
<1>14. ASSUME NEW l \in Locals, NEW k \in Keys, SendIntervalElapses(l, k) PROVE QueuesAreServed'
  BY <1>14, <1>same DEF SendIntervalElapses
<1>15. CASE UNCHANGED vars
  BY <1>15, <1>same DEF vars, codeVars
<1>. QED
  BY <1>1, <1>2, <1>3, <1>4, <1>5, <1>6, <1>7, <1>8, <1>9, <1>10, <1>11, <1>12, <1>13, <1>14,
     <1>15 DEF Next, LoopStep

\* A queue that is not empty belongs to a destination that the periodic check visits.
THEOREM QueuesAlwaysServed == Spec => []QueuesAreServed
<1>1. Init => QueuesAreServed
  BY DEF Init, QueuesAreServed
<1>. QED  BY TypingInit, TypingNext, ServedNext, <1>1, PTL DEF Spec
-----------------------------------------------------------------------------
(* Sequence IDs and the order of commands.  F is what the frames are, S the  *)
(* transmissions, before or after a step.                                    *)

Earlier(f, g) == f.era < g.era \/ (f.era = g.era /\ f.sequenceID < g.sequenceID)
At(F, c, l, k) == F[c] # None /\ F[c].local = l /\ F[c].key = k

\* The frame of a command comes before those that its local entity will send.
Numbered ==
  \A c \in Commands : Accepted(c) =>
    LET p == Protocol(frame[c].key) IN
    Earlier(frame[c], [era |-> era[frame[c].local][p],
                       sequenceID |-> currentSequenceID[frame[c].local][p]])

\* No two commands of a local entity have the same number in the same era.
Unique ==
  \A c, d \in Commands :
    /\ Accepted(c) /\ Accepted(d) /\ c # d
    /\ frame[c].local = frame[d].local /\ Protocol(frame[c].key) = Protocol(frame[d].key)
    => frame[c].era # frame[d].era \/ frame[c].sequenceID # frame[d].sequenceID

\* A command is in the lists of its own destination.
Placed(F, inflight, queued) ==
  \A l \in Locals, k \in Keys :
    /\ \A c \in inflight[l][k] : At(F, c, l, k)
    /\ \A i \in 1 .. Len(queued[l][k]) : At(F, queued[l][k][i], l, k)

\* A queue is in order, and after all that was sent to its destination.
Ordered(F, S, queued) ==
  \A l \in Locals, k \in Keys : \A i \in 1 .. Len(queued[l][k]) :
    /\ \A j \in 1 .. Len(queued[l][k]) : i < j => Earlier(F[queued[l][k][i]], F[queued[l][k][j]])
    /\ \A d \in Commands : S[d] > 0 /\ At(F, d, l, k) => Earlier(F[d], F[queued[l][k][i]])

\* What is in flight, or looked at by a loop, was sent; what was sent, was accepted.
SentIn(S, inflight) == \A l \in Locals, k \in Keys : \A c \in inflight[l][k] : S[c] > 0
LoopSent == \A c \in loop.commands : sends[c] > 0
SentAccepted == \A c \in Commands : sends[c] > 0 => Accepted(c)

\* An answer is taken for that of a command to the same destination.
Answers ==
  \A c \in Commands : answeredBy[c] # None =>
    /\ Accepted(c)
    /\ \/ answeredBy[c] = "talker" /\ frame[c].key \in AcmpTargets
       \/ answeredBy[c] \in Commands /\ Accepted(answeredBy[c])
          /\ (answeredBy[c] # c => frame[answeredBy[c]].era # frame[c].era)

Numbering ==
  /\ Numbered /\ Unique /\ Answers
  /\ Placed(frame, inflightCommands, queuedCommands)
  /\ Ordered(frame, sends, queuedCommands)
  /\ SentIn(sends, inflightCommands) /\ LoopSent /\ SentAccepted

LEMMA NumberingInit == Init => Numbering
<1>1. Len(<<>>) = 0
  OBVIOUS
<1>. QED  BY <1>1 DEF Init, Numbering, Numbered, Unique, Answers, Placed, Ordered, SentIn, LoopSent,
         SentAccepted, Accepted, Idle

LEMMA EarlierIsStrict ==
  ASSUME NEW f \in Frame, NEW g \in Frame, Earlier(f, g)
  PROVE  ~Earlier(g, f)
BY ConstantsAssumption DEF Earlier, Frame

\* CheckQueue takes the head of a queue, which it may send.
LEMMA CheckQueueSteps ==
  ASSUME ListsTyping, NEW l \in Locals, NEW k \in Keys,
         NEW inflight \in Inflights, NEW queued \in Queues,
         CheckQueue(l, k, inflight, queued)
  PROVE  \/ /\ queuedCommands' = queued /\ inflightCommands' = inflight
            /\ UNCHANGED <<sends, scheduledErrors>>
         \/ /\ queued[l][k] # <<>>
            /\ queuedCommands' = [queued EXCEPT ![l][k] = Tail(queued[l][k])]
            /\ Head(queued[l][k]) \in Commands
            /\ \/ /\ inflightCommands' = [inflight EXCEPT ![l][k] = @ \cup {Head(queued[l][k])}]
                  /\ sends' = [sends EXCEPT ![Head(queued[l][k])] = @ + 1]
                  /\ UNCHANGED scheduledErrors
               \/ /\ inflightCommands' = inflight /\ UNCHANGED sends
                  /\ scheduledErrors' = [scheduledErrors EXCEPT ![l] = @ \cup {Head(queued[l][k])}]
<1>1. CASE CanSend(l, k, inflight, queued)
  <2>1. queued[l][k] # <<>> /\ queued[l][k] \in Seq(Commands)
    BY <1>1 DEF CanSend, Queues
  <2>2. Head(queued[l][k]) \in Commands
    BY <2>1, HeadTailProperties
  <2>. QED  BY <1>1, <2>1, <2>2 DEF CheckQueue, SetCommandInflight
<1>. QED  BY <1>1 DEF CheckQueue

LEMMA QueueHeads ==
  ASSUME NEW q \in Seq(Commands), q # <<>>
  PROVE  /\ 1 \in 1 .. Len(q) /\ Head(q) = q[1]
         /\ Len(Tail(q)) \in Nat
         /\ \A i \in 1 .. Len(Tail(q)) : i + 1 \in 1 .. Len(q) /\ Tail(q)[i] = q[i + 1]
BY HeadTailProperties, EmptySeq, LenProperties

LEMMA CheckQueueNumbering ==
  ASSUME ListsTyping, NEW l \in Locals, NEW k \in Keys,
         NEW inflight \in Inflights, NEW queued \in Queues, NEW F,
         Placed(F, inflight, queued), Ordered(F, sends, queued), SentIn(sends, inflight),
         CheckQueue(l, k, inflight, queued)
  PROVE  /\ Placed(F, inflightCommands', queuedCommands')
         /\ Ordered(F, sends', queuedCommands')
         /\ SentIn(sends', inflightCommands')
         /\ \A c \in Commands : sends[c] > 0 => sends'[c] > 0
         /\ \A c \in Commands : sends'[c] > 0 => sends[c] > 0 \/ \E i \in 1 .. Len(queued[l][k]) : c = queued[l][k][i]
<1> DEFINE q == queued[l][k]
           h == Head(q)
<1>types. sends \in [Commands -> Nat]
  BY DEF ListsTyping
<1>1. CASE queuedCommands' = queued /\ inflightCommands' = inflight /\ UNCHANGED sends
  BY <1>1
<1>2. CASE /\ q # <<>> /\ queuedCommands' = [queued EXCEPT ![l][k] = Tail(q)] /\ h \in Commands
           /\ \/ /\ inflightCommands' = [inflight EXCEPT ![l][k] = @ \cup {h}]
                 /\ sends' = [sends EXCEPT ![h] = @ + 1]
              \/ inflightCommands' = inflight /\ UNCHANGED sends
  <2>1. q \in Seq(Commands)
    BY DEF Queues
  <2>2. /\ 1 \in 1 .. Len(q) /\ h = q[1]
        /\ \A i \in 1 .. Len(Tail(q)) : i + 1 \in 1 .. Len(q) /\ Tail(q)[i] = q[i + 1]
    BY <1>2, <2>1, QueueHeads
  <2>3. /\ queuedCommands'[l][k] = Tail(q)
        /\ \A m \in Locals, d \in Keys : <<m, d>> # <<l, k>> => queuedCommands'[m][d] = queued[m][d]
    BY <1>2 DEF Queues
  <2>4. /\ \A c \in Commands : sends[c] > 0 => sends'[c] > 0
        /\ \A c \in Commands : sends'[c] > 0 => sends[c] > 0 \/ c = h
        /\ \A m \in Locals, d \in Keys : \A c \in inflightCommands'[m][d] :
             c \in inflight[m][d] \/ (m = l /\ d = k /\ c = h /\ sends'[h] > 0)
    <3>0. \A n \in Nat : n + 1 > 0
      OBVIOUS
    <3>1. CASE inflightCommands' = inflight /\ UNCHANGED sends
      BY <3>1
    <3>2. CASE /\ inflightCommands' = [inflight EXCEPT ![l][k] = @ \cup {h}]
               /\ sends' = [sends EXCEPT ![h] = @ + 1]
      <4>1. sends'[h] = sends[h] + 1 /\ \A c \in Commands : c # h => sends'[c] = sends[c]
        BY <1>2, <1>types, <3>2
      <4>2. sends'[h] > 0
        BY <1>2, <1>types, <3>0, <4>1
      <4>3. \A m \in Locals, d \in Keys : \A c \in inflightCommands'[m][d] :
             c \in inflight[m][d] \/ (m = l /\ d = k /\ c = h)
        BY <3>2 DEF Inflights
      <4>. QED  BY <4>1, <4>2, <4>3
    <3>. QED  BY <1>2, <3>1, <3>2
  <2>5. At(F, h, l, k)
    BY <2>2 DEF Placed
  <2>6. \A m \in Locals, d \in Keys : inflight[m][d] \subseteq Commands
    BY DEF Inflights
  <2>7. Placed(F, inflightCommands', queuedCommands')
    <3>1. ASSUME NEW m \in Locals, NEW d \in Keys, NEW i \in 1 .. Len(queuedCommands'[m][d])
          PROVE  At(F, queuedCommands'[m][d][i], m, d)
      <4>1. CASE <<m, d>> # <<l, k>>
        <5>1. queuedCommands'[m][d] = queued[m][d]
          BY <2>3, <4>1
        <5>. QED  BY <5>1 DEF Placed
      <4>2. CASE m = l /\ d = k
        <5>1. queuedCommands'[m][d] = Tail(q)
          BY <2>3, <4>2
        <5>2. queuedCommands'[m][d][i] = q[i + 1] /\ i + 1 \in 1 .. Len(q)
          BY <2>2, <5>1
        <5>. QED  BY <4>2, <5>2 DEF Placed
      <4>. QED  BY <4>1, <4>2
    <3>2. ASSUME NEW m \in Locals, NEW d \in Keys, NEW c \in inflightCommands'[m][d]
          PROVE  At(F, c, m, d)
      BY <2>4, <2>5 DEF Placed
    <3>. QED  BY <3>1, <3>2 DEF Placed
  <2>8. SentIn(sends', inflightCommands')
    BY <2>4, <2>6 DEF SentIn
  <2>9. Ordered(F, sends', queuedCommands')
    <3>0. \A i \in 1 .. Len(Tail(q)) : i \in Int /\ 1 < i + 1
      OBVIOUS
    <3>00. \A i, j \in 1 .. Len(Tail(q)) : i < j => i + 1 < j + 1
      OBVIOUS
    <3>1. ASSUME NEW m \in Locals, NEW d \in Keys, NEW i \in 1 .. Len(queuedCommands'[m][d]),
                 NEW j \in 1 .. Len(queuedCommands'[m][d]), i < j
          PROVE  Earlier(F[queuedCommands'[m][d][i]], F[queuedCommands'[m][d][j]])
      <4>1. CASE <<m, d>> # <<l, k>>
        <5>1. queuedCommands'[m][d] = queued[m][d]
          BY <2>3, <4>1
        <5>. QED  BY <3>1, <5>1 DEF Ordered
      <4>2. CASE m = l /\ d = k
        <5>1. queuedCommands'[m][d] = Tail(q)
          BY <2>3, <4>2
        <5>2. /\ queuedCommands'[m][d][i] = q[i + 1] /\ i + 1 \in 1 .. Len(q)
              /\ queuedCommands'[m][d][j] = q[j + 1] /\ j + 1 \in 1 .. Len(q)
              /\ i + 1 < j + 1
          BY <2>2, <3>00, <3>1, <5>1
        <5>. QED  BY <4>2, <5>2 DEF Ordered
      <4>. QED  BY <4>1, <4>2
    <3>2. ASSUME NEW m \in Locals, NEW d \in Keys, NEW i \in 1 .. Len(queuedCommands'[m][d]),
                 NEW c \in Commands, sends'[c] > 0, At(F, c, m, d)
          PROVE  Earlier(F[c], F[queuedCommands'[m][d][i]])
      <4>1. CASE sends[c] > 0
        <5>1. CASE <<m, d>> # <<l, k>>
          <6>1. queuedCommands'[m][d] = queued[m][d]
            BY <2>3, <5>1
          <6>. QED  BY <3>2, <4>1, <6>1 DEF Ordered
        <5>2. CASE m = l /\ d = k
          <6>1. queuedCommands'[m][d] = Tail(q)
            BY <2>3, <5>2
          <6>2. queuedCommands'[m][d][i] = q[i + 1] /\ i + 1 \in 1 .. Len(q)
            BY <2>2, <6>1
          <6>. QED  BY <3>2, <4>1, <5>2, <6>2 DEF Ordered
        <5>. QED  BY <5>1, <5>2
      <4>2. CASE c = h
        <5>1. m = l /\ d = k
          BY <2>5, <3>2, <4>2 DEF At
        <5>2. queuedCommands'[m][d] = Tail(q)
          BY <2>3, <5>1
        <5>3. queuedCommands'[m][d][i] = q[i + 1] /\ i + 1 \in 1 .. Len(q) /\ 1 < i + 1
          BY <2>2, <3>0, <5>2
        <5>4. \A b \in 1 .. Len(q) : 1 < b => Earlier(F[q[1]], F[q[b]])
          BY <2>2 DEF Ordered
        <5>. QED  BY <2>2, <4>2, <5>3, <5>4
      <4>. QED  BY <2>4, <3>2, <4>1, <4>2
    <3>. QED  BY <3>1, <3>2 DEF Ordered
  <2>. QED  BY <2>2, <2>4, <2>7, <2>8, <2>9
<1>. QED  BY <1>1, <1>2, CheckQueueSteps

\* Numbering but for the answers.
Lists ==
  /\ Numbered /\ Unique
  /\ Placed(frame, inflightCommands, queuedCommands)
  /\ Ordered(frame, sends, queuedCommands)
  /\ SentIn(sends, inflightCommands) /\ LoopSent /\ SentAccepted

\* Steps that only move a loop.
LEMMA LoopMovesNumbering ==
  ASSUME Typing, Lists,
         UNCHANGED <<frame, inflightCommands, queuedCommands, sends, era, currentSequenceID>>,
         \A c \in loop'.commands :
           c \in loop.commands \/ \E l \in Locals, k \in Keys : c \in inflightCommands[l][k]
  PROVE  Lists'
<1>1. LoopSent'
  BY DEF Lists, LoopSent, SentIn
<1>. QED  BY <1>1 DEF Lists, Numbered, Unique, Placed, Ordered, SentIn, SentAccepted, Accepted

\* Steps that remove commands.
LEMMA RemovalNumbering ==
  ASSUME Typing, Lists, ListsTyping',
         UNCHANGED <<frame, sends, era, currentSequenceID>>,
         loop'.commands \subseteq loop.commands,
         \A l \in Locals, k \in Keys :
           /\ inflightCommands'[l][k] \subseteq inflightCommands[l][k]
           /\ queuedCommands'[l][k] = queuedCommands[l][k] \/ queuedCommands'[l][k] = <<>>
  PROVE  Lists'
<1>1. \A i : i \notin 1 .. Len(<<>>)
  OBVIOUS
<1>2. Placed(frame, inflightCommands, queuedCommands)'
  BY <1>1 DEF Lists, Placed, At
<1>3. Ordered(frame, sends, queuedCommands)'
  BY <1>1 DEF Lists, Ordered, At
<1>4. SentIn(sends, inflightCommands)' /\ LoopSent' /\ SentAccepted'
  BY DEF Lists, SentIn, LoopSent, SentAccepted, Accepted
<1>5. Numbered' /\ Unique'
  BY DEF Lists, Numbered, Unique, Accepted
<1>. QED  BY <1>2, <1>3, <1>4, <1>5 DEF Lists

\* Steps that give a queue a chance, after they removed commands.
LEMMA ServingNumbering ==
  ASSUME Typing, Lists, NEW l \in Locals, NEW k \in Keys, NEW inflight \in Inflights,
         \A m \in Locals, d \in Keys : inflight[m][d] \subseteq inflightCommands[m][d],
         CheckQueue(l, k, inflight, queuedCommands),
         UNCHANGED <<frame, era, currentSequenceID>>,
         loop'.commands \subseteq loop.commands
  PROVE  Lists'
<1>1. ListsTyping /\ loop.commands \subseteq Commands
  BY TypingParts DEF OthersTyping, Loop
<1>2. queuedCommands \in Queues
  BY <1>1 DEF ListsTyping
<1>3. Placed(frame, inflight, queuedCommands) /\ SentIn(sends, inflight)
  BY DEF Lists, Placed, SentIn
<1>4. Ordered(frame, sends, queuedCommands)
  BY DEF Lists
<1>5. /\ Placed(frame, inflightCommands', queuedCommands')
      /\ Ordered(frame, sends', queuedCommands')
      /\ SentIn(sends', inflightCommands')
      /\ \A c \in Commands : sends[c] > 0 => sends'[c] > 0
      /\ \A c \in Commands : sends'[c] > 0 =>
           sends[c] > 0 \/ \E i \in 1 .. Len(queuedCommands[l][k]) : c = queuedCommands[l][k][i]
  BY <1>1, <1>2, <1>3, <1>4, CheckQueueNumbering
<1>6. SentAccepted'
  BY <1>3, <1>5 DEF Lists, SentAccepted, Accepted, Placed, At
<1>7. LoopSent'
  BY <1>1, <1>5 DEF Lists, LoopSent
<1>8. Numbered' /\ Unique'
  BY DEF Lists, Numbered, Unique, Accepted
<1>9. frame' = frame
  OBVIOUS
<1>. QED  BY <1>5, <1>6, <1>7, <1>8, <1>9 DEF Lists

\* The number given to a command is followed by a later one.
LEMMA CountersAdvance ==
  ASSUME Typing, NEW l \in Locals, NEW p \in Protocols, NextSequenceID(l, p)
  PROVE  /\ Earlier([era |-> era[l][p], sequenceID |-> currentSequenceID[l][p]],
                    [era |-> era'[l][p], sequenceID |-> currentSequenceID'[l][p]])
         /\ \A m \in Locals, o \in Protocols : m # l \/ o # p =>
              era'[m][o] = era[m][o] /\ currentSequenceID'[m][o] = currentSequenceID[m][o]
<1> DEFINE next == (currentSequenceID[l][p] + 1) % SeqMod
<1>1. /\ currentSequenceID \in [Locals -> [Protocols -> 0 .. SeqMod - 1]]
      /\ era \in [Locals -> [Protocols -> 0 .. MaxEra]]
  BY DEF Typing, TypeOK
<1>2. currentSequenceID' = [currentSequenceID EXCEPT ![l][p] = next]
  BY DEF NextSequenceID
<1>3. next = 0 \/ next > currentSequenceID[l][p]
  <2>1. currentSequenceID[l][p] \in 0 .. SeqMod - 1
    BY <1>1
  <2>2. ASSUME NEW n \in 0 .. SeqMod - 1
        PROVE  (n + 1) % SeqMod = 0 \/ (n + 1) % SeqMod > n
    BY ConstantsAssumption
  <2>. QED  BY <2>1, <2>2
<1>4. \/ next = 0 /\ era' = [era EXCEPT ![l][p] = @ + 1]
      \/ next # 0 /\ era' = era
  BY DEF NextSequenceID
<1> HIDE DEF next
<1>5. currentSequenceID'[l][p] = next
  BY <1>1, <1>2
<1>6. /\ next = 0 => era'[l][p] = era[l][p] + 1
      /\ next # 0 => era'[l][p] = era[l][p]
  BY <1>1, <1>4
<1>7. era[l][p] \in Int /\ currentSequenceID[l][p] \in Int
  BY <1>1, ConstantsAssumption
<1>8. Earlier([era |-> era[l][p], sequenceID |-> currentSequenceID[l][p]],
              [era |-> era'[l][p], sequenceID |-> currentSequenceID'[l][p]])
  BY <1>3, <1>5, <1>6, <1>7 DEF Earlier
<1>9. ASSUME NEW m \in Locals, NEW o \in Protocols, m # l \/ o # p
      PROVE  era'[m][o] = era[m][o] /\ currentSequenceID'[m][o] = currentSequenceID[m][o]
  BY <1>1, <1>2, <1>4, <1>9
<1>. QED  BY <1>8, <1>9

\* A command that is sent gets a number of its own, the last one, and its place at
\* the end of the queue of its destination.
LEMMA SendCommandNumbering ==
  ASSUME Typing, Typing', Lists, NEW c \in Commands, NEW l \in Locals, NEW k \in Keys,
         SendCommand(c, l, k)
  PROVE  Lists'
<1> DEFINE p == Protocol(k)
           header == [local |-> l, key |-> k, sequenceID |-> currentSequenceID[l][p],
                      era |-> era[l][p]]
           q == queuedCommands[l][k]
           queued == [queuedCommands EXCEPT ![l][k] = Append(q, c)]
<1>types. /\ ListsTyping /\ OthersTyping /\ queuedCommands \in Queues
          /\ inflightCommands \in Inflights /\ loop.commands \subseteq Commands
          /\ frame \in [Commands -> Frame \cup {None}] /\ p \in Protocols
  BY TypingParts DEF ListsTyping, OthersTyping, Loop, Protocol, Protocols
<1>1. header \in Frame /\ header # None
  BY <1>types, NoneIsNoFrame DEF OthersTyping, Frame
<1>2. /\ frame[c] = None
      /\ frame' = [frame EXCEPT ![c] = header]
      /\ NextSequenceID(l, p)
      /\ CheckQueue(l, k, inflightCommands, queued)
      /\ LoopAfterSend(l, k, c)
  BY DEF SendCommand, Accepted, Enqueue
<1>3. q \in Seq(Commands)
  BY <1>types DEF Queues
<1>4. /\ Append(q, c) \in Seq(Commands) /\ Len(q) \in Nat
      /\ \A i \in 1 .. Len(Append(q, c)) :
           \/ i \in 1 .. Len(q) /\ Append(q, c)[i] = q[i]
           \/ i = Len(q) + 1 /\ Append(q, c)[i] = c
  BY <1>3, AppendProperties, LenProperties
<1>5. queued \in Queues /\ queued[l][k] = Append(q, c)
      /\ \A m \in Locals, d \in Keys : <<m, d>> # <<l, k>> => queued[m][d] = queuedCommands[m][d]
  BY <1>types, <1>4 DEF Queues
<1>6. /\ frame'[c] = header
      /\ \A d \in Commands : d # c => frame'[d] = frame[d]
      /\ \A d \in Commands : frame[d] # None => frame'[d] = frame[d]
  BY <1>types, <1>2
<1>elements. \A m \in Locals, d \in Keys :
               /\ inflightCommands[m][d] \subseteq Commands
               /\ \A i \in 1 .. Len(queuedCommands[m][d]) : queuedCommands[m][d][i] \in Commands
  BY <1>types, ElementOfSeq DEF Inflights, Queues
<1> HIDE DEF header, queued
<1>at. \A d \in Commands, m \in Locals, e \in Keys : At(frame, d, m, e) => At(frame', d, m, e)
  BY <1>6 DEF At
<1>headAt. At(frame', c, l, k)
  BY <1>1, <1>6 DEF At, header
<1>last. ASSUME NEW d \in Commands, At(frame, d, l, k)
         PROVE  Earlier(frame[d], header)
  BY <1>last DEF Lists, Numbered, Accepted, At, Earlier, header
<1>7. Placed(frame', inflightCommands, queued)
  <2>1. ASSUME NEW m \in Locals, NEW d \in Keys, NEW i \in 1 .. Len(queued[m][d])
        PROVE  At(frame', queued[m][d][i], m, d)
    <3>1. CASE <<m, d>> # <<l, k>>
      <4>1. queued[m][d] = queuedCommands[m][d]
        BY <1>5, <3>1
      <4>. QED  BY <4>1, <1>elements, <1>at DEF Lists, Placed
    <3>2. CASE m = l /\ d = k
      <4>1. \A j \in 1 .. Len(q) : At(frame', q[j], l, k)
        BY <1>elements, <1>at DEF Lists, Placed
      <4>. QED  BY <4>1, <3>2, <1>4, <1>5, <1>headAt
    <3>. QED  BY <3>1, <3>2
  <2>2. ASSUME NEW m \in Locals, NEW d \in Keys, NEW e \in inflightCommands[m][d]
        PROVE  At(frame', e, m, d)
    BY <1>elements, <1>at DEF Lists, Placed
  <2>. QED  BY <2>1, <2>2 DEF Placed
<1>sent. \A d \in Commands : sends[d] > 0 => frame[d] # None /\ frame'[d] = frame[d]
  BY <1>6 DEF Lists, SentAccepted, Accepted
<1>8. Ordered(frame', sends, queued)
  <2>old. \A m \in Locals, d \in Keys : \A i \in 1 .. Len(queuedCommands[m][d]) :
            frame'[queuedCommands[m][d][i]] = frame[queuedCommands[m][d][i]]
    BY <1>elements, <1>6 DEF Lists, Placed, At
  <2>1. ASSUME NEW m \in Locals, NEW d \in Keys, NEW i \in 1 .. Len(queued[m][d]),
               NEW j \in 1 .. Len(queued[m][d]), i < j
        PROVE  Earlier(frame'[queued[m][d][i]], frame'[queued[m][d][j]])
    <3>1. CASE <<m, d>> # <<l, k>>
      <4>1. queued[m][d] = queuedCommands[m][d]
        BY <1>5, <3>1
      <4>. QED  BY <4>1, <2>1, <2>old DEF Lists, Ordered
    <3>2. CASE m = l /\ d = k
      <4>1. i \in 1 .. Len(q) /\ queued[m][d][i] = q[i]
        BY <1>4, <1>5, <2>1, <3>2
      <4>2. CASE j \in 1 .. Len(q) /\ queued[m][d][j] = q[j]
        BY <4>1, <4>2, <2>1, <2>old, <3>2 DEF Lists, Ordered
      <4>3. CASE queued[m][d][j] = c
        <5>1. q[i] \in Commands /\ At(frame, q[i], l, k) /\ frame'[q[i]] = frame[q[i]]
          BY <1>elements, <4>1, <2>old, <3>2 DEF Lists, Placed
        <5>. QED  BY <1>6, <1>last, <4>1, <4>3, <5>1
      <4>. QED  BY <1>4, <1>5, <3>2, <4>2, <4>3
    <3>. QED  BY <3>1, <3>2
  <2>2. ASSUME NEW m \in Locals, NEW d \in Keys, NEW i \in 1 .. Len(queued[m][d]),
               NEW e \in Commands, sends[e] > 0, At(frame', e, m, d)
        PROVE  Earlier(frame'[e], frame'[queued[m][d][i]])
    <3>0. frame'[e] = frame[e] /\ At(frame, e, m, d)
      BY <1>sent, <2>2 DEF At
    <3>1. CASE i \in 1 .. Len(queuedCommands[m][d]) /\ queued[m][d][i] = queuedCommands[m][d][i]
      BY <3>0, <3>1, <2>2, <2>old DEF Lists, Ordered
    <3>2. CASE m = l /\ d = k /\ queued[m][d][i] = c
      BY <1>6, <1>last, <3>0, <3>2
    <3>3. CASE <<m, d>> # <<l, k>>
      <4>1. queued[m][d] = queuedCommands[m][d]
        BY <1>5, <3>3
      <4>. QED  BY <3>1, <4>1
    <3>4. CASE m = l /\ d = k
      BY <1>4, <1>5, <3>1, <3>2, <3>4
    <3>. QED  BY <3>3, <3>4
  <2>. QED  BY <2>1, <2>2 DEF Ordered
<1>9. SentIn(sends, inflightCommands)
  BY DEF Lists
<1>10. /\ Placed(frame', inflightCommands', queuedCommands')
       /\ Ordered(frame', sends', queuedCommands')
       /\ SentIn(sends', inflightCommands')
       /\ \A d \in Commands : sends[d] > 0 => sends'[d] > 0
       /\ \A d \in Commands : sends'[d] > 0 =>
            sends[d] > 0 \/ \E i \in 1 .. Len(queued[l][k]) : d = queued[l][k][i]
  <2> DEFINE F == frame'
  <2>1. Placed(F, inflightCommands, queued) /\ Ordered(F, sends, queued)
    BY <1>7, <1>8
  <2> HIDE DEF F
  <2>2. /\ Placed(F, inflightCommands', queuedCommands')
        /\ Ordered(F, sends', queuedCommands')
        /\ SentIn(sends', inflightCommands')
        /\ \A d \in Commands : sends[d] > 0 => sends'[d] > 0
        /\ \A d \in Commands : sends'[d] > 0 =>
             sends[d] > 0 \/ \E i \in 1 .. Len(queued[l][k]) : d = queued[l][k][i]
    BY <1>types, <1>2, <1>5, <1>9, <2>1, CheckQueueNumbering
  <2>. QED  BY <2>2 DEF F
<1>11. SentAccepted'
  BY <1>7, <1>10, <1>sent DEF SentAccepted, Accepted, Placed, At
<1>12. LoopSent'
  <2>1. loop'.commands \subseteq loop.commands \cup inflightCommands'[l][k]
    <3>1. \/ loop' = loop
          \/ \E left : loop' = [loop EXCEPT !.keys = left]
          \/ loop' = [loop EXCEPT !.commands =
                        @ \cup (inflightCommands'[l][k] \ inflightCommands[l][k])]
      BY <1>2 DEF LoopAfterSend
    <3>2. loop \in Loop
      BY <1>types DEF OthersTyping
    <3>3. ASSUME NEW left, loop' = [loop EXCEPT !.keys = left]
          PROVE  loop'.commands = loop.commands
      BY <3>2, <3>3 DEF Loop
    <3>4. ASSUME NEW more, loop' = [loop EXCEPT !.commands = @ \cup more]
          PROVE  loop'.commands = loop.commands \cup more
      BY <3>2, <3>4 DEF Loop
    <3>. QED  BY <3>1, <3>3, <3>4
  <2>. QED  BY <1>types, <1>10, <2>1 DEF Lists, LoopSent, SentIn
<1>13. Unique'
  <2>1. ASSUME NEW d \in Commands, d # c, frame[d] # None, frame[d].local = l,
               Protocol(frame[d].key) = p
        PROVE  frame[d].era # header.era \/ frame[d].sequenceID # header.sequenceID
    <3>1. Earlier(frame[d], header)
      BY <2>1 DEF Lists, Numbered, Accepted, Earlier, header
    <3>2. frame[d] \in Frame
      BY <1>types, <2>1
    <3>. QED  BY <1>1, <3>1, <3>2, ConstantsAssumption DEF Earlier, Frame
  <2>2. header.local = l /\ Protocol(header.key) = p
    BY DEF header
  <2>3. \A d \in Commands : d # c => (frame'[d] # None <=> frame[d] # None)
    BY <1>6
  <2>. QED  BY <1>6, <2>1, <2>2, <2>3 DEF Lists, Unique, Accepted
<1>14. Numbered'
  <2>1. /\ Earlier([era |-> era[l][p], sequenceID |-> currentSequenceID[l][p]],
                   [era |-> era'[l][p], sequenceID |-> currentSequenceID'[l][p]])
        /\ \A m \in Locals, o \in Protocols : m # l \/ o # p =>
             era'[m][o] = era[m][o] /\ currentSequenceID'[m][o] = currentSequenceID[m][o]
    BY <1>2, <1>types, CountersAdvance
  <2>2. ASSUME NEW d \in Commands, frame'[d] # None
        PROVE  Earlier(frame'[d], [era |-> era'[frame'[d].local][Protocol(frame'[d].key)],
                 sequenceID |-> currentSequenceID'[frame'[d].local][Protocol(frame'[d].key)]])
    <3>1. CASE d = c
      BY <1>6, <2>1, <3>1 DEF header, Earlier
    <3>2. CASE d # c
      <4> DEFINE m == frame[d].local
                 o == Protocol(frame[d].key)
      <4>1. frame'[d] = frame[d] /\ frame[d] \in Frame /\ m \in Locals /\ o \in Protocols
        BY <1>types, <1>6, <2>2, <3>2 DEF Frame, Protocol, Protocols
      <4>2. Earlier(frame[d], [era |-> era[m][o], sequenceID |-> currentSequenceID[m][o]])
        BY <2>2, <4>1 DEF Lists, Numbered, Accepted
      <4>3. /\ era[m][o] \in Int /\ currentSequenceID[m][o] \in Int
            /\ era'[m][o] \in Int /\ currentSequenceID'[m][o] \in Int
            /\ frame[d].era \in Int /\ frame[d].sequenceID \in Int
        <5>1. /\ currentSequenceID \in [Locals -> [Protocols -> 0 .. SeqMod - 1]]
              /\ era \in [Locals -> [Protocols -> 0 .. MaxEra]]
              /\ currentSequenceID' \in [Locals -> [Protocols -> 0 .. SeqMod - 1]]
              /\ era' \in [Locals -> [Protocols -> 0 .. MaxEra]]
          BY DEF Typing, TypeOK
        <5>. QED  BY <4>1, <5>1, ConstantsAssumption DEF Frame
      <4>4. Earlier(frame[d], [era |-> era'[m][o], sequenceID |-> currentSequenceID'[m][o]])
        BY <2>1, <4>1, <4>2, <4>3 DEF Earlier
      <4>. QED  BY <4>1, <4>4
    <3>. QED  BY <3>1, <3>2
  <2>. QED  BY <2>2 DEF Numbered, Accepted
<1>. QED  BY <1>10, <1>11, <1>12, <1>13, <1>14 DEF Lists

LEMMA ListsNext == Typing /\ Typing' /\ Lists /\ [Next]_vars => Lists'
<1>. SUFFICES ASSUME Typing, Typing', Lists, [Next]_vars PROVE Lists'
  OBVIOUS
<1>types. ListsTyping /\ OthersTyping
  BY TypingParts
<1>later. ListsTyping'
  BY DEF Typing, TypeOK, ListsTyping, Inflights, Queues
<1>in. /\ loop \in Loop /\ LoopInPlace
       /\ loop.local \in Locals \cup {None} /\ loop.key \in Keys \cup {None}
  BY <1>types DEF OthersTyping, Loop
<1>same. UNCHANGED <<frame, inflightCommands, queuedCommands, sends, era, currentSequenceID>>
           /\ loop'.commands \subseteq loop.commands => Lists'
  BY LoopMovesNumbering
<1>1. ASSUME NEW c \in Commands, NEW l \in Locals, NEW k \in Keys, SendCommand(c, l, k)
      PROVE  Lists'
  BY <1>1, SendCommandNumbering
<1>less. ASSUME NEW l \in Locals, NEW k \in Keys, NEW c
         PROVE  /\ [inflightCommands EXCEPT ![l][k] = @ \ {c}] \in Inflights
                /\ \A m \in Locals, d \in Keys :
                     [inflightCommands EXCEPT ![l][k] = @ \ {c}][m][d] \subseteq inflightCommands[m][d]
  BY <1>types DEF ListsTyping, Inflights
<1>remove. ASSUME NEW l \in Locals, NEW k \in Keys, NEW c, RemoveInflight(l, k, c),
                  UNCHANGED <<frame, era, currentSequenceID>>,
                  loop'.commands \subseteq loop.commands
           PROVE  Lists'
  BY <1>less, <1>remove, ServingNumbering DEF RemoveInflight
<1>2. ASSUME NEW f \in Commands, NEW c \in Commands, NEW s \in Senders, HandleResponse(f, c, s)
      PROVE  Lists'
  <2>1. frame[f] \in Frame
    BY <1>2, <1>types DEF HandleResponse, Sent, Accepted, OthersTyping
  <2>2. frame[f].local \in Locals /\ frame[f].key \in Keys
    BY <2>1 DEF Frame
  <2>3. /\ RemoveInflight(frame[f].local, frame[f].key, c)
        /\ UNCHANGED <<frame, era, currentSequenceID, loop>>
    BY <1>2 DEF HandleResponse
  <2>. QED  BY <1>remove, <2>2, <2>3
<1>3. ASSUME NEW f \in Commands, NEW c \in Commands, HandleInProgress(f, c) PROVE Lists'
  BY <1>3, <1>same DEF HandleInProgress
<1>4. ASSUME NEW l \in Locals, RegisterLocalEntity(l) PROVE Lists'
  <2>1. Numbered'
    <3>1. ASSUME NEW c \in Commands, Accepted(c)
          PROVE  Earlier(frame[c], [era |-> era'[frame[c].local][Protocol(frame[c].key)],
                   sequenceID |-> currentSequenceID'[frame[c].local][Protocol(frame[c].key)]])
      <4> DEFINE m == frame[c].local
                 o == Protocol(frame[c].key)
      <4>1. frame[c] \in Frame /\ m \in Locals /\ o \in Protocols
        BY <3>1, <1>types DEF OthersTyping, Accepted, Frame, Protocol, Protocols
      <4>2. Earlier(frame[c], [era |-> era[m][o], sequenceID |-> currentSequenceID[m][o]])
        BY <3>1 DEF Lists, Numbered
      <4>3. era[m][o] \in Int /\ frame[c].era \in Int
        BY <4>1, <1>types, ConstantsAssumption DEF OthersTyping, Frame
      <4>4. \/ era'[m][o] = era[m][o] /\ currentSequenceID'[m][o] = currentSequenceID[m][o]
            \/ era'[m][o] = era[m][o] + 1
        BY <4>1, <1>4, <1>types DEF RegisterLocalEntity, OthersTyping
      <4>. QED  BY <4>2, <4>3, <4>4 DEF Earlier
    <3>. QED  BY <1>4, <3>1 DEF Numbered, RegisterLocalEntity, Accepted
  <2>2. UNCHANGED <<frame, inflightCommands, queuedCommands, sends, loop>>
    BY <1>4 DEF RegisterLocalEntity
  <2>. QED
    BY <2>1, <2>2 DEF Lists, Unique, Placed, Ordered, SentIn, LoopSent, SentAccepted, Accepted
<1>5. ASSUME NEW l \in Locals, UnregisterLocalEntity(l) \/ NextLocal(l) PROVE Lists'
  BY <1>5, <1>in, <1>same DEF UnregisterLocalEntity, NextLocal, Loop, Idle, ghostVars
<1>6. ASSUME NEW k \in AecpTargets, DiscardAECPCommandsTowardsEntity(k) PROVE Lists'
  <2>1. \A l \in Locals, d \in Keys :
          /\ inflightCommands'[l][d] \subseteq inflightCommands[l][d]
          /\ queuedCommands'[l][d] = queuedCommands[l][d] \/ queuedCommands'[l][d] = <<>>
    BY <1>6, <1>types
    DEF DiscardAECPCommandsTowardsEntity, DiscardedQueues, ListsTyping, Inflights, Queues
  <2>2. UNCHANGED <<frame, sends, era, currentSequenceID, loop>>
    BY <1>6 DEF DiscardAECPCommandsTowardsEntity
  <2>. QED  BY <1>later, <2>1, <2>2, RemovalNumbering
<1>7. CASE EndUnregister
  <2>1. \A l \in Locals, d \in Keys :
          /\ inflightCommands'[l][d] \subseteq inflightCommands[l][d]
          /\ queuedCommands'[l][d] = queuedCommands[l][d] \/ queuedCommands'[l][d] = <<>>
    BY <1>7, <1>types DEF EndUnregister, ListsTyping, Inflights, Queues
  <2>2. UNCHANGED <<frame, sends, era, currentSequenceID>> /\ loop'.commands = {}
    BY <1>7 DEF EndUnregister, Idle
  <2>. QED  BY <1>later, <2>1, <2>2, RemovalNumbering
<1>8. ASSUME NEW k \in Keys, NextKey(k) PROVE Lists'
  <2>1. loop.local \in Locals
    BY <1>8, <1>in DEF NextKey
  <2>2. /\ loop'.commands \subseteq inflightCommands[loop.local][k]
        /\ UNCHANGED <<frame, inflightCommands, queuedCommands, sends, era, currentSequenceID>>
    BY <1>8, <1>in DEF NextKey, Loop, ghostVars
  <2>. QED  BY <2>1, <2>2, LoopMovesNumbering
<1>9. CASE EndKey
  <2>1. loop.local \in Locals /\ loop.key \in Keys
    BY <1>9, <1>in DEF EndKey, LoopInPlace
  <2>2. UNCHANGED <<frame, era, currentSequenceID>> /\ loop'.commands = loop.commands
    BY <1>9, <1>in DEF EndKey, Loop
  <2>3. CASE CheckQueue(loop.local, loop.key, inflightCommands, queuedCommands)
    BY <1>types, <2>1, <2>2, <2>3, ServingNumbering DEF ListsTyping
  <2>4. CASE UNCHANGED <<inflightCommands, queuedCommands, scheduledErrors, throttled, sends>>
    BY <1>same, <2>2, <2>4
  <2>. QED  BY <1>9, <2>3, <2>4 DEF EndKey
<1>10. CASE RemoveLostCommand
  <2>1. loop.local \in Locals /\ loop.key \in Keys
    BY <1>10, <1>in DEF RemoveLostCommand, LoopInPlace
  <2>2. /\ RemoveInflight(loop.local, loop.key, loop.handler)
        /\ UNCHANGED <<frame, era, currentSequenceID>> /\ loop'.commands = loop.commands
    BY <1>10, <1>in DEF RemoveLostCommand, Loop
  <2>. QED  BY <1>remove, <2>1, <2>2
<1>11. ASSUME NEW c \in Commands, RetryCommand(c) PROVE Lists'
  <2>1. sends[c] > 0
    BY <1>11 DEF RetryCommand, Lists, LoopSent
  <2>2. /\ UNCHANGED <<frame, inflightCommands, queuedCommands, era, currentSequenceID>>
        /\ loop'.commands \subseteq loop.commands
        /\ sends' = sends \/ sends' = [sends EXCEPT ![c] = @ + 1]
    BY <1>11, <1>in DEF RetryCommand, Loop
  <2>3. \A d \in Commands : sends'[d] > 0 <=> sends[d] > 0
    <3>1. sends \in [Commands -> Nat]
      BY <1>types DEF ListsTyping
    <3>2. \A n \in Nat : n > 0 => n + 1 > 0
      OBVIOUS
    <3>. QED  BY <2>1, <2>2, <3>1, <3>2
  <2>4. loop.commands \subseteq Commands
    BY <1>in DEF Loop
  <2>5. \A l \in Locals, k \in Keys : inflightCommands[l][k] \subseteq Commands
    BY <1>types DEF ListsTyping, Inflights
  <2>6. Ordered(frame, sends, queuedCommands)'
    BY <2>2, <2>3 DEF Lists, Ordered, At
  <2>. QED
    BY <2>2, <2>3, <2>4, <2>5, <2>6
    DEF Lists, Numbered, Unique, Placed, At, SentIn, LoopSent, SentAccepted, Accepted
<1>12. ASSUME NEW c \in Commands, TimeoutCommand(c) \/ NotifyError(c) \/ CancelCommand(c)
       PROVE  Lists'
  BY <1>12, <1>in, <1>same DEF TimeoutCommand, NotifyError, CancelCommand, Loop
<1>13. CASE BeginTimeoutCheck \/ NextStage \/ EndTimeoutCheck \/ EndNotifyError
              \/ CancelHandlerReturns
  <2>1. UNCHANGED <<frame, inflightCommands, queuedCommands, sends, era, currentSequenceID>>
    BY <1>13
    DEF BeginTimeoutCheck, NextStage, EndTimeoutCheck, EndNotifyError, CancelHandlerReturns, ghostVars
  <2>2. CASE BeginTimeoutCheck \/ EndTimeoutCheck
    <3>1. CASE BeginTimeoutCheck
      <4>1. loop' = [Idle EXCEPT !.kind = "timeouts", !.locals = registered]
        BY <3>1 DEF BeginTimeoutCheck
      <4>2. loop'.commands = {}
        BY <4>1 DEF Idle
      <4>. QED  BY <1>same, <2>1, <4>2
    <3>2. CASE EndTimeoutCheck
      <4>1. loop'.commands = {}
        BY <3>2 DEF EndTimeoutCheck, Idle
      <4>. QED  BY <1>same, <2>1, <4>1
    <3>. QED  BY <2>2, <3>1, <3>2
  <2>3. CASE EndNotifyError \/ CancelHandlerReturns
    BY <1>in, <1>same, <2>1, <2>3 DEF EndNotifyError, CancelHandlerReturns, Loop
  <2>4. CASE NextStage
    BY <1>in, <1>same, <2>1, <2>4 DEF NextStage, Loop
  <2>. QED  BY <1>13, <2>2, <2>3, <2>4
<1>14. ASSUME NEW c \in Commands, TimerExpires(c) PROVE Lists'
  BY <1>14, <1>same DEF TimerExpires, ghostVars
<1>15. ASSUME NEW l \in Locals, NEW k \in Keys, SendIntervalElapses(l, k) PROVE Lists'
  BY <1>15, <1>same DEF SendIntervalElapses, ghostVars
<1>16. CASE UNCHANGED vars
  BY <1>16, <1>same DEF vars, codeVars, ghostVars
<1>. QED
  BY <1>1, <1>2, <1>3, <1>4, <1>5, <1>6, <1>7, <1>8, <1>9, <1>10, <1>11, <1>12, <1>13, <1>14,
     <1>15, <1>16 DEF Next, LoopStep

\* Only a response is an answer, and what it is matched with decides whose it may be.
LEMMA AnswersNext == Typing /\ Lists /\ Answers /\ [Next]_vars => Answers'
<1>. SUFFICES ASSUME Typing, Lists, Answers, [Next]_vars PROVE Answers'
  OBVIOUS
<1>types. frame \in [Commands -> Frame \cup {None}]
          /\ answeredBy \in [Commands -> Commands \cup {None} \cup Senders]
  BY DEF Typing, TypeOK
<1>same. UNCHANGED <<frame, answeredBy>> => Answers'
  BY DEF Answers, Accepted
<1>1. ASSUME NEW c \in Commands, NEW l \in Locals, NEW k \in Keys, SendCommand(c, l, k)
      PROVE  Answers'
  <2>1. /\ answeredBy' = answeredBy /\ ~Accepted(c)
        /\ \A d \in Commands : d # c => frame'[d] = frame[d]
    BY <1>1, <1>types DEF SendCommand
  <2>. QED  BY <2>1 DEF Answers, Accepted
<1>2. ASSUME NEW f \in Commands, NEW c \in Commands, NEW s \in Senders, HandleResponse(f, c, s)
      PROVE  Answers'
  <2>1. /\ Accepted(f) /\ Matches(c, f) /\ AcceptsSender(Protocol(frame[f].key), s)
        /\ frame' = frame
        /\ answeredBy' = [answeredBy EXCEPT ![c] = IF s = "recipient" THEN f ELSE s]
    BY <1>2 DEF HandleResponse, Sent
  <2>2. frame[f] \in Frame /\ frame[f].local \in Locals /\ frame[f].key \in Keys
    BY <1>types, <2>1 DEF Accepted, Frame
  <2>3. /\ Accepted(c) /\ frame[c].local = frame[f].local /\ frame[c].key = frame[f].key
        /\ frame[c].sequenceID = frame[f].sequenceID
    BY <2>1, <2>2 DEF Matches, Lists, Placed, At, Accepted
  <2>4. f # c => frame[f].era # frame[c].era
    BY <2>1, <2>3 DEF Lists, Unique
  <2>5. s = "recipient" \/ (s = "talker" /\ frame[c].key \in AcmpTargets)
    BY <2>1, <2>2, <2>3 DEF AcceptsSender, Protocol, Keys
  <2>6. /\ answeredBy'[c] = (IF s = "recipient" THEN f ELSE s)
        /\ \A d \in Commands : d # c => answeredBy'[d] = answeredBy[d]
    BY <1>types, <2>1
  <2>. QED  BY <2>1, <2>3, <2>4, <2>5, <2>6 DEF Answers, Accepted
<1>3. ASSUME NEW f \in Commands, NEW c \in Commands, HandleInProgress(f, c) PROVE Answers'
  BY <1>3, <1>same DEF HandleInProgress
<1>4. ASSUME NEW l \in Locals, RegisterLocalEntity(l) \/ UnregisterLocalEntity(l) \/ NextLocal(l)
      PROVE  Answers'
  BY <1>4, <1>same DEF RegisterLocalEntity, UnregisterLocalEntity, NextLocal, ghostVars
<1>5. ASSUME NEW k \in AecpTargets, DiscardAECPCommandsTowardsEntity(k) PROVE Answers'
  BY <1>5, <1>same DEF DiscardAECPCommandsTowardsEntity
<1>6. ASSUME NEW k \in Keys, NextKey(k) PROVE Answers'
  BY <1>6, <1>same DEF NextKey, ghostVars
<1>7. CASE BeginTimeoutCheck \/ EndKey \/ NextStage \/ EndTimeoutCheck \/ RemoveLostCommand
             \/ EndNotifyError \/ CancelHandlerReturns \/ EndUnregister
  BY <1>7, <1>same
  DEF BeginTimeoutCheck, EndKey, NextStage, EndTimeoutCheck, RemoveLostCommand, EndNotifyError,
      CancelHandlerReturns, EndUnregister, ghostVars
<1>8. ASSUME NEW c \in Commands,
             RetryCommand(c) \/ TimeoutCommand(c) \/ NotifyError(c) \/ CancelCommand(c)
               \/ TimerExpires(c)
      PROVE  Answers'
  BY <1>8, <1>same
  DEF RetryCommand, TimeoutCommand, NotifyError, CancelCommand, TimerExpires, ghostVars
<1>9. ASSUME NEW l \in Locals, NEW k \in Keys, SendIntervalElapses(l, k) PROVE Answers'
  BY <1>9, <1>same DEF SendIntervalElapses, ghostVars
<1>10. CASE UNCHANGED vars
  BY <1>10, <1>same DEF vars, ghostVars
<1>. QED
  BY <1>1, <1>2, <1>3, <1>4, <1>5, <1>6, <1>7, <1>8, <1>9, <1>10 DEF Next, LoopStep

LEMMA NumberingParts == Numbering <=> Lists /\ Answers
BY DEF Numbering, Lists

LEMMA NumberingAlways == Spec => [](Typing /\ Lists /\ Answers)
<1>1. Init => Typing /\ Lists /\ Answers
  BY TypingInit, NumberingInit, NumberingParts
<1>2. Typing /\ Lists /\ Answers /\ [Next]_vars => (Typing /\ Lists /\ Answers)'
  BY TypingNext, ListsNext, AnswersNext
<1>. QED  BY <1>1, <1>2, PTL DEF Spec

\* A handler is given the response to its own command, whatever responses are lost,
\* late or repeated, unless the counter of sequence IDs restarted or wrapped around in
\* between, and an ACMP handler possibly what a talker answered to a listener.
THEOREM AnswersAreOwn == Spec => []AnswerIsOwn
<1>1. Typing /\ Lists /\ Answers => AnswerIsOwn
  <2>. SUFFICES ASSUME Typing, Answers, NEW c \in Commands
                PROVE  /\ answeredBy[c] \in Senders =>
                            answeredBy[c] = "talker" /\ frame[c].key \in AcmpTargets
                       /\ answeredBy[c] \in Commands \ {c} => frame[answeredBy[c]].era # frame[c].era
    BY DEF AnswerIsOwn
  <2>1. None \notin Commands
    BY ConstantsAssumption
  <2>2. CASE answeredBy[c] = None
    <3>1. None \notin Senders
      BY SendersAreApart
    <3>. QED  BY <2>1, <2>2, <3>1
  <2>3. CASE answeredBy[c] # None
    BY <2>3, SendersAreApart DEF Answers, Senders
  <2>. QED  BY <2>2, <2>3
<1>. QED  BY NumberingAlways, <1>1, PTL

\* A destination is sent its commands, for the first time, in the order they were
\* accepted in, by whatever response, timeout or later command the queue was served.
THEOREM FirstAcceptedAreFirstSent == Spec => []FirstAcceptedFirstSent
<1>1. Typing /\ Lists /\ Answers => FirstAcceptedFirstSent
  <2>. SUFFICES ASSUME Typing, Lists, NEW c \in Commands, NEW d \in Commands,
                       Before(c, d), sends[d] > 0, QueuedCommand(c)
                PROVE  FALSE
    BY DEF FirstAcceptedFirstSent
  <2>1. PICK l \in Locals, k \in Keys : c \in Queued(l, k)
    BY DEF QueuedCommand
  <2>2. queuedCommands[l][k] \in Seq(Commands)
    BY DEF Typing, TypeOK
  <2>3. PICK i \in 1 .. Len(queuedCommands[l][k]) : queuedCommands[l][k][i] = c
    BY <2>1, <2>2, LenProperties DEF Queued, Range
  <2>4. At(frame, c, l, k)
    BY <2>3 DEF Lists, Placed
  <2>5. At(frame, d, l, k)
    BY <2>4 DEF Before, Accepted, At
  <2>6. Earlier(frame[d], frame[c])
    BY <2>3, <2>5 DEF Lists, Ordered
  <2>7. Earlier(frame[c], frame[d])
    BY DEF Before, Earlier
  <2>8. frame[c] \in Frame /\ frame[d] \in Frame
    BY DEF Typing, TypeOK, Before, Accepted
  <2>. QED  BY <2>6, <2>7, <2>8, EarlierIsStrict
<1>. QED  BY NumberingAlways, <1>1, PTL

-----------------------------------------------------------------------------
(* Every command is accounted for                                           *)

Waits(queued, c, l, k) == \E i \in 1 .. Len(queued[l][k]) : queued[l][k][i] = c
Listed(inflight, queued, errors, c) ==
  \/ \E l \in Locals, k \in Keys : Waits(queued, c, l, k) \/ c \in inflight[l][k]
  \/ \E l \in Locals : c \in errors[l]

\* The parts below say how the lists (inflight, queued, errors) agree with the frames F,
\* the transmissions S, the runs C of handlers, their outcomes O, the commands D dropped
\* and R sent again, and the place P that a loop has reached.

\* A command that is not accepted yet has no history; a handler that ran leaves an
\* outcome; and only what was sent is sent again.
History ==
  \A c \in Commands :
    /\ ~Accepted(c) => calls[c] = 0 /\ c \notin dropped
    /\ outcome[c] = None <=> calls[c] = 0
    /\ c \in retried => sends[c] > 0

\* A command that was discarded is nowhere, and its handler never runs.  Until one of the
\* two happens to it, a command that was accepted is somewhere.
Kept(F, C, D, inflight, queued, errors) ==
  \A c \in Commands :
    /\ c \in D => C[c] = 0 /\ ~Listed(inflight, queued, errors, c)
    /\ F[c] # None /\ c \notin D /\ C[c] = 0 => Listed(inflight, queued, errors, c)

\* A command in a queue is nowhere else, and waits for its handler.
QueueApart(C, queued, errors) ==
  \A l \in Locals, k \in Keys : \A c \in Commands : Waits(queued, c, l, k) =>
    C[c] = 0 /\ \A m \in Locals : c \notin errors[m]

\* A command the transport refused was not sent, and waits for the check to tell.
ErrorsApart(F, S, C, P, errors) ==
  \A l \in Locals : \A c \in errors[l] :
    /\ F[c] # None /\ F[c].local = l /\ S[c] = 0
    /\ \/ C[c] = 0
       \/ P.handler = c /\ P.kind = "timeouts" /\ P.local = l /\ P.key = None

\* A command in flight waits for its handler, unless the loop that runs it has not come
\* to its removal.  It was sent once, or twice if the first answer did not come.
Flight(S, C, O, R, P, c, l, k) ==
  /\ \/ C[c] = 0
     \/ P.handler = c /\ P.kind = "timeouts" /\ P.local = l /\ P.key = k
     \/ O[c] = "UnknownLocalEntity" /\ P.kind = "unregister" /\ P.local = l
  /\ C[c] = 0 => S[c] = IF c \in R THEN 2 ELSE 1
Flights(S, C, O, R, P, inflight) ==
  \A l \in Locals, k \in Keys : \A c \in inflight[l][k] : Flight(S, C, O, R, P, c, l, k)

\* A handler runs a second time only when the destination is walked again.
Twice(c) == calls[c] > 0 => c \in rewalked
Repeats == \A c \in Commands : calls[c] > 1 => c \in rewalked

\* The loops look at commands in flight.
LoopIdle == loop.kind = "idle" => loop.handler = None /\ loop.local = None /\ loop.commands = {}
LoopErrors == loop.stage \notin Protocols => loop.key = None /\ loop.local # None
LoopCommands == loop.commands # {} => loop.commands \subseteq inflightCommands[loop.local][loop.key]
LoopChecks ==
  loop.kind = "timeouts" =>
    /\ \A c \in loop.commands : calls[c] = 0
    /\ loop.handler # None =>
         /\ loop.local # None /\ calls[loop.handler] > 0
         /\ loop.key # None => loop.handler \in inflightCommands[loop.local][loop.key]
         /\ loop.key = None => loop.handler \in scheduledErrors[loop.local] /\ loop.stage \notin Protocols
LoopCancels ==
  loop.kind = "unregister" =>
    /\ loop.key \notin loop.keys
    /\ \A c \in loop.commands : Twice(c)
    /\ \A k \in loop.keys : \A c \in inflightCommands[loop.local][k] : Twice(c)
    /\ loop.stage = "aecp" =>
         /\ loop.keys \subseteq AecpTargets /\ (loop.key # None => loop.key \in AecpTargets)
         /\ \A k \in AcmpTargets : \A c \in inflightCommands[loop.local][k] : calls[c] = 0

Accounts ==
  /\ History /\ Repeats
  /\ Kept(frame, calls, dropped, inflightCommands, queuedCommands, scheduledErrors)
  /\ QueueApart(calls, queuedCommands, scheduledErrors)
  /\ ErrorsApart(frame, sends, calls, loop, scheduledErrors)
  /\ Flights(sends, calls, outcome, retried, loop, inflightCommands)
Loops == LoopIdle /\ LoopErrors /\ LoopCommands /\ LoopChecks /\ LoopCancels

-----------------------------------------------------------------------------
(* A command leaves its queue                                               *)

\* h left the queue of k, into flight or among the errors.
Took(h, l, k, inflight, queued, errors, S, inflight2, queued2, errors2, S2) ==
  /\ Waits(queued, h, l, k)
  /\ \A m \in Locals, d \in Keys : \A c \in Commands :
       Waits(queued2, c, m, d) <=> Waits(queued, c, m, d) /\ ~(c = h /\ m = l /\ d = k)
  /\ \/ /\ \A m \in Locals, d \in Keys : inflight2[m][d] =
             IF m = l /\ d = k THEN inflight[m][d] \cup {h} ELSE inflight[m][d]
        /\ S2[h] = S[h] + 1 /\ \A c \in Commands : c # h => S2[c] = S[c]
        /\ errors2 = errors
     \/ /\ inflight2 = inflight /\ S2 = S
        /\ \A m \in Locals : errors2[m] = IF m = l THEN errors[m] \cup {h} ELSE errors[m]

\* It is accounted for where it came.
LEMMA TookKeeps ==
  ASSUME NEW F, NEW S \in [Commands -> Nat], NEW C, NEW O, NEW D, NEW R, NEW P,
         NEW inflight \in Inflights, NEW queued, NEW errors \in [Locals -> SUBSET Commands],
         NEW inflight2, NEW queued2, NEW errors2, NEW S2,
         NEW l \in Locals, NEW k \in Keys, NEW h \in Commands,
         Took(h, l, k, inflight, queued, errors, S, inflight2, queued2, errors2, S2),
         \A m \in Locals, d \in Keys : \A c \in Commands :
           /\ Waits(queued, c, m, d) => At(F, c, m, d) /\ S[c] = 0 /\ c \notin R
           /\ c \in inflight[m][d] => S[c] > 0,
         Kept(F, C, D, inflight, queued, errors), QueueApart(C, queued, errors),
         ErrorsApart(F, S, C, P, errors), Flights(S, C, O, R, P, inflight)
  PROVE  /\ Kept(F, C, D, inflight2, queued2, errors2) /\ QueueApart(C, queued2, errors2)
         /\ ErrorsApart(F, S2, C, P, errors2) /\ Flights(S2, C, O, R, P, inflight2)
<1>h. /\ At(F, h, l, k) /\ S[h] = 0 /\ h \notin R /\ C[h] = 0 /\ h \notin D
      /\ \A m \in Locals : h \notin errors[m]
      /\ \A m \in Locals, d \in Keys : h \notin inflight[m][d]
  BY DEF Took, QueueApart, Kept, Listed
<1>types. /\ \A m \in Locals, d \in Keys : inflight[m][d] \subseteq Commands
          /\ \A m \in Locals : errors[m] \subseteq Commands
  BY DEF Inflights
<1>both. \/ /\ \A m \in Locals, d \in Keys : inflight2[m][d] =
                 IF m = l /\ d = k THEN inflight[m][d] \cup {h} ELSE inflight[m][d]
            /\ S2[h] = S[h] + 1 /\ \A c \in Commands : c # h => S2[c] = S[c]
            /\ errors2 = errors
         \/ /\ inflight2 = inflight /\ S2 = S
            /\ \A m \in Locals : errors2[m] = IF m = l THEN errors[m] \cup {h} ELSE errors[m]
  BY DEF Took
<1>in. \A m \in Locals, d \in Keys : \A c \in Commands :
         c \in inflight2[m][d] => c \in inflight[m][d] \/ (c = h /\ m = l /\ d = k /\ S2[h] = S[h] + 1)
  <2>1. ASSUME NEW m \in Locals, NEW d \in Keys, NEW c \in Commands, c \in inflight2[m][d], c \notin inflight[m][d]
        PROVE  c = h /\ m = l /\ d = k /\ S2[h] = S[h] + 1
    BY <1>both, <2>1
  <2>. QED  BY <2>1
<1>err. \A m \in Locals : \A c \in Commands :
          c \in errors2[m] => c \in errors[m] \/ (c = h /\ m = l /\ S2 = S)
  BY <1>both
<1>keep. /\ \A m \in Locals, d \in Keys : inflight[m][d] \subseteq inflight2[m][d]
         /\ \A m \in Locals : errors[m] \subseteq errors2[m]
         /\ h \in inflight2[l][k] \/ h \in errors2[l]
         /\ \A c \in Commands : c # h => S2[c] = S[c]
         /\ \A m \in Locals : errors2[m] \subseteq Commands
         /\ \A m \in Locals, d \in Keys : inflight2[m][d] \subseteq Commands
  <2>1. \A m \in Locals, d \in Keys : inflight2[m][d] = inflight[m][d] \/
          (inflight2[m][d] = inflight[m][d] \cup {h} /\ m = l /\ d = k)
    BY <1>both
  <2>2. \A m \in Locals : errors2[m] = errors[m] \/ errors2[m] = errors[m] \cup {h}
    BY <1>both
  <2>3. h \in inflight2[l][k] \/ h \in errors2[l]
    BY <1>both
  <2>4. \A c \in Commands : c # h => S2[c] = S[c]
    BY <1>both
  <2>5. \A m \in Locals, d \in Keys : inflight2[m][d] \subseteq Commands /\ inflight[m][d] \subseteq inflight2[m][d]
    <3>. SUFFICES ASSUME NEW m \in Locals, NEW d \in Keys
                  PROVE  inflight2[m][d] \subseteq Commands /\ inflight[m][d] \subseteq inflight2[m][d]
      OBVIOUS
    <3>1. inflight2[m][d] = inflight[m][d] \/ inflight2[m][d] = inflight[m][d] \cup {h}
      BY <2>1
    <3>. QED  BY <1>types, <3>1
  <2>6. \A m \in Locals : errors2[m] \subseteq Commands /\ errors[m] \subseteq errors2[m]
    <3>. SUFFICES ASSUME NEW m \in Locals PROVE errors2[m] \subseteq Commands /\ errors[m] \subseteq errors2[m]
      OBVIOUS
    <3>1. errors2[m] = errors[m] \/ errors2[m] = errors[m] \cup {h}
      BY <2>2
    <3>. QED  BY <1>types, <3>1
  <2>. QED  BY <2>3, <2>4, <2>5, <2>6
<1>q. \A m \in Locals, d \in Keys : \A c \in Commands :
        Waits(queued2, c, m, d) <=> Waits(queued, c, m, d) /\ ~(c = h /\ m = l /\ d = k)
  BY DEF Took
<1>1. \A c \in Commands : Listed(inflight2, queued2, errors2, c) <=> Listed(inflight, queued, errors, c)
  <2>1. ASSUME NEW c \in Commands, c # h
        PROVE  Listed(inflight2, queued2, errors2, c) <=> Listed(inflight, queued, errors, c)
    <3>1. \A m \in Locals, d \in Keys : Waits(queued2, c, m, d) <=> Waits(queued, c, m, d)
      BY <1>q, <2>1
    <3>2. \A m \in Locals, d \in Keys : c \in inflight2[m][d] <=> c \in inflight[m][d]
      BY <1>in, <1>keep, <2>1
    <3>3. \A m \in Locals : c \in errors2[m] <=> c \in errors[m]
      BY <1>err, <1>keep, <2>1
    <3>. QED  BY <3>1, <3>2, <3>3 DEF Listed
  <2>2. Listed(inflight2, queued2, errors2, h)
    BY <1>keep DEF Listed
  <2>3. Listed(inflight, queued, errors, h)
    BY DEF Took, Listed
  <2>. QED  BY <2>1, <2>2, <2>3
<1>2. Kept(F, C, D, inflight2, queued2, errors2)
  BY <1>1 DEF Kept
<1>3. QueueApart(C, queued2, errors2)
  <2>1. ASSUME NEW m \in Locals, NEW d \in Keys, NEW c \in Commands, Waits(queued2, c, m, d),
               NEW n \in Locals, c \in errors2[n]
        PROVE  FALSE
    <3>1. Waits(queued, c, m, d) /\ ~(c = h /\ m = l /\ d = k)
      BY <1>q, <2>1
    <3>2. c # h
      BY <1>h, <3>1 DEF At
    <3>3. c \in errors[n]
      BY <1>err, <2>1, <3>2
    <3>. QED  BY <3>1, <3>3 DEF QueueApart
  <2>2. ASSUME NEW m \in Locals, NEW d \in Keys, NEW c \in Commands, Waits(queued2, c, m, d)
        PROVE  C[c] = 0
    BY <1>q, <2>2 DEF QueueApart
  <2>. QED  BY <2>1, <2>2 DEF QueueApart
<1>4. ErrorsApart(F, S2, C, P, errors2)
  <2>1. ASSUME NEW m \in Locals, NEW c \in errors2[m]
        PROVE  /\ F[c] # None /\ F[c].local = m /\ S2[c] = 0
               /\ \/ C[c] = 0
                  \/ P.handler = c /\ P.kind = "timeouts" /\ P.local = m /\ P.key = None
    <3>0. c \in Commands
      BY <1>keep
    <3>1. CASE c \in errors[m]
      <4>1. c # h
        BY <1>h, <3>1
      <4>2. S2[c] = S[c]
        BY <1>keep, <3>0, <4>1
      <4>. QED  BY <3>1, <4>2 DEF ErrorsApart
    <3>2. CASE c = h /\ m = l /\ S2 = S
      BY <1>h, <3>2 DEF At
    <3>. QED  BY <1>err, <3>0, <3>1, <3>2
  <2>. QED  BY <2>1 DEF ErrorsApart
<1>5. Flights(S2, C, O, R, P, inflight2)
  <2>1. ASSUME NEW m \in Locals, NEW d \in Keys, NEW c \in inflight2[m][d]
        PROVE  Flight(S2, C, O, R, P, c, m, d)
    <3>0. c \in Commands
      BY <1>keep
    <3>1. CASE c = h /\ m = l /\ d = k /\ S2[h] = S[h] + 1
      <4>1. S2[h] = 1
        BY <1>h, <3>1
      <4>. QED  BY <1>h, <3>1, <4>1 DEF Flight
    <3>2. CASE c \in inflight[m][d]
      <4>1. c # h
        BY <1>h, <3>2
      <4>2. S2[c] = S[c]
        BY <1>keep, <3>0, <4>1
      <4>. QED  BY <3>2, <4>2 DEF Flights, Flight
    <3>3. c \in inflight[m][d] \/ (c = h /\ m = l /\ d = k /\ S2[h] = S[h] + 1)
      BY <1>in, <2>1, <3>0
    <3>. QED  BY <3>1, <3>2, <3>3
  <2>. QED  BY <2>1 DEF Flights
<1>. QED  BY <1>2, <1>3, <1>4, <1>5

Distinct(q) == \A i, j \in 1 .. Len(q) : i # j => q[i] # q[j]

\* That is what CheckQueue does, if it does anything.
LEMMA CheckQueueTakes ==
  ASSUME ListsTyping, NEW l \in Locals, NEW k \in Keys,
         NEW inflight \in Inflights, NEW queued \in Queues, Distinct(queued[l][k]),
         CheckQueue(l, k, inflight, queued)
  PROVE  \/ /\ queuedCommands' = queued /\ inflightCommands' = inflight
            /\ UNCHANGED <<sends, scheduledErrors>>
         \/ \E h \in Commands :
              Took(h, l, k, inflight, queued, scheduledErrors, sends,
                   inflightCommands', queuedCommands', scheduledErrors', sends')
<1> DEFINE q == queued[l][k]
           h == Head(q)
<1>types. sends \in [Commands -> Nat] /\ scheduledErrors \in [Locals -> SUBSET Commands]
  BY DEF ListsTyping
<1>1. CASE /\ q # <<>> /\ queuedCommands' = [queued EXCEPT ![l][k] = Tail(q)] /\ h \in Commands
           /\ \/ /\ inflightCommands' = [inflight EXCEPT ![l][k] = @ \cup {h}]
                 /\ sends' = [sends EXCEPT ![h] = @ + 1]
                 /\ UNCHANGED scheduledErrors
              \/ /\ inflightCommands' = inflight /\ UNCHANGED sends
                 /\ scheduledErrors' = [scheduledErrors EXCEPT ![l] = @ \cup {h}]
  <2>1. q \in Seq(Commands)
    BY DEF Queues
  <2>2. /\ 1 \in 1 .. Len(q) /\ h = q[1] /\ Len(q) \in Nat
        /\ Len(Tail(q)) = Len(q) - 1
        /\ \A i \in 1 .. Len(Tail(q)) : i + 1 \in 1 .. Len(q) /\ Tail(q)[i] = q[i + 1]
    BY <1>1, <2>1, HeadTailProperties, LenProperties, EmptySeq
  <2>3. /\ queuedCommands'[l][k] = Tail(q)
        /\ \A m \in Locals, d \in Keys : <<m, d>> # <<l, k>> => queuedCommands'[m][d] = queued[m][d]
    BY <1>1 DEF Queues
  <2>4. ASSUME NEW c
        PROVE  (\E i \in 1 .. Len(Tail(q)) : Tail(q)[i] = c)
                 <=> (\E i \in 1 .. Len(q) : q[i] = c) /\ c # h
    <3>1. ASSUME NEW i \in 1 .. Len(Tail(q)), Tail(q)[i] = c
          PROVE  (\E j \in 1 .. Len(q) : q[j] = c) /\ c # h
      <4>1. i + 1 \in 1 .. Len(q) /\ q[i + 1] = c /\ i + 1 # 1
        BY <2>2, <3>1
      <4>. QED  BY <2>2, <4>1 DEF Distinct
    <3>2. ASSUME NEW i \in 1 .. Len(q), q[i] = c, c # h
          PROVE  \E j \in 1 .. Len(Tail(q)) : Tail(q)[j] = c
      <4>1. i # 1
        BY <2>2, <3>2
      <4>2. i - 1 \in 1 .. Len(Tail(q)) /\ (i - 1) + 1 = i
        BY <2>2, <4>1
      <4>3. Tail(q)[i - 1] = q[(i - 1) + 1]
        BY <2>2, <4>2
      <4>. QED  BY <3>2, <4>2, <4>3
    <3>. QED  BY <3>1, <3>2
  <2>5. Waits(queued, h, l, k)
    BY <2>2 DEF Waits
  <2>6. ASSUME NEW m \in Locals, NEW d \in Keys, NEW c \in Commands
        PROVE  Waits(queuedCommands', c, m, d) <=> Waits(queued, c, m, d) /\ ~(c = h /\ m = l /\ d = k)
    <3>1. CASE <<m, d>> # <<l, k>>
      BY <2>3, <3>1 DEF Waits
    <3>2. CASE m = l /\ d = k
      <4>1. queuedCommands'[m][d] = Tail(q) /\ queued[m][d] = q
        BY <2>3, <3>2
      <4>2. (\E i \in 1 .. Len(Tail(q)) : Tail(q)[i] = c) <=> (\E i \in 1 .. Len(q) : q[i] = c) /\ c # h
        BY <2>4
      <4> HIDE DEF q, h
      <4>. QED  BY <3>2, <4>1, <4>2, Zenon DEF Waits
    <3>. QED  BY <3>1, <3>2
  <2>7. \/ /\ \A m \in Locals, d \in Keys : inflightCommands'[m][d] =
                IF m = l /\ d = k THEN inflight[m][d] \cup {h} ELSE inflight[m][d]
           /\ sends'[h] = sends[h] + 1 /\ \A c \in Commands : c # h => sends'[c] = sends[c]
           /\ scheduledErrors' = scheduledErrors
        \/ /\ inflightCommands' = inflight /\ sends' = sends
           /\ \A m \in Locals : scheduledErrors'[m] =
                IF m = l THEN scheduledErrors[m] \cup {h} ELSE scheduledErrors[m]
    <3>1. CASE /\ inflightCommands' = [inflight EXCEPT ![l][k] = @ \cup {h}]
               /\ sends' = [sends EXCEPT ![h] = @ + 1] /\ UNCHANGED scheduledErrors
      <4>1. \A m \in Locals, d \in Keys : inflightCommands'[m][d] =
              IF m = l /\ d = k THEN inflight[m][d] \cup {h} ELSE inflight[m][d]
        BY <3>1 DEF Inflights
      <4>2. sends'[h] = sends[h] + 1 /\ \A c \in Commands : c # h => sends'[c] = sends[c]
        BY <1>1, <1>types, <3>1
      <4>. QED  BY <3>1, <4>1, <4>2
    <3>2. CASE /\ inflightCommands' = inflight /\ UNCHANGED sends
               /\ scheduledErrors' = [scheduledErrors EXCEPT ![l] = @ \cup {h}]
      BY <1>types, <3>2
    <3>. QED  BY <1>1, <3>1, <3>2
  <2>8. h \in Commands
    BY <1>1
  <2> HIDE DEF h, q
  <2>. QED  BY <2>5, <2>6, <2>7, <2>8 DEF Took
<1>. QED  BY <1>1, CheckQueueSteps

-----------------------------------------------------------------------------
(* Where commands are                                                       *)

Safe == Typing /\ Lists /\ Accounts /\ Loops

\* The places of a command in the lists tell its frame and what became of it, so that no
\* command is in two of them.
LEMMA Places ==
  ASSUME Safe
  PROVE  /\ \A m \in Locals, d \in Keys : \A c \in Commands : Waits(queuedCommands, c, m, d) =>
              /\ At(frame, c, m, d) /\ sends[c] = 0 /\ calls[c] = 0 /\ c \notin retried
              /\ \A n \in Locals : c \notin scheduledErrors[n]
         /\ \A m \in Locals, d \in Keys : \A c \in inflightCommands[m][d] :
              c \in Commands /\ At(frame, c, m, d) /\ sends[c] > 0
         /\ \A m \in Locals : \A c \in scheduledErrors[m] :
              c \in Commands /\ frame[c] # None /\ frame[c].local = m /\ sends[c] = 0
         /\ \A m \in Locals, d \in Keys : Distinct(queuedCommands[m][d])
<1>types. ListsTyping /\ OthersTyping
  BY TypingParts DEF Safe
<1>sends. \A c \in Commands : sends[c] \in Nat
  BY <1>types DEF ListsTyping
<1>lists. /\ Placed(frame, inflightCommands, queuedCommands) /\ SentIn(sends, inflightCommands)
          /\ Ordered(frame, sends, queuedCommands)
  BY DEF Safe, Lists
<1>1. ASSUME NEW m \in Locals, NEW d \in Keys, NEW i \in 1 .. Len(queuedCommands[m][d])
      PROVE  queuedCommands[m][d][i] \in Commands /\ At(frame, queuedCommands[m][d][i], m, d)
  <2>1. queuedCommands[m][d] \in Seq(Commands)
    BY <1>types DEF ListsTyping, Queues
  <2>2. queuedCommands[m][d][i] \in Commands
    BY <2>1, ElementOfSeq
  <2>. QED  BY <1>lists, <2>2 DEF Placed
<1>strict. ASSUME NEW c \in Commands, frame[c] # None PROVE ~Earlier(frame[c], frame[c])
  <2>1. frame[c] \in Frame
    BY <1>strict, <1>types DEF OthersTyping
  <2>. QED  BY <2>1, EarlierIsStrict
<1>2. ASSUME NEW m \in Locals, NEW d \in Keys, NEW c \in Commands, Waits(queuedCommands, c, m, d)
      PROVE  /\ At(frame, c, m, d) /\ sends[c] = 0 /\ calls[c] = 0 /\ c \notin retried
             /\ \A n \in Locals : c \notin scheduledErrors[n]
  <2>1. PICK i \in 1 .. Len(queuedCommands[m][d]) : queuedCommands[m][d][i] = c
    BY <1>2 DEF Waits
  <2>2. At(frame, c, m, d)
    BY <1>1, <2>1
  <2>3. ~(sends[c] > 0)
    BY <1>lists, <1>strict, <2>1, <2>2 DEF Ordered, At
  <2>4. sends[c] = 0
    BY <1>sends, <2>3
  <2>5. calls[c] = 0 /\ \A n \in Locals : c \notin scheduledErrors[n]
    BY <1>2 DEF Safe, Accounts, QueueApart
  <2>6. c \notin retried
    BY <2>3 DEF Safe, Accounts, History
  <2>. QED  BY <2>2, <2>4, <2>5, <2>6
<1>3. ASSUME NEW m \in Locals, NEW d \in Keys, NEW c \in inflightCommands[m][d]
      PROVE  c \in Commands /\ At(frame, c, m, d) /\ sends[c] > 0
  BY <1>types, <1>lists DEF ListsTyping, Inflights, Placed, SentIn
<1>4. ASSUME NEW m \in Locals, NEW c \in scheduledErrors[m]
      PROVE  c \in Commands /\ frame[c] # None /\ frame[c].local = m /\ sends[c] = 0
  BY <1>types DEF ListsTyping, Safe, Accounts, ErrorsApart
<1>5. ASSUME NEW m \in Locals, NEW d \in Keys PROVE Distinct(queuedCommands[m][d])
  <2> DEFINE q == queuedCommands[m][d]
  <2>1. ASSUME NEW i \in 1 .. Len(q), NEW j \in 1 .. Len(q), i < j PROVE q[i] # q[j]
    <3>1. Earlier(frame[q[i]], frame[q[j]])
      BY <1>lists, <2>1 DEF Ordered
    <3>2. ~Earlier(frame[q[i]], frame[q[i]])
      BY <1>1, <1>strict DEF At
    <3>. QED  BY <3>1, <3>2
  <2>2. \A i, j \in 1 .. Len(q) : i # j => i < j \/ j < i
    OBVIOUS
  <2> HIDE DEF q
  <2>3. \A i, j \in 1 .. Len(q) : i # j => q[i] # q[j]
    BY <2>1, <2>2
  <2>. QED  BY <2>3 DEF Distinct, q
<1>. QED  BY <1>2, <1>3, <1>4, <1>5

\* A command in flight or refused whose handler ran is the one that a loop is at.
LEMMA Owing ==
  ASSUME Safe, loop.kind # "unregister", loop.handler = None
  PROVE  /\ \A m \in Locals, d \in Keys : \A c \in inflightCommands[m][d] : calls[c] = 0
         /\ \A m \in Locals : \A c \in scheduledErrors[m] : calls[c] = 0
<1>1. \A m \in Locals, d \in Keys : \A c \in inflightCommands[m][d] : c # None
  BY Places, ConstantsAssumption
<1>2. \A m \in Locals : \A c \in scheduledErrors[m] : c # None
  BY Places, ConstantsAssumption
<1>. QED  BY <1>1, <1>2 DEF Safe, Accounts, Flights, Flight, ErrorsApart

-----------------------------------------------------------------------------
(* Steps that leave the lists as they are                                   *)

listVars == <<frame, inflightCommands, queuedCommands, scheduledErrors, sends, dropped>>

LEMMA QuietAccounts ==
  ASSUME Safe, UNCHANGED <<listVars, calls, outcome, retried, rewalked, loop>>
  PROVE  Accounts' /\ Loops'
BY DEF listVars, Safe, Accounts, Loops, History, Repeats, Kept, Listed, Waits, QueueApart, ErrorsApart,
       Flights, Flight, LoopIdle, LoopErrors, LoopCommands, LoopChecks, LoopCancels, Twice, Accepted

\* A loop moves on when no handler of the timeout check is running.
LEMMA LoopMovesAccounts ==
  ASSUME Safe, UNCHANGED <<listVars, calls, outcome, retried, rewalked>>,
         loop.kind = "timeouts" => loop.handler = None,
         loop.kind = "unregister" => loop'.kind = "unregister" /\ loop'.local = loop.local
  PROVE  Accounts'
<1>1. History' /\ Repeats'
  BY DEF listVars, Safe, Accounts, History, Repeats, Accepted
<1>2. /\ Kept(frame, calls, dropped, inflightCommands, queuedCommands, scheduledErrors)'
      /\ QueueApart(calls, queuedCommands, scheduledErrors)'
  BY DEF listVars, Safe, Accounts, Kept, Listed, Waits, QueueApart
<1>3. ErrorsApart(frame, sends, calls, loop, scheduledErrors)'
  <2>1. \A m \in Locals : \A c \in scheduledErrors[m] : c # None
    BY Places, ConstantsAssumption
  <2>. QED  BY <2>1 DEF listVars, Safe, Accounts, ErrorsApart
<1>4. Flights(sends, calls, outcome, retried, loop, inflightCommands)'
  <2>1. \A m \in Locals, d \in Keys : \A c \in inflightCommands[m][d] : c # None
    BY Places, ConstantsAssumption
  <2>. QED  BY <2>1 DEF listVars, Safe, Accounts, Flights, Flight
<1>. QED  BY <1>1, <1>2, <1>3, <1>4 DEF Accounts

-----------------------------------------------------------------------------
(* A handler runs                                                           *)

LEMMA CallTyping == Safe => calls \in [Commands -> Nat] /\ outcome \in [Commands -> Errors \cup {None}]
BY DEF Safe, Typing, TypeOK

\* The command whose handler runs is the one the loop has reached.
LEMMA HandlerRuns ==
  ASSUME Safe, NEW c \in Commands, NEW e \in Errors, CallHandler(c, e),
         UNCHANGED <<listVars, rewalked>>, retried' \in {retried, retried \cup {c}},
         loop.handler = None, loop'.kind = loop.kind, loop'.local = loop.local, Twice(c),
         loop.local \in Locals,
         \/ /\ loop.key \in Keys /\ loop'.key = loop.key
            /\ c \in inflightCommands[loop.local][loop.key]
            /\ \/ loop.kind = "timeouts" /\ loop'.handler = c
               \/ loop.kind = "unregister" /\ e = "UnknownLocalEntity"
         \/ /\ loop'.key = None /\ retried' = retried
            /\ c \in scheduledErrors[loop.local]
            /\ loop.kind = "timeouts" /\ loop'.handler = c
  PROVE  Accounts'
<1> DEFINE l == loop.local
           k == loop.key
<1>types. /\ calls \in [Commands -> Nat] /\ outcome \in [Commands -> Errors \cup {None}]
          /\ sends \in [Commands -> Nat]
  BY CallTyping, TypingParts DEF Safe, ListsTyping
<1>called. /\ calls'[c] = calls[c] + 1 /\ outcome'[c] = e
           /\ \A d \in Commands : d # c => calls'[d] = calls[d] /\ outcome'[d] = outcome[d]
  BY <1>types DEF CallHandler
<1>nat. \A n \in Nat : n + 1 # 0 /\ (n + 1 > 1 => n > 0)
  OBVIOUS
<1>zero. calls'[c] # 0
  BY <1>types, <1>nat, <1>called
<1>same. /\ frame' = frame /\ inflightCommands' = inflightCommands /\ sends' = sends
         /\ queuedCommands' = queuedCommands /\ scheduledErrors' = scheduledErrors
         /\ dropped' = dropped /\ rewalked' = rewalked
  BY DEF listVars
<1>list. Listed(inflightCommands, queuedCommands, scheduledErrors, c)
  BY DEF Listed
<1>acc. Accepted(c) /\ c \notin dropped
  <2>1. Accepted(c)
    BY Places DEF Accepted, At
  <2>. QED  BY <1>list, <2>1 DEF Safe, Accounts, Kept
<1>wait. \A m \in Locals, d \in Keys : ~Waits(queuedCommands, c, m, d)
  <2>1. CASE c \in inflightCommands[l][k] /\ k \in Keys
    <3>1. sends[c] > 0 /\ sends[c] \in Nat
      BY <1>types, <2>1, Places
    <3>. QED  BY <3>1, Places
  <2>2. CASE c \in scheduledErrors[l]
    BY <2>2, Places
  <2>. QED  BY <2>1, <2>2
<1>1. History'
  <2>1. c \in retried' /\ c \notin retried => sends[c] > 0
    BY Places
  <2>2. e # None
    BY NoneIsNoError
  <2>. QED
    BY <1>types, <1>called, <1>zero, <1>same, <1>acc, <2>1, <2>2 DEF Safe, Accounts, History, Accepted
<1>2. Repeats'
  <2>1. calls'[c] > 1 => calls[c] > 0
    BY <1>types, <1>nat, <1>called
  <2>. QED  BY <1>called, <1>same, <2>1 DEF Safe, Accounts, Repeats, Twice
<1>3. Kept(frame, calls, dropped, inflightCommands, queuedCommands, scheduledErrors)'
  BY <1>called, <1>zero, <1>same, <1>acc DEF Safe, Accounts, Kept, Listed, Waits
<1>4. QueueApart(calls, queuedCommands, scheduledErrors)'
  BY <1>called, <1>same, <1>wait DEF Safe, Accounts, QueueApart, Waits
<1>5. ErrorsApart(frame, sends, calls, loop, scheduledErrors)'
  <2>1. ASSUME NEW m \in Locals, NEW d \in scheduledErrors[m]
        PROVE  /\ frame[d] # None /\ frame[d].local = m /\ sends[d] = 0
               /\ \/ calls'[d] = 0
                  \/ loop'.handler = d /\ loop'.kind = "timeouts" /\ loop'.local = m /\ loop'.key = None
    <3>0. d \in Commands /\ frame[d] # None /\ frame[d].local = m /\ sends[d] = 0
      BY <2>1, Places
    <3>1. CASE d # c
      <4>1. d # None
        BY <3>0, ConstantsAssumption
      <4>2. calls[d] = 0
        BY <4>1 DEF Safe, Accounts, ErrorsApart
      <4>. QED  BY <1>called, <3>0, <3>1, <4>2
    <3>2. CASE d = c
      <4>1. ~(c \in inflightCommands[l][k] /\ k \in Keys)
        BY <3>0, <3>2, Places
      <4>2. frame[c].local = l
        BY <4>1, Places
      <4>. QED  BY <3>0, <3>2, <4>1, <4>2
    <3>. QED  BY <3>1, <3>2
  <2>. QED  BY <1>same, <2>1 DEF ErrorsApart
<1>6. Flights(sends, calls, outcome, retried, loop, inflightCommands)'
  <2>1. ASSUME NEW m \in Locals, NEW n \in Keys, NEW d \in inflightCommands[m][n]
        PROVE  Flight(sends, calls', outcome', retried', loop', d, m, n)
    <3>0. d \in Commands /\ At(frame, d, m, n) /\ sends[d] > 0
      BY <2>1, Places
    <3>1. CASE d # c
      <4>1. d # None
        BY <3>0, ConstantsAssumption
      <4>2. d \in retried' <=> d \in retried
        BY <3>1
      <4>. QED  BY <1>called, <3>0, <3>1, <4>1, <4>2 DEF Safe, Accounts, Flights, Flight
    <3>2. CASE d = c
      <4>1. c \notin scheduledErrors[l]
        BY <3>0, <3>2, Places
      <4>2. m = l /\ n = k
        BY <3>0, <3>2, <4>1, Places DEF At
      <4>. QED  BY <1>called, <1>zero, <3>2, <4>1, <4>2 DEF Flight
    <3>. QED  BY <3>1, <3>2
  <2>. QED  BY <1>same, <2>1 DEF Flights
<1>. QED  BY <1>1, <1>2, <1>3, <1>4, <1>5, <1>6 DEF Accounts

-----------------------------------------------------------------------------
(* A queue gets its chance                                                  *)

LEMMA ServingAccounts ==
  ASSUME ListsTyping, NEW l \in Locals, NEW k \in Keys,
         NEW inflight \in Inflights, NEW queued \in Queues, Distinct(queued[l][k]),
         NEW F, NEW C, NEW O, NEW D, NEW R, NEW P,
         CheckQueue(l, k, inflight, queued),
         \A m \in Locals, d \in Keys : \A c \in Commands :
           /\ Waits(queued, c, m, d) => At(F, c, m, d) /\ sends[c] = 0 /\ c \notin R
           /\ c \in inflight[m][d] => sends[c] > 0,
         Kept(F, C, D, inflight, queued, scheduledErrors), QueueApart(C, queued, scheduledErrors),
         ErrorsApart(F, sends, C, P, scheduledErrors), Flights(sends, C, O, R, P, inflight)
  PROVE  /\ Kept(F, C, D, inflightCommands', queuedCommands', scheduledErrors')
         /\ QueueApart(C, queuedCommands', scheduledErrors')
         /\ ErrorsApart(F, sends', C, P, scheduledErrors')
         /\ Flights(sends', C, O, R, P, inflightCommands')
<1>1. sends \in [Commands -> Nat] /\ scheduledErrors \in [Locals -> SUBSET Commands]
  BY DEF ListsTyping
<1>2. CASE /\ queuedCommands' = queued /\ inflightCommands' = inflight
           /\ UNCHANGED <<sends, scheduledErrors>>
  BY <1>2
<1>3. ASSUME NEW h \in Commands,
             Took(h, l, k, inflight, queued, scheduledErrors, sends,
                  inflightCommands', queuedCommands', scheduledErrors', sends')
      PROVE  /\ Kept(F, C, D, inflightCommands', queuedCommands', scheduledErrors')
             /\ QueueApart(C, queuedCommands', scheduledErrors')
             /\ ErrorsApart(F, sends', C, P, scheduledErrors')
             /\ Flights(sends', C, O, R, P, inflightCommands')
  BY <1>1, <1>3, TookKeeps
<1>. QED  BY <1>2, <1>3, CheckQueueTakes

\* A command whose handler has run leaves its list, and the queue gets its chance.
LEMMA RemoveInflightAccounts ==
  ASSUME Safe, NEW l \in Locals, NEW k \in Keys, NEW c \in Commands, c \in inflightCommands[l][k],
         NEW C, NEW O, NEW P, RemoveInflight(l, k, c),
         C[c] # 0, \A d \in Commands : d # c => C[d] = calls[d] /\ O[d] = outcome[d],
         loop.handler \in {None, c}, P.kind = loop.kind, P.local = loop.local
  PROVE  /\ Kept(frame, C, dropped, inflightCommands', queuedCommands', scheduledErrors')
         /\ QueueApart(C, queuedCommands', scheduledErrors')
         /\ ErrorsApart(frame, sends', C, P, scheduledErrors')
         /\ Flights(sends', C, O, retried, P, inflightCommands')
<1> DEFINE inflight == [inflightCommands EXCEPT ![l][k] = @ \ {c}]
<1>types. /\ ListsTyping /\ inflight \in Inflights /\ queuedCommands \in Queues
          /\ \A m \in Locals, d \in Keys : \A e :
               e \in inflight[m][d] <=> e \in inflightCommands[m][d] /\ ~(e = c /\ m = l /\ d = k)
  BY TypingParts DEF Safe, ListsTyping, Inflights
<1>c. At(frame, c, l, k) /\ sends[c] > 0 /\ sends[c] # 0
  <2>1. sends[c] \in Nat
    BY <1>types DEF ListsTyping
  <2>. QED  BY <2>1, Places
<1>queue. CheckQueue(l, k, inflight, queuedCommands)
  BY DEF RemoveInflight
<1> HIDE DEF inflight
<1>apart. /\ \A m \in Locals, d \in Keys : ~Waits(queuedCommands, c, m, d)
          /\ \A m \in Locals : c \notin scheduledErrors[m]
  BY <1>c, Places
<1>in. \A m \in Locals, d \in Keys : \A e \in inflight[m][d] :
         e # c /\ e \in Commands /\ e \in inflightCommands[m][d]
  BY <1>types, <1>c, Places DEF At
<1>none. None # c /\ None \notin Commands
  BY ConstantsAssumption
<1>1. Kept(frame, C, dropped, inflight, queuedCommands, scheduledErrors)
  <2>1. \A e \in Commands : Listed(inflight, queuedCommands, scheduledErrors, e)
                              => Listed(inflightCommands, queuedCommands, scheduledErrors, e)
    BY <1>types DEF Listed
  <2>2. \A e \in Commands : e # c => (Listed(inflightCommands, queuedCommands, scheduledErrors, e)
                              => Listed(inflight, queuedCommands, scheduledErrors, e))
    BY <1>types DEF Listed
  <2>3. c \notin dropped
    BY DEF Safe, Accounts, Kept, Listed
  <2>. QED  BY <2>1, <2>2, <2>3 DEF Safe, Accounts, Kept
<1>2. QueueApart(C, queuedCommands, scheduledErrors)
  BY <1>apart DEF Safe, Accounts, QueueApart
<1>3. ErrorsApart(frame, sends, C, P, scheduledErrors)
  <2>1. ASSUME NEW m \in Locals, NEW e \in scheduledErrors[m]
        PROVE  C[e] = 0 /\ frame[e] # None /\ frame[e].local = m /\ sends[e] = 0
    <3>1. e \in Commands /\ e # c
      BY <1>apart, Places
    <3>. QED  BY <1>none, <3>1 DEF Safe, Accounts, ErrorsApart
  <2>. QED  BY <2>1 DEF ErrorsApart
<1>4. Flights(sends, C, O, retried, P, inflight)
  BY <1>in, <1>none DEF Safe, Accounts, Flights, Flight
<1>5. \A m \in Locals, d \in Keys : \A e \in Commands :
        /\ Waits(queuedCommands, e, m, d) => At(frame, e, m, d) /\ sends[e] = 0 /\ e \notin retried
        /\ e \in inflight[m][d] => sends[e] > 0
  BY <1>in, Places
<1>6. Distinct(queuedCommands[l][k])
  BY Places
<1>. QED  BY <1>types, <1>queue, <1>1, <1>2, <1>3, <1>4, <1>5, <1>6, ServingAccounts

\* Commands leave their lists because they are discarded, or because their handlers ran.
LEMMA RemovalAccounts ==
  ASSUME Safe, UNCHANGED <<frame, sends, calls, outcome, retried, rewalked>>,
         \A m \in Locals, d \in Keys :
           /\ inflightCommands'[m][d] \subseteq inflightCommands[m][d]
           /\ \A c \in Commands : Waits(queuedCommands', c, m, d) => Waits(queuedCommands, c, m, d)
           /\ \A c \in inflightCommands'[m][d] : calls[c] = 0,
         \A m \in Locals :
           /\ scheduledErrors'[m] \subseteq scheduledErrors[m]
           /\ \A c \in scheduledErrors'[m] : calls[c] = 0,
         \A c \in Commands :
           /\ Listed(inflightCommands, queuedCommands, scheduledErrors, c) /\ calls[c] = 0 =>
                c \in dropped' \/ Listed(inflightCommands', queuedCommands', scheduledErrors', c)
           /\ c \in dropped => c \in dropped'
           /\ c \in dropped' /\ c \notin dropped =>
                /\ calls[c] = 0 /\ Accepted(c)
                /\ ~Listed(inflightCommands', queuedCommands', scheduledErrors', c)
  PROVE  Accounts'
<1>1. History' /\ Repeats'
  BY DEF Safe, Accounts, History, Repeats, Accepted
<1>2. Kept(frame, calls, dropped', inflightCommands', queuedCommands', scheduledErrors')
  <2>1. \A c \in Commands : Listed(inflightCommands', queuedCommands', scheduledErrors', c)
                              => Listed(inflightCommands, queuedCommands, scheduledErrors, c)
    BY DEF Listed
  <2>2. ASSUME NEW c \in Commands, c \in dropped'
        PROVE  calls[c] = 0 /\ ~Listed(inflightCommands', queuedCommands', scheduledErrors', c)
    BY <2>1, <2>2 DEF Safe, Accounts, Kept
  <2>3. ASSUME NEW c \in Commands, frame[c] # None, c \notin dropped', calls[c] = 0
        PROVE  Listed(inflightCommands', queuedCommands', scheduledErrors', c)
    BY <2>3 DEF Safe, Accounts, Kept
  <2>. QED  BY <2>2, <2>3 DEF Kept
<1>3. QueueApart(calls, queuedCommands', scheduledErrors')
  BY DEF Safe, Accounts, QueueApart
<1>4. ErrorsApart(frame, sends, calls, loop', scheduledErrors')
  BY DEF Safe, Accounts, ErrorsApart
<1>5. Flights(sends, calls, outcome, retried, loop', inflightCommands')
  BY DEF Safe, Accounts, Flights, Flight
<1>. QED  BY <1>1, <1>2, <1>3, <1>4, <1>5 DEF Accounts

\* The destinations of the loop, as far as it has come.
LEMMA LoopPlace ==
  ASSUME Safe
  PROVE  /\ ListsTyping /\ OthersTyping /\ loop \in Loop /\ LoopInPlace
         /\ loop.key # None => loop.local \in Locals /\ loop.key \in Keys
         /\ loop.local # None => loop.local \in Locals
         /\ loop.handler # None => loop.handler \in Commands
         /\ \A c \in loop.commands :
              /\ c \in Commands /\ loop.key \in Keys /\ loop.local \in Locals
              /\ c \in inflightCommands[loop.local][loop.key]
BY TypingParts DEF Safe, OthersTyping, LoopInPlace, Loop, Loops, LoopCommands

LEMMA EndNotifyErrorAccounts == Safe /\ EndNotifyError => Accounts'
<1>. SUFFICES ASSUME Safe, EndNotifyError PROVE Accounts'
  OBVIOUS
<1> DEFINE l == loop.local
           h == loop.handler
<1>1. /\ h # None /\ loop.kind = "timeouts" /\ loop.key = None
      /\ l \in Locals /\ h \in Commands /\ calls[h] > 0 /\ h \in scheduledErrors[l]
  BY LoopPlace DEF EndNotifyError, Safe, Loops, LoopChecks
<1>2. calls[h] # 0
  BY <1>1, CallTyping
<1>3. /\ UNCHANGED <<inflightCommands, queuedCommands, frame, sends, calls, outcome, retried, rewalked, dropped>>
      /\ scheduledErrors' = [scheduledErrors EXCEPT ![l] = @ \ {h}]
  BY DEF EndNotifyError, ghostVars
<1>4. \A m \in Locals : \A c : c \in scheduledErrors'[m] <=> c \in scheduledErrors[m] /\ ~(c = h /\ m = l)
  BY <1>3, LoopPlace DEF ListsTyping
<1> HIDE DEF l, h
<1>5. \A m \in Locals : \A c \in scheduledErrors'[m] : c # h /\ c \in scheduledErrors[m]
  BY <1>1, <1>4, Places
<1>6. \A m \in Locals : \A c \in scheduledErrors'[m] : calls[c] = 0
  BY <1>5 DEF Safe, Accounts, ErrorsApart, h
<1>7. \A m \in Locals, d \in Keys : \A c \in inflightCommands[m][d] : calls[c] = 0
  <2>1. ASSUME NEW m \in Locals, NEW d \in Keys, h \in inflightCommands[m][d] PROVE FALSE
    <3>1. sends[h] > 0 /\ sends[h] = 0
      BY <1>1, <2>1, Places
    <3>. QED  BY <3>1
  <2>. QED  BY <1>1, <2>1 DEF Safe, Accounts, Flights, Flight, h
<1>8. \A c \in Commands : Listed(inflightCommands, queuedCommands, scheduledErrors, c) /\ calls[c] = 0 =>
        Listed(inflightCommands', queuedCommands', scheduledErrors', c)
  BY <1>2, <1>3, <1>4 DEF Listed
<1>9. \A m \in Locals, d \in Keys : \A c \in Commands :
         Waits(queuedCommands', c, m, d) => Waits(queuedCommands, c, m, d)
  BY <1>3
<1>. QED  BY <1>3, <1>5, <1>6, <1>7, <1>8, <1>9, RemovalAccounts

\* The commands to k were neither sent to another destination, nor refused.
LEMMA DiscardAccounts ==
  ASSUME Safe, NEW k \in AecpTargets, DiscardAECPCommandsTowardsEntity(k)
  PROVE  Accounts'
<1>types. /\ ListsTyping /\ k \in Keys
  BY LoopPlace DEF Keys
<1>1. /\ UNCHANGED <<scheduledErrors, frame, sends, calls, outcome, retried, rewalked, loop>>
      /\ inflightCommands' = [l \in Locals |-> [inflightCommands[l] EXCEPT ![k] = {}]]
      /\ queuedCommands' = [l \in Locals |-> [queuedCommands[l] EXCEPT ![k] = <<>>]]
      /\ dropped' = dropped \cup UNION {inflightCommands[l][k] \cup Queued(l, k) : l \in Locals}
      /\ loop.kind = "idle" /\ loop.handler = None
  BY DEF DiscardAECPCommandsTowardsEntity, DiscardedQueues, Safe, Loops, LoopIdle
<1>2. \A m \in Locals, d \in Keys :
        /\ inflightCommands'[m][d] = IF d = k THEN {} ELSE inflightCommands[m][d]
        /\ queuedCommands'[m][d] = IF d = k THEN <<>> ELSE queuedCommands[m][d]
  BY <1>types, <1>1 DEF ListsTyping, Inflights, Queues
<1>empty. \A i : i \notin 1 .. Len(<<>>)
  OBVIOUS
<1>3. \A m \in Locals, d \in Keys : \A c \in Commands :
        Waits(queuedCommands', c, m, d) <=> Waits(queuedCommands, c, m, d) /\ d # k
  BY <1>2, <1>empty DEF Waits
<1>4. \A c \in Commands : c \in dropped' <=>
        c \in dropped \/ \E l \in Locals : c \in inflightCommands[l][k] \/ Waits(queuedCommands, c, l, k)
  <2>1. ASSUME NEW l \in Locals, NEW c \in Commands
        PROVE  c \in Queued(l, k) <=> Waits(queuedCommands, c, l, k)
    <3>1. queuedCommands[l][k] \in Seq(Commands)
      BY <1>types DEF ListsTyping, Queues
    <3>2. DOMAIN queuedCommands[l][k] = 1 .. Len(queuedCommands[l][k])
      BY <3>1
    <3>. QED  BY <3>2 DEF Queued, Waits, Range
  <2>. QED  BY <1>1, <2>1
<1>5. ASSUME NEW c \in Commands, NEW l \in Locals,
             c \in inflightCommands[l][k] \/ Waits(queuedCommands, c, l, k)
      PROVE  /\ calls[c] = 0 /\ At(frame, c, l, k)
             /\ \A m \in Locals : c \notin scheduledErrors[m]
  <2>1. CASE c \in inflightCommands[l][k]
    <3>1. sends[c] # 0
      BY <1>types, <2>1, Places DEF ListsTyping
    <3>. QED  BY <1>types, <1>1, <2>1, <3>1, Places, Owing
  <2>2. CASE Waits(queuedCommands, c, l, k)
    BY <1>types, <2>2, Places
  <2>. QED  BY <1>5, <2>1, <2>2
<1>6. ASSUME NEW c \in Commands, c \in dropped', c \notin dropped
      PROVE  /\ calls[c] = 0 /\ Accepted(c)
             /\ ~Listed(inflightCommands', queuedCommands', scheduledErrors', c)
  <2>1. PICK l \in Locals : c \in inflightCommands[l][k] \/ Waits(queuedCommands, c, l, k)
    BY <1>4, <1>6
  <2>2. /\ calls[c] = 0 /\ At(frame, c, l, k)
        /\ \A m \in Locals : c \notin scheduledErrors[m]
    BY <1>5, <2>1
  <2>3. \A m \in Locals, d \in Keys : ~Waits(queuedCommands', c, m, d) /\ c \notin inflightCommands'[m][d]
    BY <1>2, <1>3, <2>2, Places DEF At
  <2>. QED  BY <1>1, <2>2, <2>3 DEF Accepted, At, Listed
<1>7. ASSUME NEW c \in Commands, Listed(inflightCommands, queuedCommands, scheduledErrors, c), c \notin dropped'
      PROVE  Listed(inflightCommands', queuedCommands', scheduledErrors', c)
  <2>1. \A m \in Locals, d \in Keys :
          /\ Waits(queuedCommands, c, m, d) => Waits(queuedCommands', c, m, d)
          /\ c \in inflightCommands[m][d] => c \in inflightCommands'[m][d]
    BY <1>2, <1>3, <1>4, <1>7
  <2>. QED  BY <1>1, <1>7, <2>1 DEF Listed
<1>8. \A m \in Locals : \A c \in scheduledErrors'[m] : calls[c] = 0
  BY <1>1, Owing
<1>9. \A m \in Locals, d \in Keys :
         /\ inflightCommands'[m][d] \subseteq inflightCommands[m][d]
         /\ \A c \in inflightCommands'[m][d] : calls[c] = 0
  BY <1>1, <1>2, Owing
<1>. QED  BY <1>1, <1>3, <1>4, <1>6, <1>7, <1>8, <1>9, RemovalAccounts

\* All that a local entity has is discarded with it.
LEMMA EndUnregisterAccounts == Safe /\ EndUnregister => Accounts'
<1>. SUFFICES ASSUME Safe, EndUnregister PROVE Accounts'
  OBVIOUS
<1> DEFINE l == loop.local
<1>types. ListsTyping /\ l \in Locals
  BY LoopPlace DEF EndUnregister, LoopInPlace
<1>1. /\ UNCHANGED <<frame, sends, calls, outcome, retried, rewalked>>
      /\ inflightCommands' = [inflightCommands EXCEPT ![l] = [k \in Keys |-> {}]]
      /\ queuedCommands' = [queuedCommands EXCEPT ![l] = [k \in Keys |-> <<>>]]
      /\ scheduledErrors' = [scheduledErrors EXCEPT ![l] = {}]
      /\ dropped' = dropped \cup {c \in Held(l) : calls[c] = 0}
      /\ loop.kind = "unregister"
  BY DEF EndUnregister
<1> HIDE DEF l
<1>2. /\ \A m \in Locals, d \in Keys :
           /\ inflightCommands'[m][d] = IF m = l THEN {} ELSE inflightCommands[m][d]
           /\ queuedCommands'[m][d] = IF m = l THEN <<>> ELSE queuedCommands[m][d]
      /\ \A m \in Locals : scheduledErrors'[m] = IF m = l THEN {} ELSE scheduledErrors[m]
  BY <1>types, <1>1 DEF ListsTyping, Inflights, Queues
<1>empty. \A i : i \notin 1 .. Len(<<>>)
  OBVIOUS
<1>3. \A m \in Locals, d \in Keys : \A c \in Commands :
        Waits(queuedCommands', c, m, d) <=> Waits(queuedCommands, c, m, d) /\ m # l
  BY <1>2, <1>empty DEF Waits
<1>4. \A c \in Commands : c \in Held(l) <=>
        \/ c \in scheduledErrors[l]
        \/ \E k \in Keys : c \in inflightCommands[l][k] \/ Waits(queuedCommands, c, l, k)
  <2>1. ASSUME NEW k \in Keys, NEW c \in Commands
        PROVE  c \in Queued(l, k) <=> Waits(queuedCommands, c, l, k)
    <3>1. queuedCommands[l][k] \in Seq(Commands)
      BY <1>types DEF ListsTyping, Queues
    <3>2. DOMAIN queuedCommands[l][k] = 1 .. Len(queuedCommands[l][k])
      BY <3>1
    <3>. QED  BY <3>2 DEF Queued, Waits, Range
  <2>. QED  BY <2>1 DEF Held
<1>5. ASSUME NEW c \in Commands, c \in Held(l)
      PROVE  frame[c] # None /\ frame[c].local = l
  BY <1>4, <1>5, <1>types, Places DEF At
<1>6. ASSUME NEW c \in Commands, c \in dropped', c \notin dropped
      PROVE  /\ calls[c] = 0 /\ Accepted(c)
             /\ ~Listed(inflightCommands', queuedCommands', scheduledErrors', c)
  <2>1. c \in Held(l) /\ calls[c] = 0
    BY <1>1, <1>6
  <2>2. frame[c] # None /\ frame[c].local = l
    BY <1>5, <2>1
  <2>3. \A m \in Locals : c \notin scheduledErrors'[m]
    BY <1>2, <2>2, Places
  <2>4. \A m \in Locals, d \in Keys : ~Waits(queuedCommands', c, m, d) /\ c \notin inflightCommands'[m][d]
    BY <1>2, <1>3, <2>2, Places DEF At
  <2>. QED  BY <2>1, <2>2, <2>3, <2>4 DEF Accepted, Listed
<1>7. ASSUME NEW c \in Commands, Listed(inflightCommands, queuedCommands, scheduledErrors, c),
             calls[c] = 0, c \notin dropped'
      PROVE  Listed(inflightCommands', queuedCommands', scheduledErrors', c)
  <2>1. c \notin Held(l)
    BY <1>1, <1>7
  <2>2. \A m \in Locals, d \in Keys :
          /\ Waits(queuedCommands, c, m, d) => Waits(queuedCommands', c, m, d)
          /\ c \in inflightCommands[m][d] => c \in inflightCommands'[m][d]
    BY <1>2, <1>3, <1>4, <2>1
  <2>3. \A m \in Locals : c \in scheduledErrors[m] => c \in scheduledErrors'[m]
    BY <1>2, <1>4, <2>1
  <2>. QED  BY <1>7, <2>2, <2>3 DEF Listed
<1>8. \A m \in Locals :
         /\ scheduledErrors'[m] \subseteq scheduledErrors[m]
         /\ \A c \in scheduledErrors'[m] : calls[c] = 0
  BY <1>1, <1>2 DEF Safe, Accounts, ErrorsApart
<1>9. \A m \in Locals, d \in Keys :
         /\ inflightCommands'[m][d] \subseteq inflightCommands[m][d]
         /\ \A c \in inflightCommands'[m][d] : calls[c] = 0
  BY <1>1, <1>2 DEF Safe, Accounts, Flights, Flight, l
<1>10. dropped \subseteq dropped'
  BY <1>1
<1>. QED  BY <1>1, <1>3, <1>6, <1>7, <1>8, <1>9, <1>10, RemovalAccounts

\* A command is sent again.
LEMMA RetryAccounts ==
  ASSUME Safe, NEW c \in Commands, RetryCommand(c)
  PROVE  Accounts'
<1> DEFINE l == loop.local
           k == loop.key
<1>types. /\ loop \in Loop /\ l \in Locals /\ k \in Keys
          /\ c \in inflightCommands[l][k] /\ sends \in [Commands -> Nat]
  BY LoopPlace DEF RetryCommand, ListsTyping
<1>0. calls[c] = 0
  BY DEF RetryCommand, Safe, Loops, LoopChecks
<1>1. /\ UNCHANGED listVars /\ CallHandler(c, "TransportError")
      /\ loop' = [loop EXCEPT !.commands = @ \ {c}, !.handler = c]
      => Accounts'
  <2>. SUFFICES ASSUME UNCHANGED listVars, CallHandler(c, "TransportError"),
                       loop' = [loop EXCEPT !.commands = @ \ {c}, !.handler = c]
                PROVE  Accounts'
    OBVIOUS
  <2>1. /\ loop'.kind = loop.kind /\ loop'.local = loop.local /\ loop'.key = loop.key
        /\ loop'.handler = c
    BY <1>types DEF Loop
  <2>2. /\ loop.kind = "timeouts" /\ loop.handler = None /\ retried' = retried \cup {c}
        /\ rewalked' = rewalked
    BY DEF RetryCommand, MarkRetried
  <2>3. "TransportError" \in Errors /\ Twice(c)
    BY <1>0 DEF Errors, Twice
  <2> HIDE DEF l, k
  <2>4. l = loop.local /\ k = loop.key
    BY DEF l, k
  <2>. QED  BY <1>types, <2>1, <2>2, <2>3, <2>4, HandlerRuns
<1>2. ASSUME sends' = [sends EXCEPT ![c] = @ + 1], loop' = [loop EXCEPT !.commands = @ \ {c}],
             UNCHANGED <<calls, outcome>>
      PROVE  Accounts'
  <2>1. /\ loop'.kind = loop.kind /\ loop'.local = loop.local /\ loop'.key = loop.key
        /\ loop'.handler = loop.handler
    BY <1>2, <1>types DEF Loop
  <2>2. /\ UNCHANGED <<frame, inflightCommands, queuedCommands, scheduledErrors, dropped, rewalked>>
        /\ retried' = retried \cup {c} /\ c \notin retried
        /\ loop.kind = "timeouts" /\ loop.handler = None
    BY DEF RetryCommand, MarkRetried
  <2>3. sends[c] = 1
    BY <1>0, <1>types, <2>2 DEF Safe, Accounts, Flights, Flight
  <2>4. sends'[c] = 2 /\ \A d \in Commands : d # c => sends'[d] = sends[d]
    BY <1>types, <1>2, <2>3
  <2>5. c \notin dropped
    BY <1>types DEF Safe, Accounts, Kept, Listed
  <2>6. \A m \in Locals : c \notin scheduledErrors[m]
    BY <2>3, Places
  <2>7. History' /\ Repeats'
    BY <1>2, <2>2, <2>4 DEF Safe, Accounts, History, Repeats, Accepted
  <2>8. /\ Kept(frame, calls, dropped, inflightCommands, queuedCommands, scheduledErrors)'
        /\ QueueApart(calls, queuedCommands, scheduledErrors)'
    BY <1>2, <2>2 DEF Safe, Accounts, Kept, Listed, Waits, QueueApart
  <2>9. ErrorsApart(frame, sends, calls, loop, scheduledErrors)'
    <3>1. ASSUME NEW m \in Locals, NEW d \in scheduledErrors[m]
          PROVE  calls[d] = 0 /\ frame[d] # None /\ frame[d].local = m /\ sends'[d] = 0
      BY <2>2, <2>4, <2>6, Places, Owing
    <3>. QED  BY <1>2, <2>2, <3>1 DEF ErrorsApart
  <2>10. Flights(sends, calls, outcome, retried, loop, inflightCommands)'
    <3>1. ASSUME NEW m \in Locals, NEW n \in Keys, NEW d \in inflightCommands[m][n]
          PROVE  calls[d] = 0 /\ sends'[d] = IF d \in retried' THEN 2 ELSE 1
      <4>1. d \in Commands /\ calls[d] = 0
        BY <2>2, Places, Owing
      <4>2. sends[d] = IF d \in retried THEN 2 ELSE 1
        BY <4>1 DEF Safe, Accounts, Flights, Flight
      <4>. QED  BY <2>2, <2>4, <4>1, <4>2
    <3>. QED  BY <1>2, <2>2, <3>1 DEF Flights, Flight
  <2>. QED  BY <2>7, <2>8, <2>9, <2>10 DEF Accounts
<1>3. \/ sends' = [sends EXCEPT ![c] = @ + 1] /\ loop' = [loop EXCEPT !.commands = @ \ {c}] /\ UNCHANGED <<calls, outcome>>
      \/ /\ UNCHANGED listVars /\ CallHandler(c, "TransportError")
         /\ loop' = [loop EXCEPT !.commands = @ \ {c}, !.handler = c]
  BY DEF RetryCommand, listVars
<1> HIDE DEF l, k
<1>. QED  BY <1>1, <1>2, <1>3

\* The queues with c at the end of that of k.
Appended(c, l, k) == [queuedCommands EXCEPT ![l][k] = Append(@, c)]

\* A command that is sent had no history, and is at the end of one queue only.
LEMMA SendCommandLists ==
  ASSUME Safe, NEW c \in Commands, NEW l \in Locals, NEW k \in Keys, SendCommand(c, l, k)
  PROVE  /\ Appended(c, l, k) \in Queues /\ CheckQueue(l, k, inflightCommands, Appended(c, l, k))
         /\ \A m \in Locals, d \in Keys : \A e \in Commands :
              Waits(Appended(c, l, k), e, m, d) <=> Waits(queuedCommands, e, m, d) \/ (e = c /\ m = l /\ d = k)
         /\ frame[c] = None /\ frame'[c] # None /\ frame'[c].local = l /\ frame'[c].key = k
         /\ \A e \in Commands : e # c => frame'[e] = frame[e]
         /\ calls[c] = 0 /\ c \notin dropped /\ sends[c] = 0 /\ c \notin retried
         /\ ~Listed(inflightCommands, queuedCommands, scheduledErrors, c)
         /\ Distinct(Appended(c, l, k)[l][k])
<1> DEFINE queued == Appended(c, l, k)
           q == queuedCommands[l][k]
           header == [local |-> l, key |-> k, sequenceID |-> currentSequenceID[l][Protocol(k)],
                      era |-> era[l][Protocol(k)]]
<1>types. /\ ListsTyping /\ OthersTyping /\ q \in Seq(Commands)
  BY LoopPlace DEF ListsTyping, Queues
<1>1. /\ frame[c] = None /\ frame' = [frame EXCEPT ![c] = header]
      /\ CheckQueue(l, k, inflightCommands, queued)
  BY DEF SendCommand, Accepted, Enqueue, Appended
<1>2. header \in Frame /\ header # None
  BY <1>types, NoneIsNoFrame DEF OthersTyping, Frame, Protocol, Protocols
<1>3. /\ frame'[c] = header /\ \A e \in Commands : e # c => frame'[e] = frame[e]
  BY <1>types, <1>1 DEF OthersTyping
<1>4. /\ Append(q, c) \in Seq(Commands) /\ Len(q) \in Nat /\ Len(Append(q, c)) = Len(q) + 1
      /\ Append(q, c)[Len(q) + 1] = c
      /\ \A i \in 1 .. Len(q) : Append(q, c)[i] = q[i]
  BY <1>types, AppendProperties, LenProperties
<1>5. queued \in Queues /\ queued[l][k] = Append(q, c)
      /\ \A m \in Locals, d \in Keys : <<m, d>> # <<l, k>> => queued[m][d] = queuedCommands[m][d]
  BY <1>types, <1>4 DEF ListsTyping, Queues, Appended
<1> HIDE DEF q, queued
<1>6. ASSUME NEW m \in Locals, NEW d \in Keys, NEW e \in Commands
      PROVE  Waits(queued, e, m, d) <=> Waits(queuedCommands, e, m, d) \/ (e = c /\ m = l /\ d = k)
  <2>1. CASE <<m, d>> # <<l, k>>
    BY <1>5, <2>1 DEF Waits
  <2>2. CASE m = l /\ d = k
    <3>1. Waits(queued, e, m, d) <=> \E i \in 1 .. Len(Append(q, c)) : Append(q, c)[i] = e
      BY <1>5, <2>2 DEF Waits
    <3>2. Waits(queuedCommands, e, m, d) <=> \E i \in 1 .. Len(q) : q[i] = e
      BY <2>2 DEF Waits, q
    <3>3. ASSUME NEW i \in 1 .. Len(Append(q, c)), Append(q, c)[i] = e
          PROVE  e = c \/ \E j \in 1 .. Len(q) : q[j] = e
      <4>1. i \in 1 .. Len(q) \/ i = Len(q) + 1
        BY <1>4
      <4>. QED  BY <1>4, <3>3, <4>1
    <3>4. ASSUME NEW j \in 1 .. Len(q), q[j] = e
          PROVE  \E i \in 1 .. Len(Append(q, c)) : Append(q, c)[i] = e
      <4>1. j \in 1 .. Len(Append(q, c)) /\ Append(q, c)[j] = e
        BY <1>4, <3>4
      <4>. QED  BY <4>1
    <3>5. Len(q) + 1 \in 1 .. Len(Append(q, c))
      BY <1>4
    <3>. QED  BY <1>4, <2>2, <3>1, <3>2, <3>3, <3>4, <3>5
  <2>. QED  BY <2>1, <2>2
<1>7. /\ \A m \in Locals, d \in Keys : ~Waits(queuedCommands, c, m, d) /\ c \notin inflightCommands[m][d]
      /\ \A m \in Locals : c \notin scheduledErrors[m]
  BY <1>1, Places DEF At
<1>8. ~Listed(inflightCommands, queuedCommands, scheduledErrors, c)
  BY <1>7 DEF Listed
<1>9. calls[c] = 0 /\ c \notin dropped /\ sends[c] = 0 /\ c \notin retried
  <2>1. ~(sends[c] > 0) /\ sends[c] \in Nat
    BY <1>1, <1>types DEF Safe, Lists, SentAccepted, Accepted, ListsTyping
  <2>2. sends[c] = 0
    BY <2>1
  <2>. QED  BY <1>1, <2>1, <2>2 DEF Safe, Accounts, History, Accepted
<1>10. Distinct(queued[l][k])
  <2>1. \A i \in 1 .. Len(q) : q[i] # c
    BY <1>7 DEF Waits, q
  <2>2. Distinct(q)
    BY Places DEF q
  <2>3. ASSUME NEW i \in 1 .. Len(Append(q, c)), NEW j \in 1 .. Len(Append(q, c)), i # j
        PROVE  Append(q, c)[i] # Append(q, c)[j]
    <3>1. i \in 1 .. Len(q) \/ i = Len(q) + 1
      BY <1>4
    <3>2. j \in 1 .. Len(q) \/ j = Len(q) + 1
      BY <1>4
    <3>. QED  BY <1>4, <2>1, <2>2, <2>3, <3>1, <3>2 DEF Distinct
  <2>. QED  BY <1>5, <2>3 DEF Distinct
<1>11. header.local = l /\ header.key = k
  OBVIOUS
<1> HIDE DEF header
<1>. QED  BY <1>1, <1>2, <1>3, <1>5, <1>6, <1>8, <1>9, <1>10, <1>11 DEF queued

\* A handler that sends changes what is left to the loop that runs it, not its place.
LEMMA SendCommandLoop ==
  ASSUME Safe, NEW c \in Commands, NEW l \in Locals, NEW k \in Keys, SendCommand(c, l, k)
  PROVE  /\ loop'.kind = loop.kind /\ loop'.local = loop.local /\ loop'.key = loop.key
         /\ loop'.handler = loop.handler /\ loop'.stage = loop.stage
         /\ rewalked \subseteq rewalked'
         /\ loop.kind # "unregister" => loop'.commands = loop.commands
         /\ \/ loop'.keys = loop.keys
            \/ loop.kind = "idle" \/ loop.kind = "timeouts"
            \/ /\ l = loop.local /\ loop'.commands = loop.commands
               /\ loop.key \notin loop'.keys /\ loop'.keys \subseteq Destinations(loop.stage)
               /\ \A d \in loop'.keys : d \notin loop.keys => inflightCommands[l][d] \subseteq rewalked'
         /\ \/ loop'.commands = loop.commands
            \/ /\ l = loop.local /\ k = loop.key
               /\ loop'.commands = loop.commands \cup (inflightCommands'[l][k] \ inflightCommands[l][k])
<1>1. loop \in Loop
  BY LoopPlace
<1>2. LoopAfterSend(l, k, c)
  BY DEF SendCommand
<1>3. CASE UNCHANGED <<loop, rewalked>>
  BY <1>3
<1>4. ASSUME NEW left \in SUBSET ((inflightKeys'[l] \cap Destinations(loop.stage)) \ {loop.key}),
             l = loop.local, loop' = [loop EXCEPT !.keys = left],
             rewalked' = IF loop.kind = "timeouts" THEN rewalked
               ELSE rewalked \cup UNION {inflightCommands[l][seen] : seen \in left \ loop.keys}
      PROVE  /\ loop'.kind = loop.kind /\ loop'.local = loop.local /\ loop'.key = loop.key
             /\ loop'.handler = loop.handler /\ loop'.stage = loop.stage
             /\ rewalked \subseteq rewalked' /\ loop'.commands = loop.commands
             /\ \/ loop.kind = "timeouts"
                \/ /\ loop.key \notin loop'.keys /\ loop'.keys \subseteq Destinations(loop.stage)
                   /\ \A d \in loop'.keys : d \notin loop.keys => inflightCommands[l][d] \subseteq rewalked'
  <2>1. /\ loop'.kind = loop.kind /\ loop'.local = loop.local /\ loop'.key = loop.key
        /\ loop'.handler = loop.handler /\ loop'.stage = loop.stage
        /\ loop'.commands = loop.commands /\ loop'.keys = left
    BY <1>1, <1>4 DEF Loop
  <2>2. CASE loop.kind # "timeouts"
    <3>1. \A d \in left : d \notin loop.keys => inflightCommands[l][d] \subseteq rewalked'
      BY <1>4, <2>2
    <3>. QED  BY <1>4, <2>1, <2>2, <3>1
  <2>. QED  BY <1>4, <2>1, <2>2
<1>5. ASSUME l = loop.local, k = loop.key, loop.kind = "unregister", rewalked' = rewalked,
             loop' = [loop EXCEPT !.commands =
                        @ \cup (inflightCommands'[l][k] \ inflightCommands[l][k])]
      PROVE  /\ loop'.kind = loop.kind /\ loop'.local = loop.local /\ loop'.key = loop.key
             /\ loop'.handler = loop.handler /\ loop'.stage = loop.stage
             /\ rewalked \subseteq rewalked' /\ loop'.keys = loop.keys
             /\ loop'.commands = loop.commands \cup (inflightCommands'[l][k] \ inflightCommands[l][k])
  BY <1>1, <1>5 DEF Loop
<1>. QED  BY <1>2, <1>3, <1>4, <1>5 DEF LoopAfterSend

\* What sending adds to the lists owes its handler.
LEMMA SendCommandAdds ==
  ASSUME Safe, NEW c \in Commands, NEW l \in Locals, NEW k \in Keys, SendCommand(c, l, k)
  PROVE  /\ \A m \in Locals, d \in Keys :
              /\ inflightCommands[m][d] \subseteq inflightCommands'[m][d]
              /\ \A e \in inflightCommands'[m][d] :
                   e \in inflightCommands[m][d] \/ (calls[e] = 0 /\ e \in Commands)
         /\ \A m \in Locals : scheduledErrors[m] \subseteq scheduledErrors'[m]
<1> DEFINE queued == Appended(c, l, k)
<1>1. /\ queued \in Queues /\ CheckQueue(l, k, inflightCommands, queued)
      /\ \A m \in Locals, d \in Keys : \A e \in Commands :
           Waits(queued, e, m, d) <=> Waits(queuedCommands, e, m, d) \/ (e = c /\ m = l /\ d = k)
      /\ frame[c] = None /\ frame'[c] # None /\ frame'[c].local = l /\ frame'[c].key = k
      /\ \A e \in Commands : e # c => frame'[e] = frame[e]
      /\ calls[c] = 0 /\ c \notin dropped /\ sends[c] = 0 /\ c \notin retried
      /\ ~Listed(inflightCommands, queuedCommands, scheduledErrors, c)
      /\ Distinct(queued[l][k])
  BY SendCommandLists
<1> HIDE DEF queued
<1>types. ListsTyping /\ inflightCommands \in Inflights
  BY LoopPlace DEF ListsTyping
<1>2. CASE inflightCommands' = inflightCommands /\ scheduledErrors' = scheduledErrors
  BY <1>2
<1>3. ASSUME NEW h \in Commands,
             Took(h, l, k, inflightCommands, queued, scheduledErrors, sends,
                  inflightCommands', queuedCommands', scheduledErrors', sends')
      PROVE  /\ \A m \in Locals, d \in Keys :
                  /\ inflightCommands[m][d] \subseteq inflightCommands'[m][d]
                  /\ \A e \in inflightCommands'[m][d] :
                       e \in inflightCommands[m][d] \/ (calls[e] = 0 /\ e \in Commands)
             /\ \A m \in Locals : scheduledErrors[m] \subseteq scheduledErrors'[m]
  <2>1. calls[h] = 0
    BY <1>1, <1>3, Places DEF Took
  <2>2. \A m \in Locals, d \in Keys : inflightCommands'[m][d] = inflightCommands[m][d]
                                        \/ inflightCommands'[m][d] = inflightCommands[m][d] \cup {h}
    BY <1>3 DEF Took
  <2>3. \A m \in Locals : scheduledErrors[m] \subseteq scheduledErrors'[m]
    <3>1. \A m \in Locals : scheduledErrors'[m] = scheduledErrors[m]
                             \/ scheduledErrors'[m] = scheduledErrors[m] \cup {h}
      BY <1>3 DEF Took
    <3>. QED  BY <3>1
  <2>4. ASSUME NEW m \in Locals, NEW d \in Keys
        PROVE  /\ inflightCommands[m][d] \subseteq inflightCommands'[m][d]
               /\ \A e \in inflightCommands'[m][d] :
                    e \in inflightCommands[m][d] \/ (calls[e] = 0 /\ e \in Commands)
    <3>1. inflightCommands'[m][d] = inflightCommands[m][d]
            \/ inflightCommands'[m][d] = inflightCommands[m][d] \cup {h}
      BY <2>2
    <3>. QED  BY <2>1, <3>1
  <2>. QED  BY <2>3, <2>4
<1>. QED  BY <1>types, <1>1, <1>2, <1>3, CheckQueueTakes

LEMMA SendCommandAccounts ==
  ASSUME Safe, NEW c \in Commands, NEW l \in Locals, NEW k \in Keys, SendCommand(c, l, k)
  PROVE  Accounts'
<1> DEFINE queued == Appended(c, l, k)
           F == frame'
           P == loop'
<1>types. ListsTyping /\ inflightCommands \in Inflights /\ scheduledErrors \in [Locals -> SUBSET Commands]
  BY LoopPlace DEF ListsTyping
<1>1. /\ queued \in Queues /\ CheckQueue(l, k, inflightCommands, queued)
      /\ \A m \in Locals, d \in Keys : \A e \in Commands :
           Waits(queued, e, m, d) <=> Waits(queuedCommands, e, m, d) \/ (e = c /\ m = l /\ d = k)
      /\ frame[c] = None /\ F[c] # None /\ F[c].local = l /\ F[c].key = k
      /\ \A e \in Commands : e # c => F[e] = frame[e]
      /\ calls[c] = 0 /\ c \notin dropped /\ sends[c] = 0 /\ c \notin retried
      /\ ~Listed(inflightCommands, queuedCommands, scheduledErrors, c)
      /\ Distinct(queued[l][k])
  BY SendCommandLists
<1>2. /\ UNCHANGED <<calls, outcome, dropped, retried>> /\ rewalked \subseteq rewalked'
      /\ P.kind = loop.kind /\ P.local = loop.local /\ P.key = loop.key
      /\ P.handler = loop.handler
  BY SendCommandLoop DEF SendCommand
<1> HIDE DEF queued, F, P
<1>3. Kept(F, calls, dropped, inflightCommands, queued, scheduledErrors)
  <2>1. Listed(inflightCommands, queued, scheduledErrors, c)
    BY <1>1 DEF Listed
  <2>2. \A e \in Commands : e # c => (Listed(inflightCommands, queued, scheduledErrors, e)
                                        <=> Listed(inflightCommands, queuedCommands, scheduledErrors, e))
    BY <1>1 DEF Listed
  <2>. QED  BY <1>1, <2>1, <2>2 DEF Safe, Accounts, Kept
<1>4. QueueApart(calls, queued, scheduledErrors)
  <2>1. \A m \in Locals : c \notin scheduledErrors[m]
    BY <1>1 DEF Listed
  <2>. QED  BY <1>1, <2>1 DEF Safe, Accounts, QueueApart
<1>5. ErrorsApart(F, sends, calls, P, scheduledErrors)
  <2>1. ASSUME NEW m \in Locals, NEW e \in scheduledErrors[m]
        PROVE  e \in Commands /\ e # c /\ F[e] = frame[e]
    BY <1>1, <1>types DEF Listed
  <2>. QED  BY <1>2, <2>1 DEF Safe, Accounts, ErrorsApart
<1>6. Flights(sends, calls, outcome, retried, P, inflightCommands)
  BY <1>2 DEF Safe, Accounts, Flights, Flight
<1>7. \A m \in Locals, d \in Keys : \A e \in Commands :
        /\ Waits(queued, e, m, d) => At(F, e, m, d) /\ sends[e] = 0 /\ e \notin retried
        /\ e \in inflightCommands[m][d] => sends[e] > 0
  <2>1. ASSUME NEW m \in Locals, NEW d \in Keys, NEW e \in Commands, Waits(queued, e, m, d)
        PROVE  At(F, e, m, d) /\ sends[e] = 0 /\ e \notin retried
    <3>1. CASE e = c
      <4>1. m = l /\ d = k
        BY <1>1, <2>1, <3>1 DEF Listed
      <4>. QED  BY <1>1, <3>1, <4>1 DEF At
    <3>2. CASE e # c
      <4>1. Waits(queuedCommands, e, m, d)
        BY <1>1, <2>1, <3>2
      <4>. QED  BY <1>1, <3>2, <4>1, Places DEF At
    <3>. QED  BY <3>1, <3>2
  <2>. QED  BY <2>1, Places
<1>8. /\ Kept(F, calls, dropped, inflightCommands', queuedCommands', scheduledErrors')
      /\ QueueApart(calls, queuedCommands', scheduledErrors')
      /\ ErrorsApart(F, sends', calls, P, scheduledErrors')
      /\ Flights(sends', calls, outcome, retried, P, inflightCommands')
  BY <1>types, <1>1, <1>3, <1>4, <1>5, <1>6, <1>7, ServingAccounts
<1>9. History'
  <2>1. \A e \in Commands : sends[e] > 0 => sends'[e] > 0
    <3>1. sends \in [Commands -> Nat] /\ \A n \in Nat : n + 1 > 0
      BY <1>types DEF ListsTyping
    <3>2. ASSUME NEW h \in Commands,
                 Took(h, l, k, inflightCommands, queued, scheduledErrors, sends,
                      inflightCommands', queuedCommands', scheduledErrors', sends')
          PROVE  \A e \in Commands : sends[e] > 0 => sends'[e] > 0
      <4>1. \/ sends'[h] = sends[h] + 1 /\ \A e \in Commands : e # h => sends'[e] = sends[e]
            \/ sends' = sends
        BY <3>2 DEF Took
      <4>. QED  BY <3>1, <4>1
    <3>. QED  BY <1>types, <1>1, <3>2, CheckQueueTakes
  <2>2. \A e \in Commands : frame'[e] = None => frame[e] = None
    BY <1>1 DEF F
  <2>. QED  BY <1>2, <2>1, <2>2 DEF Safe, Accounts, History, Accepted
<1>10. Repeats'
  BY <1>2 DEF Safe, Accounts, Repeats
<1>. QED  BY <1>2, <1>8, <1>9, <1>10 DEF Accounts, F, P

\* Nothing that was sent is not.
LEMMA ServedSends ==
  ASSUME Safe, NEW l \in Locals, NEW k \in Keys,
         \/ CheckQueue(l, k, inflightCommands, queuedCommands)
         \/ \E c : RemoveInflight(l, k, c)
  PROVE  \A d \in Commands : sends[d] > 0 => sends'[d] > 0
<1>1. ListsTyping /\ inflightCommands \in Inflights /\ queuedCommands \in Queues
  BY TypingParts DEF Safe, ListsTyping
<1>2. sends \in [Commands -> Nat] /\ \A n \in Nat : n + 1 > 0
  BY <1>1 DEF ListsTyping
<1>3. ASSUME NEW inflight \in Inflights, CheckQueue(l, k, inflight, queuedCommands)
      PROVE  \A d \in Commands : sends[d] > 0 => sends'[d] > 0
  <2>1. \/ sends' = sends
        \/ \E h \in Commands : sends' = [sends EXCEPT ![h] = @ + 1]
    BY <1>1, <1>3, CheckQueueSteps
  <2>. QED  BY <1>2, <2>1
<1>4. \A c : [inflightCommands EXCEPT ![l][k] = @ \ {c}] \in Inflights
  BY <1>1 DEF Inflights
<1>. QED  BY <1>1, <1>3, <1>4 DEF RemoveInflight

\* The frame of a command in flight says where it is.
LEMMA ResponseAccounts ==
  ASSUME Safe, NEW f \in Commands, NEW c \in Commands, NEW s \in Senders, HandleResponse(f, c, s)
  PROVE  /\ frame[f].local \in Locals /\ frame[f].key \in Keys
         /\ c \in inflightCommands[frame[f].local][frame[f].key]
         /\ calls[c] = 0 /\ calls'[c] = 1 /\ outcome'[c] = "NoError"
         /\ \A d \in Commands : d # c => calls'[d] = calls[d] /\ outcome'[d] = outcome[d]
         /\ Accounts'
<1> DEFINE l == frame[f].local
           k == frame[f].key
<1>1. frame[f] \in Frame
  BY LoopPlace DEF HandleResponse, Sent, Accepted, OthersTyping
<1>2. l \in Locals /\ k \in Keys
  BY <1>1 DEF Frame
<1>3. /\ c \in inflightCommands[l][k] /\ RemoveInflight(l, k, c) /\ CallHandler(c, "NoError")
      /\ UNCHANGED <<frame, retried, dropped, rewalked, loop>>
      /\ loop.kind = "idle" /\ loop.handler = None
  BY DEF HandleResponse, Matches, Safe, Loops, LoopIdle
<1> HIDE DEF l, k
<1>4. calls[c] = 0
  BY <1>2, <1>3, Owing
<1>5. /\ calls'[c] = 1 /\ outcome'[c] = "NoError"
      /\ \A d \in Commands : d # c => calls'[d] = calls[d] /\ outcome'[d] = outcome[d]
  BY <1>3, <1>4, CallTyping DEF CallHandler
<1>6. At(frame, c, l, k) /\ sends[c] > 0
  BY <1>2, <1>3, Places
<1>7. c \notin dropped
  BY <1>2, <1>3 DEF Safe, Accounts, Kept, Listed
<1> DEFINE C == calls'
           O == outcome'
           P == loop'
<1>8. /\ C[c] # 0 /\ \A d \in Commands : d # c => C[d] = calls[d] /\ O[d] = outcome[d]
      /\ loop.handler \in {None, c} /\ P.kind = loop.kind /\ P.local = loop.local
  BY <1>3, <1>5
<1> HIDE DEF C, O, P
<1>9. /\ Kept(frame, C, dropped, inflightCommands', queuedCommands', scheduledErrors')
      /\ QueueApart(C, queuedCommands', scheduledErrors')
      /\ ErrorsApart(frame, sends', C, P, scheduledErrors')
      /\ Flights(sends', C, O, retried, P, inflightCommands')
  BY <1>2, <1>3, <1>8, RemoveInflightAccounts
<1>10. Repeats'
  BY <1>3, <1>5 DEF Safe, Accounts, Repeats
<1>11. History'
  <2>1. \A d \in Commands : sends[d] > 0 => sends'[d] > 0
    BY <1>2, <1>3, ServedSends
  <2>2. "NoError" # None
    BY NoneIsNoError DEF Errors
  <2>. QED  BY <1>3, <1>5, <1>6, <1>7, <2>1, <2>2 DEF Safe, Accounts, History, Accepted, At
<1>. QED  BY <1>2, <1>3, <1>4, <1>5, <1>9, <1>10, <1>11 DEF Accounts, C, O, P, l, k

LEMMA RemoveLostAccounts == Safe /\ RemoveLostCommand => Accounts'
<1>. SUFFICES ASSUME Safe, RemoveLostCommand PROVE Accounts'
  OBVIOUS
<1> DEFINE l == loop.local
           k == loop.key
           h == loop.handler
<1>1. /\ loop \in Loop /\ l \in Locals /\ k \in Keys /\ h \in Commands
      /\ h \in inflightCommands[l][k] /\ calls[h] > 0
  BY LoopPlace DEF RemoveLostCommand, Safe, Loops, LoopChecks
<1>2. /\ RemoveInflight(l, k, h) /\ UNCHANGED <<frame, calls, outcome, retried, dropped, rewalked>>
      /\ loop' = [loop EXCEPT !.handler = None]
  BY DEF RemoveLostCommand
<1>3. calls[h] # 0
  BY <1>1, CallTyping
<1> DEFINE P == loop'
<1>4. loop.handler \in {None, h} /\ P.kind = loop.kind /\ P.local = loop.local
  BY <1>1, <1>2 DEF Loop
<1> HIDE DEF l, k, h, P
<1>5. /\ Kept(frame, calls, dropped, inflightCommands', queuedCommands', scheduledErrors')
      /\ QueueApart(calls, queuedCommands', scheduledErrors')
      /\ ErrorsApart(frame, sends', calls, P, scheduledErrors')
      /\ Flights(sends', calls, outcome, retried, P, inflightCommands')
  BY <1>1, <1>2, <1>3, <1>4, RemoveInflightAccounts
<1>6. History' /\ Repeats'
  <2>1. \A d \in Commands : sends[d] > 0 => sends'[d] > 0
    BY <1>1, <1>2, ServedSends
  <2>. QED  BY <1>2, <2>1 DEF Safe, Accounts, History, Repeats, Accepted
<1>. QED  BY <1>2, <1>5, <1>6 DEF Accounts, P

LEMMA EndKeyAccounts == Safe /\ EndKey => Accounts'
<1>. SUFFICES ASSUME Safe, EndKey PROVE Accounts'
  OBVIOUS
<1> DEFINE l == loop.local
           k == loop.key
<1>1. /\ ListsTyping /\ inflightCommands \in Inflights /\ queuedCommands \in Queues
      /\ loop \in Loop /\ l \in Locals /\ k \in Keys /\ loop.handler = None
  BY LoopPlace DEF EndKey, ListsTyping
<1>2. /\ UNCHANGED <<frame, calls, outcome, retried, dropped, rewalked>>
      /\ loop' = [loop EXCEPT !.key = None]
      /\ \/ loop.kind = "timeouts" /\ CheckQueue(l, k, inflightCommands, queuedCommands)
         \/ UNCHANGED listVars
  BY DEF EndKey, ServeQueueAfter, listVars
<1>3. loop'.kind = loop.kind /\ loop'.local = loop.local /\ loop'.handler = None
  BY <1>1, <1>2 DEF Loop
<1>4. CASE UNCHANGED listVars
  BY <1>1, <1>2, <1>3, <1>4, LoopMovesAccounts
<1>5. CASE loop.kind = "timeouts" /\ CheckQueue(l, k, inflightCommands, queuedCommands)
  <2> DEFINE P == loop'
  <2>1. P.kind = loop.kind /\ P.local = loop.local /\ P.handler = None
    BY <1>3
  <2> HIDE DEF l, k, P
  <2>2. ErrorsApart(frame, sends, calls, P, scheduledErrors)
    BY <1>1, <1>5, Places, Owing DEF ErrorsApart
  <2>3. Flights(sends, calls, outcome, retried, P, inflightCommands)
    BY <1>1, <1>5, Owing DEF Safe, Accounts, Flights, Flight
  <2>4. /\ Kept(frame, calls, dropped, inflightCommands', queuedCommands', scheduledErrors')
        /\ QueueApart(calls, queuedCommands', scheduledErrors')
        /\ ErrorsApart(frame, sends', calls, P, scheduledErrors')
        /\ Flights(sends', calls, outcome, retried, P, inflightCommands')
    <3>1. /\ Kept(frame, calls, dropped, inflightCommands, queuedCommands, scheduledErrors)
          /\ QueueApart(calls, queuedCommands, scheduledErrors)
      BY DEF Safe, Accounts
    <3>2. \A m \in Locals, d \in Keys : \A c \in Commands :
            /\ Waits(queuedCommands, c, m, d) => At(frame, c, m, d) /\ sends[c] = 0 /\ c \notin retried
            /\ c \in inflightCommands[m][d] => sends[c] > 0
      BY Places
    <3>3. Distinct(queuedCommands[l][k])
      BY <1>1, Places
    <3>. QED  BY <1>1, <1>5, <2>2, <2>3, <3>1, <3>2, <3>3, ServingAccounts
  <2>5. History' /\ Repeats'
    <3>1. \A d \in Commands : sends[d] > 0 => sends'[d] > 0
      BY <1>1, <1>5, ServedSends
    <3>. QED  BY <1>2, <3>1 DEF Safe, Accounts, History, Repeats, Accepted
  <2>. QED  BY <1>2, <2>4, <2>5 DEF Accounts, P
<1>. QED  BY <1>2, <1>4, <1>5

LEMMA AccountsNext == Safe /\ [Next]_vars => Accounts'
<1>. SUFFICES ASSUME Safe, [Next]_vars PROVE Accounts'
  OBVIOUS
<1>in. loop \in Loop /\ LoopInPlace
  BY LoopPlace
<1>quiet. UNCHANGED <<listVars, calls, outcome, retried, rewalked, loop>> => Accounts'
  BY QuietAccounts
<1>1. ASSUME NEW c \in Commands, NEW l \in Locals, NEW k \in Keys, SendCommand(c, l, k)
      PROVE  Accounts'
  BY <1>1, SendCommandAccounts
<1>2. ASSUME NEW f \in Commands, NEW c \in Commands, NEW s \in Senders, HandleResponse(f, c, s)
      PROVE  Accounts'
  BY <1>2, ResponseAccounts
<1>3. ASSUME NEW f \in Commands, NEW c \in Commands, HandleInProgress(f, c) PROVE Accounts'
  BY <1>3, <1>quiet DEF HandleInProgress, listVars
<1>4. ASSUME NEW l \in Locals, RegisterLocalEntity(l) PROVE Accounts'
  BY <1>4, <1>quiet DEF RegisterLocalEntity, listVars
<1>5. ASSUME NEW l \in Locals, UnregisterLocalEntity(l) \/ NextLocal(l) PROVE Accounts'
  <2>1. UNCHANGED <<listVars, calls, outcome, retried, rewalked>>
    BY <1>5 DEF UnregisterLocalEntity, NextLocal, ghostVars, listVars
  <2>2. loop.kind = "idle" \/ (loop.kind = "timeouts" /\ loop.handler = None)
    BY <1>5 DEF UnregisterLocalEntity, NextLocal, Safe, Loops, LoopChecks
  <2>. QED  BY <2>1, <2>2, LoopMovesAccounts
<1>6. ASSUME NEW k \in AecpTargets, DiscardAECPCommandsTowardsEntity(k) PROVE Accounts'
  BY <1>6, DiscardAccounts
<1>7. CASE EndUnregister
  BY <1>7, EndUnregisterAccounts
<1>8. ASSUME NEW k \in Keys, NextKey(k) PROVE Accounts'
  <2>1. UNCHANGED <<listVars, calls, outcome, retried, rewalked>>
    BY <1>8 DEF NextKey, ghostVars, listVars
  <2>2. loop'.kind = loop.kind /\ loop'.local = loop.local
    BY <1>8, <1>in DEF NextKey, Loop
  <2>3. loop.kind = "timeouts" => loop.handler = None
    BY <1>8 DEF NextKey, Safe, Loops, LoopChecks
  <2>. QED  BY <2>1, <2>2, <2>3, LoopMovesAccounts
<1>9. CASE EndKey
  BY <1>9, EndKeyAccounts
<1>10. CASE RemoveLostCommand
  BY <1>10, RemoveLostAccounts
<1>11. ASSUME NEW c \in Commands, RetryCommand(c) PROVE Accounts'
  BY <1>11, RetryAccounts
<1>12. ASSUME NEW c \in Commands, TimeoutCommand(c) PROVE Accounts'
  <2>1. /\ loop.key \in Keys /\ loop.local \in Locals
        /\ c \in inflightCommands[loop.local][loop.key]
    BY <1>12, LoopPlace DEF TimeoutCommand
  <2>2. /\ loop'.kind = loop.kind /\ loop'.local = loop.local /\ loop'.key = loop.key
        /\ loop'.handler = c
    BY <1>12, <1>in DEF TimeoutCommand, Loop
  <2>3. Twice(c) /\ loop.kind = "timeouts" /\ loop.handler = None
    <3>1. loop.kind = "timeouts" /\ loop.handler = None
      BY <1>12 DEF TimeoutCommand
    <3>2. calls[c] = 0
      BY <2>1, <3>1, Owing
    <3>. QED  BY <3>1, <3>2 DEF Twice
  <2>4. CallHandler(c, "Timeout") /\ UNCHANGED <<listVars, rewalked>> /\ retried' = retried
    BY <1>12 DEF TimeoutCommand, listVars
  <2>5. "Timeout" \in Errors
    BY DEF Errors
  <2>. QED  BY <2>1, <2>2, <2>3, <2>4, <2>5, HandlerRuns
<1>13. ASSUME NEW c \in Commands, CancelCommand(c) PROVE Accounts'
  <2>1. /\ loop.key \in Keys /\ loop.local \in Locals
        /\ c \in inflightCommands[loop.local][loop.key]
    BY <1>13, LoopPlace DEF CancelCommand
  <2>2. /\ loop'.kind = loop.kind /\ loop'.local = loop.local /\ loop'.key = loop.key
    BY <1>13, <1>in DEF CancelCommand, Loop
  <2>3. Twice(c) /\ loop.kind = "unregister" /\ loop.handler = None
    BY <1>13 DEF CancelCommand, Safe, Loops, LoopCancels
  <2>4. CallHandler(c, "UnknownLocalEntity") /\ UNCHANGED <<listVars, rewalked>> /\ retried' = retried
    BY <1>13 DEF CancelCommand, listVars
  <2>5. "UnknownLocalEntity" \in Errors
    BY DEF Errors
  <2>. QED  BY <2>1, <2>2, <2>3, <2>4, <2>5, HandlerRuns
<1>14. ASSUME NEW c \in Commands, NotifyError(c) PROVE Accounts'
  <2>1. /\ loop.kind = "timeouts" /\ loop.handler = None /\ loop.key = None /\ loop.local # None
        /\ c \in scheduledErrors[loop.local]
    BY <1>14 DEF NotifyError, ScheduledErrors, Protocols, Safe, Loops, LoopErrors
  <2>2. loop.local \in Locals /\ Twice(c)
    BY <2>1, LoopPlace, Owing DEF Twice
  <2>3. /\ loop'.kind = loop.kind /\ loop'.local = loop.local /\ loop'.key = None
        /\ loop'.handler = c
    BY <1>14, <1>in, <2>1 DEF NotifyError, Loop
  <2>4. CallHandler(c, "TransportError") /\ UNCHANGED <<listVars, rewalked>> /\ retried' = retried
    BY <1>14 DEF NotifyError, listVars
  <2>5. "TransportError" \in Errors
    BY DEF Errors
  <2>. QED  BY <2>1, <2>2, <2>3, <2>4, <2>5, HandlerRuns
<1>15. CASE EndNotifyError
  BY <1>15, EndNotifyErrorAccounts
<1>16. CASE BeginTimeoutCheck \/ NextStage \/ EndTimeoutCheck \/ CancelHandlerReturns
  <2>1. UNCHANGED <<listVars, calls, outcome, retried, rewalked>>
    BY <1>16
    DEF BeginTimeoutCheck, NextStage, EndTimeoutCheck, CancelHandlerReturns, ghostVars, listVars
  <2>2. loop.kind = "timeouts" => loop.handler = None
    BY <1>16
    DEF BeginTimeoutCheck, NextStage, EndTimeoutCheck, CancelHandlerReturns, Safe, Loops, LoopChecks
  <2>3. loop.kind = "unregister" => loop'.kind = "unregister" /\ loop'.local = loop.local
    BY <1>16, <1>in
    DEF BeginTimeoutCheck, NextStage, EndTimeoutCheck, CancelHandlerReturns, Loop, LoopInPlace, Protocols
  <2>. QED  BY <2>1, <2>2, <2>3, LoopMovesAccounts
<1>17. ASSUME NEW c \in Commands, TimerExpires(c) PROVE Accounts'
  BY <1>17, <1>quiet DEF TimerExpires, ghostVars, listVars
<1>18. ASSUME NEW l \in Locals, NEW k \in Keys, SendIntervalElapses(l, k) PROVE Accounts'
  BY <1>18, <1>quiet DEF SendIntervalElapses, ghostVars, listVars
<1>19. CASE UNCHANGED vars
  BY <1>19, <1>quiet DEF vars, codeVars, ghostVars, listVars
<1>. QED
  BY <1>1, <1>2, <1>3, <1>4, <1>5, <1>6, <1>7, <1>8, <1>9, <1>10, <1>11, <1>12, <1>13, <1>14,
     <1>15, <1>16, <1>17, <1>18, <1>19 DEF Next, LoopStep

-----------------------------------------------------------------------------
(* Loops                                                                    *)

\* What a handler sends leaves the loop that runs it with what it should look at.
LEMMA SendCommandLoops ==
  ASSUME Safe, NEW c \in Commands, NEW l \in Locals, NEW k \in Keys, SendCommand(c, l, k)
  PROVE  Loops'
<1>loop. /\ loop'.kind = loop.kind /\ loop'.local = loop.local /\ loop'.key = loop.key
         /\ loop'.handler = loop.handler /\ loop'.stage = loop.stage
         /\ rewalked \subseteq rewalked' /\ calls' = calls
         /\ loop.kind # "unregister" => loop'.commands = loop.commands
  BY SendCommandLoop DEF SendCommand
<1>more. /\ \A m \in Locals, d \in Keys :
              /\ inflightCommands[m][d] \subseteq inflightCommands'[m][d]
              /\ \A e \in inflightCommands'[m][d] :
                   e \in inflightCommands[m][d] \/ (calls[e] = 0 /\ e \in Commands)
         /\ \A m \in Locals : scheduledErrors[m] \subseteq scheduledErrors'[m]
  BY SendCommandAdds
<1>place. /\ loop.key # None => loop.local \in Locals /\ loop.key \in Keys
          /\ loop.local # None => loop.local \in Locals
          /\ loop.kind = "unregister" => loop.local # None /\ loop.stage \in Protocols
          /\ loop.commands # {} => loop.key # None
          /\ loop.handler # None => loop.handler \in Commands
          /\ calls \in [Commands -> Nat]
  BY LoopPlace, CallTyping DEF LoopInPlace
<1>1. LoopIdle' /\ LoopErrors'
  BY <1>loop DEF Safe, Loops, LoopIdle, LoopErrors
<1>2. LoopCommands'
  <2>1. loop'.commands = loop.commands
          \/ (l = loop.local /\ k = loop.key /\
              loop'.commands = loop.commands \cup (inflightCommands'[l][k] \ inflightCommands[l][k]))
    BY SendCommandLoop
  <2>2. CASE loop'.commands = loop.commands /\ loop.commands # {}
    BY <1>loop, <1>more, <1>place, <2>2 DEF Safe, Loops, LoopCommands
  <2>3. CASE /\ l = loop.local /\ k = loop.key
             /\ loop'.commands = loop.commands \cup (inflightCommands'[l][k] \ inflightCommands[l][k])
    <3>1. loop.commands \subseteq inflightCommands[l][k]
      BY <2>3 DEF Safe, Loops, LoopCommands
    <3>2. inflightCommands[l][k] \subseteq inflightCommands'[l][k]
      BY <1>more
    <3>. QED  BY <1>loop, <2>3, <3>1, <3>2 DEF LoopCommands
  <2>4. CASE loop'.commands = {}
    BY <2>4 DEF LoopCommands
  <2>. QED  BY <2>1, <2>2, <2>3, <2>4
<1>3. LoopChecks'
  BY <1>loop, <1>more, <1>place DEF Safe, Loops, LoopChecks
<1>4. LoopCancels'
  <2>. SUFFICES ASSUME loop.kind = "unregister" PROVE LoopCancels'
    BY <1>loop DEF LoopCancels
  <2> DEFINE m == loop.local
  <2>1. /\ m \in Locals /\ loop.stage \in Protocols /\ loop.key \notin loop.keys
        /\ \A e \in loop.commands : Twice(e)
        /\ \A d \in loop.keys : \A e \in inflightCommands[m][d] : Twice(e)
        /\ loop.stage = "aecp" =>
             /\ loop.keys \subseteq AecpTargets /\ (loop.key # None => loop.key \in AecpTargets)
             /\ \A d \in AcmpTargets : \A e \in inflightCommands[m][d] : calls[e] = 0
    BY <1>place DEF Safe, Loops, LoopCancels
  <2>2. /\ \/ loop'.keys = loop.keys
           \/ /\ l = m /\ loop'.commands = loop.commands
              /\ loop.key \notin loop'.keys /\ loop'.keys \subseteq Destinations(loop.stage)
              /\ \A d \in loop'.keys : d \notin loop.keys => inflightCommands[l][d] \subseteq rewalked'
        /\ \/ loop'.commands = loop.commands
           \/ /\ l = m /\ k = loop.key
              /\ loop'.commands = loop.commands \cup (inflightCommands'[l][k] \ inflightCommands[l][k])
    BY SendCommandLoop
  <2>keys. loop.keys \subseteq Keys /\ loop'.keys \subseteq Keys
    <3>1. loop.keys \subseteq Keys
      BY LoopPlace DEF Loop
    <3>. QED  BY <2>2, <3>1 DEF Destinations, Keys
  <2>zero. \A n \in Nat : n = 0 => ~(n > 0)
    OBVIOUS
  <2>3. \A e \in loop.commands : calls[e] > 0 => e \in rewalked'
    BY <1>loop, <2>1 DEF Twice
  <2>4. \A e \in loop'.commands : calls[e] > 0 => e \in rewalked'
    <3>1. CASE loop'.commands = loop.commands
      BY <2>3, <3>1
    <3>2. CASE /\ l = m /\ k = loop.key
               /\ loop'.commands = loop.commands \cup (inflightCommands'[l][k] \ inflightCommands[l][k])
      <4>1. \A e \in inflightCommands'[l][k] : e \in inflightCommands[l][k] \/ calls[e] = 0
        BY <1>more
      <4>. QED  BY <2>3, <3>2, <4>1
    <3>. QED  BY <2>2, <3>1, <3>2
  <2>5. ASSUME NEW d \in loop'.keys, NEW e \in inflightCommands'[m][d], calls[e] > 0
        PROVE  e \in rewalked'
    <3>1. d \in Keys
      BY <2>keys
    <3>2. e \in inflightCommands[m][d]
      BY <1>more, <2>1, <2>5, <3>1
    <3>3. CASE d \in loop.keys
      BY <1>loop, <2>1, <2>5, <3>2, <3>3 DEF Twice
    <3>4. CASE d \notin loop.keys
      BY <2>2, <3>2, <3>4
    <3>. QED  BY <3>3, <3>4
  <2>6. loop.key \notin loop'.keys
    BY <2>1, <2>2
  <2>7. loop.stage = "aecp" =>
          /\ loop'.keys \subseteq AecpTargets /\ (loop.key # None => loop.key \in AecpTargets)
          /\ \A d \in AcmpTargets : \A e \in inflightCommands'[m][d] : calls[e] = 0
    BY <1>more, <2>1, <2>2 DEF Destinations, Keys
  <2>. QED  BY <1>loop, <2>4, <2>5, <2>6, <2>7 DEF LoopCancels, Twice
<1>. QED  BY <1>1, <1>2, <1>3, <1>4 DEF Loops

\* Nothing runs, before the step and after it.
LEMMA IdleLoops ==
  ASSUME Safe, loop.kind = "idle", loop' = loop
  PROVE  Loops'
BY DEF Safe, Loops, LoopIdle, LoopErrors, LoopCommands, LoopChecks, LoopCancels

LEMMA LoopsNext == Safe /\ [Next]_vars => Loops'
<1>. SUFFICES ASSUME Safe, [Next]_vars PROVE Loops'
  OBVIOUS
<1>in. /\ loop \in Loop
       /\ loop.commands # {} => loop.key # None
       /\ loop.key # None => loop.local # None /\ loop.local \in Locals /\ loop.key \in Keys
       /\ loop.local # None => loop.local \in Locals
       /\ loop.kind = "unregister" => loop.local # None /\ loop.stage \in Protocols
       /\ loop.handler # None => loop.handler \in Commands
  BY LoopPlace DEF LoopInPlace
<1>counts. calls \in [Commands -> Nat] /\ ~(0 > 0) /\ \A n \in Nat : n + 1 > 0
  BY CallTyping
<1>none. None \notin Keys /\ None \notin Commands /\ AecpTargets \subseteq Keys /\ AcmpTargets \subseteq Keys
         /\ AecpTargets \cap AcmpTargets = {}
  BY ConstantsAssumption DEF Keys
<1>loops. /\ LoopIdle /\ LoopErrors /\ LoopCommands /\ LoopChecks /\ LoopCancels
  BY DEF Safe, Loops
<1>same. ASSUME UNCHANGED <<loop, calls, inflightCommands, scheduledErrors, rewalked>> PROVE Loops'
  BY <1>same, <1>loops DEF Loops, LoopIdle, LoopErrors, LoopCommands, LoopChecks, LoopCancels, Twice
<1>1. ASSUME NEW c \in Commands, NEW l \in Locals, NEW k \in Keys, SendCommand(c, l, k) PROVE Loops'
  BY <1>1, SendCommandLoops
<1>2. ASSUME NEW f \in Commands, NEW c \in Commands, NEW s \in Senders, HandleResponse(f, c, s)
      PROVE  Loops'
  BY <1>2, IdleLoops DEF HandleResponse
<1>3. ASSUME NEW f \in Commands, NEW c \in Commands, HandleInProgress(f, c) PROVE Loops'
  BY <1>3, IdleLoops DEF HandleInProgress
<1>4. ASSUME NEW l \in Locals, RegisterLocalEntity(l) PROVE Loops'
  BY <1>4, IdleLoops DEF RegisterLocalEntity
<1>5. ASSUME NEW k \in AecpTargets, DiscardAECPCommandsTowardsEntity(k) PROVE Loops'
  BY <1>5, IdleLoops DEF DiscardAECPCommandsTowardsEntity
<1>6. ASSUME NEW l \in Locals, UnregisterLocalEntity(l) PROVE Loops'
  <2>1. /\ loop'.kind = "unregister" /\ loop'.local = l /\ loop'.stage = "aecp"
        /\ loop'.keys = inflightKeys[l] \cap AecpTargets /\ loop'.key = None
        /\ loop'.commands = {} /\ loop'.handler = None
    BY <1>6 DEF UnregisterLocalEntity, Idle
  <2>2. UNCHANGED <<calls, inflightCommands, rewalked>>
    BY <1>6 DEF UnregisterLocalEntity, ghostVars
  <2>3. \A d \in Keys : \A e \in inflightCommands[l][d] : calls[e] = 0
    BY <1>6, Owing DEF UnregisterLocalEntity, Safe, Loops, LoopIdle
  <2>4. LoopCancels'
    BY <1>none, <1>counts, <2>1, <2>2, <2>3 DEF LoopCancels, Twice
  <2>. QED  BY <2>1, <2>4 DEF Loops, LoopIdle, LoopErrors, LoopCommands, LoopChecks, Protocols
<1>7. CASE BeginTimeoutCheck \/ EndTimeoutCheck \/ EndUnregister
  <2>1. /\ loop'.kind \in {"idle", "timeouts"} /\ loop'.local = None /\ loop'.stage = "aecp"
        /\ loop'.key = None /\ loop'.commands = {} /\ loop'.handler = None
    <3>1. CASE BeginTimeoutCheck
      <4>1. loop' = [Idle EXCEPT !.kind = "timeouts", !.locals = registered]
        BY <3>1 DEF BeginTimeoutCheck
      <4>. QED  BY <4>1 DEF Idle
    <3>2. CASE EndTimeoutCheck \/ EndUnregister
      <4>1. loop' = Idle
        BY <3>2 DEF EndTimeoutCheck, EndUnregister
      <4>. QED  BY <4>1 DEF Idle
    <3>. QED  BY <1>7, <3>1, <3>2
  <2>. QED
    BY <2>1 DEF Loops, LoopIdle, LoopErrors, LoopCommands, LoopChecks, LoopCancels, Protocols
<1>8. ASSUME NEW l \in Locals, NextLocal(l) PROVE Loops'
  <2>1. /\ loop'.kind = "timeouts" /\ loop'.local = l /\ loop'.stage = loop.stage
        /\ loop'.key = loop.key /\ loop'.commands = loop.commands /\ loop'.handler = loop.handler
    BY <1>8, <1>in DEF NextLocal, Loop
  <2>2. loop.key = None /\ loop.commands = {} /\ loop.handler = None
    BY <1>8, <1>in, <1>loops DEF NextLocal, LoopChecks
  <2>3. l # None
    BY ConstantsAssumption
  <2>. QED
    BY <2>1, <2>2, <2>3 DEF Loops, LoopIdle, LoopErrors, LoopCommands, LoopChecks, LoopCancels
<1>9. ASSUME NEW k \in Keys, NextKey(k) PROVE Loops'
  <2>1. /\ loop'.kind = loop.kind /\ loop'.local = loop.local /\ loop'.stage = loop.stage
        /\ loop'.key = k /\ loop'.keys = loop.keys \ {k} /\ loop'.handler = loop.handler
        /\ loop'.commands = IF loop.kind = "timeouts"
                            THEN inflightCommands[loop.local][k] \cap expired
                            ELSE inflightCommands[loop.local][k]
    BY <1>9, <1>in DEF NextKey, Loop
  <2>2. /\ UNCHANGED <<calls, inflightCommands, rewalked>>
        /\ loop.local \in Locals /\ loop.stage \in Protocols /\ loop.key = None /\ k \in loop.keys
    BY <1>9, <1>in DEF NextKey, ghostVars
  <2>3. loop.kind # "idle"
    BY <2>2, <1>loops, ConstantsAssumption DEF LoopIdle
  <2>4. LoopIdle' /\ LoopErrors'
    BY <2>1, <2>2, <2>3 DEF LoopIdle, LoopErrors
  <2>5. LoopCommands'
    BY <2>1, <2>2 DEF LoopCommands
  <2>6. LoopChecks'
    <3>. SUFFICES ASSUME loop.kind = "timeouts" PROVE LoopChecks'
      BY <2>1 DEF LoopChecks
    <3>1. loop.handler = None
      BY <1>loops, <2>2 DEF LoopChecks
    <3>2. \A e \in inflightCommands[loop.local][k] : calls[e] = 0
      BY <2>2, <3>1, Owing
    <3>. QED  BY <2>1, <2>2, <3>1, <3>2 DEF LoopChecks
  <2>7. LoopCancels'
    BY <2>1, <2>2, <1>loops DEF LoopCancels, Twice
  <2>. QED  BY <2>4, <2>5, <2>6, <2>7 DEF Loops
<1>10. CASE EndKey
  <2>1. /\ loop'.kind = loop.kind /\ loop'.local = loop.local /\ loop'.stage = loop.stage
        /\ loop'.key = None /\ loop'.keys = loop.keys /\ loop'.handler = None
        /\ loop'.commands = {}
    BY <1>10, <1>in DEF EndKey, Loop
  <2>2. UNCHANGED <<calls, rewalked>> /\ loop.key # None
        /\ (loop.kind = "timeouts" \/ inflightCommands' = inflightCommands)
    BY <1>10 DEF EndKey, ServeQueueAfter
  <2>3. loop.kind # "idle" /\ loop.stage \in Protocols /\ loop.local # None
    BY <2>2, <1>in, <1>loops DEF LoopIdle, LoopErrors
  <2>4. None \notin loop.keys
    BY <1>in, <1>none DEF Loop
  <2>5. LoopCancels'
    BY <2>1, <2>2, <2>4, <1>loops DEF LoopCancels, Twice
  <2>. QED
    BY <2>1, <2>3, <2>5 DEF Loops, LoopIdle, LoopErrors, LoopCommands, LoopChecks
<1>11. CASE NextStage
  <2>1. /\ loop'.kind = loop.kind /\ loop'.key = None /\ loop'.handler = None /\ loop'.commands = loop.commands
        /\ loop.local # None /\ loop.key = None /\ loop.commands = {}
    BY <1>11, <1>in DEF NextStage, Loop
  <2>2. \/ /\ loop.stage = "aecp" /\ loop'.stage = "acmp" /\ loop'.local = loop.local
           /\ loop'.keys = inflightKeys[loop.local] \cap AcmpTargets
        \/ /\ loop.kind = "timeouts" /\ loop'.local = loop.local
           /\ loop'.stage \in {"aecpErrors", "acmpErrors"}
        \/ loop.stage = "acmpErrors" /\ loop'.stage = "aecp"
        \/ loop.stage = "aecpErrors" /\ loop'.stage = "acmpErrors" /\ loop'.local = loop.local
    BY <1>11, <1>in DEF NextStage, Loop
  <2>3. UNCHANGED <<calls, rewalked, inflightCommands>>
    BY <1>11 DEF NextStage, ghostVars
  <2>4. loop.kind # "idle"
    BY <2>1, <1>loops DEF LoopIdle
  <2>5. LoopCancels'
    <3>. SUFFICES ASSUME loop.kind = "unregister" PROVE LoopCancels'
      BY <2>1 DEF LoopCancels
    <3>1. /\ loop.stage = "aecp" /\ loop'.stage = "acmp" /\ loop'.local = loop.local
          /\ loop'.keys \subseteq AcmpTargets
      BY <2>2, <1>in DEF Protocols
    <3>2. \A d \in AcmpTargets : \A e \in inflightCommands[loop.local][d] : calls[e] = 0
      BY <3>1, <1>loops DEF LoopCancels
    <3>. QED  BY <1>none, <1>counts, <2>1, <2>3, <3>1, <3>2 DEF LoopCancels, Twice
  <2>. QED
    BY <2>1, <2>2, <2>4, <2>5 DEF Loops, LoopIdle, LoopErrors, LoopCommands, LoopChecks, Protocols
<1>called. ASSUME NEW c \in Commands, NEW e, CallHandler(c, e)
           PROVE  calls'[c] > 0 /\ \A d \in Commands : d # c => calls'[d] = calls[d]
  BY <1>called, <1>counts DEF CallHandler
<1>12. ASSUME NEW c \in Commands, RetryCommand(c) \/ TimeoutCommand(c) PROVE Loops'
  <2>1. /\ loop'.kind = "timeouts" /\ loop.kind = "timeouts" /\ loop'.local = loop.local
        /\ loop'.stage = loop.stage /\ loop'.key = loop.key /\ loop'.commands = loop.commands \ {c}
        /\ c \in loop.commands /\ inflightCommands' = inflightCommands
    BY <1>12, <1>in DEF RetryCommand, TimeoutCommand, Loop
  <2>2. \/ loop'.handler = None /\ calls' = calls
        \/ loop'.handler = c /\ \E e : CallHandler(c, e)
    BY <1>12, <1>in DEF RetryCommand, TimeoutCommand, Loop
  <2>3. /\ loop.key # None /\ loop.local # None /\ loop.commands \subseteq inflightCommands[loop.local][loop.key]
        /\ loop.commands \subseteq Commands
    BY <2>1, <1>in, <1>loops DEF LoopCommands, Loop
  <2>4. \A d \in loop'.commands : calls'[d] = 0
    <3>1. \A d \in loop'.commands : d # c /\ d \in Commands /\ calls[d] = 0
      BY <2>1, <2>3, <1>loops DEF LoopChecks
    <3>. QED  BY <2>2, <3>1, <1>called
  <2>5. loop'.handler # None => loop'.handler = c /\ calls'[c] > 0
    BY <2>2, <1>called
  <2>6. LoopChecks'
    BY <2>1, <2>3, <2>4, <2>5 DEF LoopChecks
  <2>7. LoopErrors' /\ LoopCommands'
    BY <2>1, <2>3, <1>loops DEF LoopErrors, LoopCommands
  <2>. QED  BY <2>1, <2>6, <2>7 DEF Loops, LoopIdle, LoopCancels
<1>13. ASSUME NEW c \in Commands, CancelCommand(c) PROVE Loops'
  <2>1. /\ loop'.kind = "unregister" /\ loop.kind = "unregister" /\ loop'.local = loop.local
        /\ loop'.stage = loop.stage /\ loop'.key = loop.key /\ loop'.keys = loop.keys
        /\ loop'.commands = loop.commands \ {c}
        /\ c \in loop.commands /\ UNCHANGED <<inflightCommands, rewalked>>
    BY <1>13, <1>in DEF CancelCommand, Loop
  <2>2. \A d \in Commands : d # c => calls'[d] = calls[d]
    BY <1>13, <1>called DEF CancelCommand
  <2>3. /\ loop.key \in Keys /\ loop.local \in Locals /\ At(frame, c, loop.local, loop.key)
        /\ loop.commands \subseteq Commands
    BY <2>1, LoopPlace, Places DEF Loop
  <2>4. \A d \in Keys : d # loop.key => \A e \in inflightCommands[loop.local][d] : e # c /\ e \in Commands
    BY <2>3, Places DEF At
  <2>5. LoopCancels'
    <3>1. /\ loop.key \notin loop.keys /\ loop.keys \subseteq Keys
      BY <2>1, <1>in, <1>loops DEF LoopCancels, Loop
    <3>2. \A d \in loop'.commands : Twice(d)'
      BY <2>1, <2>2, <2>3, <1>loops DEF LoopCancels, Twice
    <3>3. \A d \in loop'.keys : \A e \in inflightCommands'[loop.local][d] : Twice(e)'
      <4>1. ASSUME NEW d \in loop.keys, NEW e \in inflightCommands[loop.local][d]
            PROVE  Twice(e) /\ e # c /\ e \in Commands
        BY <2>1, <2>4, <3>1, <1>loops DEF LoopCancels
      <4>. QED  BY <2>1, <2>2, <4>1 DEF Twice
    <3>4. loop.stage = "aecp" => \A d \in AcmpTargets : \A e \in inflightCommands[loop.local][d] : calls'[e] = 0
      <4>1. ASSUME loop.stage = "aecp", NEW d \in AcmpTargets, NEW e \in inflightCommands[loop.local][d]
            PROVE  calls[e] = 0 /\ e # c /\ e \in Commands
        <5>1. loop.key \in AecpTargets
          BY <2>1, <2>3, <4>1, <1>none, <1>loops DEF LoopCancels
        <5>. QED  BY <2>1, <2>4, <4>1, <5>1, <1>none, <1>loops DEF LoopCancels
      <4>. QED  BY <2>2, <4>1
    <3>. QED  BY <2>1, <3>1, <3>2, <3>3, <3>4, <1>loops DEF LoopCancels
  <2>6. LoopErrors' /\ LoopCommands'
    BY <2>1, <1>loops DEF LoopErrors, LoopCommands
  <2>. QED  BY <2>1, <2>5, <2>6 DEF Loops, LoopIdle, LoopChecks
<1>14. ASSUME NEW c \in Commands, NotifyError(c) PROVE Loops'
  <2>1. /\ loop'.kind = "timeouts" /\ loop.kind = "timeouts" /\ loop'.local = loop.local
        /\ loop'.stage = loop.stage /\ loop'.key = loop.key /\ loop'.commands = loop.commands
        /\ loop'.handler = c /\ UNCHANGED <<inflightCommands, scheduledErrors>>
        /\ c \in scheduledErrors[loop.local] /\ loop.stage \notin Protocols
    BY <1>14, <1>in DEF NotifyError, ScheduledErrors, Protocols, Loop
  <2>2. loop.key = None /\ loop.local # None /\ loop.commands = {}
    BY <2>1, <1>in, <1>loops DEF LoopErrors
  <2>3. calls'[c] > 0
    BY <1>14, <1>called DEF NotifyError
  <2>. QED
    BY <2>1, <2>2, <2>3 DEF Loops, LoopIdle, LoopErrors, LoopCommands, LoopChecks, LoopCancels
<1>15. CASE EndNotifyError \/ CancelHandlerReturns
  <2>1. /\ loop'.kind = loop.kind /\ loop'.local = loop.local
        /\ loop'.stage = loop.stage /\ loop'.key = loop.key /\ loop'.commands = loop.commands
        /\ loop'.keys = loop.keys /\ loop'.handler = None
        /\ UNCHANGED <<inflightCommands, calls, rewalked>>
    BY <1>15, <1>in DEF EndNotifyError, CancelHandlerReturns, ghostVars, Loop
  <2>. QED
    BY <2>1, <1>loops DEF Loops, LoopIdle, LoopErrors, LoopCommands, LoopChecks, LoopCancels, Twice
<1>16. CASE RemoveLostCommand
  <2> DEFINE l == loop.local
             k == loop.key
             h == loop.handler
  <2>1. /\ loop'.kind = "timeouts" /\ loop.kind = "timeouts" /\ loop'.local = l
        /\ loop'.stage = loop.stage /\ loop'.key = k /\ loop'.commands = loop.commands
        /\ loop'.handler = None /\ calls' = calls
        /\ l \in Locals /\ k \in Keys /\ k # None /\ l # None /\ h # None /\ RemoveInflight(l, k, h)
    BY <1>16, <1>in DEF RemoveLostCommand, Loop
  <2>2. h \notin loop.commands
    <3>1. calls[h] > 0
      BY <2>1, <1>loops DEF LoopChecks
    <3>. QED  BY <2>1, <3>1, <1>counts, <1>loops DEF LoopChecks
  <2> HIDE DEF l, k, h
  <2>3. inflightCommands[l][k] \ {h} \subseteq inflightCommands'[l][k]
    <3> DEFINE inflight == [inflightCommands EXCEPT ![l][k] = @ \ {h}]
    <3>1. /\ ListsTyping /\ inflight \in Inflights /\ queuedCommands \in Queues
          /\ inflight[l][k] = inflightCommands[l][k] \ {h}
      BY <2>1, LoopPlace DEF ListsTyping, Inflights
    <3>2. CheckQueue(l, k, inflight, queuedCommands)
      BY <2>1 DEF RemoveInflight
    <3> HIDE DEF inflight
    <3>3. \/ inflightCommands' = inflight
          \/ inflightCommands' = [inflight EXCEPT ![l][k] = @ \cup {Head(queuedCommands[l][k])}]
      BY <2>1, <3>1, <3>2, CheckQueueSteps
    <3>4. ASSUME NEW e, inflightCommands' = [inflight EXCEPT ![l][k] = @ \cup {e}]
          PROVE  inflightCommands'[l][k] = inflight[l][k] \cup {e}
      BY <2>1, <3>1, <3>4 DEF Inflights
    <3>. QED  BY <3>1, <3>3, <3>4
  <2>4. LoopCommands'
    <3>1. loop.commands \subseteq inflightCommands[l][k] \/ loop.commands = {}
      BY <1>loops DEF LoopCommands, l, k
    <3>. QED  BY <2>1, <2>2, <2>3, <3>1 DEF LoopCommands
  <2>5. LoopErrors' /\ LoopChecks'
    BY <2>1, <1>loops DEF LoopErrors, LoopChecks, l, k
  <2>. QED  BY <2>1, <2>4, <2>5 DEF Loops, LoopIdle, LoopCancels
<1>17. ASSUME NEW c \in Commands, TimerExpires(c) PROVE Loops'
  BY <1>17, IdleLoops DEF TimerExpires
<1>18. ASSUME NEW l \in Locals, NEW k \in Keys, SendIntervalElapses(l, k) PROVE Loops'
  BY <1>18, <1>same DEF SendIntervalElapses, ghostVars
<1>19. CASE UNCHANGED vars
  BY <1>19, <1>same DEF vars, codeVars, ghostVars
<1>. QED
  BY <1>1, <1>2, <1>3, <1>4, <1>5, <1>6, <1>7, <1>8, <1>9, <1>10, <1>11, <1>12, <1>13, <1>14,
     <1>15, <1>16, <1>17, <1>18, <1>19 DEF Next, LoopStep

-----------------------------------------------------------------------------
(* Every command is accounted for                                           *)

LEMMA SafeInit == Init => Safe
<1>. SUFFICES ASSUME Init PROVE Safe
  OBVIOUS
<1>1. Typing /\ Lists
  BY TypingInit, NumberingInit, NumberingParts
<1>empty. /\ \A i : i \notin 1 .. Len(<<>>)
          /\ ~(0 > 1) /\ ~(0 > 0)
  OBVIOUS
<1>2. /\ \A m \in Locals, d \in Keys : inflightCommands[m][d] = {} /\ queuedCommands[m][d] = <<>>
      /\ \A m \in Locals : scheduledErrors[m] = {}
      /\ \A c \in Commands : calls[c] = 0 /\ sends[c] = 0 /\ outcome[c] = None /\ frame[c] = None
      /\ dropped = {} /\ retried = {} /\ loop = Idle
  BY DEF Init
<1>3. \A m \in Locals, d \in Keys : \A c \in Commands : ~Waits(queuedCommands, c, m, d)
  BY <1>2, <1>empty DEF Waits
<1>4. Accounts
  BY <1>2, <1>3, <1>empty
  DEF Accounts, History, Repeats, Kept, QueueApart, ErrorsApart, Flights, Accepted
<1>5. Loops
  BY <1>2 DEF Loops, LoopIdle, LoopErrors, LoopCommands, LoopChecks, LoopCancels, Idle, Protocols
<1>. QED  BY <1>1, <1>4, <1>5 DEF Safe

LEMMA SafeNext == Safe /\ [Next]_vars => Safe'
BY TypingNext, ListsNext, AccountsNext, LoopsNext DEF Safe

LEMMA SafeAlways == Spec => []Safe
BY SafeInit, SafeNext, PTL DEF Spec

\* A command that was accepted is in exactly one list until its handler runs or it is
\* discarded, and its handler runs once, unless a loop over a map that a handler changed
\* comes to its destination again.
THEOREM AllAccountedFor == Spec => []CommandsAccountedFor
<1>1. ASSUME Safe PROVE CommandsAccountedFor
  <2>. SUFFICES ASSUME NEW c \in Commands,
                       NEW places, places = {p \in {"queue", "inflight", "errors"} :
                         \/ p = "queue" /\ QueuedCommand(c)
                         \/ p = "inflight" /\ InflightCommand(c)
                         \/ p = "errors" /\ ScheduledError(c)}
                PROVE  IF ~Accepted(c) \/ c \in dropped
                       THEN calls[c] = 0 /\ places = {}
                       ELSE \/ calls[c] = 0 /\ Cardinality(places) = 1
                            \/ /\ calls[c] = 1 \/ (c \in rewalked /\ calls[c] > 1)
                               /\ places = {} \/ loop.handler = c \/ loop.kind = "unregister"
    BY DEF CommandsAccountedFor
  <2>types. ListsTyping /\ calls[c] \in Nat /\ sends[c] \in Nat
    BY <1>1, LoopPlace, CallTyping DEF ListsTyping
  <2>queue. QueuedCommand(c) <=> \E m \in Locals, d \in Keys : Waits(queuedCommands, c, m, d)
    <3>1. ASSUME NEW m \in Locals, NEW d \in Keys
          PROVE  c \in Queued(m, d) <=> Waits(queuedCommands, c, m, d)
      <4>1. queuedCommands[m][d] \in Seq(Commands)
        BY <2>types DEF ListsTyping, Queues
      <4>2. DOMAIN queuedCommands[m][d] = 1 .. Len(queuedCommands[m][d])
        BY <4>1
      <4>. QED  BY <4>2 DEF Queued, Waits, Range
    <3>. QED  BY <3>1 DEF QueuedCommand
  <2>1. Listed(inflightCommands, queuedCommands, scheduledErrors, c)
          <=> QueuedCommand(c) \/ InflightCommand(c) \/ ScheduledError(c)
    BY <2>queue DEF Listed, InflightCommand, ScheduledError
  <2>2. /\ QueuedCommand(c) => sends[c] = 0 /\ calls[c] = 0 /\ ~ScheduledError(c) /\ Accepted(c)
        /\ InflightCommand(c) => sends[c] > 0 /\ Accepted(c)
        /\ ScheduledError(c) => sends[c] = 0 /\ Accepted(c)
    BY <1>1, <2>queue, Places DEF InflightCommand, ScheduledError, Accepted, At
  <2>3. ~(0 > 0)
    OBVIOUS
  <2>4. CASE ~Accepted(c) \/ c \in dropped
    <3>1. calls[c] = 0
      BY <1>1, <2>4 DEF Safe, Accounts, History, Kept
    <3>2. ~Listed(inflightCommands, queuedCommands, scheduledErrors, c)
      BY <1>1, <2>1, <2>2, <2>4 DEF Safe, Accounts, Kept
    <3>. QED  BY <2>1, <2>4, <3>1, <3>2
  <2>5. CASE Accepted(c) /\ c \notin dropped /\ calls[c] = 0
    <3>1. QueuedCommand(c) \/ InflightCommand(c) \/ ScheduledError(c)
      BY <1>1, <2>1, <2>5 DEF Safe, Accounts, Kept, Accepted
    <3>2. places = {"queue"} \/ places = {"inflight"} \/ places = {"errors"}
      BY <2>2, <2>3, <3>1
    <3>3. Cardinality(places) = 1
      BY <3>2, FS_Singleton
    <3>. QED  BY <2>5, <3>3
  <2>6. CASE Accepted(c) /\ c \notin dropped /\ calls[c] # 0
    <3>1. calls[c] = 1 \/ (c \in rewalked /\ calls[c] > 1)
      BY <1>1, <2>types, <2>6 DEF Safe, Accounts, Repeats
    <3>2. ASSUME loop.handler # c, loop.kind # "unregister" PROVE places = {}
      <4>1. ~QueuedCommand(c)
        BY <2>2, <2>6
      <4>2. ~InflightCommand(c)
        BY <1>1, <2>6, <3>2 DEF InflightCommand, Safe, Accounts, Flights, Flight
      <4>3. ~ScheduledError(c)
        BY <1>1, <2>6, <3>2 DEF ScheduledError, Safe, Accounts, ErrorsApart
      <4>. QED  BY <4>1, <4>2, <4>3
    <3>. QED  BY <2>6, <3>1, <3>2
  <2>. QED  BY <2>4, <2>5, <2>6
<1>. QED  BY SafeAlways, <1>1, PTL

-----------------------------------------------------------------------------
(* The service                                                              *)

statuses == [c \in Commands |-> Status(c)]

Moved(c) == Status(c)' # Status(c)
Served == Service!Next

\* A step is one of the service if its moves are.
LEMMA ServedByMoves ==
  ASSUME \A c \in Commands : Moved(c) => Service!Follows(Status(c), Status(c)'),
         \A c, d \in Commands :
           /\ Moved(c) /\ (Status(c) = "new" \/ Status(c)' \in Service!Completed)
           /\ Moved(d) /\ (Status(d) = "new" \/ Status(d)' \in Service!Completed)
           => c = d,
         \A c, d \in Commands :
           Moved(c) /\ Status(c)' \in Service!InFlight /\ Moved(d) /\ Status(d)' \in Service!InFlight
           => c = d,
         \/ \A c \in Commands : Moved(c) => Status(c)' # "discarded"
         \/ \A c \in Commands : Moved(c) => Status(c)' = "discarded"
  PROVE  Served
BY DEF Served, Moved, Service!Next, Service!Moves, Service!Accepting, Service!Sending,
       Service!Completing, Service!Discarding, Service!AtMostOne

\* Where a command is in its life.
LEMMA StatusSteps ==
  ASSUME Safe, NEW c \in Commands
  PROVE  /\ ~Accepted(c) => Status(c) = "new"
         /\ Accepted(c) /\ calls[c] = 0 /\ c \notin dropped =>
              Status(c) = IF sends[c] = 0 THEN "waiting" ELSE IF sends[c] = 1 THEN "sentOnce" ELSE "sentTwice"
         /\ \A m \in Locals, d \in Keys :
              /\ Waits(queuedCommands, c, m, d) => Status(c) = "waiting" /\ sends[c] = 0
              /\ c \in inflightCommands[m][d] => c \notin dropped /\ Accepted(c)
         /\ \A m \in Locals : c \in scheduledErrors[m] => c \notin dropped /\ Accepted(c) /\ sends[c] = 0
<1>1. calls[c] = 0 => outcome[c] = None
  BY DEF Safe, Accounts, History
<1>2. None \notin Errors
  BY NoneIsNoError
<1>3. Accepted(c) /\ calls[c] = 0 /\ c \notin dropped =>
        Status(c) = IF sends[c] = 0 THEN "waiting" ELSE IF sends[c] = 1 THEN "sentOnce" ELSE "sentTwice"
  BY <1>1, <1>2 DEF Status, Errors
<1>4. Listed(inflightCommands, queuedCommands, scheduledErrors, c) => c \notin dropped
  BY DEF Safe, Accounts, Kept
<1>5. ASSUME NEW m \in Locals, NEW d \in Keys, Waits(queuedCommands, c, m, d)
      PROVE  Status(c) = "waiting" /\ sends[c] = 0
  <2>1. Accepted(c) /\ calls[c] = 0 /\ sends[c] = 0
    BY <1>5, Places DEF Accepted, At
  <2>2. c \notin dropped
    BY <1>4, <1>5 DEF Listed
  <2>. QED  BY <1>3, <2>1, <2>2
<1>6. ASSUME NEW m \in Locals, NEW d \in Keys, c \in inflightCommands[m][d]
      PROVE  c \notin dropped /\ Accepted(c)
  BY <1>4, <1>6, Places DEF Listed, Accepted, At
<1>7. ASSUME NEW m \in Locals, c \in scheduledErrors[m]
      PROVE  c \notin dropped /\ Accepted(c) /\ sends[c] = 0
  BY <1>4, <1>7, Places DEF Listed, Accepted
<1>. QED  BY <1>3, <1>5, <1>6, <1>7 DEF Status

\* A step that changes nothing of what a status is made of.
LEMMA QuietServed ==
  ASSUME UNCHANGED <<frame, dropped, outcome, sends>>
  PROVE  Served
BY ServedByMoves DEF Moved, Status, Accepted

\* A step that moves one command, which it does not discard.
LEMMA OneServed ==
  ASSUME NEW c \in Commands, \A d \in Commands : d # c => ~Moved(d),
         Moved(c) => Service!Follows(Status(c), Status(c)') /\ Status(c)' # "discarded"
  PROVE  Served
BY ServedByMoves

\* A handler runs.
LEMMA HandlerServed ==
  ASSUME Safe, NEW c \in Commands, NEW e \in Errors, CallHandler(c, e), UNCHANGED <<frame, dropped, sends>>,
         Accepted(c), c \notin dropped,
         \/ /\ calls[c] = 0
            /\ \/ e = "Timeout" /\ sends[c] = 2
               \/ e = "TransportError" /\ sends[c] \in {0, 1}
               \/ e = "UnknownLocalEntity" /\ sends[c] \in {1, 2}
         \/ outcome[c] = e
  PROVE  Served
<1>1. /\ outcome'[c] = e
      /\ \A d \in Commands : d # c => outcome'[d] = outcome[d]
  BY CallTyping DEF CallHandler
<1>2. \A d \in Commands : d # c => ~Moved(d)
  BY <1>1 DEF Moved, Status, Accepted
<1>3. CASE outcome[c] = e
  <2>1. ~Moved(c)
    BY <1>1, <1>3 DEF Moved, Status, Accepted
  <2>. QED  BY <1>2, <2>1, OneServed
<1>4. CASE /\ calls[c] = 0
           /\ \/ e = "Timeout" /\ sends[c] = 2
              \/ e = "TransportError" /\ sends[c] \in {0, 1}
              \/ e = "UnknownLocalEntity" /\ sends[c] \in {1, 2}
  <2>1. Status(c) = IF sends[c] = 0 THEN "waiting" ELSE IF sends[c] = 1 THEN "sentOnce" ELSE "sentTwice"
    BY <1>4, StatusSteps
  <2>2. Status(c)' = IF e = "NoError" THEN "answered" ELSE IF e = "Timeout" THEN "timedOut"
                     ELSE IF e = "TransportError" THEN "refused" ELSE "cancelled"
    BY <1>1 DEF Status, Accepted, Errors
  <2>3. /\ e = "Timeout" => Status(c) = "sentTwice" /\ Status(c)' = "timedOut"
        /\ e = "TransportError" => Status(c) \in {"waiting", "sentOnce"} /\ Status(c)' = "refused"
        /\ e = "UnknownLocalEntity" => Status(c) \in {"sentOnce", "sentTwice"} /\ Status(c)' = "cancelled"
    BY <1>4, <2>1, <2>2
  <2>4. Service!Follows(Status(c), Status(c)') /\ Status(c)' # "discarded"
    BY <1>4, <2>3 DEF Service!Follows, Service!InFlight
  <2>. QED  BY <1>2, <2>4, OneServed
<1>. QED  BY <1>3, <1>4

\* Commands are discarded.
LEMMA DiscardingServed ==
  ASSUME Safe, Accounts', UNCHANGED <<frame, outcome, sends, calls>>, dropped \subseteq dropped'
  PROVE  Served
<1>1. ASSUME NEW c \in Commands, Moved(c)
      PROVE  Service!Follows(Status(c), Status(c)') /\ Status(c)' = "discarded" /\ Status(c) # "new"
  <2>1. c \in dropped' /\ c \notin dropped
    BY <1>1 DEF Moved, Status, Accepted
  <2>2. Accepted(c) /\ calls[c] = 0
    BY <2>1 DEF Accounts, History, Kept, Accepted
  <2>3. Status(c) \in {"waiting", "sentOnce", "sentTwice"}
    BY <2>1, <2>2, StatusSteps
  <2>4. Status(c)' = "discarded"
    BY <2>1, <2>2 DEF Status, Accepted
  <2>. QED  BY <2>3, <2>4 DEF Service!Follows, Service!InFlight
<1>2. "discarded" \notin Service!Completed \cup Service!InFlight
  BY DEF Service!Completed, Service!InFlight
<1>. QED  BY <1>1, <1>2, ServedByMoves

\* At most one command that waits is sent when a queue gets its chance.
LEMMA QueueSends ==
  ASSUME ListsTyping, NEW l \in Locals, NEW k \in Keys, NEW inflight \in Inflights,
         NEW queued \in Queues, Distinct(queued[l][k]), CheckQueue(l, k, inflight, queued)
  PROVE  \/ sends' = sends
         \/ \E h \in Commands : /\ Waits(queued, h, l, k) /\ sends'[h] = sends[h] + 1
                                /\ \A e \in Commands : e # h => sends'[e] = sends[e]
<1>1. ASSUME NEW h \in Commands,
             Took(h, l, k, inflight, queued, scheduledErrors, sends,
                  inflightCommands', queuedCommands', scheduledErrors', sends')
      PROVE  \/ sends' = sends
             \/ /\ Waits(queued, h, l, k) /\ sends'[h] = sends[h] + 1
                /\ \A e \in Commands : e # h => sends'[e] = sends[e]
  BY <1>1 DEF Took
<1>. QED  BY <1>1, CheckQueueTakes

LEMMA WaitingSends ==
  ASSUME Safe, NEW l \in Locals, NEW k \in Keys,
         \/ CheckQueue(l, k, inflightCommands, queuedCommands)
         \/ \E c : RemoveInflight(l, k, c)
  PROVE  \/ sends' = sends
         \/ \E h \in Commands : /\ Status(h) = "waiting" /\ sends[h] = 0 /\ sends'[h] = 1
                                /\ Accepted(h) /\ h \notin dropped /\ calls[h] = 0
                                /\ \A e \in Commands : e # h => sends'[e] = sends[e]
<1>1. ListsTyping /\ inflightCommands \in Inflights /\ queuedCommands \in Queues
      /\ Distinct(queuedCommands[l][k])
  BY LoopPlace, Places DEF ListsTyping
<1>2. \A c : [inflightCommands EXCEPT ![l][k] = @ \ {c}] \in Inflights
  BY <1>1 DEF Inflights
<1>3. PICK inflight \in Inflights : CheckQueue(l, k, inflight, queuedCommands)
  BY <1>1, <1>2 DEF RemoveInflight
<1>4. \/ sends' = sends
      \/ \E h \in Commands : /\ Waits(queuedCommands, h, l, k) /\ sends'[h] = sends[h] + 1
                             /\ \A e \in Commands : e # h => sends'[e] = sends[e]
  BY <1>1, <1>3, QueueSends
<1>5. ASSUME NEW h \in Commands, Waits(queuedCommands, h, l, k)
      PROVE  /\ Status(h) = "waiting" /\ sends[h] = 0
             /\ Accepted(h) /\ h \notin dropped /\ calls[h] = 0
  <2>1. Status(h) = "waiting" /\ sends[h] = 0
    BY <1>5, StatusSteps
  <2>2. At(frame, h, l, k) /\ calls[h] = 0
    BY <1>5, Places
  <2>3. h \notin dropped
    BY <1>5 DEF Safe, Accounts, Kept, Listed
  <2>. QED  BY <2>1, <2>2, <2>3 DEF Accepted, At
<1>. QED  BY <1>4, <1>5

\* A queue gets its chance, and the handler of no command runs.
LEMMA QueueServed ==
  ASSUME Safe, NEW l \in Locals, NEW k \in Keys,
         \/ CheckQueue(l, k, inflightCommands, queuedCommands)
         \/ \E c : RemoveInflight(l, k, c),
         UNCHANGED <<frame, dropped, outcome, calls>>
  PROVE  Served
<1>1. CASE sends' = sends
  BY <1>1, QuietServed
<1>2. ASSUME NEW h \in Commands, Status(h) = "waiting", sends'[h] = 1, Accepted(h), h \notin dropped,
             calls[h] = 0, \A e \in Commands : e # h => sends'[e] = sends[e]
      PROVE  Served
  <2>1. \A d \in Commands : d # h => ~Moved(d)
    BY <1>2 DEF Moved, Status, Accepted
  <2>2. outcome[h] = None /\ None \notin Errors
    BY <1>2, NoneIsNoError DEF Safe, Accounts, History
  <2>3. Status(h)' = "sentOnce"
    BY <1>2, <2>2 DEF Status, Accepted, Errors
  <2>4. Service!Follows(Status(h), Status(h)') /\ Status(h)' # "discarded"
    BY <1>2, <2>3 DEF Service!Follows
  <2>. QED  BY <2>1, <2>4, OneServed
<1>. QED  BY <1>1, <1>2, WaitingSends

\* A response completes a command, and another may take its place in flight.
LEMMA ResponseServed ==
  ASSUME Safe, NEW f \in Commands, NEW c \in Commands, NEW s \in Senders, HandleResponse(f, c, s)
  PROVE  Served
<1> DEFINE l == frame[f].local
           k == frame[f].key
<1>1. /\ l \in Locals /\ k \in Keys /\ c \in inflightCommands[l][k]
      /\ calls[c] = 0 /\ outcome'[c] = "NoError"
      /\ \A d \in Commands : d # c => outcome'[d] = outcome[d]
  BY ResponseAccounts
<1>2. RemoveInflight(l, k, c) /\ UNCHANGED <<frame, dropped>>
  BY DEF HandleResponse
<1>3. Accepted(c) /\ c \notin dropped /\ sends[c] # 0 /\ sends[c] \in Nat
  <2>1. sends[c] > 0 /\ sends[c] \in Nat
    BY <1>1, Places, LoopPlace DEF ListsTyping
  <2>2. sends[c] # 0
    BY <2>1
  <2>. QED  BY <1>1, <2>1, <2>2, StatusSteps
<1> HIDE DEF l, k
<1>4. Status(c) \in {"sentOnce", "sentTwice"} /\ Status(c)' = "answered"
  BY <1>1, <1>2, <1>3, StatusSteps DEF Status, Accepted
<1>5. Service!Follows(Status(c), Status(c)')
  BY <1>4 DEF Service!Follows, Service!InFlight
<1>6. CASE sends' = sends
  <2>1. \A d \in Commands : d # c => ~Moved(d)
    BY <1>1, <1>2, <1>6 DEF Moved, Status, Accepted
  <2>. QED  BY <1>4, <1>5, <2>1, OneServed
<1>7. ASSUME NEW h \in Commands, Status(h) = "waiting", sends[h] = 0, sends'[h] = 1, Accepted(h),
             h \notin dropped, calls[h] = 0, \A e \in Commands : e # h => sends'[e] = sends[e]
      PROVE  Served
  <2>0. h # c
    BY <1>3, <1>7
  <2>1. \A d \in Commands : d # h /\ d # c => ~Moved(d)
    BY <1>1, <1>2, <1>7 DEF Moved, Status, Accepted
  <2>2. outcome'[h] = None /\ None \notin Errors
    BY <1>1, <1>7, <2>0, NoneIsNoError DEF Safe, Accounts, History
  <2>3. Status(h)' = "sentOnce"
    BY <1>2, <1>7, <2>2 DEF Status, Accepted, Errors
  <2>4. Service!Follows(Status(h), Status(h)')
    BY <1>7, <2>3 DEF Service!Follows
  <2>5. /\ Status(c) # "new" /\ Status(h) # "new" /\ Status(h)' \notin Service!Completed
        /\ Status(c)' \notin Service!InFlight
        /\ Status(c)' # "discarded" /\ Status(h)' # "discarded"
    BY <1>4, <1>7, <2>3 DEF Service!Completed, Service!InFlight
  <2>. QED  BY <1>5, <2>1, <2>4, <2>5, ServedByMoves
<1>. QED  BY <1>1, <1>2, <1>6, <1>7, WaitingSends

\* A command is accepted, and it or another that waits is sent.
LEMMA SendCommandServed ==
  ASSUME Safe, NEW c \in Commands, NEW l \in Locals, NEW k \in Keys, SendCommand(c, l, k)
  PROVE  Served
<1> DEFINE queued == Appended(c, l, k)
<1>1. /\ queued \in Queues /\ CheckQueue(l, k, inflightCommands, queued)
      /\ \A m \in Locals, d \in Keys : \A e \in Commands :
           Waits(queued, e, m, d) <=> Waits(queuedCommands, e, m, d) \/ (e = c /\ m = l /\ d = k)
      /\ frame[c] = None /\ frame'[c] # None
      /\ \A e \in Commands : e # c => frame'[e] = frame[e]
      /\ calls[c] = 0 /\ c \notin dropped /\ sends[c] = 0
      /\ Distinct(queued[l][k])
  BY SendCommandLists
<1> HIDE DEF queued
<1>2. UNCHANGED <<dropped, outcome>>
  BY DEF SendCommand
<1>3. ListsTyping /\ inflightCommands \in Inflights
  BY LoopPlace DEF ListsTyping
<1>4. Status(c) = "new" /\ outcome[c] = None
  BY <1>1 DEF Status, Accepted, Safe, Accounts, History
<1>none. None \notin Errors
  BY NoneIsNoError
<1>5. /\ sends'[c] = 0 => Status(c)' = "waiting"
      /\ sends'[c] = 1 => Status(c)' = "sentOnce"
  BY <1>1, <1>2, <1>4, <1>none DEF Status, Accepted, Errors
<1>6. Status(c)' \in {"waiting", "sentOnce"} => Service!Follows(Status(c), Status(c)') /\ Status(c)' # "discarded"
  BY <1>4 DEF Service!Follows
<1>7. CASE sends' = sends \/ (sends'[c] = sends[c] + 1 /\ \A e \in Commands : e # c => sends'[e] = sends[e])
  <2>1. \A e \in Commands : e # c => ~Moved(e)
    BY <1>1, <1>2, <1>7 DEF Moved, Status, Accepted
  <2>2. sends'[c] \in {0, 1}
    BY <1>1, <1>7
  <2>. QED  BY <1>5, <1>6, <2>1, <2>2, OneServed
<1>8. ASSUME NEW h \in Commands, h # c, Waits(queued, h, l, k), sends'[h] = sends[h] + 1,
             \A e \in Commands : e # h => sends'[e] = sends[e]
      PROVE  Served
  <2>1. Waits(queuedCommands, h, l, k)
    BY <1>1, <1>8
  <2>2. Status(h) = "waiting" /\ sends[h] = 0 /\ At(frame, h, l, k) /\ calls[h] = 0
    BY <2>1, StatusSteps, Places
  <2>3. h \notin dropped /\ outcome[h] = None
    BY <2>1, <2>2 DEF Safe, Accounts, Kept, Listed, History
  <2>4. sends'[h] = 1 /\ sends'[c] = 0
    BY <1>1, <1>8, <2>2
  <2>5. Status(h)' = "sentOnce" /\ Status(c)' = "waiting"
    BY <1>1, <1>2, <1>5, <1>8, <1>none, <2>2, <2>3, <2>4 DEF Status, Accepted, Errors, At
  <2>6. \A e \in Commands : e # c /\ e # h => ~Moved(e)
    BY <1>1, <1>2, <1>8 DEF Moved, Status, Accepted
  <2>7. Service!Follows(Status(h), Status(h)') /\ Service!Follows(Status(c), Status(c)')
    BY <1>4, <2>2, <2>5 DEF Service!Follows
  <2>8. /\ Status(h) # "new" /\ Status(h)' \notin Service!Completed
        /\ Status(c)' \notin Service!InFlight \cup Service!Completed
        /\ Status(c)' # "discarded" /\ Status(h)' # "discarded"
    BY <2>2, <2>5 DEF Service!Completed, Service!InFlight
  <2>. QED  BY <2>6, <2>7, <2>8, ServedByMoves
<1>. QED  BY <1>1, <1>3, <1>7, <1>8, QueueSends

LEMMA ServiceSteps == Safe /\ [Next]_vars => Served
<1>. SUFFICES ASSUME Safe, [Next]_vars PROVE Served
  OBVIOUS
<1>later. Accounts'
  BY AccountsNext
<1>quiet. UNCHANGED <<frame, dropped, outcome, sends>> => Served
  BY QuietServed
<1>1. ASSUME NEW c \in Commands, NEW l \in Locals, NEW k \in Keys, SendCommand(c, l, k) PROVE Served
  BY <1>1, SendCommandServed
<1>2. ASSUME NEW f \in Commands, NEW c \in Commands, NEW s \in Senders, HandleResponse(f, c, s)
      PROVE  Served
  BY <1>2, ResponseServed
<1>3. ASSUME NEW f \in Commands, NEW c \in Commands, HandleInProgress(f, c) PROVE Served
  BY <1>3, <1>quiet DEF HandleInProgress
<1>4. ASSUME NEW l \in Locals, RegisterLocalEntity(l) \/ UnregisterLocalEntity(l) \/ NextLocal(l)
      PROVE  Served
  BY <1>4, <1>quiet DEF RegisterLocalEntity, UnregisterLocalEntity, NextLocal, ghostVars
<1>5. ASSUME NEW k \in AecpTargets, DiscardAECPCommandsTowardsEntity(k) PROVE Served
  BY <1>5, <1>later, DiscardingServed DEF DiscardAECPCommandsTowardsEntity
<1>6. CASE EndUnregister
  BY <1>6, <1>later, DiscardingServed DEF EndUnregister
<1>7. ASSUME NEW k \in Keys, NextKey(k) PROVE Served
  BY <1>7, <1>quiet DEF NextKey, ghostVars
<1>8. CASE EndKey
  <2>1. loop.local \in Locals /\ loop.key \in Keys /\ UNCHANGED <<frame, dropped, outcome, calls>>
    BY <1>8, LoopPlace DEF EndKey
  <2>2. CASE UNCHANGED sends
    BY <1>quiet, <2>1, <2>2
  <2>3. CASE CheckQueue(loop.local, loop.key, inflightCommands, queuedCommands)
    BY <2>1, <2>3, QueueServed
  <2>. QED  BY <1>8, <2>2, <2>3 DEF EndKey
<1>9. CASE RemoveLostCommand
  <2>1. loop.local \in Locals /\ loop.key \in Keys /\ UNCHANGED <<frame, dropped, outcome, calls>>
        /\ RemoveInflight(loop.local, loop.key, loop.handler)
    BY <1>9, LoopPlace DEF RemoveLostCommand
  <2>. QED  BY <2>1, QueueServed
<1>in. ASSUME NEW c \in loop.commands
       PROVE  /\ c \in Commands /\ Accepted(c) /\ c \notin dropped /\ sends[c] > 0
              /\ loop.local \in Locals /\ loop.key \in Keys
              /\ c \in inflightCommands[loop.local][loop.key]
              /\ calls[c] = 0 => sends[c] = IF c \in retried THEN 2 ELSE 1
  <2>1. /\ c \in Commands /\ loop.local \in Locals /\ loop.key \in Keys
        /\ c \in inflightCommands[loop.local][loop.key]
    BY LoopPlace
  <2>. QED  BY <2>1, StatusSteps, Places DEF Safe, Accounts, Flights, Flight
<1>errors. {"Timeout", "TransportError", "UnknownLocalEntity"} \subseteq Errors
  BY DEF Errors
<1>10. ASSUME NEW c \in Commands, RetryCommand(c) PROVE Served
  <2>1. /\ c \in loop.commands /\ c \notin retried /\ UNCHANGED <<frame, dropped>>
        /\ calls[c] = 0
    BY <1>10 DEF RetryCommand, Safe, Loops, LoopChecks
  <2>2. sends[c] = 1 /\ Accepted(c) /\ c \notin dropped
    BY <1>in, <2>1
  <2>3. CASE CallHandler(c, "TransportError") /\ UNCHANGED sends
    BY <1>errors, <2>1, <2>2, <2>3, HandlerServed
  <2>4. CASE sends' = [sends EXCEPT ![c] = @ + 1] /\ UNCHANGED outcome
    <3>1. sends'[c] = 2 /\ \A d \in Commands : d # c => sends'[d] = sends[d]
      BY <2>2, <2>4, LoopPlace DEF ListsTyping
    <3>2. \A d \in Commands : d # c => ~Moved(d)
      BY <2>1, <2>4, <3>1 DEF Moved, Status, Accepted
    <3>3. outcome[c] = None /\ None \notin Errors
      BY <2>1, NoneIsNoError DEF Safe, Accounts, History
    <3>4. Status(c) = "sentOnce" /\ Status(c)' = "sentTwice"
      BY <2>1, <2>2, <2>4, <3>1, <3>3 DEF Status, Accepted, Errors
    <3>5. Service!Follows(Status(c), Status(c)') /\ Status(c)' # "discarded"
      BY <3>4 DEF Service!Follows
    <3>. QED  BY <3>2, <3>5, OneServed
  <2>. QED  BY <1>10, <2>3, <2>4 DEF RetryCommand
<1>11. ASSUME NEW c \in Commands, TimeoutCommand(c) PROVE Served
  <2>1. /\ c \in loop.commands /\ c \in retried /\ UNCHANGED <<frame, dropped, sends>>
        /\ calls[c] = 0 /\ CallHandler(c, "Timeout")
    BY <1>11 DEF TimeoutCommand, MayGiveUp, Safe, Loops, LoopChecks
  <2>. QED  BY <1>errors, <1>in, <2>1, HandlerServed
<1>12. ASSUME NEW c \in Commands, CancelCommand(c) PROVE Served
  <2>1. /\ c \in loop.commands /\ UNCHANGED <<frame, dropped, sends>>
        /\ loop.kind = "unregister" /\ CallHandler(c, "UnknownLocalEntity")
    BY <1>12 DEF CancelCommand
  <2>2. calls[c] = 0 \/ outcome[c] = "UnknownLocalEntity"
    BY <1>in, <2>1 DEF Safe, Accounts, Flights, Flight
  <2>3. calls[c] = 0 => sends[c] \in {1, 2}
    BY <1>in, <2>1
  <2>. QED  BY <1>errors, <1>in, <2>1, <2>2, <2>3, HandlerServed
<1>13. ASSUME NEW c \in Commands, NotifyError(c) PROVE Served
  <2>1. /\ loop.kind = "timeouts" /\ loop.handler = None /\ loop.local # None
        /\ c \in scheduledErrors[loop.local] /\ CallHandler(c, "TransportError")
        /\ UNCHANGED <<frame, dropped, sends>>
    BY <1>13 DEF NotifyError, ScheduledErrors, Protocols, Safe, Loops, LoopErrors
  <2>2. loop.local \in Locals /\ calls[c] = 0
    BY <2>1, LoopPlace, Owing
  <2>3. Accepted(c) /\ c \notin dropped /\ sends[c] = 0
    BY <2>1, <2>2, StatusSteps
  <2>. QED  BY <1>errors, <2>1, <2>2, <2>3, HandlerServed
<1>14. CASE BeginTimeoutCheck \/ NextStage \/ EndTimeoutCheck \/ CancelHandlerReturns \/ EndNotifyError
  BY <1>14, <1>quiet
  DEF BeginTimeoutCheck, NextStage, EndTimeoutCheck, CancelHandlerReturns, EndNotifyError, ghostVars
<1>15. ASSUME NEW c \in Commands, TimerExpires(c) PROVE Served
  BY <1>15, <1>quiet DEF TimerExpires, ghostVars
<1>16. ASSUME NEW l \in Locals, NEW k \in Keys, SendIntervalElapses(l, k) PROVE Served
  BY <1>16, <1>quiet DEF SendIntervalElapses, ghostVars
<1>17. CASE UNCHANGED vars
  BY <1>17, <1>quiet DEF vars, ghostVars
<1>. QED
  BY <1>1, <1>2, <1>3, <1>4, <1>5, <1>6, <1>7, <1>8, <1>9, <1>10, <1>11, <1>12, <1>13, <1>14,
     <1>15, <1>16, <1>17 DEF Next, LoopStep

\* The command state machine is the service it promises: whatever sends, responses, lost
\* answers, transport errors and departures come together, every step moves the commands
\* along their lives, one accepted or completed and one sent at a time.
THEOREM CommandStateMachineIsAService == Spec => ImplementsService
<1>1. Init => Service!Init
  BY DEF Init, Service!Init, Status, Accepted
<1>2. Safe /\ [Next]_vars => [Service!Next]_statuses
  BY ServiceSteps DEF Served
<1>. QED  BY SafeAlways, <1>1, <1>2, PTL DEF Spec, ImplementsService, Service!Spec, statuses
===============================================================================
