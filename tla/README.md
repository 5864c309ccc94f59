# L-Acoustics AVDECC in TLA+

Models of the concurrent and reactive core of the AVDECC library: what its code
promises, checked by TLC on small instances and, for the properties that matter
most, proved by TLAPS for all instances. Paths are relative to the root of the
repository (`src/...` is the library's own `src` directory).

## 1. The system

The library speaks IEEE 1722.1: ADP (discovery), AECP (commands to entities),
ACMP (connections). A *protocol interface* sends and receives messages and owns a
*state machine manager*; *local entities* use the interface; the *controller*
stands on a local entity, enumerates every entity it discovers into a
*controlled entity*, keeps that up to date and tells *observers*.

| Component | State it keeps | Operations | Talks to |
|---|---|---|---|
| Command state machine (`src/stateMachine/commandStateMachine.*`) | per local entity: sequence IDs, commands in flight and queued per destination, scheduled errors | register, unregister, send, response, discard, timeout check | manager (lock, thread), transport (`sendMessage`), result handlers |
| Executor (`src/executor.cpp`) | queue of jobs, jobs taken, flags and promise of a flush, two locks, a condition variable, a thread | pushJob, flush, terminate, destructor | protocol interfaces and proxies push jobs and flush |
| Discovery (`src/stateMachine/discoveryStateMachine.*`) | remote entities, one timeout per interface | available, departing, timeout check, forget | manager, observers |
| Manager, advertise (`src/stateMachine/*`) | local entities, a recursive lock, a thread with a period of 5 ms | start, stop, register, process messages | the state machines |
| Protocol interfaces (`src/protocolInterface/*`) | observers, executor name, sockets | send, receive, shutdown | manager, executor, observers |
| Local entities, capability delegate (`src/entity/*`) | interfaces, discovered entities, numbers of notifications | requests, answers, notifications, offline and online | protocol interface, controller |
| Payloads (`src/protocol/*`) | none | from bytes and to bytes, with what is asked of lengths | capability delegate |
| Controller proxy (`src/controller/avdeccControllerProxy.cpp`) | set of virtual entities | every request | executor, virtual interface, local entity |
| Controller: enumeration | steps, queries awaited, delayed queries, cache of models | online, offline, results and failures of queries | capability delegate, observers |
| Controller: exclusive access | states of acquire and lock, tokens | requests, releases, notifications, destruction | capability delegate, users |
| Controller: connections | connections, lists of listeners, media clock chains, mapped clusters | connection results and sniffed ones, changes of clocks and mappings | other controlled entities, observers |
| Controller: values | the model of an entity | commands of the user, notifications | capability delegate, observers |
| Controller: diagnostics | compatibility flags, diagnostics | validations, updates | observers |

What makes each hard, and what it must guarantee:

* **Command state machine.** Its lock is recursive and result handlers run under
  it, in the middle of loops over the lists that those handlers change. Responses
  are lost, late, repeated. Every accepted command must be in one place, complete
  once, respect the window and its order, and be retried once.
* **Executor.** Flags are tested outside the lock, notification comes after the
  unlock, a flush and the thread race over one promise, `terminate` joins with a
  lock held. Jobs must run once, in order; no wake-up may be lost.
* **Discovery.** Checks outside the lock, callbacks under iteration, stale
  timeouts after offline-online. Online, update and offline must alternate.
* **Enumeration.** Steps and answers in any order, retries, fallbacks from one kind
  of query to another, while the entity leaves and comes back. It must end, and
  what is then shown must be whole.
* **Exclusive access.** The user's threads, the network's and another controller
  change one state. It must follow the device, and nothing stay held for nobody.
* **Connections.** Derived data of one entity that comes from others, which come
  and leave in any order. It must be what it would be if computed afresh.
* **Values, requests, diagnostics.** Hundreds of handlers with one pattern, which
  must be followed without exception: every answer reaches its caller once, every
  change reaches the model and the observers.

`PROJECT.json` lists every component with what is modelled and why the rest is
not, and every hazard with its line and the properties that look for it. Two
hazards are no entries of that list because the code has no defined successor:
a result handler of the timeout check that makes its own destination be
forgotten erases the map node the loop stands on (`commandStateMachine.cpp:153`),
and so does an observer that forgets the entity of which a timeout is being
handled (`discoveryStateMachine.cpp:87`). The models exclude both.

## 2. The modules

| Module | What it is |
|---|---|
| `CommandService` | abstract: the life of every command, what a step may complete, send, discard |
| `CommandStateMachine` | the state machine, both protocols; properties; refinement of `CommandService` |
| `ExecutorService` | abstract: a queue of jobs that may be closed |
| `Executor` | the thread and the calls of `ExecutorWithDispatchQueueImpl`; properties; refinement of `ExecutorService` |
| `Discovery` | remote entities, their interfaces and timeouts, observers |
| `Enumeration` | the enumeration of one entity, its failures, the cache of models |
| `ExclusiveAccess` | tokens and states of acquire and lock |
| `Connections` | listeners, clock chains, mapped clusters, latencies of several entities |
| `ModelItems`, `Control` | what can be changed in a model and by which way; one item from the user and the device to the observers |
| `Requests`, `AemPayloads`, `Exchange` | the 130 requests; the lengths of their payloads; one request from the proxy to its handler |
| `Diagnostics` | compatibility flags, validation, grandmasters, links, counters, controls |
| `CommandStateMachineProofs`, `ExecutorProofs`, `DiscoveryProofs`, `ControlProofs`, `DiagnosticsProofs`, `ExclusiveAccessProofs`, `ExchangeProofs`, `ConnectionsProofs` | theorems |
| `MC...` | instances and symmetry for TLC |

`Exchange` extends `AemPayloads`, which extends `Requests`; `Control` extends
`ModelItems`. The other modules meet at their borders: `Control` and `Exchange`
see the command state machine as what `CommandService` promises, `Control` sees the
enumeration as one registration and one query, `Diagnostics` as three rounds of
questions, `Connections` sees it as the moment an entity is advertised.

### CommandStateMachine

*State.* The maps of `CommandEntityInfo` become functions of a local entity and
a destination. An AECP destination is an entity ID, an ACMP one a MAC address;
both protocols run the same code on separate maps, so one set of actions serves
them, and `Protocol(k)` tells which sequence counter, loop and test apply.
`inflightKeys` is the set of keys of the two in-flight maps: the periodic check
visits these, and a key outlives its last command. A list of commands in flight
is a set, since no code depends on its order; a queue is a sequence.

*Actions.* A public method holds the manager's lock and is one action
(`SendCommand`, `HandleResponse`, `HandleInProgress`, `RegisterLocalEntity`,
`DiscardAECPCommandsTowardsEntity`), with the `checkQueue` it ends with. The
handler of a response runs after the last change of state, so what it sends is
the next action. `checkInflightCommandsTimeoutExpiracy` and
`unregisterLocalEntity` run handlers inside their loops: `loop` is their
program counter, with the local entity, protocol, destinations left, current
destination, commands left and running handler. While `loop.handler` is not
`None` a `SendCommand` may happen, and it may change what the loop will visit:
a new key in the `unordered_map` may fall before or after the iterator, or
rehash the map under it, so the keys left are any subset of the keys there
(`LoopAfterSend`).

*Time.* `expired` holds the commands whose timeout passed, `throttled` the
destinations used less than a send interval ago. A timeout that expires during a
check is seen by the next one, because the code compares with the time the check
began at. *Network.* A response to any frame ever sent may arrive at any time, any
number of times, from its recipient, from another device, or, for ACMP, from a
talker that answers a listener. *Transport.* `sendMessage` fails whenever it likes.

*Bounds.* `MaxEra` bounds restarts and wraps of a sequence counter,
`MaxInProgress` the IN_PROGRESS responses to a command; each command is sent once.
`SeqMod` stands for 2^16, `MaxInflight` for 10.

*Left out.* Statistics, unsolicited and identify notifications (no state here);
out-of-memory (`catch (...)` in the send methods).

### Executor

A critical section of `_executorLock` is one action, and so is each read without
it (`_shouldTerminate` and `_flushingJobs` by the thread, `_jobs.empty()` by
`flush`). `enqueueLock` is held by a call from its first to its last action;
`terminate` that flushes enters `flush` with the lock it has, which is recursive.
`worker` and `caller[t]` are program counters named after the code reached. The
thread keeps all of `jobsToProcess` until the last one is run; the model drops
each as it ends, so that `jobsToProcess` is what is left to run. `notify_one`
wakes the thread if it waits; it may also wake up spuriously. A job may push
one other job (`Follower`). The 30 seconds of a flush pass only when nothing can
happen before it returns: the thread is gone, or blocked on the lock the flush
holds (`Embrace`). `accepted`, `executed`, `discarded` and `taken` are history,
read by the properties only. *Left out*: a call of `flush` or `terminate` made by
a job of the same executor.

### Discovery

`discovered` and `timeouts` are the two halves of `DiscoveredEntityInfo`. An ADP
message is compared with the local entities before the lock is taken, so
`receiver` holds it between `ReceiveAvailable` or `ReceiveDeparting` and
`HandleAvailable` or `HandleDeparting`. `UpdateEntity` is the decision of
`updateEntity` between nothing, an update and a replacement, from which fields of
the message differ and whether its `availableIndex` went back. `CheckTimeouts` is
the whole of `checkRemoteEntitiesTimeoutExpiracy`, with what every observer is
told. An observer registers in three steps (it is in the list, is told the local
entities, is told the remote ones) and `view` is what a `CapabilityDelegate` keeps
of each entity; `failed` records its assertions. `device` is the world: a device is
on or off, restarts, and its messages of the present life are repeated, delayed
and lost. The announcements of a local entity come back to its own protocol interface:
they are one more device, which is on or not whether the entity is registered or not.
`doubled` is history: the IDs that became local and remote at once, which the
code keeps as two entities and shows as one, until they are neither. *Left out*: the delay of automatic discovery, messages of a former life
delivered after a restart.

### Enumeration

The variables of the controller are one record, a *machine*, and the handlers are
operators from a machine to a machine, so that a handler that calls another one is
written as the code writes it; an action applies one handler to an answer. `e` holds
`ControlledEntityImpl`'s part: `steps` (`_enumerationSteps`), `expected` (the
`_expected...` sets, with one key per query), which families were retried,
the flags of Milan and of the cache. `nodes` and `resolved` are what was read and
what was answered or given up. The `Process...FailureStatus` operators are the
functions of the same names: for each class of failure (`AemFailureAction`, ...) a
query is retried after a delay, given up, replaced by reading the descriptor, or
ends the enumeration. `delayed` is the list of the thread of delayed queries.
A device is a tree of descriptors in the setting; a setting also holds the
statuses that may come back and the options of the controller (packed queries,
full enumeration, cache). `Misread` names the state in which the code stops for ever (below). *Left out*: the values
inside descriptors; virtual entities; identification. The compile options are those the build sets by default
(`CMakeLists.txt:53-59`).

### ExclusiveAccess

`pc[u]` is where a user's thread is: in `acquire`, `lock`, `release`, `unlock` or in
the destructor of its token. The check of the known state and the sending of the
command are two steps (`Calls`, `Send`) as the code unlocks between them; so are
erasing the token from the set, deciding that it was the last, and sending
the release (`Unregister`, `ReleaseForToken`, `SendRelease`). `network` is the thread
of the network in the middle of invalidating tokens. `entity.step` is the enumeration as far
as it matters here: `OnEntityOnline` begins it, the answers about Milan, the registration and
the model come in turn (`OnGetMilanInfoResult`, `OnRegisterUnsolicitedNotificationsResult`),
and only `GetDynamicInfo` sends the queries, which are releases; whatever else is asked for
may still be open when they are answered (`GetResult`, `Advertise`). Meanwhile a command of a
former stay may be sent, executed and answered. A query that timed out may be sent again
(`delayed`, `SendDelayed`), to whatever entity then has the ID. Two ghosts name what the code
does not cover: `stray`, a query of a former stay that was sent again in this one, and
`unreleased`, a last token that was destroyed before the entity was advertised. Messages to and from the
device are in order and may be lost; another controller takes the device, loses it
or releases it; the entity leaves and comes back; the controller is destroyed
(`Shutdown`), which releases what it holds. Bounds: `MaxCalls`, `MaxStays`,
`MaxEvents`, `MaxFaults`. *Left out*: `PersistentAcquire` as a kind of its own.

### Connections

`entities[e]` is the part of each `ControlledEntityImpl` that refers to others:
state of each input, listeners of each output, chain of the media clock, cluster
that feeds each mapped one, inputs over their latency. Handlers are operators from
`entities` to `entities`: `ListenerNotified` (`handleListenerStreamStateNotification`),
`TalkerNotified`, `PreAdvertised` (`onPreAdvertiseEntity`), `PreUnadvertised`,
`Chain` (`computeMediaClockChain...`), `FedByMapping` and its fellows
(`...ChannelConnection...`). Chains are computed as in the code, node by node,
until a source that is not a stream, one that is offline, or an entity that was
passed already. A setting says which entities there are, which of them have listeners
and which events occur. *Left out*: redundant pairs of streams, more than one clock
domain or stream port.

### ModelItems and Control

`ModelItems` has four sets for each kind of item of a model, filled from the code
handler by handler: may the user set it and does the result update the model, does
the capability delegate hand on its notification, does the controller take it,
does the model tell observers. `Behaviours` are the combinations that occur, and
`Control` follows one item of each: the command of the user in its three steps
(check, address, sending), the command state machine's second sending and timeout, the
device that executes, notifies others and changes by itself, the messages that cross
and are lost, the numbers of notifications and what follows from a gap, the entity
that leaves and comes back with an enumeration. Bounds: numbers modulo `Width`,
`MaxChanges`, `MaxStays`, `MaxLosses`.

### Requests, AemPayloads and Exchange

`Requests` names the 130 methods of `controller::Interface` by command and type of
object, and says which of them the capability delegate sends and which the proxy and
the two kinds of local entity hand on. `AemPayloads` gives each its layout: length of
the command, length a `NotImplemented` answer must have, least length of an answer,
and the list, placed by an offset or counted. `Reading` is what reading an answer comes to,
with the 16-bit sum of the offset. `Exchange` follows one call: the proxy's job, the
virtual interface, serialisation, the search for the address, the command's end with an
answer or an error, and the dispatch of the answer with its casts of the handler
(`SameHandler`: two methods whose handlers have the same C++ type). Answers have every
length, list and offset around a boundary of the layout, and may be about another
question. Bound: `MaxChanges` arrivals, departures and registrations. *Left out*: the
fields themselves; the list of redundant streams; assertions of Debug builds on
used bytes; the window in which an entity is in the set of virtual ones but not yet
known to the interface, where a call goes to the real one; an executor that drops jobs
as it ends.

### Diagnostics

`entity` has the compatibility flags, the version of Milan, the two records of the
grandmaster (from ADP and from AVB_INFO), counters, link states and values of controls,
and `told`, what observers were last told. Each `update...`, `check...` and `validate...`
function is an operator on it. `device` is what is true, `wire` the messages under way;
`known` is what discovery hands over with each ADP. A setting is a device: a sound
Milan one, or one that breaks the standards in one way. Bounds: counters modulo
`Width` that start where they will wrap, `MaxWire`, `MaxChanges`, `MaxLosses`. *Left
out*: the global interface index and MAC addresses that do not match, entities without
gPTP, association IDs, missing AVB interfaces, entities without a configuration.

## 3. The runs

| Run | Instance (distinct states) | What it asks |
|---|---|---|
| `command_window` | window 1, IDs modulo 3, one of four bounds at a time: 2 locals; AECP and ACMP with IN_PROGRESS; 3 commands for one destination; 2 registrations and 2 AECP destinations (501,227) | where commands are, the window, service of queues, order of transmission, ownership of answers, the refinement of `CommandService`; `CommandsSettle` under fairness |
| `command_handlers` | 1 command | violated: handlers are not always called |
| `executor_queue` | 2 threads, 3 jobs, one pushes another (68,529) | wake-ups, promises, flushes, termination, the refinement of `ExecutorService`; jobs run and calls return |
| `discovery_entities` | 1 ID that is that of a device with 2 interfaces, 2 models and a restart, and of a local entity whose announcements come back; 1 observer (941,320) | what observers know, identity, silent devices leave |
| `enumeration_entity` | 5 settings (113,507) | advertised models are whole and informed, assertions hold, the enumeration ends unless a configuration was misread |
| `enumeration_configurations` | 2 configurations, one query times out (341) | violated: the enumeration does not end |
| `enumeration_cachedmodel` | 1 setting, one fault (178) | violated: the cached model lacks a descriptor |
| `exclusive_lock` | 2 users, 1 other controller, 2 stays, 1 loss (1,563,109) | state and tokens follow the device, nothing stays held, requests are answered |
| `connections_entities` | 4 settings of 2 or 3 entities (345,235) | lists, chains, clusters are what they would be afresh |
| `control_entity` | every behaviour of an item, 1 command, 3 changes, 2 stays, 1 loss (2,095,084) | model and observers follow the device, losses are found, users are answered |
| `commands_answers` | 130 requests, 2 kinds of local entity, 2 changes (273,855) | success is earned, no false refusal, one answer |
| `diagnostics_entity` | 10 devices, 2 grandmasters, counters modulo 4, 2 changes, 1 loss (7,439,633) | diagnostics are current, verdicts just, observers told |

*Why the bounds are enough.* With a window of one, a second command waits behind one
in flight, and a handler of the first may send the second while a loop runs; two local
entities and two protocols make every branch of the loops occur, two destinations and two
registrations let a rehash repeat one, and three commands with IDs modulo 3 wrap the counter
around. Each of these is a bound of its own in `MCCommandStateMachine`, because all of them
at once are too much; they hold back no step that fairness asks for. What TLC cannot combine
the proofs do: all safety properties of this run and the refinement are proved for any
constants, and only `CommandsSettle` rests on TLC alone. Two threads and three jobs let one thread flush or
terminate while the other waits for the lock and the job in progress wants it too. Two
interfaces are what it takes for one to time out and the other to stay. Enumeration has
one setting with every type of descriptor and each kind of information, and two faults:
a retry and what follows a retry that failed; one setting has two configurations, each of
which may be asked again. For `Discovery` one ID is enough to be a device's, a local entity's
and both. Two users make a token that is not the
last. Chains over three entities close into cycles of one, two and three. The control
run lets both sequence IDs come round (modulo 2) and the entity return. For payloads, an
inequality is decided by the values at its two sides, which are the ones enumerated.
The devices of `diagnostics_entity` break one rule each, but for the rules that hide each
other.

*Deadlock* is checked in the runs of commands and diagnostics. In the others the
system may stop: when the bounds are used up, and in `executor_queue` because a
deadlock is real (below).

*Fairness.* The manager's thread runs its checks every 5 ms
(`Manager::startStateMachines`), so they begin again and again and their steps are
taken; time passes, so a send interval elapses and a timeout of discovery expires (weak
fairness) and a timer that is armed again by retries and IN_PROGRESS expires in the end
(strong fairness, since the check that runs in between delays it). The executor runs
what was received. Nothing obliges an application to send or a device to answer. In the
executor every thread that can take a step takes it; a job that may push another does so
if it gets the lock again and again (strong fairness of `JobPushes`). Enumeration assumes
that every query ends, with an answer or a timeout, which is `CommandsSettle`, and that the
thread of delayed queries goes on. In `ExclusiveAccess` a user's call, the network's
thread and the device go on; messages may be lost. In `Control` only the steps of the
caller's thread and the timeouts of the command state machine are fair; in `Exchange` the
executor, the sender, and the end of the command.

Every property has a mutant: an operator such as `CanSend_OffByOne` stands next to the
one it would replace, and is a plausible mistake in the code that the property detects.

### What the code does against what it says

Three disagreements have runs of their own:

* A discarded command never has its handler run (`command_handlers`), against
  `protocolInterface.hpp:180` and `avdeccController.hpp:586`.
* A model some descriptor of which could not be read is kept for every later device of
  that model (`enumeration_cachedmodel`), against `avdeccEntityModelCache.hpp:127`.
* A configuration other than the first whose read is tried again is never read
  (`enumeration_configurations`): `avdeccControllerImplHandlers.cpp:990` passes its index as
  that of the descriptor, configuration 0 is read in its place, and the key that is then
  expected is that of no answer, so that the entity is neither declared online nor reported in
  error, against `avdeccControllerImpl.hpp:620` ("try it again") and
  `avdeccController.hpp:250`. `EnumerationEndsUnlessMisread`, which holds, says that this is
  the only way for an enumeration not to end.

Others were met while modelling. The properties say where they except them.

*Commands.* `unregisterLocalEntity` may miss a command sent by a handler it runs, and
a rehash may make it run a handler twice (`commandStateMachine.cpp:99`). An ACMP answer
of a talker to a listener may complete a controller's command of the same type
(`commandStateMachine.cpp:395`).

*Executor.* `flush` may return before the queued jobs have run (`executor.hpp:61`): the
thread answers a request that came after it had taken its jobs, and then takes the queue
just before `flush` finds it empty. A job that pushes makes a flush of its executor wait
30 seconds and fail its assertion (`executor.cpp:238`), and a `terminate` wait for ever
(`executor.cpp:269`): `CallsReturn` says that this is the only way for a call not to return.

*Discovery.* An observer that registers while an entity is announced is told of it twice,
which fails an assertion (`controllerCapabilityDelegate.cpp:2269`). A replaced entity
keeps the timeouts of interfaces it no longer has. An entity registered as a local one
between the test and the lock, whose announcement is under way, is also added as a remote one
(`discoveryStateMachine.cpp:171`), and stays both until the announcements end: what an observer
is told of one replaces what it knows of the other, and an offline of one removes both.
Of such an ID `ObserversAgree` says only that nobody knows it when it is neither, and
`IdentityKept` and `Alternates` say nothing until it is neither; of every other ID they say the
same as ever.

*Enumeration.* With packed queries and a cache, an entity may be advertised without
some of its dynamic information: `AdvertisedInformed` claims nothing for that setting.

*Exclusive access.* `NoAssertionFails` of `ExclusiveAccess` does not hold and no run
checks it: a token is erased by the network's thread while its user's destructor is
between `if (_controller)` and its own erasing, which fails the assertion at
`avdeccControllerImplOverrides.cpp:280`, or uses the token after its end
(`avdeccControllerImpl.cpp:2447-2453`). Tokens of both types share one set (281-305), so
that only the access of the last one is released: `NothingHeldForNobody` excepts that with
`OneAccess`. Tokens stay valid when the entity
leaves and comes back, although its enumeration releases the entity with its query; and so
does a token given during that enumeration for a command begun before the entity left: the
command reaches the device before the query, which then takes the access away, and
`updateAcquiredState` and `updateLockedState` invalidate nothing while the entity is not
advertised (`avdeccControllerImpl.cpp:382-440`). `TokensAreHeld` speaks of tokens that were
asked for and given during this stay; with `stay |-> stays` in `Answer`, TLC finds the other
ones valid without access, with nothing lost. A query of a former stay that is sent again after
the entity came back may be taken for one of this stay (`StateFollowsDevice` excepts it with
`stray`). The
release of a token is skipped when a command is in progress or during an enumeration
(`NothingHeldForNobody` excepts the second with `unreleased`). A
notification overwrites a state that says that a command is in progress, and a
controller that is destroyed then does not release (366-374). A notification that another
controller locked the entity takes no token away.

*Connections.* A fast connecting input changes neither chains nor channels
(`avdeccControllerImpl.cpp:7324`). A talker keeps a listener whose connection was seen
during the enumeration of the listener and that then disconnects or leaves. A cluster taken
from a talker that is being enumerated stays when that leaves unadvertised. Unsolicited
input mappings that come during the enumeration fail an assertion (1868). Mappings that
are replaced leave clusters of the talker that are out of date. The latency error of an
input is not computed again when its talker changes its transit time, nor when it moves
to another talker (`avdeccControlledEntity.hpp:115`). A connection of an entity to itself
is not in its list when it is advertised.

*Values.* A command sent again because its first answer was late is executed twice and
its second answer dropped, and the answer to one that was given up is dropped too
(`commandStateMachine.cpp:326`). When another controller's change lies between, or the user
was told of a timeout, the dropped answer says something else than the model, and no later
message repairs it: `MirrorFollowsDevice` excepts exactly that, until newer news is used. A
dropped answer that says what the model has excuses nothing. A notification that is lost before the first that came is not
found out; only Milan entities are tested at all. An operation of less than the whole
fails an assertion that should only concern others: its condition is true in both
branches (2105). "Identify started" is told of an entity that is not advertised.

*Requests.* `getStreamPortOutputAudioMap` of the proxy runs without the lock that the 129
other methods take (`avdeccControllerProxy.cpp:871-888`). Answers to Set and
GetSystemUniqueID between the lengths of the two Milan versions are taken for success
although neither is read (`protocolMvuPayloads.cpp:173-191`); SetSystemUniqueID is sent in
one length and its refusal expected in another, which makes it a protocol error. Lengths
of refusals of most Get commands are compared with those of the Set command, which is
harmless by the option IGNORE_INVALID_NON_SUCCESS_AEM_RESPONSES. One piece that is not
implemented or unknown fails the whole of a packed answer. An answer about an unknown
type of descriptor calls no handler (`controllerCapabilityDelegate.cpp:2959-2964`). Handlers
of equal C++ type cannot be told apart (`entityImpl.hpp:200`): 54 types for 130 methods.
Offsets of lists wrap at 16 bits (`protocolAemPayloads.cpp:348`).

*Diagnostics.* The redundancy warning stays when the Milan flag is lost. The test of the link
counters reads them from the message that may hold only one of them
(`avdeccControllerImpl.cpp:1539`), which takes the Milan flag from a sound device; other
counters take a missing one for 0. Setting a Milan warning asserts the Milan flag where
its callers test the version, so a device that lost the flag fails the assertion (677, 822);
adding a warning of IEEE 1722.1 asserts a flag that the step before may have removed.
A device whose first descriptor counts are not at the top escapes all tests of Milan. Losing
the Milan flag leaves its warning (`avdeccControlledEntity.hpp:95-98`). After a lost
AVB_INFO an old grandmaster may stay, as discovery repeats no advertisement that it has
seen, and an advertisement of one interface brings back the older grandmaster of the other.

## 4. The proofs

The assumptions are those of the modules: `ConstantsAssumption` (names are distinct,
there are finitely many commands and entities, a window and a modulus of at least 1, users
and controllers have names of their own, and in `Connections` `None` is no entity, stream,
channel, cluster or awaited result), `SendersAreApart`, `NoneIsNoFrame`, `NoneIsNoError`,
`NoneIsApart` and `ControlAssumption` (no value is taken for another),
`DiagnosticsAssumption` (what is counted exists, a counter wraps at 2 or more, a device
declares a version that is a number and starts its counters below the modulus) and
`EveryQuestionHasAPayload` (the tables of payloads cover the requests). TLC evaluates them
in every run.

`CommandStateMachineProofs`
* `TypeCorrect`. `TypeOK` is not inductive: `RetryCommand` writes `throttled` at the
  place the loop has reached. `LoopInPlace` adds that commands to look at imply a
  destination, a destination implies a local entity, and `unregisterLocalEntity` has one
  and looks at no scheduled error. `TypeOK` is split into what `CheckQueue` writes
  (`ListsTyping`) and the rest, and `CheckQueue`, shared by five actions, has its lemma.
* `WindowRespected`. `InflightBounded` is inductive given the types; one lemma about
  `CheckQueue`, one about `RemoveInflight`, and finite cardinalities.
* `QueuesAlwaysServed`. `QueuesAreServed` is inductive given the types: `CheckQueue`
  fills no queue, and what removes a key empties its queue.
* `AnswersAreOwn` and `FirstAcceptedAreFirstSent` rest on the numbering of frames: a frame
  comes before the next number of its local entity (`Numbered`), two commands never have the
  same number in one era (`Unique`), a list holds commands sent to its destination (`Placed`),
  a queue is ordered and comes after everything sent to its destination (`Ordered`), and
  what is in flight or is looked at by a loop was sent.
* `AllAccountedFor`. The invariant is `Safe`: the types, the numbering of frames above,
  `Accounts` and `Loops`. `Accounts` says where commands are: an accepted command that was
  neither completed nor discarded is in a list (`Kept`), one in a queue is nowhere else
  (`QueueApart`), one refused was never sent (`ErrorsApart`), one in flight was sent once, or
  twice if it is in `retried` (`Flights`); a list holds a command whose handler ran only at
  the place the loop has reached, or while its local entity is unregistered. `Loops` says
  what the two loops still have to look at: commands in flight whose handlers did not run,
  but for those `unregisterLocalEntity` comes to again (`rewalked`). With the numbering the
  lists are disjoint: a frame names the destination, and what waits was never sent.
  `CheckQueue` has its lemma (`TookKeeps`: one command leaves the queue, for one place), and
  so has each of the things a step can do: a handler runs, a command leaves, all of a
  destination leave, a command is appended.
* `CommandStateMachineIsAService`: from `Safe`, each step is a step of `CommandService` on
  the statuses, or leaves them as they are. A handler that runs twice changes no status, and
  one step moves two commands only when a response or a new command lets another be sent.

`ExecutorProofs`
* `TypeCorrect`, with `HasJob`: the thread runs a job only if it has one.
* `JobsAlwaysInOrder`, with `EndsOnRequest`: the thread ends only on request, so what it then
  discards is covered by `shouldTerminate`. Lemmas on concatenation say that each move of
  jobs between the lists keeps their order.
* `WakeupsKept`: whoever makes the condition true has still to notify.
* `PromisesSetOnce`, with `Promised`: a flush is requested exactly while its promise is
  pending.
* `TerminationIsFinal`, with `Ended`: an exited thread has left both queues empty, and
  nothing is pushed after the request.
* `FlushesWait`: one call has the lock (`OneCall`), whoever terminates joins (`Terminated`),
  between two rounds the thread has nothing left to run (`RoundEnded`), and what was taken
  when a flush began is run before its promise is set (`TakenAreRun`).
* `ExecutorIsAService`: the executor refines the queue of `ExecutorService`: each step is a
  step of the service on `jobsToProcess \o jobs`, or leaves it as it is.

`DiscoveryProofs`
* `TypeCorrect`, with `Present`: a known entity has an interface.
* `ObserversAlwaysAgree`, with `Follows`: what an observer that is still being told knows is a
  part of what there is, and up to date unless the ID is doubled; and `Apart`: an ID that is
  local and remote is doubled, and a doubled one is at least one of the two.
* `IdentityAlwaysKept`: one lemma for each thing an observer can be told.

  Nothing is assumed about which entities are local, or announced to their own interface.

`ControlProofs`
* `TypeCorrect`, for every behaviour of an item.
* `ObserversAlwaysSeeTheModel`, with `AnswersOwn` and `HasValue`; it rests on the table of items:
  everything that is set or told of is shown (`UpdatedIsShown`).
* `SuccessAlwaysShown`, with `SetOnly` and `Unanswered`: an answer with success is handled in the
  one step that updates the model.
* `MirrorAlwaysFollows`, with `Mirror`. Messages come in the order of the changes of the
  device, and the last is of its value (`Ages`). Queries of this stay are sent after the
  answer to its registration, so that nothing changes unnoticed in between (`InTime`). An
  advertised value, and the one a pending query will bring, is that of the device, or the news
  that it is not is under way, or was lost or dropped without being what the model has
  (`CatchesUp`). With nothing under way nor excused, only the first is left.
* `LossesAlwaysDetected`, with `Losses`: the notifications on their way since the point of the
  stay at which the device registered us are numbered one after the other, but for those that
  were lost; the number that is expected, and how many were missed, add up to the next one
  (numbers are remainders); no registration on its way starts the numbers again, and the
  answer to the registration of the stay is awaited until it is read.

`DiagnosticsProofs`
* `DiagnosticsTyping`, for any device, and three theorems from one invariant. `Asking` and
  `Answering` say what the enumeration waits for, and that each question has one answer on its
  way at most. `Behaving` says that messages of a device without a fault keep to the standard,
  the counters among them because they start and stop in turn. `Sane` is about the entity
  while questions are open, and is kept by each `update...`, `check...` and `validate...`
  operation: `Does` states what such an operation leaves alone and what it told, and composes
  along a handler, so that a handler is proved from its operations.
* `ObserversAlwaysSee`: each operation tells what it changed (`AgreeBut`).
* `VerdictsAlwaysJust`: `Judging` says which test a question, once answered, has decided.
* `DiagnosticsAlwaysCurrent`, with `Following`: for everything the device speaks of, the last
  message that says something of it says what is true now (`Chained`), or the entity has it.

`ExclusiveAccessProofs`
* `ExclusiveAccessTyping`, and with it `Threads` and `Waiting`: a user waits for exactly one
  message, the command or its answer, or for the thread that revokes its token.
* `StateAlwaysFollows`, with `Expecting` (an entity expects exactly the answers of the queries
  of its stay that are on their way or to be sent again, and is advertised when there are none),
  `Answers` and `Following`: of each access, once its query has reached the device, the last
  message on its way is true, or a command to come will correct it; with neither, the state is.
* `TokensAlwaysHeld`, with `InTime` (a call of this stay is made of an advertised entity)
  and `Certain`, which says while nothing is lost: once
  the query has reached the device, when that is not held by us, the message that says so has
  been read or is on its way, and none after it says otherwise (`Holding`); and a valid token of
  this stay is held, or is being revoked or destroyed (`Given`).
* `NothingKeptForNobody`, with a second invariant, `Rights`, on top of the first. Commands that
  take are those of users, and only their answers say that we hold (`Asking`, `Taking`). Until
  the entity of the first stay is advertised there are only queries (`Fresh`). A state that
  says "Held" belongs to a registered token, or to one that is about to release (`Kept`). While
  we hold the device, a message that says so, or that the answer was lost, follows every one
  that says otherwise, and with none on its way the state says so or a command is under way
  (`Mine`). For a
  controller that is destroyed: one command at a time is under way for an access, counted from
  the moment its user began it, and the state says that it is in progress (`Apart`), so that
  the destructor, which goes by the state, puts a release behind it; from then on the last
  command for an access is a release (`Leaving`). The first half needs `OneAccess`: with tokens
  of both types, TLC finds the entity held for nobody after the last token released its own
  access only (`avdeccControllerImplOverrides.cpp:281-305`).

`ExchangeProofs`, for every request, without unfolding the 130 of them at once
* `OfIs` says when a triple is in a set of requests, and from it follow inclusions between the
  sets that are listed in different files: the dispatch handles every request that is read,
  and no other (`EveryQuestionHandled`, `HandledAreQuestions`); the pieces unpacked are those
  that may be packed (`UnpackedArePieces`). `PayloadsFit` says what each table gives a command.
* `ReadWhenWhole`: for any layout, length, count, offset and pieces, of no bounded size, a success
  is read exactly when everything it announces lies in the answer. It rests on `FirstIs`: the
  first piece that is cut or refused is found (least element of a set of numbers).
* `SuccessAlwaysEarned`, `NeverFalselyRefused` and `AlwaysAnsweredOnce`: the invariant says that a
  call ends with what `Told` makes of an answer to it, or with none and an error; the rest are
  lemmas about `Told` (`ToldOnce`, `ToldSuccess`, `WholeIsTold`, `RefusalIsTold`).

`ConnectionsProofs`, for any number of entities, streams, channels and clusters. The four
theorems have one invariant: `Typing`, and `Accounted`, which is about the entities and about
what accounts for them (the result that is awaited, the inputs that were seen fast
connecting, the links that a talker keeps, the clusters that are outdated). Each handler is
first described by what it leaves alone and what it writes (`SinkChanged` and `Applied` for a
notification of a listener, `IsTold` for a talker, `ComesTo`, `ComesFrom` and `Came` for an entity
that is advertised, `Gone` for one that leaves), and each part of `Accounted` is then kept by
that description.
* `ConnectionsTyping`; `Plainly` adds that an entity that is not advertised has no listener, no
  latency error and no fed cluster, and that only a connected stream is over its latency.
* `TalkersAlwaysKnowTheirListeners`, with `Knowing`: while a result is awaited (`Awaited`) the
  talker may know its listener too soon, or have forgotten it too soon; a listener that is
  being enumerated is known only if it is connected.
* `ChainsAlwaysCurrent`. The invariant cannot speak of `WholeChain`: a chain that goes through a
  fast connecting input is not that one, and later steps continue from its nodes. `Linking`
  says it node by node: each node is what the loop writes for it from the clock and the
  connection of its entity, or comes after such an input (`Placed`). A chain continued from its
  first changed node keeps this if what is before stays in place (`LinkingContinued`), and two
  chains whose nodes are all right are equal (`ChainIsUnique`, by the least node in which they
  differ). That the loop ends is a counting argument: it visits no entity twice, so that one
  turn more than there are entities is enough (`WalkIsShort`). Induction on numbers is taken
  from the least element of a set of them (`Induction`).
* `ClustersAlwaysCurrent`, with `Feeding`, which follows the mappings of a talker from the moment
  it is there: clusters take them before it is advertised.

*Model-checked only*: liveness under fairness, which is out of the prover's reach, and
`AdvertisedWhole`, `AdvertisedInformed` and `NoAssertionFails` of `Enumeration`. Their
invariant would have to say, for every part of a model and every order of answers, which
queries are open and what is already stored; no such proof is attempted here.

## 5. Not modelled

* The executor manager and `waitJobResponse`: executors by name, destruction while others push
  (`executor.hpp:266`, `executor.cpp:434, 452`).
* The manager as a composition: the order in which one message is given to the three state
  machines, of which only the discarding of commands matters (`stateMachineManager.cpp:505`).
  The advertise state machine sends announcements with a delay; no decision depends on it.
* The virtual protocol interface and its dispatcher; the other interfaces: sockets, packet
  capture, serial lines and the macOS framework are input and output.
* Local entities as devices: their descriptors and the answers of the AEM handler.
* Serialisation to JSON, checksums, dumps, conversions of data types, bindings for C: pure
  conversions. The logger, the watch dog and the end station: nothing depends on them.
* In the controller: redundant pairs of streams, virtual entities loaded from files, operations
  on memory objects, identification, statistics.

## 6. What could come next

1. Theorems about the enumeration: what is known of an entity when it is advertised.
2. The executor manager: every waiter is answered or its executor is gone.
3. Discovery composed with commands through the manager; a command sent by an observer that is
   told of a departure.
4. Redundant pairs of streams in `Connections`; both accesses at once in `ExclusiveAccess`.
