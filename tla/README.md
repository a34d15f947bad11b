# A TLA+ development of fledge-north-iec104

fledge-north-iec104 is a Fledge north plugin that acts as an IEC 60870-5-104
slave. Masters (control centres) connect to it over TCP, interrogate its data
points and send commands. Fledge gives it readings from south plugins and takes
the commands through an operation callback. The protocol stack is lib60870,
outside this repository.

The modules here model the plugin: the server in `src/src/iec104.cpp` with its
threads and callbacks, the import of its configuration, and the tables and classes
both rest on. TLC checks them on small instances, TLAPS proves the most important
properties for all values of the constants. `PROJECT.json` gives for
every definition the lines it stands for.

## 1. The system

### Threads

| Thread | What it runs |
|---|---|
| one per TCP connection (lib60870) | `asduHandler`, `interrogationHandler`, `clockSyncHandler`, `connectionEventHandler` |
| Fledge's sending thread | `plugin_send` -> `IEC104Server::send`: values, `south_event`, command feedback |
| monitoring thread (`_monitoringThread`) | starts and stops the slave, tells the south side, removes commands that timed out |
| Fledge's control thread | `plugin_start`, `plugin_register`, `plugin_shutdown` |

Two locks exist: `m_outstandingCommandsLock` and `m_connectionEventsLock`.
Everything else (`m_exchangeDefinitions`, the data points, the south plugin
states, `m_started`, the flags of the monitoring thread) is shared without one.

### Components

| Component | State | Operations | Used by / uses | What is hard, what must hold |
|---|---|---|---|---|
| Outstanding commands (`iec104_outstanding_command.cpp`, list functions of `IEC104Server`) | `m_outstandingCommands`, per entry `m_state`, `m_nextTimeout`, `m_connection` | add, `handleActCon`, `handleActTerm`, remove of a connection / of all / of those timed out | command path, connection events, monitoring thread | Feedback is matched by (type, CA, IOA) only and may be lost, late, repeated, out of order. ACT-TERM ends a command; a select is answered once; nothing stays for ever. |
| Redundancy groups and audits (`iec104_redgroup.*`, `connectionEventHandler`) | port of each `RedGroupCon`, last audits | four connection events, initial audits | called by lib60870 | `RedGroupCon`s are bound by port and released by one event only; audits are de-duplicated against one string. No `RedGroupCon` leaks; the audit trail is true. |
| Command path (`asduHandler`, `validateCommand`, `forwardCommand`, part of `send`) | the above two and the progress of each thread | a command arrives, is forwarded or refused, feedback, connection lost | composes the two above with the south side | Take-overs and sweeps run between any two steps of a handler; connection objects are reused. Answers reach the command they are about; no entry outlives its connection. |
| Server life cycle (`startSlave`, `_monitoringThread`, `stop`) | `m_started`, slave, `serverRunning`, `m_initSocketFinished`, south plugin states | start, stop, a round of the thread, `south_event` | feeds the sweep of the list | The slave is not used after it is destroyed; it follows the configured mode; the south side is told once per start; the sweep never stops. |
| The server as a whole (constructor, `plugin_shutdown`, destructor) | all of the above | – | the composition | A stop in the middle of everything. Nothing is left behind; `stop` returns; no command waits for ever. |
| Exchanged data (`m_exchangeDefinitions`, `m_getDataPoint`, `interrogationHandler`, `sendInterrogationResponse`, checks of `validateCommand`) | the two-level map, per-connection interrogation in progress | reading, command check, interrogation, broadcast interrogation | connection threads and the sending thread | `operator[]` inserts while others iterate; ASDUs overflow into the next one. Interrogations are complete and commands follow the configuration. |
| Spontaneous data (`send`, `m_updateDataPoint`, `m_enqueueSpontDatapoint`) | value and quality of each data point | a reading | shares the values with interrogations, feeds lib60870's queues | Value and quality are written without a lock while interrogations read them; queues overflow and are repeated after a lost connection. What a master knows of a data point is right in the end. |
| Configuration import (`iec104_config.cpp`, `configure`, `setJsonConfig`) | data points, parameters, groups, originators, certificates | import of three JSON texts | everything; its result is a CONSTANT of the other modules | One defect ends an import and the server runs on what there is. What is imported is what is configured. |
| TLS (`createTLSConfiguration`) | `m_useTls`, the slave | load certificates | configuration | A certificate that cannot be loaded makes the server neither run without TLS nor accept unknown masters. One configuration that asks for TLS gets a plain server all the same: that without `application_layer`. |
| Data point type tables (`iec104_datapoint.cpp`) | none | conversions of type ids | import, command check, `send` | Nine switches that must agree. |
| Time (`checkTimestamp`, `checkIfCmdTimeIsValid`, `clockSyncHandler`) | none | compare a time tag with the clock | `validateCommand` | Width of the difference. |
| Logging, plugin API | – | – | – | Output, and delegation to `IEC104Server`. |

The hazards, each with the line where it bites and the properties that cover it,
are listed in `PROJECT.json` under `hazards`.

## 2. The modules

```
MasterConnections            Conns: the IMasterConnection objects
  OutstandingCommands        the list, its entries, its lock-protected functions
    OutstandingCommandsProofs
  RedundancyGroups           connection events, RedGroupCons, audits
    RedundancyGroupsProofs
CommandPath = OutstandingCommands + RedundancyGroups + threads + south side
    CommandPathProofs        (extends OutstandingCommandsProofs)
CommandDialogue              what a client may rely on; implemented by CommandPath
MonitoringThread             life cycle of the server
    MonitoringThreadProofs
IEC104Server = CommandPath + MonitoringThread + destructor
    IEC104ServerProofs       (extends CommandPathProofs and RedundancyGroupsProofs)
DataPointTypes               the tables of type ids
CommandTime                  the check of the time of a command
ExchangedData = DataPointTypes + CommandTime + the map, command checks, interrogations
    ExchangedDataProofs
SpontaneousData = DataPointTypes + values, queues, interrogations
    SpontaneousDataProofs
Configuration = DataPointTypes + import of the configuration, TLS, creation of the slave
    ConfigurationProofs
MC<Module>                   instances for TLC
```

**OutstandingCommands.** Each list function holds the lock from its first to its
last statement and is one action. The vector is a set of entries numbered in
`push_back` order; "first match" is the match with the smallest number. A
(type, CA, IOA) triple is one element of `Keys`. The deadline `m_nextTimeout`
is kept relative to the clock in `left`; `m_nextTimeout = 0` becomes `left = -1`.
`nextSeq`, `issued` and `answers` are history.

**RedundancyGroups.** `connectionEventHandler` holds its lock throughout, so an
event is one action: the lookup (`GetRedundancyGroup`, `GetRedGroupCon`, the
early returns when nothing is found) and the branch of the event. lib60870 is
modelled from how the plugin configures it: `setMaxOpenConnections`, the groups
with their allowed clients, a group without clients as catch-all, and a STARTDT
that stops the other connections of a group, one event each, before it is
activated itself. The published audits are kept per path so that the
de-duplication against `m_last_connection_audit` can hide one if it is wrong.
`kept` is history: has every client kept to the connections its group lists?

**CommandPath.** A command takes four steps of its connection's thread:
accepted by `validateCommand`, added to the list, handed to the operation
callback (or the callback fails), answered negatively. Anything else may happen
between them, except that lib60870 raises the events of a connection in the
thread of that connection; a take-over alone is raised in the thread of the
connection that takes over. The south side holds the commands it was given and
gives ACT-CON, then ACT-TERM for a confirmed execute, or nothing. `clean[key]` is
history: was the key idle everywhere when it was last commanded?

**MonitoringThread.** `mode` is chosen initially, by the configuration. One action per statement group of the loop, with the walk
over the south plugins taken plugin by plugin because their states change
meanwhile without a lock. `stop` is three actions: clear `m_started`, join,
destroy. `operation(ok)` gives the outcomes of the callback: it fails when none is
registered. `faults` is chosen initially among everything that may go wrong (the
callback registered late, failing operations, a start that fails), so that one run
has the behaviours with and without each fault, and a property can say which it
needs to be absent.

**IEC104Server** puts `CommandPath` under the life of `MonitoringThread`, which is an
instance of it (`Life`). Steps of one part leave the other alone, but for these: the
sweep of the loop is the sweep of the list; connections come only while the slave runs;
a command passes `validateCommand` only while a south plugin is started; feedback that
comes while the slave does not run is dropped; `startSlave` sends the initial audits;
`stop` returns only when all connections are closed, each in its own thread and after the
handler that runs there; the destructor empties the list, at any time before `stop` or
after it (`plugin_shutdown` calls `stop` first, the tests delete the server at once).

**CommandDialogue** is the abstract specification of the command path: one phase per
command, no list, no threads, no clock, no connection events. A command on an idle
object is confirmed or refused, never both, and a confirmed execute is terminated
at most once; it may be forgotten silently at any time; commands for one object
that overlap are muddled among themselves but touch no other object.
`CommandPath` implements it (`KeepsDialogue`) with the refinement mapping `PhaseOf`,
which reads the phase from the list and from where the handlers stand.

**ExchangedData.** `definitions` is the map with its entries, `Touched` what
`operator[]` does to it; `validateCommand` looks its IOA up in a copy, so only
the CA is inserted. The ten checks of `asduHandler` and `validateCommand` are one
sequence in the order of the code. `sendInterrogationResponse` is one action for
ACT-CON and the copy of the inner map, one per data point, and one for the last ASDU
and ACT-TERM; readings and commands come between. The iterator of a broadcast
interrogation goes to the smallest CA above the one it is at *when it moves*,
which is what `std::map` does with entries inserted meanwhile. (Formally such
an insertion during an iteration in another thread is a data race; the model
takes each insertion as a whole.)

**DataPointTypes, CommandTime.** Each switch over type ids is an operator of its own,
so that the properties of the modules which use them say whether they agree.
`ToInt` is the cast of `checkTimestamp` to a 32 bit integer.

**SpontaneousData.** A reading takes three steps of `send`: value, quality, queue. An
interrogation reads value and quality in two steps in either order, since the
compiler may choose it, and its ASDUs go out at any time between data points (when,
is the matter of `ExchangedData`). lib60870 is external: one queue per redundancy
group which drops its oldest ASDU when it is full, sends between handlers, and
sends again what was not confirmed when the connection ended. `latest` and `current`
are history: what should be stored, and for which data points a master has been sent,
or has in its queue, what is stored.

**Configuration.** A JSON text is a record of the answers to the questions that the
import asks (`ok`: is everything there and of the right kind?). The data points are
walked element by element, and the groups of an element token by token, because where
the walk ends is the point; the redundancy groups are made client by client, because a
client, or a whole group, is ignored without an end to the rest. The other parameters,
the originators and the monitored plugins are one action, the certificates another,
and the creation of the slave a third. (Taken in such steps, what the import has made so far is an
inductive invariant, and no recursive operator is needed.)

`CommandPath` leaves out the reason why a command is rejected, `ExchangedData`
what happens to one that is not, `SpontaneousData` which data points an interrogation
reports, `ExchangedData` their values. `CommandPath` alone sweeps whenever it likes and
says nothing of the start and stop of the slave: that is `IEC104Server`'s.

In each module the operators marked "Mistake:" are plausible bugs in one
definition; they are not part of the specification. For each property
`PROJECT.json` names one of them that makes TLC report it violated.

## 3. What is checked

| Run (cfg) | Instance | What it shows |
|---|---|---|
| `list` (MCOutstandingCommands) | 2 connections, 2 keys, 3 commands, 2 answers each | With arbitrary feedback, timeouts and drops: `ActTermIsFinal`, `SelectAnsweredOnce`, and (liveness) `ListDrains` |
| `audits` (MCRedundancyGroups) | an address listed in two groups, a catch-all group; 3 addresses, ports and objects; clients connect as they like | `SlotsFollowConnections`, `PathAuditsAreTrue`, `GlobalLossIsReported`; for clients that keep to their number of connections `EveryConnectionIsBound`, `ActiveIsReported`, `LossIsTrueForKept`, `PassiveBeforeActive` |
| `path` (MCCommandPath) | one redundant client, 2 connection objects, each reused without limit, 2 keys, 2 commands, failing operations | `FeedbackReachesItsCommand`, `ActTermFollowsActCon`, `CommandsOnLiveConnections`, and the refinement `KeepsDialogue` |
| `server` (MCMonitoringThread) | 2 south plugins, either mode, every choice of faults | `SlaveOutlivesThread`, `ToldOncePerStart`; liveness `ServerFollowsMode`, `SouthIsTold` |
| `whole` (MCIEC104Server) | the whole server; 1 connection, 1 command, 1 south plugin, either mode; operations and starts that fail, `registerControl` late | `StopLeavesNothing`; liveness `CommandsEnd`, `StopEnds` |
| `data` (MCExchangedData) | a master, 2 stations with an unknown CA between, data points of several types, 2 per ASDU; every command with every defect, readings for unknown addresses | `BroadcastReachesAll`, `InterrogationIsComplete`, `AsdusAreWellFormed`, `CommandsFollowConfiguration` |
| `values` (MCSpontaneousData) | 1 master, a scaled value and a command object, readings of every kind, queue of 2, lost connections, stops of the server | `MembersAgree`, `ImageIsCurrent`, `PointIsLastReading`; liveness `ImageCatchesUp` |
| `config` (MCConfiguration) | every defect in one or two data points, all type ids, the limits of all ranges, lists of groups and certificates with and without defects | `ImportedAsConfigured`, `PointsAreUsable`, `GroupsAreNumbered`, `TlsIsNotDropped` (with and without each layer of the stack); `CFTypeOK` has the ranges of the parameters |

Each module's type invariant is checked in its first run; `IEC104Server` has none of its
own, its variables are those of its parts.

### Bounds, and why they are enough

* *Commands* (`MaxCmds`): routing goes wrong when an older entry for the same key
  is still there, which takes two commands; the list alone has three so that an
  entry lies between two others.
* *Answers* (`MaxAnswers`) bounds only the free use of the list in
  `OutstandingCommands`; in `CommandPath` the south side bounds them itself.
* *Timeout* (`CmdExecTimeout`) 0 or 1: only the order of the deadline and other
  events matters, and the clock may stand still as long as it likes.
* *Connections*: one redundant client with two gives take-overs, and with them
  commands of both connections in the list: a handler that has accepted its
  command adds it after the take-over. Two clients in two groups, both active, are
  in the run `path_refused`; the theorems hold for any groups.
  Three connection objects, ports and addresses give a reconnection next to a
  second client.
* *Reuse of connection objects* is unbounded. The history `orphans` of `CommandPath`
  marks the commands whose connection was closed since they were sent.
* *The whole server*: the product of two state machines, so each is small. One
  command on one connection is enough where the question is whether it is removed: it may
  be added before, between and after the steps of stop and destructor. What several
  commands and take-overs do to each other is the matter of `path`, and `StopLeavesNothing`
  is proved for any number.
* *South plugins* 2: one can come while the other goes during the same walk.
* *Data points*: 2 per ASDU with runs of 2, 1 and 3 of a type reach a change of
  type, a full ASDU, and both with one point left.
* *Time* (`MsPerSecond`, `IntRange`): a timeout of 10 ms with an int of 64 values (the
  number of values must be even, as 2^32 is), and ages at the limits, where the int becomes negative and where it is small again.
* *Masters* 1 in `values`: masters share nothing but the data points, which they only
  read. The theorems are for any number.
* *Queue* 2: the ASDU that a full queue drops may be sent already or not, and be
  the only one for its data point or not.
* *Configurations*: two data points with two elements and one reach every way in which
  one element may hide another; each parameter is checked alone, since none is read
  with another.

`CHECK_DEADLOCK FALSE` is set for the runs of `MonitoringThread` and `IEC104Server`, where
the server rests for good after `stop`, and of `Configuration`, which ends with the import. Symmetry is used for connection objects, ports and keys,
which the code only compares for equality, and only in runs without liveness.

### Fairness

* `OCFairness`: the clock advances, and the monitoring thread sweeps
  again and again. Its loop sleeps 100 ms and waits for nothing else;
  `CommandsEnd` checks the same with the loop itself, in which no branch may avoid the
  sweep, instead of that assumption. Neither
  masters, nor the south side, nor connection threads are assumed to act.
* `MTFairness`: the monitoring thread goes on, and `stop`, once called, goes on. Calls
  of the operation callback and of lib60870 are assumed to return. Readings,
  `plugin_start` and `plugin_shutdown` have no fairness.
* `ServerFairness`: the monitoring thread as above, now with the list it sweeps; the
  clock; `stop`, also the one in the destructor; a handler or take-over that has begun, since it
  waits for nothing but the callback; and `CS104_Slave_destroy` closes what is open, with
  strong fairness: a connection's thread looks for it in each round of its loop, but a
  master may go on sending between two rounds. Masters, the south side and
  Fledge have no fairness.
* `SDFairness`: an interrogation, once begun, goes on (weak fairness: it waits for
  nothing), and a connection sends what is queued (strong fairness: its thread comes to
  the queue in each round of its loop, but a master may interrogate again each time).
  Readings, confirmations and connections have no fairness; `ImageCatchesUp` speaks of
  masters that stay connected.

### Disagreements between the code and what is said of it

Four runs are expected to find a counterexample; `PROJECT.json` quotes the line each
property comes from.

* `path_refused` (`RefusedIsNotAnswered`): a command whose operation fails is
  answered negatively but stays in the list, and the feedback of the next command
  for that object is sent as a second answer to it.
* `audits_reconnect` (`LossOnlyIfNoneRemains`): a client that reconnects before its
  old connection is closed gets no `RedGroupCon`, and the close of the old
  connection is reported as the loss of the last one.
* `data_unknown` (`UnknownCAIsRefused`): a reading or a command for a CA that is not
  configured inserts it, after which an interrogation of that CA is confirmed.
* `config_groups` (`DefaultsToStation`): a data point whose `gi_groups` is no string is
  not put into the station's group, as the log says, but dropped.

A smaller one is only recorded, without a run of its own: originator 0 in `filter_list` is
taken in (`iec104_config.cpp:404`), although the log five lines below gives the range as
[1..255]. The tests configure 0, so that it is rather the log that is wrong; `CFTypeOK`
follows the test, and types originators as 0..255.

`path_refused` is also why `FeedbackReachesItsCommand` and `ActTermFollowsActCon` speak of keys
that were idle when commanded (`clean`). Feedback carries no number, so for commands for one
object that overlap (one whose operation failed, one that timed out and was sent again, one
that is completed but not yet swept) nothing says which answer is whose: these two properties
say nothing of them, and `KeepsDialogue` only that they touch no other object. What holds
for them too is `ActTermIsFinal` and `SelectAnsweredOnce`.

`audits_reconnect` is why some properties of the audits and
`CommandsOnLiveConnections`, `StopLeavesNothing` and `CommandsEnd` speak of clients that keep
to their number of connections (`kept`): a connection without `RedGroupCon` has its events
ignored, and its commands stay in the list when it closes. Likewise for a client that
comes in by a group without a list (`EveryClientIsListed`), as with the default configuration:
it never has a `RedGroupCon`.

## 4. What is proved

Every safety invariant and every action property that a passing run checks is also a
theorem, and so is the refinement `KeepsDialogue`. The proofs are for arbitrary sets of
connections, keys, addresses, ports, data points and configurations and any bounds; they
assume only the named ASSUMEs of the modules (the bounds and timeouts are natural numbers,
the environment switches are Booleans, a configuration is built of sequences, and so on).
The one further hypothesis is named with the two theorems that have it.

**OutstandingCommandsProofs** – `OCTypeCorrect`, `ActTermIsAlwaysFinal`,
`SelectIsAnsweredOnce`. The two safety properties say what was answered in the past;
they are not inductive because they do not say what an entry still in the list
may yet be answered. `OCInv` adds `EntryKeepsItsRequest` (an entry is the only one
with its number, and its number is issued) and `AnswersSoFar` (no entry in the list
has had its ACT-TERM, no select in it any answer, no unissued number any). Lemmas:
`EraseInv` for every function that only erases, `AddInv`, `AnswerInv` for what both
feedback handlers have in common, `ActConInv`, `ActTermInv`, `TickInv`.

**CommandPathProofs** – `FeedbackIsRoutedRight`, `AnswersComeInOrder`,
`ActTermIsFinalInPath`. The key of the argument is `Refs(key)`: the commands for a key
that the list, the south side or a handler between its two halves still
knows. `CleanKeysAreSingle`: for a key that was idle when last commanded there is at
most one. `CleanKeysAreInStep`: the entry's `m_state` is then what the south side
will send next. Every step but `ForwardAdd` only shrinks `Refs` (`SingleKept`), and
`ForwardAdd` either finds it empty or clears `clean`. `CPInv` joins these with `OCInv`,
which is preserved by the same lemmas as before: the composition only restricts
who uses the list. Connection events enter the proof through `DropCommandsInv`
alone, so the result does not depend on how redundancy groups are configured.

The same module proves `PathKeepsDialogue`: `CommandPath` implements
`CommandDialogue`, step by step under the mapping `PhaseOf`. `DialogueInv` is `CPInv` with
`RefusedStayUnknown` and `RefusedStayUnanswered`: a command that is to be refused is not
known to the south side and was never answered. The proof has a
lemma for each kind of step: those that only forget entries map to `Forget` or
stutter, `ForwardAdd` to `SendToIdle` or `SendToBusy` by what `clean` says of the key,
feedback to `Confirm`, `Terminate` or `AnswerMuddled`.

**MonitoringThreadProofs** – `ServerTypeCorrect`, `SlaveIsNotUsedAfterStop`,
`SouthIsToldOnce`. `MTInv` adds `StopInv` (a thread exists exactly when `m_started` and
the progress of `stop` say so), `SlaveInv` (`serverRunning` covers a running slave and
is false once the thread is over) and `NoticeInv` (a message is only on its way while
the flag is clear).

**RedundancyGroupsProofs** – `AuditsTypeCorrect`, `SlotsAlwaysFollow`,
`GlobalLossIsAlwaysReported`. A leaked or shared `RedGroupCon` can only be excluded
together with four facts, `BindingInv`: open connections differ in address or port,
`RedGroupCon`s are bound only in the first group that lists their address, bound ones
differ in address or port, and each stands for an open connection. The lookup then
finds the connection's own `RedGroupCon` or a free one (`EventEffect`), and every event binds,
releases or leaves just that one (`BindStep`, `ReleaseStep`, `EventKeeps`).

The same module goes on to the audits: `ConnectionsAreBound`, `AuditTrailIsTrue`, `ActiveIsAlwaysReported`,
`LossIsNeverFalse`, `PassiveIsFirst`. All of them but the second rest on counting: a client with fewer
open connections than entries has a free `RedGroupCon` (`RoomMeansFreeSlot`), since distinct
bound ones stand for distinct connections; the lookup then takes the first free one
(`FreeSlotIsFound`), so `CONNECTION_OPENED` never finds none, and no later event of a bound
connection misses its own (`BoundIsFound`). `AuditInv` is `RGInv` with `OpenIsFinite`,
which the counting needs, `LastAuditIsTrue` (the audit that is not repeated is the state its path
has), and the three properties of states themselves. Every step is an event (`StepKinds`,
`EventStep`), and there is a lemma for what an event does to each conjunct.

**IEC104ServerProofs** – `PathTypeCorrect`, `CommandsStayOnLiveConnections`, `PathIsRGSpec`,
`NothingIsLeftAfterStop`, and what is proved of the parts for the whole. `LiveInv` joins `DialogueInv` and `AuditInv`, which hold in the path
because each of its steps is one of `RedundancyGroups` or leaves the connections alone
(`PathSteps`), with `BusyIsOpen`: a handler that is to add a command runs on an open
connection. A connection that closes has its `RedGroupCon`, so its commands are removed;
a command is added in the thread that would have to raise the close. For the whole server
`ServerPathSteps` shows that every step but the destructor's is one of the path;
`StopFollowsThread` and `StoppedForGood` say that nothing starts the slave again once
`stop` is past the join, so that no connection can come.

The parts keep their promises in the whole server, which TLC can only check for one command:
`ServerIsMTSpec` and `ServerIsRGSpec` (the server is a behaviour of `MonitoringThread` and
of `RedundancyGroups`, so all that is proved of those holds in it),
`ServerKeepsDialogue` (it implements `CommandDialogue`; the destructor's step is a
`Forget`), `ServerCommandsStayOnLiveConnections` and `ServerAnswersRightly` (the two action
properties of the command path, across stops and starts of the slave). The invariants are
those of the path, with `ServerPathSteps` and the one step that is not a step of the path.

**SpontaneousDataProofs** – `ValuesTypeCorrect`, `MembersAlwaysAgree`,
`PointsHoldTheLastReading`, `MastersAreCurrent`. The last one speaks of what has been
delivered, so that `ImageInv` must say what is still under way: `StoreInv` (the types,
the reading in progress is one for its data point, value and quality are those of the
last reading up to where `send` stands) and for each master `MasterInv`: its
interrogation goes through the data points in order, what it has read is what is
stored unless it was overtaken, what was overtaken is queued or not claimed, and the
last queued ASDU for a data point says what is stored. That the six type tables agree is
one lemma by cases, on which `MembersAgree` rests.

**ExchangedDataProofs** – `DataTypeCorrect`, `CommandsAreForwardedAsConfigured`,
`BroadcastAnswersEveryStation`, `ResponsesAreWellFormed`, `InterrogationReportsAll`.
The first needs `HandledIsKnown` (a station whose interrogation is under way is in the map),
which other threads keep because the map only grows (`DefinitionsGrow`). The second
follows from the types: what was inserted is not a command object, so the ten checks say
what the configuration says (`PassedChecks`, `ConfiguredIsKnown`), the tables agree
(`TablesAgree`), and the cast to int loses no time that is in range (`CastFact`, which
needs `IntRange` to be even, as 2^32 is). A broadcast: `AnswerInv` says for a connection which stations have been
confirmed and terminated once (`PassedInv`: exactly those before the one that it is at), and that
nothing was sent for later ones (`OrderInv`); moving on skips no configured CA because the
iterator goes to the smallest one above (`LeastNumber`, least-counterexample induction from the well-foundedness
of the naturals). An interrogation: `ReportInv` places each data point of the group in
exactly one of three (`IsPlaced`): the IOAs still to come, the ASDU that is being filled, one that was sent;
`UniformInv` says that those ASDUs have one type each. The last two theorems have the hypothesis
`MaxElements # 0`: `asdu_size` lets an information object of the type fit into an ASDU. The code
does not check that (`iec104.cpp:270`); when it does not hold the object is
dropped after an empty ASDU, so neither property does (`MaxElements = 0` is allowed by the
module, and the other three theorems cover it).

**ConfigurationProofs** – `ImportTypeCorrect`, `PointsComeAsConfigured`,
`ImportedPointsAreUsable`, `GroupsComeAsConfigured`, `TlsHolds`. The properties speak of the
import when it is over; the invariants say the same of where it stands. `WalkInv`: every
element before the position is well, or hidden behind one that ended its data point.
`TokenInv`: the groups are those of the tokens that were read. `MapInv`: the map
has the addresses of exactly the elements that yield a data point before the position, and what is
stored for an address is what the last of them says. An element that gives the import up makes
all after it yield nothing (`StopsAt`, `EndsAt`, `GivesUp`), so the map is complete when it stops.
`GroupInv`: each group made so far has its place for a number and the clients of one
that is configured, the one that is being made those of its first connections.
`TlsInv`: whoever asks for TLS and gives both layers has `m_useTls` when the slave is created, and
the certificates are those of the text. `TlsHolds` speaks of every configuration whose
transport layer asks for TLS, and has one exception: without `application_layer` the
import gives up before it reads the flag (`iec104_config.cpp:540`), and the server runs
plain (`iec104.cpp:236`). Nothing in the repository says what should happen then.
`ImportedPointsAreUsable` has one, too: the six types with a CP24Time2a (`CP24Types`) can
be configured, but `isMessageTypeMatching` knows none of them. `ConfigurationAssumption` gives the JSON
texts the shape that their questions have: sequences of elements, groups and
clients, integers for numbers; how they are defective is left open.

### Only model-checked

* Liveness (`ListDrains`, `CommandsEnd`, `StopEnds`, `ServerFollowsMode`, `SouthIsTold`,
  `ImageCatchesUp`): out of the reach of the prover, which has no ENABLED.
* The four disagreements above, which are counterexamples.

No module uses a RECURSIVE operator, and nothing is computed by a recursive function: what goes
on for any number of elements is a step for each, so that the induction is the one over
steps. The induction theorems of the library take an operator as a parameter, which
this prover cannot instantiate; where a first number is needed, `LeastNumber` has it from the
well-foundedness of the naturals.

## 5. What is not modelled, and what is left

Not modelled, and why:

* The texts of logs and audits beyond the kind and path of an audit, time stamps of
  values and the transient bit of a step position: no property depends on them.
* `clockSyncHandler`, which sets the clock of the machine and keeps no state.
* `srv_ip` and `cmd_dest`, which are passed on unchanged; the default configuration.
* How rapidjson parses a text, and how the TLS library loads a file: inputs.
* The locks, timers and sockets inside lib60870. It is external: events in order per
  connection and none lost, a bounded queue per group, a take-over stops the other
  connections first.
* How readings are grouped into blocks, and an exception that ends a block.

Left: the readings of `SpontaneousData` in the composition, so that what a master sees of
the values can be related to the starts and stops of the slave; an abstract specification of
`SpontaneousData` (a store with images that follow it) that it is shown to implement.
