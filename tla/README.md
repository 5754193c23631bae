# Hasfy-Relay: specifications, model checking and proofs

Hasfy-Relay is a reverse tunnel. A *relay* accepts WebSocket connections from
*agents*, daemons on managed devices, and from *operators*, browsers that use a
terminal on one of those devices. *Hasfy-App*, which is not in this repository,
issues the tokens, asks the relay for sessions and for the execution of
scripts, and receives the audit trail.

The TLA+ modules here model the relay and the daemon; TLC checks them on small
instances, and TLAPS proves every safety property of those runs for every size:
any number of devices, connections, sessions, requests, commands, shells,
daemons and crashes, and any capacity of the queues.

## Inventory

| Component | State | Operations | Interacts with |
|---|---|---|---|
| `internal/registry` | map device -> agent; per agent a bounded outbound channel and a context | Register (evicts), Unregister, Send, Get, ListByOrg | called by every handler |
| `internal/server/agent_ws.go` | one handler and two pump goroutines per agent connection | handshake, read pump, write pump, cleanup | registry; routes answers to sessions |
| `internal/server/operator_ws.go` | router: session id -> session with a bounded `toBrowser`; one handler and one pump per call | attach, pump, forward, five ways to leave, cancel, close record, detach | registry, agent, audit |
| `internal/server/api.go` | none | issue a session token, list devices | registry, auth, audit |
| `internal/server/exec_api.go` | a synthetic session per request | send a command, collect its answers, time out, cancel | registry, router, audit |
| `internal/server/server.go`, `internal/auth`, `internal/proto` | keys | verify tokens and signatures, issue session tokens, frames | all handlers |
| `internal/audit` | bounded queue, batch | Emit, Enqueue, Run, post | all handlers emit; Hasfy-App receives |
| `cmd/relay` | process | start, shut down | server, forwarder |
| `cmd/agent/exec.go`, `pty*.go`, `script.go` | per connection: `out` channel, semaphore, cancel functions, PTY registry | reader, writer, commands, shells, cleanup | relay |
| `cmd/agent/main.go`, `enroll.go`, `deviceid.go`, `token.go` | `agent.env`, `device.key`, status file; token store | enrol, create and register a key, renew tokens, reconnect | Hasfy-App, relay |
| `cmd/agent/buffer.go` | the first bytes of a stream | Write, by a goroutine of `os/exec` | the process of a command, the exit frame |
| `cmd/agent/metrics*.go` | bounded buffer of documents, Elasticsearch key | fetch the key, sample, upload | Hasfy-App, Elasticsearch |
| `cmd/agent/inventory.go` | none between rounds | look for osquery, collect, post | osquery, Hasfy-App |
| `cmd/agent/ticket.go` | none | a command of its own: open the device key, post | `agent.env`, `device.key`, Hasfy-App |
| `cmd/agent/service_*.go` | reported service state | start, stop within 20 s | Windows service manager, `runAgent` |

What is hard about it:

* **Concurrency.** Handlers keep an `*Agent` they looked up while the registry
  evicts it and closes its channel; goroutines are started and not waited for
  (the operator pump, commands and shells of the daemon); three parties fill
  channels of fixed size that one party empties.
* **Failure.** Sockets die silently; agents reconnect before their old handler
  has noticed; the daemon crashes between two writes; Hasfy-App and Elasticsearch
  are unreachable, or their answer is lost; a key is rotated while it is in use.
* **Ordering.** A session's cancel and the last frame of its pump; the exit and
  the timeout of a command; the clean-up of one shell and the start of the next.
* **Timeouts.** Session cap, command timeout, handshake timeout, token expiry.

What makes each part correct: a device has one live connection and its channel
is open exactly while it holds the slot; no session or command crosses the
boundary of an organisation; sessions and requests end; what was started on a
device is stopped; every queue stays within its bound without blocking whoever
must not be blocked; the audit trail neither loses, repeats nor reorders what it
accepted; the registered key is the key in use; a device that may connect
does; the output sent of a command is the beginning of what it wrote; samples
are neither forgotten nor, once acknowledged, sent again; a stop completes.

`PROJECT.json` lists all components and, under `hazards`, the places where this
is difficult, with the properties that cover each.

## Modules

| Module | Models | Composition |
|---|---|---|
| `DeviceSlots` | what the registry promises: each device has a slot, its holder a bounded mailbox | abstract specification |
| `Registry` | registry.go and agent_ws.go | implements `DeviceSlots` (property `ImplementsDeviceSlots`) |
| `RegistryProofs` | theorems about `Registry` | extends `Registry` |
| `Console` | operator_ws.go, session issuing, the agent as the relay sees it | instantiates `DeviceSlots` for the agents |
| `ConsoleProofs` | theorems about `Console` | extends `Console` |
| `ExecApi` | exec_api.go with the agent's side of a command | instantiates `DeviceSlots` |
| `ExecApiProofs` | theorems about `ExecApi` | extends `ExecApi` |
| `AgentConn` | runOnce of the daemon: commands and shells | - |
| `AgentConnProofs` | theorems about `AgentConn` | extends `AgentConn` |
| `ExecOutput` | buffer.go and the end of runExec: the output of one command | the inside of one command of `AgentConn` |
| `ExecOutputProofs` | theorems about `ExecOutput` | extends `ExecOutput` |
| `AuditForwarder` | audit.go, forward.go and the end of the relay process | - |
| `AuditForwarderProofs` | theorems about `AuditForwarder` | extends `AuditForwarder` |
| `Enrollment` | the daemon from first boot to a lasting connection, and the ticket command | - |
| `EnrollmentProofs` | theorems about `Enrollment` | extends `Enrollment` |
| `DaemonProcess` | the daemon's process as its long-running parts see it: context, runAgent, revocation | - |
| `WindowsService` | service_windows.go, and main with its signals | extends `DaemonProcess` |
| `InventoryReporter` | inventory.go | extends `DaemonProcess` |
| `MetricsReporter` | metrics.go, metrics_ship.go | extends `DaemonProcess` |
| `Daemon` | the process with all of these | composes the four modules above |
| `DaemonProofs` | theorems about `Daemon`, above all its `MetricsReporter` | extends `Daemon` |
| `MC...` | instances for TLC | extend the module they are named after |

### Registry

`byDev` is the map; `agent[c]` the record the handler of connection `c` made
from the register frame; `chan[c]` and `outbound[c]` its channel; the rest is
the progress of handler and pumps and the state of the socket. A connection is
one call of `handleAgentWS` whose token was accepted. `Register` is the claims
check, `Registry.Register` and the start of the pumps; `Install` is the part
under the registry's mutex. A peer may close its connection (`PeerGone`) or
disappear without a word (`NetworkLost`): then the read of the handler waits, and
only a write or a ping finds out (`WriteFailsOnDeadSocket`). `Send` is what any handler of the relay does with an
`*Agent`, at any time, also after it was unregistered (`SendPanics`).

`DeviceSlots` keeps only slots and mailboxes: `Claim` gives a slot to a fresh
connection, from nobody or from its holder, `Release` is allowed to the holder
only, `Post` needs a holder and room, `Take` delivers in order, also what was
posted to a connection that has lost its slot since. Console and ExecApi use
these actions, so what they assume about agents is what Registry is shown to
implement.

### Console

A *call* is one call of `handleOperatorWS`; several may present the token of
one session. Its main loop, its pump goroutine and its deferred functions are
separate steps, the agent's read loop and its shells are the environment that
makes `pty.start` and cancel matter. A frame is a start, a session cancel or
data. Every way out of the main loop closes the websocket (`LeaveClosing`), except
a failed write to the browser, after which the pump may still read what had
arrived. `up` is FALSE once a goroutine has panicked without a recover.

### AgentConn

One connection: reader, writer, `out`, the semaphore, `cancels`, the PTY
registry, commands with their processes and their descendants, shells with
their reader goroutines, and the deferred functions of `runOnce` in their order
(`CloseAllPtys`, `CloseOut`, `ReturnFromRunOnce`). A goroutine that sends on the
closed channel sets `crashed`.

A shell is taken out of the registry under its mutex and closed after that, and
closing it takes two more steps: the hang-up, and up to 200 ms later the end of
its process. Between them it is in the hand of whoever took it: `hand` for the
reader (one shell, or in `closeAll` all that were registered), `pty[p].hand` for
the goroutine of shell `p`, which removes what its session maps to by then.
`pty.start` spawns the shell first (`ReaderPtyStart`) and then registers it
(`ReaderPuts`) or has to close it again (`ReaderPutRefused`). `pty.data` is a write
to the terminal that waits while the shell does not read (`ReaderPtyData`,
`ReaderInputTaken`) and fails once it has exited or was closed
(`ReaderInputFails`).

### ExecOutput

One command and its two streams. A byte is its position in the stream, so that
`buf[s]` shows what was kept and from where. `Write` is `capBuffer.Write` with the
count it returns; `Copy` is one turn of `io.Copy`, which reads any part of what is
in the pipe and takes a count smaller than what it wrote for an error: it then
closes its end of the pipe and ends, and the next write kills the process.
`ExitCode` is what `runExec` makes of the error of `cmd.Wait`.

### ExecApi

Requests to one device whose agent reconnects, possibly for another
organisation. `h[r]` is the handler, `AfterFrame` the order in which `runExec`
emits its frames.

### AuditForwarder

`Write` and `Enqueue` are the two halves of `Emit`, in any goroutine; `TakeEvent`,
`Tick` and `Stop` the cases of the select, `Post` a return of `post`. A flush on a
context that has just been cancelled fails (`deadPost`).

### Enrollment

Files persist; the memory of a process `d[p]` is one record and is lost when it
ends. `loadOrCreateIdentity` is five steps, because another daemon or a crash may
come between finding no file, creating it, writing it, and syncing and closing it:
from the write on others read the key, and a failing sync or close removes the
file again (`FillKeyFileFails`). `removeEnvKey` is two. A crash is that of the
process: what was written stays, synced or not; a loss of power is not modelled.
An enrollment may lack its organisation (`orgless`), which `fetchRelayEnrollment`
does not check: `isEnrolled` then says no at the next start, and the relay refuses
the connection.
Hasfy-App accepts each enrollment secret once. Token lifetimes are
nondeterministic. The ticket command is a process beside the daemons that reads
`agent.env`, looks for the key file and opens it in separate steps; its flags and
the answer it shows change nothing. Overrides of `agent.env` by the process
environment are left out, and an exit by SIGTERM is an exit like another.

### Daemon

`DaemonProcess` has what the parts share: whether the context is cancelled,
whether Hasfy-App has revoked the device, how far `runAgent` is and whether the
process is alive. `runAgent` returns only on a cancelled context and ends the whole
process on a start error; how it enrols and connects is in `Enrollment` and
`AgentConn`. `WindowsService` adds the state last reported to the service manager
(`console` where there is none), `InventoryReporter` and `MetricsReporter` one
goroutine each. A round of the metrics reporter is the steps `MetricsTick`, a
fetch, `Sample` and an upload, because a rotation, a revocation or a stop may come
between them. Documents are numbered as they are collected; `stored` counts the
copies in Elasticsearch and `lost` the uploads whose answer was lost. The buffer
is a local of the reporter and gone when it returns (`Returns`).

Pauses are not modelled. They matter for one thing: the next sample after a
failed upload is taken five minutes later instead of one, so an outage also
thins the samples, and "costs no data" (metrics_ship.go:143-146) is true of those
already taken. The agent has no audit batch to flush when it stops
(service_windows.go:81); that is the relay's.

## Runs

All configurations set `CHECK_DEADLOCK FALSE`: connections, calls, requests,
events, keys and crashes are finite sets that are used up, after which the
system rightly rests. (Whether somebody waits for ever is asked by the liveness
properties.)

### What holds

| Run | Properties | Instance |
|---|---|---|
| `registry` | `OpenIffCurrent`, `NoDoubleClose`, `OnlyHolderEmptiesSlot`, `ImplementsDeviceSlots`, `OnePumpEndsAll`, `DeadSocketFreesSlot`, `TypeOK` | 2 connections of 1 device in 2 organisations, 2 frames, buffer 2 |
| `console_replay` | `OneOperatorPerSession`, `NoUnaccountedShell` | 2 calls with one token, 1 connection, buffer 2, `toBrowser` 1 |
| `console_tenants` | `TenantIsolation`, `SessionEnds`, `PumpEnds` | 1 call, 2 connections of one device in 2 organisations, buffers 1 |
| `agent` | `ExecsBounded`, `ShellsDieWithConnection`, `NoLeakedShell`, `ExecAnswered`, `OnlyBlockedReaderKeepsRunOnce` | 2 commands, 2 shells for 2 sessions, or 1 of each; capacities and `out` 1 |
| `output` | `KeptIsPrefix`, `TruncatedIffLost`, `PipeDrained`, `ExitSent` | 2 streams of up to 6 bytes, cap 3, pipe 2 |
| `exec_api` | `ExecStaysInTenant`, `NeverClosedWhileWaiting`, `ResultIsComplete`, `NoAbandonedProcess`, `RequestEnds` | 2 requests, 2 connections in 2 organisations, buffer 1, `toBrowser` 4 |
| `audit` | `Conservation`, `EmitNeverStalls`, `AcceptedIsPosted` | 5 events, 4 of them scoped, queue 2, batch 2 |
| `enrollment` | `KeyInSync`, `OnlyCrashTearsKey`, `EnrolledMeansPersisted`, `StaysReachable` | 2 daemons, or 1 and the ticket command; 2 enrollments, 2 keys, 1 crash |
| `daemon` | `StopCompletes` (service); `OsqueryFoundLater` (inventory); `BufferIsNewest`, `NoDocumentForgotten`, `DuplicatesAreRetries`, `DocumentsArrive`, `RevokedGoesQuiet` (metrics) | 2 tables; 3 documents, samples of up to 2, buffer 2, 1 rotation, 1 lost answer |

Every module states its types in `TypeOK`, with the capacities of its queues. It
is proved for each of them, and only `registry` names it; `IdentityMatchesToken`
of `Registry` is proved as well.

Why the bounds are enough: two connections of a device give an evicted handler
that cleans up after its successor has registered, and the safety properties
are proved for any number of them; a channel of capacity one or two
is empty, full and overfull within a few steps; one more command or shell than
the capacity reaches the refusal; a `toBrowser` of four is just what one
command's frames need, which makes `NeverClosedWhileWaiting` tight (64 in the
code); a queue and a batch of two with four scoped events fill both and
overflow; a stream of twice the cap reaches every cut at, below and above it, and
both streams at once; three documents overflow a buffer of two within one sample
and across two. Calls that present one token are interchangeable, which
`console_replay` uses as symmetry; no run with a liveness property does.

Three MC modules cut down what is explored, each by a condition on the next
state, and say so there. `MCAgentConn` lets interchangeable commands, shells and
sessions come in one order and combines at most one command with one shell, as
commands and shells meet only in `out` and at the end of the connection.
`MCEnrollment` has no second daemon while the ticket command runs, once the device
is revoked, or once an enrollment, which may be the first, came without an
organisation; it drops the fairness of `Boot`, which these bounds would
contradict and `StaysReachable` does not need. `MCDaemon` moves
one reporter at a time: neither writes anything the other reads.

### Where code and comments disagree

The last section of each module states what a comment or the repository's
README says and the code does not meet. Three of these statements have a run in
which TLC finds the behaviour that contradicts them; `findings` in
`PROJECT.json` quotes both sides.

| Run | Statement | What happens |
|---|---|---|
| `console_crash` | `RelaySurvivesAgentLoss`: `Send` returns false if the agent is gone | it panics; in the operator pump that ends the relay |
| `agent_crash` | `DaemonSurvivesDisconnect`: `runOnce` returns when the connection drops | a command that ends later panics on `out` |
| `enrollment_retry` | `RegistrationRetried`: registration is attempted again on the next start | never, as the key file exists by then |

The others have no run; naming one as the only property of a configuration of
the module shows a trace (`OneSessionPerDevice` needs an instance with two
sessions, each with a call of its own).

| Statement | Where it is made | What happens |
|---|---|---|
| `EvictedWithConflict` | registry.go:4-5 | an evicted socket gets a normal closure, not 4409 |
| `TokenUsedOnce` | operator_ws.go:32-33, README.md:32 | a token can be used again after the first call has left |
| `OneSessionPerDevice` | README.md:34 | not enforced |
| `AgentGoneIsTrue` | operator_ws.go:154-155, :259 | "agent gone" is recorded for a slow operator |
| `SessionEndKillsShell` | operator_ws.go:166-168 | a `pty.start` in the pump's hands, or still to be read from a websocket left open, follows the cancel |
| `OneClosePerOpen` | operator_ws.go:152 | no close record if never attached, two if attached twice |
| `RunOnceReturns` | main.go:204 | the reader blocks for ever on `out`, full, when the writer has failed, or on the terminal of a shell that does not read; `OnlyBlockedReaderKeepsRunOnce` shows that nothing else keeps it |
| `ShellOutlivesOthers` | pty.go:118-121 | the clean-up of a closed shell takes its successor out of the registry and closes it |
| `CancelsTrackRunning` | exec.go:85 | refused commands stay in `cancels` |
| `TimeoutEndsExec` | exec.go:209 | a descendant holding the pipe outlasts the timeout |
| `SuccessIsReported` | buffer.go:17 | a write across the cap returns a short count: `cmd.Wait` fails and a success is reported as exit code -1 |
| `OutputKillsNoCommand` | buffer.go:17 | the pipe is closed then, and the next write kills the process |
| `ResultReturned` | exec_api.go:76 | the cancel to a vanished agent panics in the handler |
| `ShutdownFlushes` | forward.go:80-81 | the queue is discarded |
| `KeyInUseIsOnDisk` | deviceid.go:88-90 | a daemon or a ticket reads the key between the creator's write and its failing sync or close, and goes on with a key that is in no file |
| `EnrolledOnce` | enroll.go:229 | an answer without an organisation is reported as an enrollment; the next start enrols again |
| `SpentSecretWiped` | token.go:231, main.go:31 | not after a crash, a lost answer or a failed wipe |
| `RevocationTakesEffect` | token.go:205-207 | the relay checks a token only once |
| `TicketCreatesNoKey` | ticket.go:209-212 | it does, if the daemon removes its half-made key file between the stat and the read |
| `StartErrorReported` | service_windows.go:62-64 | a start error ends the process before anything is reported; the branch is never taken |
| `StopsWithoutOsquery` | inventory.go:279-281 | the reporter keeps looking (as inventory.go:302-307 says) |
| `SampleFitsBuffer` | metrics.go:61-66 | the limit counts documents, of which a sample has one per filesystem and interface too (needs `MaxBatch` above the buffer) |

Outside the models: the backoff "capped at 60 s" (main.go:204) reaches 64 s,
since it is doubled while below a minute.

Neither of two statements on shells is exact. "Cap on how many concurrent PTY
shells one agent may host" (pty.go): a shell is spawned before it is refused, so
one more than the cap may run, besides those that are being closed. "On
disconnect, closeAll() tears everything down" (pty.go:69-71): a shell its own
goroutine has just taken out of the registry is not met by `closeAll` and may run
for some moments after `runOnce` has returned. `ShellsDieWithConnection` says what
is true.

The properties of the passing runs hold beside these: a crash of the relay ends
a session, for instance, and `NoUnaccountedShell` names the ways in which the
code loses a cancel.

## Fairness

Weak fairness says that a goroutine that can go on does go on, which the Go
scheduler provides, and that timers fire. Nothing is assumed of operators,
agents, processes or the network unless listed here.

* `Registry`: the handler and its pumps, and a write or ping on a dead or silent
  socket that fails in the end (TCP gives up). No new connection is ever required.
* `Console`: the four-hour context, the handler's own steps, the pump. Strong
  fairness of its failing read: once the context is done reads do not succeed for
  ever, though a frame that has arrived may still be taken. Agents, browsers and shells need not move.
* `ExecApi`: the handler's sends and its timeout, nothing of the agent.
* `AgentConn`: reader, writer and clean-up (`ConnFairness`), commands
  (`ExecFairness`) and shells (`PtyFairness`, which no checked property needs). A
  goroutine blocked on the full `out` channel is served in the order of arrival by
  the runtime, hence strong fairness for those sends. Commands need not end, but
  are killed once their context is done; descendants that hold a pipe need not let
  go. A shell need not exit, nor read its terminal.
* `ExecOutput`: the copying goroutines and `runExec`; nothing of the process.
* `AuditForwarder`: `EmitterSpec` assumes nothing but that an emitter runs on.
  `AcceptedIsPosted` has `LoopFairness` as its premise: the loop runs on, with
  strong fairness for the cases of its select (chosen at random among the ready
  ones) and a post that ends by its timeout.
* `Enrollment`: the service manager restarts the daemon (`Restart=always` in
  `packaging/linux/hasfy-agent.service`), its goroutines run, tokens expire, and
  Hasfy-App answers now and then. Strong fairness of `Connect`: a token lives
  longer than the backoff, so among infinitely many opportunities one is taken.
* `Daemon`: `Spec` assumes nothing; each liveness property has the fairness of its
  own component as its premise, and none of the others'. `ServiceFairness` is the
  twenty seconds of a stop, with nothing assumed of `runAgent`, which may be
  stuck. `InventoryFairness` and `MetricsFairness` let the goroutine run, and
  osquery, Hasfy-App and Elasticsearch answer now and then (strong fairness, as
  attempts are repeated and may fail in between). `RevokedGoesQuiet` adds that
  days pass.

## Proofs

TLAPS proves, for every value of the constants that satisfies
`RegistryAssumption` (a positive buffer size, claims of the right type, and the
two null values outside the sets), `AuditAssumption` (positive sizes, `Scoped` a
subset of `Events`), `ExecOutputAssumption` or `MetricsAssumption` (natural
numbers, some of them positive), `ConsoleAssumption` (positive capacities, maps of
the right type, null values outside their sets), `ExecApiAssumption` (a positive
buffer, and a `toBrowser` with room for a frame of every kind; it is 64 in the
code), `AgentConnAssumption` (positive capacities, null values outside their sets)
or `EnrollmentAssumption` (bounds that are numbers, and two values of the key file
that are not keys):

| Theorem | States |
|---|---|
| `RegistryProofs!TypeCorrect` | `TypeOK` |
| `RegistryProofs!OpenIffCurrentHolds` | a channel is open exactly while its connection holds the slot |
| `RegistryProofs!NoDoubleCloseHolds` | eviction and clean-up never both close a channel |
| `RegistryProofs!IdentityHolds` | what the registry answers is what the tokens said |
| `RegistryProofs!OnlyHolderEmptiesSlotHolds` | an action property: only the holder empties a slot |
| `RegistryProofs!Refinement` | `Registry` implements `DeviceSlots` |
| `AuditForwarderProofs!TypeCorrect` | `TypeOK` |
| `AuditForwarderProofs!ConservationHolds` | accepted = posted, then batch, then queue |
| `ExecOutputProofs!TypeCorrect` | `TypeOK`: no buffer exceeds its capacity |
| `ExecOutputProofs!KeptIsPrefixHolds` | what is kept of a stream is its beginning |
| `ExecOutputProofs!TruncatedIffLostHolds` | the exit frame says so exactly if output is missing |
| `DaemonProofs!BufferIsNewestHolds` | the metrics buffer holds the newest documents, in order |
| `DaemonProofs!NoDocumentForgottenHolds` | while the reporter runs, a document is stored, refused, buffered or had to make room |
| `DaemonProofs!DuplicatesAreRetriesHolds` | one copy, and one more for each lost answer at most |
| `DaemonProofs!TypeCorrect` | `TypeOK`: among others, no key is used that was not issued |
| `ConsoleProofs!TypeCorrect` | `TypeOK`: no queue exceeds its capacity |
| `ConsoleProofs!OneOperatorPerSessionHolds` | a session is served by one call, the one the router has |
| `ConsoleProofs!TenantIsolationHolds` | frames and shells stay with the device and organisation of the token |
| `ConsoleProofs!NoUnaccountedShellHolds` | a shell has a call, or a Cancel queued or lost in an accepted way |
| `ConsoleProofs!UsesDeviceSlots` | `Console` implements `DeviceSlots` for the variables they share |
| `ExecApiProofs!TypeCorrect` | `TypeOK`: no queue exceeds its capacity |
| `ExecApiProofs!ExecStaysInTenantHolds` | no command is queued for another organisation |
| `ExecApiProofs!NeverClosedWhileWaitingHolds` | a handler that waits never finds its session closed |
| `ExecApiProofs!ResultIsCompleteHolds` | a result has all the output the agent sent |
| `ExecApiProofs!NoAbandonedProcessHolds` | a command has a waiting handler, or a Cancel queued or lost |
| `ExecApiProofs!UsesDeviceSlots` | `ExecApi` implements `DeviceSlots` for the variables they share |
| `AgentConnProofs!TypeCorrect` | `TypeOK`: capacities, and no second exit frame for a command |
| `AgentConnProofs!ExecsBoundedHolds` | the semaphore counts the commands under way; processes are bounded |
| `AgentConnProofs!NoLeakedShellHolds` | a shell that has not been closed is registered, or in the hand of whoever is about to close it |
| `AgentConnProofs!ShellsDieWithConnectionHolds` | past `closeAll` a shell runs only while its goroutine is closing it; the cap, and the one shell above it |
| `EnrollmentProofs!TypeCorrect` | `TypeOK` |
| `EnrollmentProofs!KeyInSyncHolds` | what is registered is the key of the file and of every daemon that registers or has a token |
| `EnrollmentProofs!OnlyCrashTearsKeyHolds` | only a crash leaves a key file without a key |
| `EnrollmentProofs!EnrolledMeansPersistedHolds` | "enrolled" is reported after agent.env is written, for good |

*Registry.* `OpenIffCurrent` alone is not inductive: one has to know that a slot
is held by a connection that registered for that device (`SlotsHeldByServing`)
and which variables go with which stage of a handler (`Lifecycle`). The
inductive invariant `IInv` is `TypeOK`, `Lifecycle`, `SlotsHeldByServing`,
`OpenIffCurrent` and `NoDoubleClose`. One lemma covers all the steps that leave
map, records and channels alone; `Register`, `Unregister` and `Send` have one
each. `NoDoubleClose` follows because a connection closes its channel only while
it holds the slot and loses the slot with it. The refinement maps `byDev` and the
queues to slots and mailboxes; `Register` is a `Claim`, `Unregister` a `Release`
if the connection still holds the slot and a stutter otherwise.

*AuditForwarder.* `TypeOK` needs that a batch being filled has room
(`BatchHasRoom`: it is flushed as soon as it is full) and that only scoped events
pass stdout (`OnlyScopedWritten`). `Conservation` rests on two lemmas about
concatenation.

*ExecOutput.* `KeptIsPrefix` is not inductive without `FullIffLost`: a buffer that
took the start of a later piece after it had refused an earlier one would have a
gap, and it is `full` that says whether anything has been refused.
`TruncatedIffLost` compares with what the process wrote, not with what was read,
so it also needs `CopierEnds` (a copying goroutine that ended had read everything
or met a full buffer) and `ExitStands` (nothing the exit frame said changes
afterwards). `WriteKeeps` does the work for one `Write`, from three lemmas on
pieces of a stream.

*MetricsReporter in Daemon.* `DuplicatesAreRetries` needs `CopiesBounded`: a
document that still waits has at most as many copies as answers were lost, so the
upload that is answered adds the one it is allowed. `NoDocumentForgotten` needs
`BufferIsNewest`, which tells which documents `AppendBounded` drops, and is shown of
any reporter that has not returned (`Accounted`), alive or not. The lemma
`AppendKeepsNewest` computes its result from two facts on batches; one lemma
covers all steps that touch neither documents nor copies.

The other variables of the process need no more than their types (`ProcessType`,
`InventoryType`, `KeyType`).

*Console.* `TenantIsolation` speaks of queues and shells; it is kept because a call
only ever sends to the agent it looked up, so the invariant needs that this agent
belongs to the call's device and organisation, and that a slot is held by a
connection of its own device (`AgentsBelong`), whoever holds it now.
`NoUnaccountedShell` is not inductive: a shell starts when a queued `pty.start` is
taken, possibly after the session has ended. `ShellsAnswered` therefore says the
same of every `pty.start` in a queue, with the Cancel *behind* it; a pump that
still holds a frame, or may read one, when the Cancel is sent (`MayForward`) is what
makes a Cancel not "clean".
`LifeCycle` ties the stages of a call, its pump and its Cancel together. Most
actions change the state of one call and leave the queues alone: one lemma
(`QuietStep`) covers them once the new state is shown to be `InRole`.
`UsesDeviceSlots` shows that each step is one of `DeviceSlots` or a stutter, which
makes the console an environment for which `RegistryProofs!Refinement` is meant.

*ExecApi.* For `NeverClosedWhileWaiting`, the frames in `toBrowser` and those the
agent may still send are together at most four (`Collects`, with `FramesLeft`), so
that no send finds the channel full; the bound is the assumption on
`ToBrowserCap`. For `ResultIsComplete`, an exit is the last frame of its command
and, as long as a handler waits, a stream was sent exactly if it was collected or
is in the channel. `NoAbandonedProcess` needs, as in `Console`, a statement on
queued frames: `MailInOrder` says that an exec comes before its Cancel, that the
agent has not seen it, and that its command is `Watched` already while it is
queued.

*AgentConn.* The invariant falls into three parts that share only the reader's
position: the connection (`ConnOK`), the commands (`ExecsOK`) and the shells
(`PtysOK`). `ExecsBounded` is about the size of a set, so the invariant carries that
the set of commands under way is finite and the semaphore its size; a process is
alive only while its command is at `ack` or `wait`, which bounds processes. That
`exits` never exceeds one needs `Answering`: the reader owes an exit frame only to
a command it refused, whose goroutine was never started. A shell that has
not been closed is the entry of its session, or held by the reader or by a
goroutine (`Known`), and one that is hung up is held; so those that nobody holds map
one to one into the registry, which `put` bounds. `AtHand` says what the reader holds
where: one shell while it starts or removes one, all that were registered in
`closeAll`, none elsewhere, and nothing is registered past `closeAll`. A shell just
spawned is known to the reader alone (`Fresh`), so it is not in another's hand when
it is registered. All this holds although a shell's goroutine removes and closes
whatever its session maps to by then, which need not be itself.

*Enrollment.* `KeyInSync` needs `OneCreator`: of all daemons and the ticket command
at most one is between the creation of the key file and its close, and until then
the file is what that process made of it; that is what O_EXCL is for. The file may
be removed again although others have read its key, so `CreationIsPrivate` adds
that nothing is registered, nor about to be, while a key is being created: who has
read it got no token with it (`SoundMemories`: a daemon has a token only if its key is
registered), and only its creator registers it, after the close. `EnrolledMeansPersisted` needs `EnvPersists`, because
wiping the secret writes agent.env back as it was read: what was read, and what
every pending write holds, is an enrollment.

Each inductive invariant was first checked by TLC on the instances of its runs.

Only model-checked are the liveness properties, as fairness and ENABLED are out of
the prover's reach. `WindowsService` and `InventoryReporter` state no other.

## Not modelled

Cryptography, JSON, HTTP status codes, logging and the regular expressions of
`redact.go`, which is a function on text without state; which program a command
runs and what it prints; what a metrics document or an inventory row says; the
texts and flags of the ticket command; ConPTY (shells behave as in `pty_unix.go`);
the lengths of pauses and lifetimes, among them `renewDelay` and the minute within
which a signed request of Hasfy-App is accepted; the records of connects and
disconnects, which the relay writes and never reads. ExecIDs are distinct in the
runs: those the relay makes are random. `routeAgentResponse` does not look at which
agent a frame came from; the models let agents answer only for the sessions and
commands they were given. A read-only `Count` has no action.

## Plan

Done: `DeviceSlots` and `Registry` (the core that everything shares), then
`Console`, `ExecApi` and `AgentConn`, the `AuditForwarder`, `Enrollment` with the
ticket command, `ExecOutput`, and `Daemon` with the service and the reporters; and
proofs of all their safety properties.

Next, in this order:

1. Proofs of action properties that no run states yet: what a step of the console
   and of the exec API may never do to another session's or request's state.
2. `Console` and `AgentConn` composed, so that a shell's whole life from
   `pty.start` in the browser to its process on the device is one model.
3. Time: `renewDelay`, the retry interval and the backoff against the life of a
   token.
