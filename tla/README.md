# A formal model of contextmatrix-chat

This directory holds TLA+ models of `contextmatrix-chat`, the TLC instances that check
them, and proofs that TLAPS checks. Every definition is translated from the Go source
under `src/`; `PROJECT.json` ("map") names the lines each one stands for. Code that is
not in the repository (the Docker daemon, ContextMatrix, the `harness`, `backendkit` and
`webhookcore` modules, the MCP SDK, the file system) is modelled from how this
code uses it and marked external there.

Contents: 1 the system, 2 the modules, 3 the runs, 4 fairness, 5 the proofs,
6 disagreements with the documentation, 7 what is not modelled, 8 the plan.

To repeat the work in this directory: the run X of section 3 is
`tlc -config MCX.cfg <module>` (for instance `tlc -config MCLifecycleRaces.cfg MCLifecycle`;
`MessageDelivery`, with `MCDelivery.cfg`, `McpBridge` and `TokenWatch` are checked directly), and
`tlapm M.tla` checks the proofs of each of the eight modules `LifecycleProofs`, `DeliveryProofs`,
`Deliveries`, `EpochProofs`, `BridgeProofs`, `TokenProofs`, `ResumedProofs` and `OutputProofs`.

## 1. The system

`contextmatrix-chat serve` runs on the host. ContextMatrix sends it signed webhooks; it
keeps at most one Docker container per chat session and at most `max_concurrent`
altogether. In each container `contextmatrix-chat work` is the chat itself: it reads
frames from stdin, runs the model loop of the harness, and calls ContextMatrix's board
tools over MCP. Two small subcommands run inside the container for git and gh.

| Part | Source (`src/internal/...`) | State | Operations | Correct when |
|---|---|---|---|---|
| Tracker | `executor/tracker.go` | `byKey`: run of each session; `reason`: why it is being stopped | `AddIfUnderLimit`, `Get`, `Remove`, `List`, `Count`, `SetReason`, `Reason`, one mutex | one entry per session, never more than the limit, no reason without an entry |
| Session lifecycle | `webhook/chat.go`, `executor/docker.go` | containers, run directories, redaction keys, LLM tokens, tracker entries | `/chat/start` with its undo paths, `Launch`, output pump, `waitAndCleanup`, `/chat/end`, `Stop`, `Kill` | every resource of a run is undone once, by its own run; a live session keeps what it needs; no container runs unknown to the tracker |
| Process | `cli/serve.go` | draining flag, the list of containers to kill | `gracefulShutdown`, `chatExit`, `CleanupOrphans` at boot | nothing outlives a graceful shutdown; nothing runs unknown after a crash and a boot |
| Message delivery | `webhook/chat.go`, `webhook/handler.go` | one stdin mutex per session, dedup records | `/message`, stdin half of `/chat/end`, `DropSession` | frames do not interleave, an id is written at most once, an acknowledgement is true |
| Inbox | `chatwork/inbox.go` | `pending`, `closed`, `held`, signal channel | `Pump`, `Drain`, `Wait`, `onClear`, `releaseClear` | messages arrive in order, none lost, none on the wrong side of a `/clear` |
| Epoch loop | `chatwork/run.go` | epoch context, `cleared`, `clearCh` | `epochLoop`, the run closure, its clear watcher | every `/clear` starts one fresh epoch and the session then goes on |
| MCP bridge | `mcpbridge/bridge.go` | the current MCP session | `callTool`, `Close` | one redial serves all callers, nothing is left open, calls return |
| Token redaction | `chatwork/credhelper.go`, `ghwrapper.go`, `redactor.go` | fetched-tokens file, its mtime as last seen, the redactor | fetch, record, use; tick, stat, read, store | a token in use is masked soon and stays masked |
| Output pump | `executor/docker.go` (end), `chatwork/filter.go` | per stream: the frame in hand, a partial line; the filter has none | `pump`, `Write`, `flush`, `Flush`; `boardFilterWriter.Write` | the log bridge gets the lines that were written, each up to the bound; the transcript is the worker's events in order without board calls |
| Role-order fallback | `chatwork/roleorder.go` | the sticky `engaged` flag | `send` with its flip and resend | the form of a request costs no turn, and at most one rejection a round |
| Resume | `chatwork/resume.go`, `run.go` | the history that opens the first epoch | `LoadResume`, `SeedHistory` | the whole transcript or none of it |
| Primer, argument coercion | `chatwork/primer.go`, `mcpbridge/coerce.go` | none | pure conversions | equal to their reference definition |
| HTTP routing, configuration, secrets file, metrics, hosts, command line | the rest | none after start, or counters nobody reads back | | |

How they interact. The start handler calls `Launch`, which puts the run into the tracker
and hands it to a supervision goroutine; when the container is gone that goroutine calls
back (`OnExit`: `chatExit`, then `Server.DropSession`) to withdraw what the handler set
up, and only then releases the session. `/chat/end` and shutdown act on the container by
session id, through the tracker, and leave all cleanup to that goroutine. `/message` and
`/chat/end` share the stdin of the container under a mutex that `DropSession` deletes.
In the worker four goroutines (pump, watcher, harness, loop) share the inbox, a channel
of capacity one and a context. The token helpers and the worker share only a file.

What is hard. Everything that undoes a start is keyed by session id, not by request.
The capacity and conflict checks are read long before the tracker decides. A container
exists before it is tracked and is tracked before it runs. `Stop` reads the tracker,
records a reason and signals in three steps. A mutex is deleted while it is in use.
Failures can be partial: an API call that reports an error may have taken effect.
The process may die or be told to stop between any two steps. `/clear` is a boundary
in a queue, a signal in a channel and a cancelled context, set by different goroutines.
Output arrives in frames cut anywhere, of two streams mixed; two independent repairs of
a rejected request (the flip of roles, the drop of reasoning details) answer the same 400.
`PROJECT.json` ("hazards") lists these at their lines with the properties that cover
them and, where there is none, the reason.

## 2. The modules

    Tracker <-- Lifecycle --(implements)--> SessionSlots, SessionRuns
                   ^  MCLifecycle, LifecycleProofs
    MessageDelivery --(implements)--> SessionRuns, Deliveries
       ^  DeliveryProofs
    ChatInbox <-- EpochLoop --(implements)--> Conversations
                   ^  MCEpochLoop, EpochProofs
    OutputPump <-- ResumedChat
                   ^  MCResumedChat, ResumedProofs, OutputProofs
    McpBridge            TokenWatch
     ^ BridgeProofs       ^ TokenProofs

An arrow points at the module that is extended or instantiated.
Definitions whose comment begins with "Variant" are not part of any specification. Each
is the form its neighbour would have under a plausible mistake (a dropped guard, a
missing undo, a swapped order); putting it in the neighbour's place makes the property
listed with it in `PROJECT.json` ("mutants") fail, which shows that the property looks
at that code.

**Tracker** has the tracker's variables and its operations as operators.

**Lifecycle** composes the tracker with the start and end handlers, the executor, the
supervision goroutine, the pump and the process. A *run* is one `/chat/start` request and
the container it may make. `pc[i]` is where its handler is and, from `wait` on, where
its supervision goroutine is: `Launch` hands over from one to the other, so one control
point per run is enough. Each control point lies just before a call that another
goroutine, the daemon or a fault can come before. Guards are the code's early returns;
each failure path (`cleanup`, `revoke`, `forget`, `discard`, `untrack` and `undo`) is the sequence
the code runs. `secrets` and `tokens` remember *which run* registered a value, though
the code removes by session id: that is how the properties can tell one run's cleanup
from another's. A run may be used again when it is over.
Merged: the redactor's `AddSessionKey` calls with one another; one round of the shutdown
loop (`KillTracked`: the lookup, the reason and the kill of `Kill`, and the `RemoveAll` after it);
the metric, log and hub updates with the step they accompany.
`NameOf` stands for `containerName`.

**SessionSlots** is what the serve process promises: a session is a lease with one
holder; a lease is taken only with room, goes live only once started, and, once live,
ends only after it was retired or together with the process, whose end and return are steps
of their own. `Lifecycle` implements it under `holder <- byKey`, `stage <- StageOf(byKey[s])`,
`up <- phase # "down"`.

**SessionRuns** is the contract between the two modules that share the runs of a session:
when a run is in the tracker, when its container is there, and when the session's state is
dropped. A run is tracked before its container is started; a failed start leaves the
tracker before its container is removed, and until then no other run of the session is admitted; the
state is dropped only once the container has ended, and before the entry goes. `Lifecycle`
implements it under `current <- byKey`, `stage <- LifeOf`, `alive <-` the containers of runs in one of its
stages, provided that container removals succeed; `MessageDelivery` implements it for one session. Neither
module has a run do what the contract does not have.

**MessageDelivery** is one session over successive runs, cut down to those stages,
with concurrent `/message` and `/chat/end` requests. A run takes messages from its admission
on, that is while `ContainerStart` is still under way, and a start that fails
(`StartFails`, then `Discard`) takes its container away from under them without `DropSession`. Mutexes are numbered,
because `stdinLock` makes a new one after `DropSession`. A write can block on a full
pipe, fail, or be taken by a connection whose container is already gone. The cache may take
a record for expired whenever it is asked about it, also while the write the record stands
for is still blocked; `MaxExpiries` bounds how often. `StopContainer` looks the session up
again, as the code does, and so may find another run, or none. `OwnExits` are the runs whose
containers may exit by themselves. Merged, because `Lifecycle` has them step by step: what undoes a
failed start after its `Remove` (`Discard`: the close of the connection and the removal of the
container) and `Stop` (`StopContainer`: the lookup, the reason, which no property here is about,
and `ContainerStop`, which succeeds; the one that fails is `Lifecycle`'s).

**Deliveries** is what `/message` promises of an id: it is taken up at most once per record of
it, and what has been taken up is then written once or withdrawn together with the record. There
are no locks, runs or containers in it. `MessageDelivery` implements it under `recorded <- dedup`,
`ahead <- Undecided`: recording takes up, a write delivers, a failed write withdraws. Its proofs
are in the module itself.

**ChatInbox** has each operation of the inbox as the code does it under the inbox mutex;
**EpochLoop** interleaves them with the watcher, the harness and the loop. `harness.Run`
is external: it works, drains, waits, fails or sees the end. Ghost variables (`gen`, `born`,
`killedBy`, `taken`, `hurried`) record which clear a message came after, and are never read by
an action that models code.

**Conversations** is what the inbox and the loop promise together: the sequence of messages
is cut by clears, each conversation takes its own part in order, and what waits at a
clear is discarded. `EpochLoop` implements it under `heard <- read`, `waiting <- pending`,
`said <- taken`, `clears` itself, the epoch (or, while the loop drains, the next one) as the
conversation, and
a mode that is `over` once the worker has left, `held` from a clear to the release, and `open`
otherwise.

**OutputPump** is a session's output from the emitter to the log bridge. A byte of an event's
line is the event itself, so a lost, doubled or misplaced byte shows. Frames of any length
in `Cuts`, of either stream, go through `Write` one turn of its loop at a time; the connection
may end between any two of them.

**ResumedChat** composes `OutputPump` with the worker's conversation: `LoadResume` line by line,
`SeedHistory`, the primer's turn, and the rounds of the harness through `roleOrderFallback`.
The harness and the gateway are external: the gateway may want a user turn first, may not
take reasoning details, and may fail or refuse a round whatever its form. `/clear`
is left to `EpochLoop`.

**McpBridge** is `callTool` for concurrent callers. Sessions are numbered; ContextMatrix may
forget all of them, one may break on its own, a dial may fail, and a call may end with an error
that is not the session's on a lost session too. `Close` comes after all
calls, as `Run` defers it until the epoch loop has returned.

**TokenWatch** is the helper's fetch (with its attempts), record and use, against the
watcher's tick, stat, read and store. The first reload is the constructor's, with helpers
about already: the clone comes before it. The modification time is a number that a write
moves on, or not, on a coarse clock. A write that fails in the middle leaves a line without its
end (`torn`, and `tail` where the line is the whole token), to which the next token is joined.
The ghosts `unrecorded` and `blurred` remember what coverage is lost for good (a failed record, a
joined line) and until the next read that succeeds (a failed read, a write the clock did not show).

## 3. The runs

| Run | Instance | Shows |
|---|---|---|
| LifecycleRaces | two starts of one session, one of another, one slot; every start failure; graceful shutdown | `SlotOwner`, `WithinLimit`, `RunDirOwned`, `ShutdownLeavesNoContainer` in every interleaving; the runs keep to `SessionRuns` (`ImplementsRuns`) |
| LifecycleFaults | two starts and an end of one session; lost create answers, failing removals, kills and directory removals, stalled pumps, crashes | no secret, token or reason outlives its run (`NothingLeaks`, `DeadKeyHasNoReason`), the leases keep their meaning (`ImplementsSlots`), every slot comes free (`SlotReleased`) |
| LifecycleSerial | three starts of two sessions and an end, one request per session in flight; crashes, lost create answers and a graceful shutdown | a live session keeps its secrets, token and directory (`LiveSessionIntact`), no container runs unknown (`RunningIsTracked`), output is masked to the last line (`BridgedMasked`), 429 means full of other sessions (`CapacityMeansFull`), an end releases the session (`EndReleasesSession`) |
| Delivery | two senders of one id, one end, two runs of which one may exit by itself, one expiry, a worker that reads | `OneLiveWriter`, `AtMostOnce`, `LiveDuplicateMeansDelivered`, `EndGetsThrough`, `EndStopsItsRun` |
| EpochLoop | three messages, two clears, end of input, model failures | `FreshEpoch`, `InOrder`, `NotSwallowed`, `NoMessageLost`, `ClosedMeansServed`, `MessageSettles`, `ClearTakesEffect`, and the conversations (`ImplementsConversations`) |
| ResumedChat | four transcripts, all four kinds of gateway, four messages, two events and a write to stderr, lines of two bytes, frames of one and three | `LinesAsWritten`, `TranscriptInOrder`, `HistoryWhole`, `ErrorHasCause`, `OneRejectionPerRound` |
| McpBridge | three callers, three sessions | `OnlyLostReplaced`, `NoSessionLeft`, `SurvivesOneLoss`, `EveryCallReturns` |
| TokenWatch | two helpers, three attempts | `RecordedBeforeUse`, `GivesUpAfterAllAttempts`, `RestMeansMasked`, `EveryTokenMasked` |
| FindingStartTeardown, FindingEndDuringStart, FindingClearHolds, FindingDuplicateAck | the smallest that shows it | section 6 |

The type invariants and `TokenWatch!NeverForgets` are proved (section 5) and checked by no run. No run uses symmetry.

Bounds, and why they are enough.

- *Lifecycle.* Two starts of one session are what a duplicate start, and an end that meets
  the next run, need; a third start, of another session, is what contention for the last
  slot needs with `MaxConcurrent = 1`. Runs are reused, so histories are not bounded
  in length. Different concerns are in different runs because faults multiply states, and
  the safety properties are proved for every size (section 5).
- *Delivery.* Two senders with one id make a retry race its original; two runs make a mutex
  be deleted and made again, and let an end meet the next run. Requests return to idle and
  are reused. The pipe holds one frame, so a write does block. One expiry is enough for a
  retry to pass the check while the original is blocked. Either start may fail while requests
are under way. The instance has half a million states. The empty id, which is never
  deduplicated, is left to FindingDuplicateAck and the proofs.
- *EpochLoop.* Two clears are what it takes for one to come before the other has
  settled; three messages can lie before, between and after them.
- *ResumedChat.* The transcripts are: none; an assistant's turn behind a tool's, and behind turns that
  map to nothing; an assistant's turn alone; and the same before a line that cannot be read. The lines of the four
  kinds of events have one to three bytes and the bound is two, so that lines lie below, at and
  above it, and frames of one and three bytes cut inside a line, at its newline and
  behind it. Four messages allow a reply with reasoning details and a round after it.
- *McpBridge.* A caller dials, another finds the work done, a third holds an old
  session: three callers. Three sessions allow a fresh session to be lost as well. When
  `MaxSessions` is used up a dial can only fail.
- *TokenWatch.* Two helpers put one append between another's stat and read. The number of
  attempts is the code's.

Runs with `CHECK_DEADLOCK FALSE` are of things that do stop: a session that has ended or
waits for its user, helpers that are done, a session whose last run is over.

Two parameters restrict the environment and are named wherever a result depends on them:

- `Serial`: ContextMatrix has one lifecycle request per session in flight.
  The source does not enforce it. `LiveSessionIntact` and `EndReleasesSession` hold with it
  and fail without it (section 6).
- `Faults`: which misbehaviour the instance allows, from `FaultKinds` in `Lifecycle`.

## 4. Fairness

Safety properties are checked without any. For liveness, a step of a goroutine that
can be taken is taken (weak fairness), on the assumption that the HTTP and Docker calls made
there return, with a result or an error. Never assumed: that a client sends
anything, a container exits or writes, a wait fails, the process stops or crashes.

- `Lifecycle!FairSpec` does *not* assume the output pump to be fair: the stream may
  stall for ever, and `SlotReleased` holds only thanks to `pumpDrainTimeout`.
  `FairPumpSpec` adds a pump that reads and is used for `EndReleasesSession`, in runs where
  that timeout never expires.
- `MessageDelivery!FairSpec` has the requests take their steps, and assumes strong fairness of an
  end's `Lock` alone: Go's `sync.Mutex` goes over to hand-off once a waiter has waited for a
  millisecond. Nothing is assumed of supervision. `ReadingSpec` adds a worker that reads
  its stdin once it is up, a `ContainerStart` that returns and a failed start that is undone. Without
such a worker `EndGetsThrough` does not hold (section 6).
- `McpBridge!FairSpec` is the same for the calls and for the bridge's mutex. That calls and dials
  come to an end is an assumption about ContextMatrix and the network there: the client built at
  `bridge.go:81` has no timeout and the session's context no deadline, and a dial runs with the
  mutex held. A dial that hung would hold up every other caller.
- `EpochLoop!FairSpec`: a turn of the model ends, and a run whose context is cancelled
  fails; nothing makes a call fail otherwise, and frames come when they come.
- `TokenWatch!FairSpec`: only the ticker and its goroutine; a helper may be killed anywhere.
- `ResumedChat` states safety only and has no fairness.

## 5. The proofs

Every module that models code and has a state has its type invariant, and every invariant and action
property a run checks, and every refinement, proved for all values of its constants. The
modules that hold the proofs have one lemma or step per action.

### Lifecycle

`LifecycleProofs` proves, for every finite set of sessions, every set of runs and end
requests, every limit, and every value of `Serial`, `Faults` and `NameOf` not excluded in
the table, with the assumptions stated in `Tracker` and `Lifecycle`:

| Theorem | Needs |
|---|---|
| `TypeCorrect`, `SlotOwnerCorrect`, `DeadKeyHasNoReasonCorrect`, `NothingLeaksCorrect`, `CountBoundedCorrect`, `Refinement` | nothing more |
| `RunningIsTrackedCorrect`, `WithinLimitCorrect`, `RunsRefinement` | removals succeed |
| `RunDirOwnedCorrect` | no crash, no request outliving the shutdown budget, directory removal succeeds |
| `ShutdownLeavesNoContainerCorrect` | the same with kills and container removals in place of directory removal |
| `LiveSessionIntactCorrect`, `CapacityMeansFullCorrect` | `Serial` |
| `BridgedMaskedCorrect` | `Serial`, removals succeed, the pump ends within its bound |

The argument, from the bottom up.

1. `TypeOK`, `SlotOwner`, `DeadKeyHasNoReason` and `NothingLeaks` are inductive, given
   `TypeOK`: one step per action.
2. `RunningIsTracked` is not: an untracked container could "already" be running. The
   strengthening is `RunningPlace`: a running container's run is at `untrack`,
   `undo`, `wait` or `remove`. With `SlotOwner` that gives the property.
3. `WithinLimit` is about cardinalities. `TrackedGrowth` shows that a step adds at most one
   session to the tracked ones and then only below the limit, which gives `CountBounded`.
   Running containers whose failed start is not being undone map one to one to tracked sessions, by
   `SlotOwner`, so there are no more of them.
4. `RunDirOwned` and `ShutdownLeavesNoContainer` are about the end of a shutdown, so their
   strengthenings say what holds in each phase: once the process is at `kill` no request is
   in flight, and whatever is left is in the list the loop still has to go through.
5. `Refinement`: the initial states map to the initial state of `SessionSlots`; each action maps
   to the lease step its control point calls for, or to a stutter. `SlotOwner` is what
   makes a release the holder's own.
6. `LiveSessionIntact` rests on `Alone` (with one lifecycle request per session in flight two
   runs of a session are never past the conflict check together) and on `Keeps` (a run
   holds its secrets, token and directory at every point from which it withdraws
   them); `BridgedMasked` follows with `Backlogged` (output waits only until the drain).
7. `CapacityMeansFull` is an action property. `RefusedByAdmit` shows that only `Admit` turns an
   attached run away; `Alone` and `SlotOwner` exclude that its session is tracked already, so
   the limit is the only reason left.
8. `RunsRefinement` needs `LifePlaces`: what the daemon has of a run at each control point, and
   that no two containers share a name. That no run is admitted beside a failed
   start being undone comes from the container's name, which that start still holds. With a
   failing removal (fault `remove`) the contract does not hold: the supervision goroutine
   logs the error and drops the session with the container still there (`docker.go:356`).

A change of one handler in the source touches one step per theorem.

### The other components

`DeliveryProofs`. `MadeBound`: no more mutexes have been made than runs have passed, and one.
`LockInv`: a live run is the current one or one whose start has failed, and then no other is
current; a request past its lookup has a run, the requests on one live run share one mutex, and
who is past `Lock` owns it. `OneLiveWriter` follows. `EndStopsItsRun` needs only where a live run can
be. `HeldInUse` is the converse of ownership: a locked mutex belongs to a request in the middle of
its use of stdin. It is what can be proved of `EndGetsThrough`: no early return leaves a
mutex locked, and requests never wait for each other in a circle.

`DeliveriesRefinement`: each step of a request is a step of `Deliveries` or leaves the
promise alone. `AtMostOnce` is then a theorem of `Deliveries`, by counting (`Budget`): what has
been written of an id, plus the requests that have taken it up, is at most its expired
records plus one if it is recorded. The invariant says so although a withdrawal may take away a
record another request has made. `LiveDuplicateMeansDelivered` combines `Backed` of `Deliveries`
(a recorded id is written, or some request has it ahead) with `LockInv` (not one of the same run).

`RunsRefinement`: of the runs themselves, `MessageDelivery` does what `SessionRuns` allows, and by
the theorem of the same name in `LifecycleProofs` so does the service. The two theorems relate
the modules by a common contract. They do not say that every behaviour of the service's runs
occurs in `MessageDelivery`, which would need `ENABLED`; by their guards, its run actions are those of the
contract but for three restrictions: a run is used once and in the order of the numbers, only those in
`OwnExits` end by themselves (a constant of the instance), and the process does not end.

`EpochProofs`. `CountInv`: epochs begun, and clears on their way to the loop, are no more than
the clears read, and one. `PlaceInv` says where the harness and the pump are once they have
seen the end. `QueueInv` and `InOrder`: `taken`, then `pending`, ascend; `NotLost`: a message that
no clear has come after is in one of them. `GenInv` relates what the present epoch has taken
to the clear it was born of and to the hold. `SignalInv`: unless a clear has come before the
one before it took effect, one clear at most is under way, and its epoch has taken
nothing read after it. `Refinement` uses `ReleaseOwed`: when the hold is released there is a
clear whose conversation has not begun.

`BridgeProofs`. `CallInv`: the present session is the last dialled one, a caller that wants the
mutex or holds it has lost its session, and one that calls again does so on a later session.
`CloseInv`: until `Close` only lost sessions are closed, and never the present one.

`TokenProofs`. `AttemptInv` counts a helper's attempts; `RecordInv` has a token in the file from its
record on, or that record failed; `KnownInv` has what was read be contained in the file, so that a later read
cannot drop a recorded token (`NeverForgets`). `RestInv` is what `RestMeansMasked` needs: the file's time never goes
back, so while the time the watcher took before its read is still the file's, nothing has been added
to what it read. That is where the order of stat and read enters.

`ResumedProofs`. `ReadInv`: what has been scanned is a beginning of the transcript, with no
line in it that is refused. `ConvInv`: a conversation has a user turn once it has begun,
reasoning details come only from replies, and a gateway that wants a user turn first has
replied to an assistant-led conversation only if the flip is engaged. `RoundInv` relates a
round's control point, what has been sent, and how often it was refused, to what the gateway
takes. The repairs do not add up because a request with
details is not flipped, and one without them is rejected only for its order.
`EngagedMeansStrict` (the flip is engaged only against a gateway that wants it) is a part of
`ConvInv`, and proved; no run checks it by itself. `SeedHistoryInOrder` is about the
function: the history has one message for each turn that maps to one, at its place among
those and in its role.

`OutputProofs`. `OutputInv`: of each stream, the frame in hand is the tail of what was
written, the buffer is the bounded beginning of its unfinished line, and the lines given out
are the bounded lines before it, each at the rank of its newline. `ClipExtends` is the
arithmetic of it: bounding a line part by part bounds the line.
`TranscriptInOrder` follows from it and `TranscriptInv`, which ties the bytes of stdout to the
events: the newlines of what has been written and what is still on the wire are as many as the events
that are shown, and the line that ends at each is that event's (`EmitTranscribes`,
`FrameTranscribes`). No induction over the sequence is needed, because an event's bytes stay where they
are and an emission only appends. The `PlaceIn` lemmas (`PlaceType` to `PlaceInPart`) relate the
places of two sets of numbers one of which begins the other.

Only model-checked: all liveness (`SlotReleased`, `EndReleasesSession`, `EndGetsThrough`,
`MessageSettles`, `ClearTakesEffect`, `EveryCallReturns`, `EveryTokenMasked`), which needs fairness
and `ENABLED`, beyond the prover. `ImplementsRuns` and `ImplementsDeliveries` of `MessageDelivery`
are proved and in no run: with the constants of Delivery, TLC confirms both within a minute.

## 6. Disagreements with the documentation

Four runs expect a violation; each states what a comment says and TLC shows the code doing
otherwise.

- **FindingStartTeardown** (`chat.go:331`). Two overlapping starts of a session
  both pass the conflict check; the one that loses undoes by session id and takes the
  winner's run directory, and its secrets and token if it reached `Launch`.
  `serve.go:125`: "every live secret must be in the union".
- **FindingEndDuringStart** (`docker.go:269`). An end between admission and `ContainerStart`
  stops a container that does not run yet, and is answered 202; the container then
  starts and lives on. `chat.go:436`: the stop is there so that the tracker entry is cleared.
- **FindingClearHolds** (`run.go:286`). A second `/clear` read between `releaseClear` and
  the drain of `clearCh` sets the hold again and has its signal thrown away: later messages
  stay queued for ever. `run.go:277`: a message after the clear "reaches the next epoch's
  Wait/Drain in order".
- **FindingDuplicateAck** (`handler.go:307`). `DropSession` deletes the stdin mutex under a sender
  that is between check and rollback; a retry makes a new mutex and is told
  "duplicate" for a frame that is then not written. `chat.go:506` says the rollback is under the
  mutex to exclude just that.

The first two need two lifecycle requests of one session at a time.

Other behaviours the models have, which no run is kept for:

- a reason recorded by `Stop` can land on the session's next run, and `Stop` can signal
  that run, when an exit and a start come between its steps (`docker.go:396-410`);
- a duplicate start that passes the conflict check is answered 429, not 409 (`docker.go:262`);
- when `httpShutdownTimeout` expires with a start in flight, its container and run
  directory outlive the process (fault `httpTimeout`);
- a worker that does not read its stdin blocks a sender with the mutex held, and with it
  every `/chat/end` of the session;
- a message read after a second, early clear can be taken by the epoch that this clear
  ends (`NotSwallowed` excepts it, ghost `hurried`);
- an end whose run exits while it waits for stdin may stop the container of a later start in
  place of the one it found (`chat.go:415`); the one it found is dead then, which is what
  `EndStopsItsRun` states;
- at the end of stdin after an unfinished clear, `Wait` reports the end although messages are
  queued (`ClosedMeansServed` excepts `held`);
- a failed read of the token file makes the redactor forget the tokens it had, until the
  next append (ghost `blurred`);
- a record that fails in the middle of its line takes the next token with it: the two are one
  line, and neither is masked (`credhelper.go:105`; the comment at `credhelper.go:115` has
  coverage lost "for this one token");
- `/chat/end` is taken while the service drains (`handler.go:331`), although `handler.go:322` has
  "the mutating lifecycle routes" gated on drain.

## 7. Not modelled, and why

- Signatures, the replay cache, the draining gate and server-sent events are in dependencies
  that are not in this repository. So is the dedup cache; its eviction, by age or by
  capacity, is modelled as expiry, at most `MaxExpiries` times an id.
- The 202 of `/message` is sent when the connection has taken the frame. Whether the worker
  ever reads it is not promised, and no property says it.
- A failing write of the board filter to stdout (`filter.go:42`): the reader of that pipe is the
  daemon, and the worker does not outlive it.
- `/clear` in `ResumedChat`, and the harness's compaction of long conversations. The
  gateway's 400 is assumed to depend on nothing but the request within a round. Malformed
  and overlong lines of a transcript are one value (`"long"`), as the code treats them alike.
- Two sessions whose ids `containerName` maps to one name: `NameOf` is a parameter of `Lifecycle`,
  the proofs hold for every one, and the runs use distinct names.
- Image pull and inventory, host resolution, task-skills checkout, the Docker configuration:
  I/O that changes no state the properties tell apart. Their failures are the early
  returns of a start.
- The set-up in `Run` (tools, git): straight-line code before the loop.
- The conversion of tool arguments (`coerce.go`) and the primer's text: pure functions of their
  arguments, well within reach of unit tests.
- Configuration, secrets file, command line, metrics, build information, image and
  service scripts: no state after start.

## 8. The plan

In order of importance; done:

1. `Tracker`, `Lifecycle`, `SessionSlots`, with runs, refinement and proofs.
2. `MessageDelivery` over several runs with expiry, with proofs.
3. `ChatInbox`, `EpochLoop`, `Conversations`, with the refinement and proofs.
4. `McpBridge`, `TokenWatch`, with proofs.
5. `OutputPump`, `ResumedChat`, with proofs.
6. `TranscriptInOrder` proved; the abstract `Deliveries`, and `SessionRuns` between `Lifecycle`
   and `MessageDelivery`, with the refinements proved.

Left:

7. Names shared by two sessions: what `Lifecycle` still promises each of them, and an instance.
8. Argument coercion as functions against a reference definition.
9. What the other liveness properties rest on, in the manner of `HeldInUse`: safety lemmas for
   `MessageSettles`, `SlotReleased` and `EveryCallReturns`.
