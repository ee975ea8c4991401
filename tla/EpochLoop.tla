----------------------------- MODULE EpochLoop -----------------------------
(***************************************************************************)
(* The worker's session loop (internal/chatwork/run.go) over its inbox     *)
(* (inbox.go).  Four goroutines act:                                       *)
(*                                                                         *)
(*   pump     Pump: reads frames from stdin into the inbox;                *)
(*   watcher  one per epoch: waits for a clear and cancels the epoch;      *)
(*   harness  harness.Run, external: works on a turn, then takes messages  *)
(*            with Drain and Wait;                                         *)
(*   loop     epochLoop and its run closure: starts one harness.Run per    *)
(*            epoch, and a new epoch after each clear.                     *)
(*                                                                         *)
(* A message is a number; what it says does not matter.  Ghost data: the   *)
(* number of clears read before each message, at each clear signal, and    *)
(* when each epoch was started; the epoch that took each message; and      *)
(* whether a clear has been read before the last one had taken effect.     *)
(***************************************************************************)
EXTENDS ChatInbox, FiniteSets

CONSTANTS
  MaxMsgs,     \* user messages on stdin
  MaxClears,   \* /clear frames on stdin
  AllowEOF,    \* stdin may end
  AllowError   \* an LLM call may fail for good

ASSUME BoundsAssumption == MaxMsgs \in Nat /\ MaxClears \in Nat
ASSUME ChoicesAssumption == {AllowEOF, AllowError} \subseteq BOOLEAN

Msgs == 1..MaxMsgs
Clears == 0..MaxClears
Epochs == 1..(MaxClears + 1)

VARIABLES
  pump,      \* read, ping, notify, end
  read,      \* messages read so far
  clears,    \* clears read so far
  gen,       \* message -> clears read before it
  hurried,   \* a clear was read while an earlier one was under way
  clearCh,   \* clearCh (capacity 1): 0 when empty, else the clears read at the send
  watcher,   \* waiting, got, done
  cleared,   \* the epoch's cleared flag
  ctxDone,   \* the epoch's context is cancelled
  killedBy,  \* the value the watcher took from clearCh, 0 if none
  harness,   \* work, wait, parked, closed, failed
  loop,      \* run, load, release, drain, exit
  epoch,     \* the epoch's number
  born,      \* clears read when the inbox was opened for the epoch
  taken      \* <<message, epoch>> pairs in the order of delivery

pumpVars == <<pump, read, clears, gen, hurried>>
watchVars == <<watcher, cleared, killedBy>>
loopVars == <<loop, epoch, born>>
vars == <<pending, closed, held, signal, pump, read, clears, gen, hurried, clearCh,
          watcher, cleared, ctxDone, killedBy, harness, loop, epoch, born, taken>>

TypeOK ==
  /\ pending \in Seq(Msgs) /\ closed \in BOOLEAN /\ held \in BOOLEAN /\ signal \in BOOLEAN
  /\ pump \in {"read", "ping", "notify", "end"}
  /\ read \in 0..MaxMsgs /\ clears \in Clears
  /\ gen \in [Msgs -> Clears] /\ hurried \in BOOLEAN
  /\ clearCh \in Clears /\ killedBy \in Clears /\ born \in Clears
  /\ watcher \in {"waiting", "got", "done"}
  /\ cleared \in BOOLEAN /\ ctxDone \in BOOLEAN
  /\ harness \in {"work", "wait", "parked", "closed", "failed"}
  /\ loop \in {"run", "load", "release", "drain", "exit"}
  /\ epoch \in Epochs
  /\ taken \in Seq(Msgs \X Epochs)

Init ==
  /\ NewInbox
  /\ pump = "read" /\ read = 0 /\ clears = 0 /\ gen = [m \in Msgs |-> 0]
  /\ hurried = FALSE
  /\ clearCh = 0
  /\ watcher = "waiting" /\ cleared = FALSE /\ ctxDone = FALSE /\ killedBy = 0
  /\ harness = "work"
  /\ loop = "run" /\ epoch = 1 /\ born = 0
  /\ taken = <<>>

Alive == loop # "exit"

-----------------------------------------------------------------------------
(* Pump.                                                                   *)

PumpMessage ==
  /\ Alive /\ pump = "read" /\ read < MaxMsgs
  /\ read' = read + 1
  /\ gen' = [gen EXCEPT ![read + 1] = clears]
  /\ Push(read + 1)
  /\ pump' = "ping"
  /\ UNCHANGED <<clears, hurried, clearCh, watchVars, ctxDone, harness, loopVars, taken>>

PumpEOF ==
  /\ Alive /\ pump = "read" /\ AllowEOF
  /\ CloseInbox
  /\ pump' = "ping"
  /\ UNCHANGED <<read, clears, gen, hurried, clearCh, watchVars, ctxDone, harness, loopVars, taken>>

PumpPing ==
  /\ pump = "ping"
  /\ Ping
  /\ pump' = IF closed THEN "end" ELSE "read"
  /\ UNCHANGED <<read, clears, gen, hurried, clearCh, watchVars, ctxDone, harness, loopVars, taken>>

\* Nothing of the last clear is still under way.
ClearSettled == ~held /\ clearCh = 0 /\ killedBy = 0 /\ loop = "run"

PumpClear ==
  /\ Alive /\ pump = "read" /\ clears < MaxClears
  /\ clears' = clears + 1
  /\ hurried' = (hurried \/ ~ClearSettled)
  /\ OnClear
  /\ pump' = "notify"
  /\ UNCHANGED <<read, gen, clearCh, watchVars, ctxDone, harness, loopVars, taken>>

\* The non-blocking send on clearCh: two clears may leave one signal.
PumpNotify ==
  /\ pump = "notify"
  /\ clearCh' = IF clearCh = 0 THEN clears ELSE clearCh
  /\ pump' = "read"
  /\ UNCHANGED <<read, clears, gen, hurried, inboxVars, watchVars, ctxDone, harness, loopVars, taken>>

-----------------------------------------------------------------------------
(* The epoch's watcher.                                                    *)

WatcherTakes ==
  /\ watcher = "waiting" /\ clearCh # 0
  /\ killedBy' = clearCh
  /\ clearCh' = 0
  /\ watcher' = "got"
  /\ UNCHANGED <<inboxVars, pumpVars, cleared, ctxDone, harness, loopVars, taken>>

WatcherCancels ==
  /\ watcher = "got"
  /\ cleared' = TRUE /\ ctxDone' = TRUE
  /\ watcher' = "done"
  /\ UNCHANGED <<inboxVars, pumpVars, clearCh, killedBy, harness, loopVars, taken>>

WatcherLeaves ==
  /\ watcher = "waiting" /\ ctxDone
  /\ watcher' = "done"
  /\ UNCHANGED <<inboxVars, pumpVars, clearCh, cleared, ctxDone, killedBy, harness, loopVars, taken>>

-----------------------------------------------------------------------------
(* harness.Run, as far as its use of the inbox goes.                       *)

HarnessDrain ==
  /\ loop = "run" /\ harness = "work"
  /\ TakeAll
  /\ taken' = taken \o [k \in 1..Len(pending) |-> <<pending[k], epoch>>]
  /\ UNCHANGED <<pumpVars, clearCh, watchVars, ctxDone, harness, loopVars>>

TurnEnds ==
  /\ loop = "run" /\ harness = "work"
  /\ harness' = "wait"
  /\ UNCHANGED <<inboxVars, pumpVars, clearCh, watchVars, ctxDone, loopVars, taken>>

WaitTakes ==
  /\ harness = "wait"
  /\ TakeFirst
  /\ taken' = Append(taken, <<Head(pending), epoch>>)
  /\ harness' = "work"
  /\ UNCHANGED <<pumpVars, clearCh, watchVars, ctxDone, loopVars>>

\* Variant: the end of stdin is looked at before the queue.
WaitClosedFirst ==
  /\ harness = "wait" /\ closed
  /\ harness' = "closed"
  /\ UNCHANGED <<inboxVars, pumpVars, clearCh, watchVars, ctxDone, loopVars, taken>>

WaitFindsClosed ==
  /\ harness = "wait" /\ ~Deliverable /\ closed
  /\ harness' = "closed"
  /\ UNCHANGED <<inboxVars, pumpVars, clearCh, watchVars, ctxDone, loopVars, taken>>

WaitParks ==
  /\ harness = "wait" /\ ~Deliverable /\ ~closed
  /\ harness' = "parked"
  /\ UNCHANGED <<inboxVars, pumpVars, clearCh, watchVars, ctxDone, loopVars, taken>>

WaitWakes ==
  /\ harness = "parked" /\ signal
  /\ signal' = FALSE
  /\ harness' = "wait"
  /\ UNCHANGED <<pending, closed, held, pumpVars, clearCh, watchVars, ctxDone, loopVars, taken>>

\* ctx.Done in Wait, or a model call under a cancelled or failing context.
RunFails ==
  /\ \/ harness \in {"work", "parked"} /\ ctxDone
     \/ harness = "work" /\ AllowError
  /\ loop = "run"
  /\ harness' = "failed"
  /\ UNCHANGED <<inboxVars, pumpVars, clearCh, watchVars, ctxDone, loopVars, taken>>

HarnessStep ==
  HarnessDrain \/ TurnEnds \/ WaitTakes \/ WaitFindsClosed \/ WaitParks \/ WaitWakes

-----------------------------------------------------------------------------
(* epochLoop and run.                                                      *)

\* harness.Run has returned; run cancels the context, which ends the watcher.
RunCancels ==
  /\ loop = "run" /\ harness \in {"closed", "failed"}
  /\ ctxDone' = TRUE
  /\ loop' = "load"
  /\ UNCHANGED <<inboxVars, pumpVars, clearCh, watchVars, harness, epoch, born, taken>>

RunLoads ==
  /\ loop = "load"
  /\ loop' = IF cleared THEN "release" ELSE "exit"
  /\ UNCHANGED <<inboxVars, pumpVars, clearCh, watchVars, ctxDone, harness, epoch, born, taken>>

LoopReleases ==
  /\ loop = "release"
  /\ ReleaseClear
  /\ loop' = IF ReleaseReportsClosed THEN "exit" ELSE "drain"
  /\ born' = clears
  /\ UNCHANGED <<pumpVars, clearCh, watchVars, ctxDone, harness, epoch, taken>>

\* Variant: the watcher is started once for the session, not once per epoch.
NextEpochUnwatched ==
  /\ loop = "drain"
  /\ clearCh' = 0
  /\ loop' = "run" /\ epoch' = epoch + 1 /\ harness' = "work"
  /\ cleared' = FALSE /\ ctxDone' = FALSE /\ killedBy' = 0
  /\ UNCHANGED <<inboxVars, pumpVars, watcher, born, taken>>

\* The stale-signal drain, then run with the primer: a new context and watcher.
NextEpoch ==
  /\ loop = "drain"
  /\ clearCh' = 0
  /\ loop' = "run" /\ epoch' = epoch + 1 /\ harness' = "work"
  /\ watcher' = "waiting" /\ cleared' = FALSE /\ ctxDone' = FALSE /\ killedBy' = 0
  /\ UNCHANGED <<inboxVars, pumpVars, born, taken>>

LoopStep == RunCancels \/ RunLoads \/ LoopReleases \/ NextEpoch

-----------------------------------------------------------------------------
Next ==
  \/ PumpMessage \/ PumpEOF \/ PumpPing \/ PumpClear \/ PumpNotify
  \/ WatcherTakes \/ WatcherCancels \/ WatcherLeaves
  \/ HarnessStep \/ RunFails \/ LoopStep

Spec == Init /\ [][Next]_vars

(***************************************************************************)
(* Fairness: every goroutine that can take a step does, and a turn of the  *)
(* model ends.  Frames come when the user sends them, and nothing obliges  *)
(* a model call to fail before its context is cancelled.                   *)
(***************************************************************************)
FairSpec ==
  /\ Spec
  /\ WF_vars(PumpPing) /\ WF_vars(PumpNotify)
  /\ WF_vars(WatcherTakes) /\ WF_vars(WatcherCancels)
  /\ WF_vars(TurnEnds) /\ WF_vars(WaitTakes) /\ WF_vars(WaitFindsClosed)
  /\ WF_vars(WaitParks) /\ WF_vars(WaitWakes) /\ WF_vars(RunFails /\ ctxDone)
  /\ WF_vars(LoopStep)

-----------------------------------------------------------------------------
(* Safety.                                                                 *)

TakenBy(n) == {taken[k][1] : k \in {j \in 1..Len(taken) : taken[j][2] = n}}

Queued(m) == \E k \in 1..Len(pending) : pending[k] = m

(***************************************************************************)
(* An epoch is never given a message read before the clear that the epoch  *)
(* follows, so nothing from before a /clear reaches the fresh conversation *)
(* (inbox.go:49, 138).                                                     *)
(***************************************************************************)
FreshEpoch == loop = "run" => \A m \in TakenBy(epoch) : gen[m] >= born

(***************************************************************************)
(* Messages are delivered in the order they were read, each at most once,  *)
(* and never to an earlier epoch than a message before them (inbox.go:83,  *)
(* 141: "stays queued, in order").                                         *)
(***************************************************************************)
InOrder ==
  \A j, k \in 1..Len(taken) : j < k =>
    taken[j][1] < taken[k][1] /\ taken[j][2] <= taken[k][2]

(***************************************************************************)
(* The epoch a clear ends has not taken a message read after that clear:   *)
(* it "belongs to the next epoch" (inbox.go:49).  It may have where a      *)
(* second clear has come before the first took effect.                     *)
(***************************************************************************)
NotSwallowed ==
  killedBy # 0 /\ ~hurried => \A m \in TakenBy(epoch) : gen[m] < killedBy

(***************************************************************************)
(* A message is lost only to a clear read after it: until the session is   *)
(* over, every other message read is queued or has been delivered          *)
(* (inbox.go:51, run.go:276).                                              *)
(***************************************************************************)
NoMessageLost ==
  \A m \in 1..read :
    gen[m] = clears => Queued(m) \/ \E n \in Epochs : m \in TakenBy(n)

(***************************************************************************)
(* The worker does not leave because stdin has ended while a message is    *)
(* queued: "Queued messages are always delivered before ErrInboxClosed"    *)
(* (inbox.go:99).  Messages behind a clear that has not taken effect yet   *)
(* are the exception.                                                      *)
(***************************************************************************)
ClosedMeansServed ==
  loop = "exit" /\ harness = "closed" /\ ~held => pending = <<>>

-----------------------------------------------------------------------------
(* Liveness.                                                               *)

(***************************************************************************)
(* No wake-up is lost: unless clears have come in too fast, a queued       *)
(* message is delivered, dropped by a clear, or the session ends           *)
(* (inbox.go:98, run.go:276).                                              *)
(***************************************************************************)
MessageSettles ==
  \A m \in Msgs : Queued(m) ~> ~Queued(m) \/ ~Alive \/ hurried

(***************************************************************************)
(* The same of every message, however fast clears come: one that arrives   *)
(* after a clear "reaches the next epoch's Wait/Drain in order"            *)
(* (run.go:277).                                                           *)
(***************************************************************************)
EveryMessageSettles == \A m \in Msgs : Queued(m) ~> ~Queued(m) \/ ~Alive

(***************************************************************************)
(* Every /clear takes effect: an epoch that follows it is started, unless  *)
(* the session ends or another clear has come in too fast (run.go:250).    *)
(***************************************************************************)
ClearTakesEffect ==
  \A k \in Clears : clears = k ~> (born >= k /\ loop = "run") \/ ~Alive \/ hurried

(***************************************************************************)
(* Seen from outside, the goroutines, their signals and the hold come to   *)
(* what Conversations promises: in order, once, never across a clear, and  *)
(* no conversation without a clear of its own (inbox.go:125, run.go:250).  *)
(***************************************************************************)
Promise == INSTANCE Conversations WITH
  heard <- read,
  waiting <- pending,
  mode <- IF loop = "exit" THEN "over" ELSE IF held THEN "held" ELSE "open",
  conversation <- IF loop = "drain" THEN epoch + 1 ELSE epoch,
  said <- taken

ImplementsConversations == Promise!Spec

=============================================================================
