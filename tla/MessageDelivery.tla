-------------------------- MODULE MessageDelivery --------------------------
(***************************************************************************)
(* POST /message and the stdin half of POST /chat/end (internal/webhook/   *)
(* chat.go) for one session: concurrent requests, each on a goroutine of   *)
(* its own, that write frames to, or close, the stdin of the session's     *)
(* container under the session's stdin mutex, deduplicate retries, and     *)
(* meet the container's exit half way.  Sessions do not touch each other   *)
(* here, since the mutex map and the dedup cache are keyed by session.     *)
(*                                                                         *)
(* The runs of the session are numbered in the order they are admitted;    *)
(* how a run starts and exits is Lifecycle's subject and is cut down to    *)
(* its stages, and the Docker calls that remove or stop a container do so. *)
(* A run is tracked, and takes messages, before its container is started.  *)
(* frames.Write, the dedup cache and the worker are external: the cache    *)
(* may take a record for expired whenever it is asked about it, as its     *)
(* time to live and its capacity are short next to a blocked write.        *)
(*                                                                         *)
(* Variant definitions are not part of the specification: each is the form *)
(* its neighbour would have under a plausible mistake.                     *)
(***************************************************************************)
EXTENDS Integers, FiniteSets

CONSTANTS
  Senders,      \* /message requests
  Enders,       \* /chat/end requests
  MsgIDs,       \* message ids
  SentIDs,      \* what requests carry: message ids, and the empty one if it is in use
  NoID,         \* the empty message id, which is never deduplicated
  NoOne,        \* no request
  MaxRuns,      \* runs of the session
  PipeSize,     \* frames the stdin path holds before a write blocks
  MaxExpiries,  \* bound: records of one message id that expire
  OwnExits      \* runs whose container may exit on its own

ASSUME RequestsAssumption ==
  /\ Senders \cap Enders = {} /\ NoOne \notin Senders \cup Enders
  /\ IsFiniteSet(Senders)
ASSUME IDsAssumption == NoID \notin MsgIDs /\ SentIDs \subseteq MsgIDs \cup {NoID}
ASSUME SizesAssumption == {MaxRuns, PipeSize, MaxExpiries} \subseteq Nat

Requests == Senders \cup Enders
Runs == 1..MaxRuns
Mutexes == 1..(MaxRuns + 1)
IDs == MsgIDs \cup {NoID}

VARIABLES
  current,  \* the session's tracker entry: a run, or 0
  stage,    \* run -> unborn; starting, up or failed; dropped, released, closed
  alive,    \* runs whose container is there and has not ended
  open,     \* run -> serve's end of its stdin is open
  pipe,     \* run -> frames written and not yet read by the worker
  mutex,    \* the session's entry in stdinMu: a mutex, or 0
  made,     \* mutexes created so far
  owner,    \* mutex -> the request that holds it, or NoOne
  dedup,    \* message ids the dedup cache has recorded
  expired,  \* message id -> records of it that have expired
  pc,       \* request -> control point
  run,      \* request -> the run it got from the tracker
  mu,       \* request -> the mutex it got from stdinLock
  id,       \* sender -> the message id it carries
  sent      \* message id -> frames of it written without an error

runVars == <<current, stage, alive, open, pipe>>
lockVars == <<mutex, made, owner>>
cacheVars == <<dedup, expired>>
reqVars == <<run, mu, id>>
vars == <<current, stage, alive, open, pipe, mutex, made, owner, dedup, expired,
          pc, run, mu, id, sent>>

TypeOK ==
  /\ current \in {0} \cup Runs
  /\ stage \in [Runs -> {"unborn", "starting", "up", "failed", "dropped", "released",
                          "closed"}]
  /\ alive \subseteq Runs
  /\ open \in [Runs -> BOOLEAN]
  /\ pipe \in [Runs -> 0..PipeSize]
  /\ mutex \in {0} \cup Mutexes /\ made \in {0} \cup Mutexes
  /\ owner \in [Mutexes -> Requests \cup {NoOne}]
  /\ dedup \subseteq MsgIDs
  /\ expired \in [MsgIDs -> 0..MaxExpiries]
  /\ pc \in [Requests -> {"idle", "got", "lock", "locked", "writing", "refused", "stop"}]
  /\ run \in [Requests -> {0} \cup Runs]
  /\ mu \in [Requests -> {0} \cup Mutexes]
  /\ id \in [Senders -> IDs]
  /\ sent \in [MsgIDs -> Nat]

Init ==
  /\ current = 0
  /\ stage = [r \in Runs |-> "unborn"]
  /\ alive = {}
  /\ open = [r \in Runs |-> FALSE]
  /\ pipe = [r \in Runs |-> 0]
  /\ mutex = 0 /\ made = 0
  /\ owner = [m \in Mutexes |-> NoOne]
  /\ dedup = {}
  /\ expired = [x \in MsgIDs |-> 0]
  /\ pc = [p \in Requests |-> "idle"]
  /\ run = [p \in Requests |-> 0]
  /\ mu = [p \in Requests |-> 0]
  /\ id = [p \in Senders |-> NoID]
  /\ sent = [x \in MsgIDs |-> 0]

-----------------------------------------------------------------------------
(* The runs of the session.                                                *)

\* Admitted.  Docker has refused to create the container while there was
\* another of its name.
Launch(r) ==
  /\ current = 0 /\ stage[r] = "unborn"
  /\ \A q \in Runs : stage[q] # "failed" /\ (q < r => stage[q] # "unborn")
  /\ current' = r
  /\ stage' = [stage EXCEPT ![r] = "starting"]
  /\ alive' = alive \cup {r}
  /\ open' = [open EXCEPT ![r] = TRUE]
  /\ UNCHANGED <<pipe, lockVars, cacheVars, pc, reqVars, sent>>

StartReturns(r) ==
  /\ stage[r] = "starting"
  /\ stage' = [stage EXCEPT ![r] = "up"]
  /\ UNCHANGED <<current, alive, open, pipe, lockVars, cacheVars, pc, reqVars, sent>>

\* The tracker entry goes first; no DropSession follows.
StartFails(r) ==
  /\ stage[r] = "starting"
  /\ stage' = [stage EXCEPT ![r] = "failed"]
  /\ current' = 0
  /\ UNCHANGED <<alive, open, pipe, lockVars, cacheVars, pc, reqVars, sent>>

\* attach.Close, then removeContainer.
Discard(r) ==
  /\ stage[r] = "failed"
  /\ stage' = [stage EXCEPT ![r] = "closed"]
  /\ alive' = alive \ {r}
  /\ open' = [open EXCEPT ![r] = FALSE]
  /\ pipe' = [pipe EXCEPT ![r] = 0]
  /\ UNCHANGED <<current, lockVars, cacheVars, pc, reqVars, sent>>

\* What is still in its stdin path goes with the container.
ContainerExits(r) ==
  /\ r \in OwnExits \cap alive
  /\ alive' = alive \ {r}
  /\ pipe' = [pipe EXCEPT ![r] = 0]
  /\ UNCHANGED <<current, stage, open, lockVars, cacheVars, pc, reqVars, sent>>

WorkerReads(r) ==
  /\ r \in alive /\ pipe[r] > 0
  /\ pipe' = [pipe EXCEPT ![r] = @ - 1]
  /\ UNCHANGED <<current, stage, alive, open, lockVars, cacheVars, pc, reqVars, sent>>

\* DropSession deletes the mutex; the dedup cache keeps the session's ids.
DropSession(r) ==
  /\ stage[r] = "up" /\ r \notin alive
  /\ stage' = [stage EXCEPT ![r] = "dropped"]
  /\ mutex' = 0
  /\ UNCHANGED <<current, alive, open, pipe, made, owner, cacheVars, pc, reqVars, sent>>

Untrack(r) ==
  /\ stage[r] = "dropped"
  /\ stage' = [stage EXCEPT ![r] = "released"]
  /\ current' = 0
  /\ UNCHANGED <<alive, open, pipe, lockVars, cacheVars, pc, reqVars, sent>>

CloseAttach(r) ==
  /\ stage[r] = "released"
  /\ stage' = [stage EXCEPT ![r] = "closed"]
  /\ open' = [open EXCEPT ![r] = FALSE]
  /\ UNCHANGED <<current, alive, pipe, lockVars, cacheVars, pc, reqVars, sent>>

StartStep(r) == StartReturns(r) \/ StartFails(r) \/ Discard(r)

SupervisorStep(r) == DropSession(r) \/ Untrack(r) \/ CloseAttach(r)

-----------------------------------------------------------------------------
(* Requests.                                                               *)

Go(p, from, to) == pc[p] = from /\ pc' = [pc EXCEPT ![p] = to]

\* tracker.Get; an untracked session is answered at once.
MessageGet(p, x) ==
  /\ current # 0
  /\ Go(p, "idle", "got")
  /\ run' = [run EXCEPT ![p] = current]
  /\ id' = [id EXCEPT ![p] = x]
  /\ UNCHANGED <<runVars, lockVars, cacheVars, mu, sent>>

EndGet(p) ==
  /\ current # 0
  /\ Go(p, "idle", "got")
  /\ run' = [run EXCEPT ![p] = current]
  /\ UNCHANGED <<runVars, lockVars, cacheVars, mu, id, sent>>

\* stdinLock: LoadOrStore.
StdinLock(p) ==
  /\ Go(p, "got", "lock")
  /\ IF mutex = 0
     THEN made' = made + 1 /\ mutex' = made'
     ELSE UNCHANGED <<made, mutex>>
  /\ mu' = [mu EXCEPT ![p] = mutex']
  /\ UNCHANGED <<runVars, owner, cacheVars, run, id, sent>>

\* Variant: the mutex is not locked.
LockUnchecked(p) ==
  /\ Go(p, "lock", "locked")
  /\ owner' = [owner EXCEPT ![mu[p]] = p]
  /\ UNCHANGED <<runVars, mutex, made, cacheVars, reqVars, sent>>

Lock(p) ==
  /\ Go(p, "lock", "locked")
  /\ owner[mu[p]] = NoOne
  /\ owner' = [owner EXCEPT ![mu[p]] = p]
  /\ UNCHANGED <<runVars, mutex, made, cacheVars, reqVars, sent>>

Unlock(p) == owner' = [owner EXCEPT ![mu[p]] = NoOne] /\ UNCHANGED <<mutex, made>>

\* The request has answered; what it held is forgotten.
Return(p) ==
  /\ run' = [run EXCEPT ![p] = 0]
  /\ mu' = [mu EXCEPT ![p] = 0]
  /\ id' = IF p \in Senders THEN [id EXCEPT ![p] = NoID] ELSE id

\* Variant: the early return does not unlock.
AckKeepingLock(p) ==
  /\ id[p] \in dedup
  /\ Go(p, "locked", "idle")
  /\ Return(p)
  /\ UNCHANGED <<runVars, lockVars, cacheVars, sent>>

\* A retry of a message already recorded is acknowledged without a write.
AckDuplicate(p) ==
  /\ id[p] \in dedup
  /\ Go(p, "locked", "idle")
  /\ Unlock(p) /\ Return(p)
  /\ UNCHANGED <<runVars, cacheVars, sent>>

\* The cache is asked about the id: an unknown or expired one is new to it.
Unrecorded(p) ==
  \/ id[p] \notin dedup /\ UNCHANGED expired
  \/ /\ id[p] \in dedup /\ expired[id[p]] < MaxExpiries
     /\ expired' = [expired EXCEPT ![id[p]] = @ + 1]

\* Variant: delivered ids are not recorded.
RecordNothing(p) ==
  /\ p \in Senders
  /\ Unrecorded(p)
  /\ Go(p, "locked", "writing") \/ Go(p, "locked", "refused")
  /\ UNCHANGED <<runVars, lockVars, reqVars, dedup, sent>>

\* Checked and recorded; frames.Write refuses a frame that is too large outright.
Record(p) ==
  /\ p \in Senders
  /\ Unrecorded(p)
  /\ Go(p, "locked", "writing") \/ Go(p, "locked", "refused")
  /\ dedup' = dedup \cup ({id[p]} \ {NoID})
  /\ UNCHANGED <<runVars, lockVars, reqVars, sent>>

\* A write to a container that is gone may still be taken by the connection.
WriteSucceeds(p) ==
  /\ Go(p, "writing", "idle")
  /\ open[run[p]]
  /\ IF run[p] \in alive
     THEN pipe[run[p]] < PipeSize /\ pipe' = [pipe EXCEPT ![run[p]] = @ + 1]
     ELSE UNCHANGED pipe
  /\ sent' = IF id[p] = NoID THEN sent ELSE [sent EXCEPT ![id[p]] = @ + 1]
  /\ Unlock(p) /\ Return(p)
  /\ UNCHANGED <<current, stage, alive, open, cacheVars>>

WriteBroken(p) == ~open[run[p]] \/ run[p] \notin alive

\* Variant: the record of a failed write stays.
WriteFailsNoRollback(p) ==
  /\ \/ Go(p, "refused", "idle")
     \/ Go(p, "writing", "idle") /\ WriteBroken(p)
  /\ Unlock(p) /\ Return(p)
  /\ UNCHANGED <<runVars, sent, cacheVars>>

\* The dedup record is rolled back before the mutex is released.
WriteFails(p) ==
  /\ \/ Go(p, "refused", "idle")
     \/ Go(p, "writing", "idle") /\ WriteBroken(p)
  /\ dedup' = dedup \ {id[p]}
  /\ Unlock(p) /\ Return(p)
  /\ UNCHANGED <<runVars, expired, sent>>

SendStep(p) ==
  StdinLock(p) \/ Lock(p) \/ AckDuplicate(p) \/ Record(p) \/ WriteSucceeds(p) \/ WriteFails(p)

CloseStdin(p) ==
  /\ p \in Enders
  /\ Go(p, "locked", "stop")
  /\ open' = [open EXCEPT ![run[p]] = FALSE]
  /\ Unlock(p)
  /\ UNCHANGED <<current, stage, alive, pipe, cacheVars, reqVars, sent>>

\* Variant: stdin is closed and nothing more.
StopNothing(p) ==
  /\ Go(p, "stop", "idle")
  /\ Return(p)
  /\ UNCHANGED <<runVars, lockVars, cacheVars, sent>>

\* executor.Stop, by session: whichever run is tracked now.  A container that
\* is not running yet is not touched.
StopContainer(p) ==
  /\ Go(p, "stop", "idle")
  /\ \/ alive' = alive \ {current}
     \/ current # 0 /\ stage[current] = "starting" /\ UNCHANGED alive
  /\ pipe' = [r \in Runs |-> IF r \in alive' THEN pipe[r] ELSE 0]
  /\ Return(p)
  /\ UNCHANGED <<current, stage, open, lockVars, cacheVars, sent>>

EndStep(p) == StdinLock(p) \/ Lock(p) \/ CloseStdin(p) \/ StopContainer(p)

-----------------------------------------------------------------------------
Next ==
  \/ \E r \in Runs : \/ Launch(r) \/ StartStep(r) \/ ContainerExits(r) \/ WorkerReads(r)
                    \/ SupervisorStep(r)
  \/ \E p \in Senders : SendStep(p) \/ \E x \in SentIDs : MessageGet(p, x)
  \/ \E p \in Enders : EndGet(p) \/ EndStep(p)

Spec == Init /\ [][Next]_vars

(***************************************************************************)
(* Fairness: a request takes the steps it can take.  sync.Mutex hands over *)
(* to a waiter that has waited long enough, hence strong fairness of the   *)
(* Lock of an end; nothing of the kind is needed of the senders, nor of    *)
(* supervision.  Only ReadingSpec has a worker that is up read its stdin;  *)
(* there ContainerStart returns too, and a failed start is undone.         *)
(***************************************************************************)
FairSpec ==
  /\ Spec
  /\ \A p \in Senders : WF_vars(SendStep(p))
  /\ \A p \in Enders : WF_vars(EndStep(p)) /\ SF_vars(Lock(p))

ReadingSpec ==
  /\ FairSpec
  /\ WF_vars(\E r \in Runs : StartStep(r))
  /\ WF_vars(\E r \in Runs : stage[r] = "up" /\ WorkerReads(r))

-----------------------------------------------------------------------------
(* Properties.                                                             *)

UsesStdin(p) == pc[p] = "writing" \/ (p \in Enders /\ pc[p] = "locked")

\* A sender is answered "duplicate"; an end is answered.
Acknowledged(p) == pc[p] = "locked" /\ pc'[p] = "idle"
EndAnswered(p) == pc[p] = "stop" /\ pc'[p] = "idle"

\* The senders of an id that have recorded it and not yet written or rolled back.
Undecided(x) == {q \in Senders : id[q] = x /\ pc[q] \in {"writing", "refused"}}

(***************************************************************************)
(* The stdin of a container that is alive has one user at a time, so       *)
(* frames never interleave on the wire, even though the mutex that sees to *)
(* it is deleted and recreated as runs come and go (tracker.go:17,         *)
(* handler.go:212).                                                        *)
(***************************************************************************)
OneLiveWriter ==
  \A p, q \in Requests :
    p # q /\ UsesStdin(p) /\ UsesStdin(q) /\ run[p] = run[q] => run[p] \notin alive

(***************************************************************************)
(* A message id is written once, and once more for each of its records     *)
(* that the cache has let expire, whatever retries, failed writes and      *)
(* restarts of the session there are (chat.go:459: concurrent retries      *)
(* "cannot both pass the check and deliver the frame twice").  A rollback  *)
(* may well take away a record that another request has made since.        *)
(***************************************************************************)
AtMostOnce == \A x \in MsgIDs : sent[x] <= 1 + expired[x]

(***************************************************************************)
(* A retry is answered "duplicate" only if the message has been written:   *)
(* never "a duplicate-ack for a frame that never delivered" (chat.go:506). *)
(***************************************************************************)
DuplicateMeansDelivered ==
  [][\A p \in Senders : Acknowledged(p) => sent[id[p]] > 0]_vars

(***************************************************************************)
(* On a container that is alive the same holds but for one case: a sender  *)
(* to another run of the session still has its write of the id ahead.      *)
(* Within one run the mutex spans check, record, write and rollback        *)
(* (chat.go:487).                                                          *)
(***************************************************************************)
LiveDuplicateMeansDelivered ==
  [][\A p \in Senders :
       Acknowledged(p) /\ run[p] \in alive =>
         \/ sent[id[p]] > 0
         \/ \E q \in Undecided(id[p]) : run[q] # run[p]]_vars

(***************************************************************************)
(* A /chat/end that finds the session tracked gets as far as stopping the  *)
(* container, and answers (chat.go:405).                                   *)
(***************************************************************************)
EndGetsThrough == \A p \in Enders : pc[p] = "got" ~> pc[p] = "idle"

(***************************************************************************)
(* The container that /chat/end found is alive no more when the request is *)
(* answered: Stop looks the session up again after stdin has been closed,  *)
(* and by then it may have ended, or be another run (chat.go:415, 434).    *)
(* Two cases remain: its start is still in progress, or has failed and is  *)
(* being undone.  It is the daemon's part to stop what it is told to:      *)
(* StopContainer succeeds (Lifecycle has the stop that fails).             *)
(***************************************************************************)
EndStopsItsRun ==
  [][\A p \in Enders :
       EndAnswered(p) => run[p] \notin alive' \/ stage[run[p]] \in {"starting", "failed"}]_vars

-----------------------------------------------------------------------------
(***************************************************************************)
(* The runs keep to SessionRuns, for the one session, as the service's do  *)
(* in Lifecycle. What they leave out of that contract is stated by their   *)
(* guards: a run is used once, in the order of the numbers, only those of  *)
(* OwnExits end by themselves, and the process does not end.               *)
(***************************************************************************)
Lives == INSTANCE SessionRuns WITH
  Sessions <- {1},
  SessionOf <- [r \in Runs |-> 1],
  NoRun <- 0,
  current <- [s \in {1} |-> current],
  stage <- [r \in Runs |-> IF stage[r] \in {"unborn", "closed"} THEN "off" ELSE stage[r]]

ImplementsRuns == Lives!Spec

(***************************************************************************)
(* Delivery as the client may count on it: the requests, with all their    *)
(* locking, take up, write and withdraw message ids as Deliveries has it.  *)
(***************************************************************************)
Promise == INSTANCE Deliveries WITH
  recorded <- dedup,
  ahead <- [x \in MsgIDs |-> Undecided(x)]

ImplementsDeliveries == Promise!Spec

=============================================================================
