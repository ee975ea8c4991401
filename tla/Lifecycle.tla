----------------------------- MODULE Lifecycle -----------------------------
(***************************************************************************)
(* The life of a chat session's container in `contextmatrix-chat serve`:   *)
(* the /chat/start and /chat/end handlers (internal/webhook/chat.go), the  *)
(* Docker executor with its per-run supervision (internal/executor/        *)
(* docker.go), and process shutdown and boot (internal/cli/serve.go), over *)
(* the shared Tracker.  The Docker daemon, the log bridge's redactor       *)
(* registry and the LLM proxy are external: they are modelled from the     *)
(* calls this code makes.                                                  *)
(*                                                                         *)
(* A run i is one /chat/start request together with the container it may   *)
(* create.  pc[i] is where its HTTP handler is and, once the container has *)
(* started, where its supervision goroutine (waitAndCleanup) is: Launch    *)
(* hands over from the one to the other.  A run that is over may be        *)
(* reused, so behaviours do not end.                                       *)
(***************************************************************************)
EXTENDS Tracker

CONSTANTS
  Ends,    \* /chat/end requests
  NameOf,  \* containerName: the Docker name of a session's container
  Serial,  \* TRUE: ContextMatrix has one lifecycle request per session in flight
  Faults   \* the environment's misbehaviour this instance allows

FaultKinds == {
  "createLost",   \* the daemon creates a container but the call reports an error
  "remove",       \* ContainerRemove or ContainerList fails
  "kill",         \* ContainerStop or ContainerKill fails
  "rmdir",        \* os.RemoveAll fails
  "drainBound",   \* pumpDrainTimeout expires before the output pump is done
  "shutdown",     \* the process is told to stop
  "httpTimeout",  \* httpShutdownTimeout expires with requests in flight
  "crash" }       \* the process dies

ASSUME SerialAssumption == Serial \in BOOLEAN
ASSUME FaultsAssumption == Faults \subseteq FaultKinds
ASSUME NameAssumption == DOMAIN NameOf = Sessions

VARIABLES
  pc,         \* run -> control point of its handler or supervision goroutine
  container,  \* run -> its container, as the daemon has it
  backlog,    \* run -> output is waiting in the attach stream for the pump
  secrets,    \* session -> runs whose secrets the redactor registry holds
  tokens,     \* session -> runs whose LLM proxy token is valid
  runDir,     \* sessions whose run directory exists
  epc,        \* end request -> control point
  found,      \* end request -> the run handleChatEnd got from the tracker
  target,     \* end request -> the run Stop got from the tracker
  phase,      \* the serve process: up, drain, kill, down
  killing     \* runs gracefulShutdown still has to kill

memory == <<secrets, tokens>>
endVars == <<epc, found, target>>
procVars == <<phase, killing>>
vars == <<byKey, reason, pc, container, backlog, secrets, tokens, runDir,
          epc, found, target, phase, killing>>

HandlerPoints == {
  "received", "checked", "prepared", "staged", "registered", "armed", "created",
  "attached", "admitted", "untrack", "undo", "discard", "forget", "revoke",
  "cleanup" }

SupervisorPoints == {
  "wait", "remove", "drain", "teardown", "forgetExit", "revokeExit", "release",
  "close" }

TypeOK ==
  /\ TrackerTypeOK
  /\ pc \in [Runs -> {"idle"} \cup HandlerPoints \cup SupervisorPoints]
  /\ container \in [Runs -> {"none", "created", "running", "exited"}]
  /\ backlog \in [Runs -> BOOLEAN]
  /\ secrets \in [Sessions -> SUBSET Runs]
  /\ tokens \in [Sessions -> SUBSET Runs]
  /\ runDir \subseteq Sessions
  /\ epc \in [Ends -> {"idle", "stop", "reason", "signal"}]
  /\ found \in [Ends -> Runs \cup {NoRun}]
  /\ target \in [Ends -> Runs \cup {NoRun}]
  /\ \A e \in Ends : epc[e] # "idle" => found[e] \in Runs
  /\ \A e \in Ends : epc[e] \in {"reason", "signal"} => target[e] \in Runs
  /\ phase \in {"up", "drain", "kill", "down"}
  /\ killing \subseteq Runs

Init ==
  /\ NewTracker
  /\ pc = [i \in Runs |-> "idle"]
  /\ container = [i \in Runs |-> "none"]
  /\ backlog = [i \in Runs |-> FALSE]
  /\ secrets = [s \in Sessions |-> {}]
  /\ tokens = [s \in Sessions |-> {}]
  /\ runDir = {}
  /\ epc = [e \in Ends |-> "idle"]
  /\ found = [e \in Ends |-> NoRun]
  /\ target = [e \in Ends |-> NoRun]
  /\ phase = "up"
  /\ killing = {}

-----------------------------------------------------------------------------
(* Steps the actions below are made of.                                    *)

Go(i, from, to) == pc[i] = from /\ pc' = [pc EXCEPT ![i] = to]

\* No lifecycle request for session s is being handled.
Quiet(s) ==
  /\ \A i \in Runs : SessionOf[i] = s => pc[i] \notin HandlerPoints
  /\ \A e \in Ends : epc[e] # "idle" => SessionOf[found[e]] # s

\* Docker refuses a second container of the same name.
NameFree(i) ==
  \A j \in Runs : container[j] # "none" => NameOf[SessionOf[j]] # NameOf[SessionOf[i]]

\* ContainerRemove with Force, its failure only logged.
RemoveContainer(i) ==
  \/ container' = [container EXCEPT ![i] = "none"]
  \/ "remove" \in Faults /\ UNCHANGED container

\* What a SIGTERM or SIGKILL leaves: a container that is not running is not touched.
Signalled(i) == IF container[i] = "running" THEN "exited" ELSE container[i]

KillContainer(i) ==
  \/ container' = [container EXCEPT ![i] = Signalled(i)]
  \/ "kill" \in Faults /\ UNCHANGED container

RemoveSessionKey(s) == secrets' = [secrets EXCEPT ![s] = {}]

Revoke(s) == tokens' = [tokens EXCEPT ![s] = {}]

RemoveRunDir(s) ==
  \/ runDir' = runDir \ {s}
  \/ "rmdir" \in Faults /\ UNCHANGED runDir

-----------------------------------------------------------------------------
(***************************************************************************)
(* POST /chat/start.  The two checks at the top are separate locked reads  *)
(* of the tracker; a request either refuses leaves no trace.               *)
(***************************************************************************)
CapacityCheck(i) ==
  /\ phase = "up"
  /\ container[i] = "none"
  /\ Serial => Quiet(SessionOf[i])
  /\ Count < MaxConcurrent
  /\ Go(i, "idle", "received")
  /\ UNCHANGED <<byKey, reason, container, backlog, memory, runDir, endVars, procVars>>

\* 409 for a tracked session, 500 when a credential was not provisioned.
ConflictCheck(i) ==
  /\ \/ byKey[SessionOf[i]] = NoRun /\ Go(i, "received", "checked")
     \/ Go(i, "received", "idle")
  /\ UNCHANGED <<byKey, reason, container, backlog, memory, runDir, endVars, procVars>>

MakeRunDir(i) ==
  /\ \/ Go(i, "checked", "prepared") /\ runDir' = runDir \cup {SessionOf[i]}
     \/ Go(i, "checked", "idle") /\ UNCHANGED runDir
  /\ UNCHANGED <<byKey, reason, container, backlog, memory, endVars, procVars>>

\* Variant: the run directory is not removed on this path.
WriteResumeNoCleanup(i) ==
  /\ Go(i, "prepared", "staged") \/ Go(i, "prepared", "idle")
  /\ UNCHANGED <<byKey, reason, container, backlog, memory, runDir, endVars, procVars>>

\* A start without a resume context writes nothing and cannot fail here.
WriteResume(i) ==
  /\ Go(i, "prepared", "staged") \/ Go(i, "prepared", "cleanup")
  /\ UNCHANGED <<byKey, reason, container, backlog, memory, runDir, endVars, procVars>>

RegisterToken(i) ==
  /\ \/ /\ Go(i, "staged", "registered")
        /\ tokens' = [tokens EXCEPT ![SessionOf[i]] = @ \cup {i}]
     \/ Go(i, "staged", "cleanup") /\ UNCHANGED tokens
  /\ UNCHANGED <<byKey, reason, container, backlog, secrets, runDir, endVars, procVars>>

\* The AddSessionKey calls, then the best-effort task-skills fetch.
ArmSecrets(i) ==
  /\ Go(i, "registered", "armed")
  /\ secrets' = [secrets EXCEPT ![SessionOf[i]] = @ \cup {i}]
  /\ UNCHANGED <<byKey, reason, container, backlog, tokens, runDir, endVars, procVars>>

(***************************************************************************)
(* executor.Launch.                                                        *)
(***************************************************************************)
CreateContainer(i) ==
  /\ \/ /\ NameFree(i)
        /\ container' = [container EXCEPT ![i] = "created"]
        /\ \/ Go(i, "armed", "created")
           \/ "createLost" \in Faults /\ Go(i, "armed", "forget")
     \/ Go(i, "armed", "forget") /\ UNCHANGED container
  /\ UNCHANGED <<byKey, reason, backlog, memory, runDir, endVars, procVars>>

AttachContainer(i) ==
  /\ Go(i, "created", "attached") \/ Go(i, "created", "discard")
  /\ UNCHANGED <<byKey, reason, container, backlog, memory, runDir, endVars, procVars>>

Admit(i) ==
  /\ IF Admits(SessionOf[i])
     THEN Go(i, "attached", "admitted") /\ AddIfUnderLimit(i)
     ELSE Go(i, "attached", "discard") /\ UNCHANGED <<byKey, reason>>
  /\ UNCHANGED <<container, backlog, memory, runDir, endVars, procVars>>

\* A start that reports an error may have taken effect all the same.
StartContainer(i) ==
  /\ \/ /\ container' = [container EXCEPT ![i] = "running"]
        /\ Go(i, "admitted", "wait") \/ Go(i, "admitted", "untrack")
     \/ Go(i, "admitted", "untrack") /\ UNCHANGED container
  /\ UNCHANGED <<byKey, reason, backlog, memory, runDir, endVars, procVars>>

UntrackFailedStart(i) ==
  /\ Go(i, "untrack", "undo")
  /\ Remove(SessionOf[i])
  /\ UNCHANGED <<container, backlog, memory, runDir, endVars, procVars>>

\* Variant: every failure path of Launch clears the tracker entry.
DiscardUntracking(i) ==
  /\ Go(i, "discard", "forget") \/ Go(i, "undo", "forget")
  /\ Remove(SessionOf[i])
  /\ RemoveContainer(i)
  /\ UNCHANGED <<backlog, memory, runDir, endVars, procVars>>

\* Of a run that was not admitted, or of one whose start has failed.
DiscardContainer(i) ==
  /\ Go(i, "discard", "forget") \/ Go(i, "undo", "forget")
  /\ RemoveContainer(i)
  /\ UNCHANGED <<byKey, reason, backlog, memory, runDir, endVars, procVars>>

(***************************************************************************)
(* handleChatStart's failure path: everything it undoes is keyed by the    *)
(* session, not by the request.                                            *)
(***************************************************************************)
\* Variant: the secrets of a failed start stay registered.
ForgetNothing(i) ==
  /\ Go(i, "forget", "revoke")
  /\ UNCHANGED <<byKey, reason, container, backlog, memory, runDir, endVars, procVars>>

ForgetSecrets(i) ==
  /\ Go(i, "forget", "revoke")
  /\ RemoveSessionKey(SessionOf[i])
  /\ UNCHANGED <<byKey, reason, container, backlog, tokens, runDir, endVars, procVars>>

RevokeToken(i) ==
  /\ Go(i, "revoke", "cleanup")
  /\ Revoke(SessionOf[i])
  /\ UNCHANGED <<byKey, reason, container, backlog, secrets, runDir, endVars, procVars>>

CleanupRunDir(i) ==
  /\ Go(i, "cleanup", "idle")
  /\ RemoveRunDir(SessionOf[i])
  /\ UNCHANGED <<byKey, reason, container, backlog, memory, endVars, procVars>>

StartStep(i) ==
  \/ ConflictCheck(i) \/ MakeRunDir(i) \/ WriteResume(i) \/ RegisterToken(i)
  \/ ArmSecrets(i) \/ CreateContainer(i) \/ AttachContainer(i) \/ Admit(i)
  \/ StartContainer(i) \/ UntrackFailedStart(i) \/ DiscardContainer(i)
  \/ ForgetSecrets(i) \/ RevokeToken(i) \/ CleanupRunDir(i)

-----------------------------------------------------------------------------
(***************************************************************************)
(* The container, its output pump, and waitAndCleanup.                     *)
(***************************************************************************)
ContainerExits(i) ==
  /\ container[i] = "running"
  /\ container' = [container EXCEPT ![i] = "exited"]
  /\ UNCHANGED <<byKey, reason, pc, backlog, memory, runDir, endVars, procVars>>

ContainerWrites(i) ==
  /\ container[i] = "running"
  /\ pc[i] \in SupervisorPoints
  /\ backlog' = [backlog EXCEPT ![i] = TRUE]
  /\ UNCHANGED <<byKey, reason, pc, container, memory, runDir, endVars, procVars>>

\* The pump bridges what the stream holds, masked with the registry of the moment.
PumpOutput(i) ==
  /\ backlog[i]
  /\ backlog' = [backlog EXCEPT ![i] = FALSE]
  /\ UNCHANGED <<byKey, reason, pc, container, memory, runDir, endVars, procVars>>

PumpDone(i) == container[i] # "running" /\ ~backlog[i]

WaitReturns(i) ==
  /\ container[i] # "running"
  /\ Go(i, "wait", "remove")
  /\ UNCHANGED <<byKey, reason, container, backlog, memory, runDir, endVars, procVars>>

WaitFails(i) ==
  /\ Go(i, "wait", "remove")
  /\ KillContainer(i)
  /\ UNCHANGED <<byKey, reason, backlog, memory, runDir, endVars, procVars>>

\* Variant: OnExit does not wait for the output pump.
ForceRemoveThenExit(i) ==
  /\ Go(i, "remove", "teardown")
  /\ RemoveContainer(i)
  /\ UNCHANGED <<byKey, reason, backlog, memory, runDir, endVars, procVars>>

ForceRemove(i) ==
  /\ Go(i, "remove", "drain")
  /\ RemoveContainer(i)
  /\ UNCHANGED <<byKey, reason, backlog, memory, runDir, endVars, procVars>>

\* Variant: the session is released before its cleanup.
DrainReleasingFirst(i) ==
  /\ PumpDone(i) \/ "drainBound" \in Faults
  /\ Go(i, "drain", "teardown")
  /\ Remove(SessionOf[i])
  /\ UNCHANGED <<container, backlog, memory, runDir, endVars, procVars>>

\* Variant: the wait for the pump has no bound.
DrainUnbounded(i) ==
  /\ PumpDone(i)
  /\ Go(i, "drain", "teardown")
  /\ UNCHANGED <<byKey, reason, container, backlog, memory, runDir, endVars, procVars>>

Drain(i) ==
  /\ PumpDone(i) \/ "drainBound" \in Faults
  /\ Go(i, "drain", "teardown")
  /\ UNCHANGED <<byKey, reason, container, backlog, memory, runDir, endVars, procVars>>

\* OnExit: chatExit, then Server.DropSession.
Teardown(i) ==
  /\ Go(i, "teardown", "forgetExit")
  /\ RemoveRunDir(SessionOf[i])
  /\ UNCHANGED <<byKey, reason, container, backlog, memory, endVars, procVars>>

ForgetExit(i) ==
  /\ Go(i, "forgetExit", "revokeExit")
  /\ RemoveSessionKey(SessionOf[i])
  /\ UNCHANGED <<byKey, reason, container, backlog, tokens, runDir, endVars, procVars>>

RevokeExit(i) ==
  /\ Go(i, "revokeExit", "release")
  /\ Revoke(SessionOf[i])
  /\ UNCHANGED <<byKey, reason, container, backlog, secrets, runDir, endVars, procVars>>

Release(i) ==
  /\ Go(i, "release", "close")
  /\ Remove(SessionOf[i])
  /\ UNCHANGED <<container, backlog, memory, runDir, endVars, procVars>>

\* The deferred attach.Close: what the pump has not read is lost.
CloseAttach(i) ==
  /\ Go(i, "close", "idle")
  /\ backlog' = [backlog EXCEPT ![i] = FALSE]
  /\ UNCHANGED <<byKey, reason, container, memory, runDir, endVars, procVars>>

SupervisorStep(i) ==
  \/ WaitReturns(i) \/ ForceRemove(i) \/ Drain(i) \/ Teardown(i) \/ ForgetExit(i)
  \/ RevokeExit(i) \/ Release(i) \/ CloseAttach(i)

-----------------------------------------------------------------------------
(***************************************************************************)
(* POST /chat/end: handleChatEnd finds the run, then Stop looks the        *)
(* session up again, records the reason and stops what it found.  An       *)
(* untracked session is answered 200 and leaves no trace.  Closing stdin,  *)
(* between the two lookups, does not end the container.                    *)
(***************************************************************************)
EndReturns(e) ==
  /\ epc' = [epc EXCEPT ![e] = "idle"]
  /\ found' = [found EXCEPT ![e] = NoRun]
  /\ target' = [target EXCEPT ![e] = NoRun]

EndGet(e, s) ==
  /\ phase \in {"up", "drain"}
  /\ epc[e] = "idle"
  /\ byKey[s] # NoRun
  /\ Serial => Quiet(s)
  /\ epc' = [epc EXCEPT ![e] = "stop"]
  /\ found' = [found EXCEPT ![e] = byKey[s]]
  /\ UNCHANGED <<byKey, reason, pc, container, backlog, memory, runDir, target, procVars>>

StopGet(e) ==
  /\ epc[e] = "stop"
  /\ LET run == byKey[SessionOf[found[e]]] IN
       IF run = NoRun
       THEN EndReturns(e)
       ELSE /\ target' = [target EXCEPT ![e] = run]
            /\ epc' = [epc EXCEPT ![e] = "reason"]
            /\ UNCHANGED found
  /\ UNCHANGED <<byKey, reason, pc, container, backlog, memory, runDir, procVars>>

StopReason(e) ==
  /\ epc[e] = "reason"
  /\ epc' = [epc EXCEPT ![e] = "signal"]
  /\ SetReason(SessionOf[target[e]], "ended")
  /\ UNCHANGED <<pc, container, backlog, memory, runDir, found, target, procVars>>

\* Variant: the container is not stopped.
SignalNothing(e) ==
  /\ epc[e] = "signal"
  /\ EndReturns(e)
  /\ UNCHANGED <<byKey, reason, pc, container, backlog, memory, runDir, procVars>>

StopSignal(e) ==
  /\ epc[e] = "signal"
  /\ EndReturns(e)
  /\ KillContainer(target[e])
  /\ UNCHANGED <<byKey, reason, pc, backlog, memory, runDir, procVars>>

EndStep(e) == StopGet(e) \/ StopReason(e) \/ StopSignal(e)

-----------------------------------------------------------------------------
(***************************************************************************)
(* The process: gracefulShutdown, a crash, and the next boot.              *)
(***************************************************************************)
StartDraining ==
  /\ "shutdown" \in Faults
  /\ phase = "up"
  /\ phase' = "drain"
  /\ UNCHANGED <<byKey, reason, pc, container, backlog, memory, runDir, endVars, killing>>

RequestsDone ==
  /\ \A i \in Runs : pc[i] \notin HandlerPoints
  /\ \A e \in Ends : epc[e] = "idle"

\* Variant: the tracker is read without waiting for the requests in flight.
HttpDownAtOnce ==
  /\ phase = "drain"
  /\ phase' = "kill"
  /\ killing' = {byKey[s] : s \in Tracked}
  /\ UNCHANGED <<byKey, reason, pc, container, backlog, memory, runDir, endVars>>

\* http.Server.Shutdown has returned and tracker.List has been read.
HttpDown ==
  /\ phase = "drain"
  /\ RequestsDone \/ "httpTimeout" \in Faults
  /\ phase' = "kill"
  /\ killing' = {byKey[s] : s \in Tracked}
  /\ UNCHANGED <<byKey, reason, pc, container, backlog, memory, runDir, endVars>>

(***************************************************************************)
(* One round of the loop over the snapshot: Kill by session, then remove   *)
(* the run directory.  The supervision steps that can come in between      *)
(* remove the same directory, so the round is one action.                  *)
(***************************************************************************)
KillTracked(r) ==
  /\ phase = "kill" /\ r \in killing
  /\ killing' = killing \ {r}
  /\ SetReason(SessionOf[r], "killed")
  /\ LET tracked == byKey[SessionOf[r]] IN
       IF tracked = NoRun THEN UNCHANGED container ELSE KillContainer(tracked)
  /\ RemoveRunDir(SessionOf[r])
  /\ UNCHANGED <<pc, backlog, memory, endVars, phase>>

LoseMemory ==
  /\ ResetTracker
  /\ pc' = [i \in Runs |-> "idle"]
  /\ backlog' = [i \in Runs |-> FALSE]
  /\ secrets' = [s \in Sessions |-> {}]
  /\ tokens' = [s \in Sessions |-> {}]
  /\ epc' = [e \in Ends |-> "idle"]
  /\ found' = [e \in Ends |-> NoRun]
  /\ target' = [e \in Ends |-> NoRun]
  /\ killing' = {}
  /\ phase' = "down"
  /\ UNCHANGED <<container, runDir>>

ProcessExit == phase = "kill" /\ killing = {} /\ LoseMemory

Crash == "crash" \in Faults /\ phase # "down" /\ LoseMemory

\* Variant: boot does not call CleanupOrphans.
BootWithoutSweep ==
  /\ phase = "down"
  /\ phase' = "up"
  /\ UNCHANGED <<byKey, reason, pc, container, backlog, memory, runDir, endVars, killing>>

\* CleanupOrphans removes every chat container; the run directories stay.
Boot ==
  /\ phase = "down"
  /\ phase' = "up"
  /\ \E kept \in SUBSET Runs :
       /\ "remove" \notin Faults => kept = {}
       /\ container' = [i \in Runs |-> IF i \in kept THEN container[i] ELSE "none"]
  /\ UNCHANGED <<byKey, reason, pc, backlog, memory, runDir, endVars, killing>>

-----------------------------------------------------------------------------
RunStep(i) ==
  \/ CapacityCheck(i) \/ StartStep(i) \/ SupervisorStep(i) \/ WaitFails(i)
  \/ ContainerExits(i) \/ ContainerWrites(i) \/ PumpOutput(i)

Next ==
  \/ \E i \in Runs : RunStep(i) \/ KillTracked(i)
  \/ \E e \in Ends : EndStep(e) \/ \E s \in Sessions : EndGet(e, s)
  \/ StartDraining \/ HttpDown \/ ProcessExit \/ Crash \/ Boot

Spec == Init /\ [][Next]_vars

(***************************************************************************)
(* Fairness: a goroutine that can run does, and the calls it makes return. *)
(* Nothing obliges a client to send a request, a container to write or to  *)
(* exit, a Docker wait to fail, or the process to stop.  The pump is fair  *)
(* in FairPumpSpec only: FairSpec lets its stream stall.                   *)
(***************************************************************************)
FairSpec ==
  /\ Spec
  /\ \A i \in Runs : WF_vars(StartStep(i)) /\ WF_vars(SupervisorStep(i))
  /\ \A e \in Ends : WF_vars(EndStep(e))

FairPumpSpec == FairSpec /\ \A i \in Runs : WF_vars(PumpOutput(i))

-----------------------------------------------------------------------------
(* Safety.                                                                 *)

\* Points at which the run's handler or supervisor has still to call
\* RemoveSessionKey, Revoke and RemoveAll for the session.
ForgetsLater == {"armed", "created", "attached", "admitted", "untrack", "undo",
  "discard", "forget", "wait", "remove", "drain", "teardown", "forgetExit"}
RevokesLater == ForgetsLater \cup {"registered", "revoke", "revokeExit"}
CleansLater == {"prepared", "staged", "registered", "armed", "created", "attached",
  "admitted", "untrack", "undo", "discard", "forget", "revoke", "cleanup", "wait",
  "remove", "drain", "teardown"}

\* Points at which the run's tracker entry is there.
HoldsSlot == {"admitted", "untrack", "wait", "remove", "drain", "teardown",
  "forgetExit", "revokeExit", "release"}

(***************************************************************************)
(* The tracker entry of a session is that of the one run which has been    *)
(* admitted and not released: Remove, called with the session id alone,    *)
(* only ever deletes the caller's own entry (docker.go:270, 384), and no   *)
(* two runs of a session are supervised at once (tracker.go:28).           *)
(***************************************************************************)
SlotOwner ==
  /\ \A s \in Tracked : SessionOf[byKey[s]] = s /\ pc[byKey[s]] \in HoldsSlot
  /\ \A i \in Runs : pc[i] \in HoldsSlot => byKey[SessionOf[i]] = i

(***************************************************************************)
(* However starts, exits, ends and crashes interleave, no more sessions    *)
(* are tracked, and no more containers run, than max_concurrent allows     *)
(* (Tracker, "the concurrency gate"), a container whose failed start is    *)
(* being undone excepted.                                                  *)
(***************************************************************************)
WithinLimit ==
  /\ Count <= MaxConcurrent
  /\ phase # "down" =>
       Cardinality({i \in Runs : container[i] = "running" /\ pc[i] # "undo"})
         <= MaxConcurrent

(***************************************************************************)
(* A running container is one the tracker knows, so that /chat/end and     *)
(* shutdown can reach it, or one a failed Launch is about to remove        *)
(* (docker.go:216: "On any failure after create, the container is removed  *)
(* so nothing leaks").                                                     *)
(***************************************************************************)
RunningIsTracked ==
  phase # "down" =>
    \A i \in Runs : container[i] = "running" =>
      byKey[SessionOf[i]] = i \/ pc[i] = "undo"

(***************************************************************************)
(* No session's secrets stay in the redaction set, and no LLM token stays  *)
(* valid, once nothing is left that will withdraw them, whichever of the   *)
(* start's failure paths or of the exit paths was taken (chat.go:328,      *)
(* handler.go:300).                                                        *)
(***************************************************************************)
NothingLeaks ==
  \A s \in Sessions :
    /\ \A i \in secrets[s] : SessionOf[i] = s /\ pc[i] \in ForgetsLater
    /\ \A i \in tokens[s] : SessionOf[i] = s /\ pc[i] \in RevokesLater

(***************************************************************************)
(* A run directory, which holds transcript text, exists only while a       *)
(* handler, a supervisor or the shutdown loop is going to remove it        *)
(* (chat.go:118, serve.go:305): in particular none survives a graceful     *)
(* shutdown.                                                               *)
(***************************************************************************)
RunDirOwned ==
  \A s \in runDir : \E i \in Runs : SessionOf[i] = s /\ pc[i] \in CleansLater

(***************************************************************************)
(* While a session's container runs, its secrets are in the redaction set, *)
(* its LLM token is valid and its run directory is there: nobody else's    *)
(* cleanup took them (serve.go:121, docker.go:376).                        *)
(***************************************************************************)
Intact(i) ==
  /\ i \in secrets[SessionOf[i]]
  /\ i \in tokens[SessionOf[i]]
  /\ SessionOf[i] \in runDir \/ phase # "up"

LiveSessionIntact ==
  \A i \in Runs : container[i] = "running" /\ pc[i] = "wait" => Intact(i)

(***************************************************************************)
(* Every line of a run that the pump bridges, up to the last one left in   *)
(* the stream after the container is gone, is bridged while the run's      *)
(* secrets are in the redaction set (docker.go:367).                       *)
(***************************************************************************)
BridgedMasked ==
  [][\A i \in Runs : backlog[i] /\ ~backlog'[i] /\ pc'[i] = pc[i]
       => i \in secrets[SessionOf[i]]]_vars

(***************************************************************************)
(* After a graceful shutdown no container is left running: not one of a    *)
(* start that was in flight, nor one whose supervision the exit cut short  *)
(* (serve.go:256: "kills every tracked container and removes its run       *)
(* dir").                                                                  *)
(***************************************************************************)
ShutdownLeavesNoContainer ==
  phase = "down" => \A i \in Runs : container[i] # "running"

(***************************************************************************)
(* A session that is not tracked carries no termination reason, although   *)
(* Stop and the shutdown loop look the session up before they record one   *)
(* and the run may be released in between (tracker.go:106), and although   *)
(* the entry may go by a failed start or by an exit (tracker.go:75).       *)
(***************************************************************************)
DeadKeyHasNoReason == \A s \in Sessions \ Tracked : reason[s] = "none"

(***************************************************************************)
(* A start that Launch refuses with ErrCapacity, answered 429, has met a   *)
(* tracker full of other sessions, and not an earlier run of its own       *)
(* session, which is the other reason AddIfUnderLimit has to refuse        *)
(* (docker.go:219, 262).                                                   *)
(***************************************************************************)
CapacityMeansFull ==
  [][\A i \in Runs : pc[i] = "attached" /\ pc'[i] = "discard"
       => Count >= MaxConcurrent /\ byKey[SessionOf[i]] = NoRun]_vars

-----------------------------------------------------------------------------
(***************************************************************************)
(* The sessions as leases: the tracker entry is the holder, and the point  *)
(* its run has reached the stage.  Every step of the service is a step of  *)
(* SessionSlots or leaves the leases alone, so a run that went live gives  *)
(* its session up only by way of its own supervision, and nothing another  *)
(* start or end of the session does can free it (tracker.go:27).           *)
(***************************************************************************)
StageOf(r) ==
  IF r = NoRun THEN "free"
  ELSE IF pc[r] \in {"admitted", "untrack"} THEN "starting"
  ELSE IF pc[r] = "wait" THEN "live" ELSE "retiring"

RoomBesides(sessions) == Cardinality(sessions) < MaxConcurrent

Slots == INSTANCE SessionSlots WITH
  Room <- RoomBesides,
  holder <- byKey,
  stage <- [s \in Sessions |-> StageOf(byKey[s])],
  up <- phase # "down"

ImplementsSlots == Slots!Spec

(***************************************************************************)
(* The same sessions as the message handlers meet them.  A run is tracked  *)
(* before its container is started and until its session's state has been  *)
(* dropped, which happens only when the container has ended; and no run is *)
(* admitted while the container of a failed start of the session is still  *)
(* being removed (docker.go:262, 367, 376; handler.go:300). The runs of    *)
(* MessageDelivery keep to the same contract.                              *)
(***************************************************************************)
LifeOf(r) ==
  CASE pc[r] \in {"admitted", "untrack"} -> "starting"
    [] pc[r] \in {"wait", "remove", "drain", "teardown", "forgetExit"} -> "up"
    [] pc[r] = "undo" -> "failed"
    [] pc[r] \in {"revokeExit", "release"} -> "dropped"
    [] pc[r] = "close" -> "released"
    [] OTHER -> "off"

Lives == INSTANCE SessionRuns WITH
  current <- byKey,
  stage <- [r \in Runs |-> LifeOf(r)],
  alive <- {r \in Runs : container[r] \in {"created", "running"} /\ LifeOf(r) # "off"}

ImplementsRuns == Lives!Spec

-----------------------------------------------------------------------------
(* Liveness.                                                               *)

(***************************************************************************)
(* Once a container is gone its session is released, even if its output    *)
(* pump never finishes: no stalled stream can hold one of the              *)
(* max_concurrent slots for ever (docker.go:320).                          *)
(***************************************************************************)
SlotReleased ==
  \A i \in Runs : pc[i] = "remove" ~> pc[i] = "idle"

(***************************************************************************)
(* A /chat/end that found its session tracked ends that run (chat.go:434:  *)
(* the container is stopped "so waitAndCleanup removes the container and   *)
(* clears the tracker entry").                                             *)
(***************************************************************************)
EndReleasesSession ==
  \A e \in Ends : \A i \in Runs :
    found[e] = i ~> byKey[SessionOf[i]] # i

=============================================================================
