--------------------------- MODULE DeliveryProofs ---------------------------
(***************************************************************************)
(* Theorems about MessageDelivery, for every finite set of senders, every  *)
(* set of ends and message ids, and any number of runs, mutexes and        *)
(* expired records.                                                        *)
(***************************************************************************)
EXTENDS MessageDelivery, FiniteSetTheorems, TLAPS

\* The runs whose exit has deleted the mutex, and those whose start has failed.
Passed == {r \in Runs : stage[r] \in {"dropped", "released", "closed"}}

(***************************************************************************)
(* A mutex is made only when there is none, and deleted once per run.      *)
(***************************************************************************)
MadeBound == made <= Cardinality(Passed) + (IF mutex = 0 THEN 0 ELSE 1)

LEMMA PassedFinite == IsFiniteSet(Passed) /\ Cardinality(Passed) \in 0..MaxRuns
<1>1. IsFiniteSet(1..MaxRuns) /\ Cardinality(1..MaxRuns) = MaxRuns
  BY SizesAssumption, FS_Interval
<1>2. Passed \subseteq 1..MaxRuns
  BY DEF Passed, Runs
<1>3. IsFiniteSet(Passed) /\ Cardinality(Passed) <= MaxRuns
  BY <1>1, <1>2, FS_Subset
<1>. QED
  BY <1>3, FS_CardinalityType, SizesAssumption

\* A step that drops no session leaves the bound where it was.
LEMMA PassedSame ==
  ASSUME Passed' = Passed, MadeBound, mutex' = mutex, made' = made
  PROVE MadeBound'
BY DEF MadeBound

(***************************************************************************)
(* Every variable keeps its type; in particular there are never more       *)
(* mutexes than runs, and one.                                             *)
(***************************************************************************)
THEOREM TypeCorrect == Spec => [](TypeOK /\ MadeBound)
<1>. USE RequestsAssumption, IDsAssumption, SizesAssumption DEF TypeOK, Requests, IDs, Runs, Mutexes
<1>1. Init => TypeOK /\ MadeBound
  BY PassedFinite DEF Init, MadeBound
<1>2. TypeOK /\ MadeBound /\ [Next]_vars => TypeOK'
  <2>. SUFFICES ASSUME TypeOK, MadeBound, [Next]_vars PROVE TypeOK'
    OBVIOUS
  <2>1. ASSUME NEW r \in Runs, Launch(r) PROVE TypeOK'
    BY <2>1 DEF Launch, runVars, lockVars, cacheVars, reqVars
  <2>1a. ASSUME NEW r \in Runs, StartReturns(r) PROVE TypeOK'
    BY <2>1a DEF StartReturns, runVars, lockVars, cacheVars, reqVars
  <2>1b. ASSUME NEW r \in Runs, StartFails(r) PROVE TypeOK'
    BY <2>1b DEF StartFails, runVars, lockVars, cacheVars, reqVars
  <2>1c. ASSUME NEW r \in Runs, Discard(r) PROVE TypeOK'
    BY <2>1c DEF Discard, runVars, lockVars, cacheVars, reqVars
  <2>2. ASSUME NEW r \in Runs, ContainerExits(r) PROVE TypeOK'
    BY <2>2 DEF ContainerExits, runVars, lockVars, cacheVars, reqVars
  <2>3. ASSUME NEW r \in Runs, WorkerReads(r) PROVE TypeOK'
    <3>1. pipe[r] \in 0..PipeSize /\ pipe[r] > 0 => pipe[r] - 1 \in 0..PipeSize
      OBVIOUS
    <3>2. pipe' \in [Runs -> 0..PipeSize]
      BY <2>3, <3>1 DEF WorkerReads
    <3>. QED
      BY <2>3, <3>2 DEF WorkerReads, runVars, lockVars, cacheVars, reqVars
  <2>4. ASSUME NEW r \in Runs, DropSession(r) PROVE TypeOK'
    BY <2>4 DEF DropSession, runVars, lockVars, cacheVars, reqVars
  <2>5. ASSUME NEW r \in Runs, Untrack(r) PROVE TypeOK'
    BY <2>5 DEF Untrack, runVars, lockVars, cacheVars, reqVars
  <2>6. ASSUME NEW r \in Runs, CloseAttach(r) PROVE TypeOK'
    BY <2>6 DEF CloseAttach, runVars, lockVars, cacheVars, reqVars
  <2>7. ASSUME NEW p \in Requests, StdinLock(p) PROVE TypeOK'
    <3>1. mutex = 0 => made + 1 \in Mutexes
      BY PassedFinite DEF MadeBound
    <3>. QED
      BY <2>7, <3>1 DEF StdinLock, Go, runVars, lockVars, cacheVars, reqVars
  <2>8. ASSUME NEW p \in Requests, Lock(p) PROVE TypeOK'
    BY <2>8 DEF Lock, Go, runVars, lockVars, cacheVars, reqVars
  <2>9. ASSUME NEW p \in Senders, NEW x \in SentIDs, MessageGet(p, x) PROVE TypeOK'
    BY <2>9 DEF MessageGet, Go, runVars, lockVars, cacheVars, reqVars
  <2>10. ASSUME NEW p \in Senders, AckDuplicate(p) PROVE TypeOK'
    BY <2>10 DEF AckDuplicate, Unlock, Return, Go, runVars, lockVars, cacheVars, reqVars
  <2>11. ASSUME NEW p \in Senders, Record(p) PROVE TypeOK'
    <3>1. expired' \in [MsgIDs -> 0..MaxExpiries]
      <4>1. CASE id[p] \notin dedup
        BY <2>11, <4>1 DEF Record, Unrecorded
      <4>2. CASE id[p] \in dedup
        <5>1. expired[id[p]] + 1 \in 0..MaxExpiries
          BY <2>11, <4>2 DEF Record, Unrecorded
        <5>. QED
          BY <2>11, <4>2, <5>1 DEF Record, Unrecorded
      <4>. QED
        BY <4>1, <4>2
    <3>2. dedup' \subseteq MsgIDs
      BY <2>11 DEF Record
    <3>. QED
      BY <2>11, <3>1, <3>2 DEF Record, Go, runVars, lockVars, reqVars
  <2>12. ASSUME NEW p \in Senders, WriteSucceeds(p) PROVE TypeOK'
    <3>1. pipe' \in [Runs -> 0..PipeSize]
      <4>1. CASE run[p] \in alive
        <5>1. pipe' = [pipe EXCEPT ![run[p]] = @ + 1] /\ pipe[run[p]] < PipeSize
          BY <2>12, <4>1 DEF WriteSucceeds
        <5>2. CASE run[p] \in Runs
          <6>1. pipe[run[p]] + 1 \in 0..PipeSize
            BY <5>1, <5>2
          <6>. QED
            BY <5>1, <6>1
        <5>3. CASE run[p] \notin Runs
          BY <5>1, <5>3
        <5>. QED
          BY <5>2, <5>3
      <4>2. CASE run[p] \notin alive
        BY <2>12, <4>2 DEF WriteSucceeds
      <4>. QED
        BY <4>1, <4>2
    <3>2. sent' \in [MsgIDs -> Nat]
      <4>1. CASE id[p] = NoID
        BY <2>12, <4>1 DEF WriteSucceeds
      <4>2. CASE id[p] # NoID
        BY <2>12, <4>2 DEF WriteSucceeds
      <4>. QED
        BY <4>1, <4>2
    <3>. QED
      BY <2>12, <3>1, <3>2 DEF WriteSucceeds, Unlock, Return, Go, cacheVars
  <2>13. ASSUME NEW p \in Senders, WriteFails(p) PROVE TypeOK'
    BY <2>13 DEF WriteFails, Unlock, Return, Go, runVars, lockVars, cacheVars, reqVars
  <2>14. ASSUME NEW p \in Enders, EndGet(p) PROVE TypeOK'
    BY <2>14 DEF EndGet, Go, runVars, lockVars, cacheVars, reqVars
  <2>15. ASSUME NEW p \in Enders, CloseStdin(p) PROVE TypeOK'
    BY <2>15 DEF CloseStdin, Unlock, Go, runVars, lockVars, cacheVars, reqVars
  <2>16. ASSUME NEW p \in Enders, StopContainer(p) PROVE TypeOK'
    <3>1. alive' \subseteq alive
      BY <2>16 DEF StopContainer
    <3>2. \A r \in Runs : (IF r \in alive' THEN pipe[r] ELSE 0) \in 0..PipeSize
      <4>1. PipeSize \in Nat /\ 0 \in 0..PipeSize
        OBVIOUS
      <4>2. \A r \in Runs : pipe[r] \in 0..PipeSize
        OBVIOUS
      <4>. QED
        BY <4>1, <4>2
    <3>3. pipe' \in [Runs -> 0..PipeSize]
      BY <2>16, <3>2 DEF StopContainer
    <3>. QED
      BY <2>16, <3>1, <3>3 DEF StopContainer, Return, Go, lockVars, cacheVars
  <2>17. CASE UNCHANGED vars
    BY <2>17 DEF vars, runVars, lockVars, cacheVars, reqVars
  <2>. QED
    BY <2>1, <2>1a, <2>1b, <2>1c, <2>2, <2>3, <2>4, <2>5, <2>6, <2>7, <2>8, <2>9, <2>10, <2>11, <2>12, <2>13, <2>14, <2>15, <2>16, <2>17 DEF Next, StartStep, SupervisorStep, SendStep, EndStep, Requests
<1>3. TypeOK /\ MadeBound /\ [Next]_vars => MadeBound'
  <2>. SUFFICES ASSUME TypeOK, MadeBound, [Next]_vars PROVE MadeBound'
    OBVIOUS
  <2>1. ASSUME NEW r \in Runs, Launch(r) PROVE MadeBound'
    <3>1. Passed' = Passed
      BY <2>1 DEF Launch, Passed
    <3>. QED
      BY <2>1, <3>1, PassedSame DEF Launch, runVars, lockVars, cacheVars, reqVars
  <2>1a. ASSUME NEW r \in Runs, StartReturns(r) PROVE MadeBound'
    <3>1. Passed' = Passed
      BY <2>1a DEF StartReturns, Passed
    <3>. QED
      BY <2>1a, <3>1, PassedSame DEF StartReturns, runVars, lockVars, cacheVars, reqVars
  <2>1b. ASSUME NEW r \in Runs, StartFails(r) PROVE MadeBound'
    <3>1. Passed' = Passed
      BY <2>1b DEF StartFails, Passed
    <3>. QED
      BY <2>1b, <3>1, PassedSame DEF StartFails, runVars, lockVars, cacheVars, reqVars
  <2>1c. ASSUME NEW r \in Runs, Discard(r) PROVE MadeBound'
    <3>1. Passed' = Passed \cup {r} /\ r \notin Passed
      BY <2>1c DEF Discard, Passed
    <3>2. Cardinality(Passed') = Cardinality(Passed) + 1
      BY <3>1, PassedFinite, FS_AddElement
    <3>3. mutex' = mutex /\ made' = made
      BY <2>1c DEF Discard, lockVars
    <3>. QED
      BY <3>2, <3>3, PassedFinite DEF MadeBound
  <2>2. ASSUME NEW r \in Runs, ContainerExits(r) PROVE MadeBound'
    <3>1. Passed' = Passed
      BY <2>2 DEF ContainerExits, Passed
    <3>. QED
      BY <2>2, <3>1, PassedSame DEF ContainerExits, runVars, lockVars, cacheVars, reqVars
  <2>3. ASSUME NEW r \in Runs, WorkerReads(r) PROVE MadeBound'
    BY <2>3, PassedSame DEF WorkerReads, Passed, runVars, lockVars, cacheVars, reqVars
  <2>4. ASSUME NEW r \in Runs, DropSession(r) PROVE MadeBound'
    <3>1. Passed' = Passed \cup {r} /\ r \notin Passed
      BY <2>4 DEF DropSession, Passed
    <3>2. Cardinality(Passed') = Cardinality(Passed) + 1
      BY <3>1, PassedFinite, FS_AddElement
    <3>3. mutex' = 0 /\ made' = made
      BY <2>4 DEF DropSession
    <3>. QED
      BY <3>2, <3>3, PassedFinite DEF MadeBound
  <2>5. ASSUME NEW r \in Runs, Untrack(r) PROVE MadeBound'
    <3>1. Passed' = Passed
      BY <2>5 DEF Untrack, Passed
    <3>. QED
      BY <2>5, <3>1, PassedSame DEF Untrack, runVars, lockVars, cacheVars, reqVars
  <2>6. ASSUME NEW r \in Runs, CloseAttach(r) PROVE MadeBound'
    <3>1. Passed' = Passed
      BY <2>6 DEF CloseAttach, Passed
    <3>. QED
      BY <2>6, <3>1, PassedSame DEF CloseAttach, runVars, lockVars, cacheVars, reqVars
  <2>7. ASSUME NEW p \in Requests, StdinLock(p) PROVE MadeBound'
    <3>1. Passed' = Passed
      BY <2>7 DEF StdinLock, Passed, runVars
    <3>2. CASE mutex = 0
      BY <2>7, <3>1, <3>2, PassedFinite DEF StdinLock, MadeBound
    <3>3. CASE mutex # 0
      BY <2>7, <3>1, <3>3, PassedSame DEF StdinLock
    <3>. QED
      BY <3>2, <3>3
  <2>8. ASSUME NEW p \in Requests, Lock(p) PROVE MadeBound'
    BY <2>8, PassedSame DEF Lock, Go, Passed, runVars, lockVars, cacheVars, reqVars
  <2>9. ASSUME NEW p \in Senders, NEW x \in SentIDs, MessageGet(p, x) PROVE MadeBound'
    BY <2>9, PassedSame DEF MessageGet, Go, Passed, runVars, lockVars, cacheVars, reqVars
  <2>10. ASSUME NEW p \in Senders, AckDuplicate(p) PROVE MadeBound'
    BY <2>10, PassedSame DEF AckDuplicate, Unlock, Return, Go, Passed, runVars, lockVars, cacheVars, reqVars
  <2>11. ASSUME NEW p \in Senders, Record(p) PROVE MadeBound'
    BY <2>11, PassedSame DEF Record, Unrecorded, Go, Passed, runVars, lockVars, cacheVars, reqVars
  <2>12. ASSUME NEW p \in Senders, WriteSucceeds(p) PROVE MadeBound'
    BY <2>12, PassedSame DEF WriteSucceeds, Unlock, Return, Go, Passed, runVars, lockVars, cacheVars, reqVars
  <2>13. ASSUME NEW p \in Senders, WriteFails(p) PROVE MadeBound'
    BY <2>13, PassedSame DEF WriteFails, Unlock, Return, Go, Passed, runVars, lockVars, cacheVars, reqVars
  <2>14. ASSUME NEW p \in Enders, EndGet(p) PROVE MadeBound'
    BY <2>14, PassedSame DEF EndGet, Go, Passed, runVars, lockVars, cacheVars, reqVars
  <2>15. ASSUME NEW p \in Enders, CloseStdin(p) PROVE MadeBound'
    BY <2>15, PassedSame DEF CloseStdin, Unlock, Go, Passed, runVars, lockVars, cacheVars, reqVars
  <2>16. ASSUME NEW p \in Enders, StopContainer(p) PROVE MadeBound'
    <3>1. Passed' = Passed
      BY <2>16 DEF StopContainer, Return, Go, Passed
    <3>. QED
      BY <2>16, <3>1, PassedSame DEF StopContainer, Return, Go, runVars, lockVars, cacheVars, reqVars
  <2>17. CASE UNCHANGED vars
    BY <2>17, PassedSame DEF vars, Passed, runVars, lockVars, cacheVars, reqVars
  <2>. QED
    BY <2>1, <2>1a, <2>1b, <2>1c, <2>2, <2>3, <2>4, <2>5, <2>6, <2>7, <2>8, <2>9, <2>10, <2>11, <2>12, <2>13, <2>14, <2>15, <2>16, <2>17 DEF Next, StartStep, SupervisorStep, SendStep, EndStep, Requests
<1>. QED
  BY <1>1, <1>2, <1>3, PTL DEF Spec

-----------------------------------------------------------------------------
(* Who holds which mutex.                                                  *)

\* Where a request has its mutex, and where it has it locked.
Acquiring == {"lock", "locked", "writing", "refused"}
Holding == {"locked", "writing", "refused"}

\* The tracked run is the one between its launch and its release.  A run whose
\* start has failed has no other beside it.
OneCurrent ==
  /\ \A r \in Runs : stage[r] \in {"starting", "up", "dropped"} <=> current = r
  /\ \A r \in Runs : stage[r] = "failed" => current = 0

\* A container ends before its session is dropped or its failed start is over.
AliveStage == \A r \in alive : stage[r] \in {"starting", "up", "failed"}

\* A request under way has a run, which has been launched.
HasRun == \A p \in Requests : pc[p] # "idle" => run[p] \in Runs /\ stage[run[p]] # "unborn"

\* Requests on a run that is alive have the session's present mutex.
SharedMutex ==
  \A p \in Requests : pc[p] \in Acquiring =>
    mu[p] \in Mutexes /\ (run[p] \in alive => mu[p] = mutex)

Owned == \A p \in Requests : pc[p] \in Holding => owner[mu[p]] = p

LockInv == OneCurrent /\ AliveStage /\ HasRun /\ SharedMutex /\ Owned

(***************************************************************************)
(* Requests that work on one live run have the same mutex, and one of them *)
(* at most has it locked.                                                  *)
(***************************************************************************)
LEMMA LockInvCorrect == Spec => []LockInv
<1>. USE RequestsAssumption, SizesAssumption DEF TypeOK, Requests, Runs, Mutexes, Acquiring, Holding
<1>1. Init => LockInv
  BY DEF Init, LockInv, OneCurrent, AliveStage, HasRun, SharedMutex, Owned
<1>2. TypeOK /\ LockInv /\ [Next]_vars => OneCurrent' /\ AliveStage'
  <2>. SUFFICES ASSUME TypeOK, LockInv, [Next]_vars PROVE OneCurrent' /\ AliveStage'
    OBVIOUS
  <2>. USE DEF LockInv, OneCurrent, AliveStage
  <2>1. ASSUME NEW r \in Runs, Launch(r) PROVE OneCurrent' /\ AliveStage'
    BY <2>1 DEF Launch, runVars, lockVars, cacheVars, reqVars
  <2>1a. ASSUME NEW r \in Runs, StartReturns(r) PROVE OneCurrent' /\ AliveStage'
    BY <2>1a DEF StartReturns, runVars, lockVars, cacheVars, reqVars
  <2>1b. ASSUME NEW r \in Runs, StartFails(r) PROVE OneCurrent' /\ AliveStage'
    BY <2>1b DEF StartFails, runVars, lockVars, cacheVars, reqVars
  <2>1c. ASSUME NEW r \in Runs, Discard(r) PROVE OneCurrent' /\ AliveStage'
    BY <2>1c DEF Discard, runVars, lockVars, cacheVars, reqVars
  <2>2. ASSUME NEW r \in Runs, ContainerExits(r) PROVE OneCurrent' /\ AliveStage'
    BY <2>2 DEF ContainerExits, runVars, lockVars, cacheVars, reqVars
  <2>3. ASSUME NEW r \in Runs, WorkerReads(r) PROVE OneCurrent' /\ AliveStage'
    BY <2>3 DEF WorkerReads, runVars, lockVars, cacheVars, reqVars
  <2>4. ASSUME NEW r \in Runs, DropSession(r) PROVE OneCurrent' /\ AliveStage'
    BY <2>4 DEF DropSession, runVars, lockVars, cacheVars, reqVars
  <2>5. ASSUME NEW r \in Runs, Untrack(r) PROVE OneCurrent' /\ AliveStage'
    BY <2>5 DEF Untrack, runVars, lockVars, cacheVars, reqVars
  <2>6. ASSUME NEW r \in Runs, CloseAttach(r) PROVE OneCurrent' /\ AliveStage'
    BY <2>6 DEF CloseAttach, runVars, lockVars, cacheVars, reqVars
  <2>7. ASSUME NEW p \in Requests, StdinLock(p) PROVE OneCurrent' /\ AliveStage'
    BY <2>7 DEF StdinLock, Go, runVars, lockVars, cacheVars, reqVars
  <2>8. ASSUME NEW p \in Requests, Lock(p) PROVE OneCurrent' /\ AliveStage'
    BY <2>8 DEF Lock, Go, runVars, lockVars, cacheVars, reqVars
  <2>9. ASSUME NEW p \in Senders, NEW x \in SentIDs, MessageGet(p, x) PROVE OneCurrent' /\ AliveStage'
    BY <2>9 DEF MessageGet, Go, runVars, lockVars, cacheVars, reqVars
  <2>10. ASSUME NEW p \in Senders, AckDuplicate(p) PROVE OneCurrent' /\ AliveStage'
    BY <2>10 DEF AckDuplicate, Unlock, Return, Go, runVars, lockVars, cacheVars, reqVars
  <2>11. ASSUME NEW p \in Senders, Record(p) PROVE OneCurrent' /\ AliveStage'
    BY <2>11 DEF Record, Unrecorded, Go, runVars, lockVars, cacheVars, reqVars
  <2>12. ASSUME NEW p \in Senders, WriteSucceeds(p) PROVE OneCurrent' /\ AliveStage'
    BY <2>12 DEF WriteSucceeds, Unlock, Return, Go, runVars, lockVars, cacheVars, reqVars
  <2>13. ASSUME NEW p \in Senders, WriteFails(p) PROVE OneCurrent' /\ AliveStage'
    BY <2>13 DEF WriteFails, Unlock, Return, Go, runVars, lockVars, cacheVars, reqVars
  <2>14. ASSUME NEW p \in Enders, EndGet(p) PROVE OneCurrent' /\ AliveStage'
    BY <2>14 DEF EndGet, Go, runVars, lockVars, cacheVars, reqVars
  <2>15. ASSUME NEW p \in Enders, CloseStdin(p) PROVE OneCurrent' /\ AliveStage'
    BY <2>15 DEF CloseStdin, Unlock, Go, runVars, lockVars, cacheVars, reqVars
  <2>16. ASSUME NEW p \in Enders, StopContainer(p) PROVE OneCurrent' /\ AliveStage'
    BY <2>16 DEF StopContainer, Return, Go, runVars, lockVars, cacheVars, reqVars
  <2>17. CASE UNCHANGED vars
    BY <2>17 DEF vars, runVars, lockVars, cacheVars, reqVars
  <2>. QED
    BY <2>1, <2>1a, <2>1b, <2>1c, <2>2, <2>3, <2>4, <2>5, <2>6, <2>7, <2>8, <2>9, <2>10, <2>11, <2>12, <2>13, <2>14, <2>15, <2>16, <2>17 DEF Next, StartStep, SupervisorStep, SendStep, EndStep, Requests
<1>3. TypeOK /\ LockInv /\ [Next]_vars => HasRun'
  <2>. SUFFICES ASSUME TypeOK, LockInv, [Next]_vars PROVE HasRun'
    OBVIOUS
  <2>. USE DEF LockInv, OneCurrent, AliveStage, HasRun
  <2>1. ASSUME NEW r \in Runs, Launch(r) PROVE HasRun'
    BY <2>1 DEF Launch, runVars, lockVars, cacheVars, reqVars
  <2>1a. ASSUME NEW r \in Runs, StartReturns(r) PROVE HasRun'
    BY <2>1a DEF StartReturns, runVars, lockVars, cacheVars, reqVars
  <2>1b. ASSUME NEW r \in Runs, StartFails(r) PROVE HasRun'
    BY <2>1b DEF StartFails, runVars, lockVars, cacheVars, reqVars
  <2>1c. ASSUME NEW r \in Runs, Discard(r) PROVE HasRun'
    BY <2>1c DEF Discard, runVars, lockVars, cacheVars, reqVars
  <2>2. ASSUME NEW r \in Runs, ContainerExits(r) PROVE HasRun'
    BY <2>2 DEF ContainerExits, runVars, lockVars, cacheVars, reqVars
  <2>3. ASSUME NEW r \in Runs, WorkerReads(r) PROVE HasRun'
    BY <2>3 DEF WorkerReads, runVars, lockVars, cacheVars, reqVars
  <2>4. ASSUME NEW r \in Runs, DropSession(r) PROVE HasRun'
    BY <2>4 DEF DropSession, runVars, lockVars, cacheVars, reqVars
  <2>5. ASSUME NEW r \in Runs, Untrack(r) PROVE HasRun'
    BY <2>5 DEF Untrack, runVars, lockVars, cacheVars, reqVars
  <2>6. ASSUME NEW r \in Runs, CloseAttach(r) PROVE HasRun'
    BY <2>6 DEF CloseAttach, runVars, lockVars, cacheVars, reqVars
  <2>7. ASSUME NEW p \in Requests, StdinLock(p) PROVE HasRun'
    BY <2>7 DEF StdinLock, Go, runVars, lockVars, cacheVars, reqVars
  <2>8. ASSUME NEW p \in Requests, Lock(p) PROVE HasRun'
    BY <2>8 DEF Lock, Go, runVars, lockVars, cacheVars, reqVars
  <2>9. ASSUME NEW p \in Senders, NEW x \in SentIDs, MessageGet(p, x) PROVE HasRun'
    BY <2>9 DEF MessageGet, Go, runVars, lockVars, cacheVars, reqVars
  <2>10. ASSUME NEW p \in Senders, AckDuplicate(p) PROVE HasRun'
    BY <2>10 DEF AckDuplicate, Unlock, Return, Go, runVars, lockVars, cacheVars, reqVars
  <2>11. ASSUME NEW p \in Senders, Record(p) PROVE HasRun'
    BY <2>11 DEF Record, Unrecorded, Go, runVars, lockVars, cacheVars, reqVars
  <2>12. ASSUME NEW p \in Senders, WriteSucceeds(p) PROVE HasRun'
    BY <2>12 DEF WriteSucceeds, Unlock, Return, Go, runVars, lockVars, cacheVars, reqVars
  <2>13. ASSUME NEW p \in Senders, WriteFails(p) PROVE HasRun'
    BY <2>13 DEF WriteFails, Unlock, Return, Go, runVars, lockVars, cacheVars, reqVars
  <2>14. ASSUME NEW p \in Enders, EndGet(p) PROVE HasRun'
    BY <2>14 DEF EndGet, Go, runVars, lockVars, cacheVars, reqVars
  <2>15. ASSUME NEW p \in Enders, CloseStdin(p) PROVE HasRun'
    BY <2>15 DEF CloseStdin, Unlock, Go, runVars, lockVars, cacheVars, reqVars
  <2>16. ASSUME NEW p \in Enders, StopContainer(p) PROVE HasRun'
    BY <2>16 DEF StopContainer, Return, Go, runVars, lockVars, cacheVars, reqVars
  <2>17. CASE UNCHANGED vars
    BY <2>17 DEF vars, runVars, lockVars, cacheVars, reqVars
  <2>. QED
    BY <2>1, <2>1a, <2>1b, <2>1c, <2>2, <2>3, <2>4, <2>5, <2>6, <2>7, <2>8, <2>9, <2>10, <2>11, <2>12, <2>13, <2>14, <2>15, <2>16, <2>17 DEF Next, StartStep, SupervisorStep, SendStep, EndStep, Requests
<1>4. TypeOK /\ LockInv /\ TypeOK' /\ [Next]_vars => SharedMutex'
  <2>. SUFFICES ASSUME TypeOK, LockInv, TypeOK', [Next]_vars PROVE SharedMutex'
    OBVIOUS
  <2>. USE DEF LockInv, OneCurrent, AliveStage, HasRun, SharedMutex
  <2>1. ASSUME NEW r \in Runs, Launch(r) PROVE SharedMutex'
    BY <2>1 DEF Launch, runVars, lockVars, cacheVars, reqVars
  <2>1a. ASSUME NEW r \in Runs, StartReturns(r) PROVE SharedMutex'
    BY <2>1a DEF StartReturns, runVars, lockVars, cacheVars, reqVars
  <2>1b. ASSUME NEW r \in Runs, StartFails(r) PROVE SharedMutex'
    BY <2>1b DEF StartFails, runVars, lockVars, cacheVars, reqVars
  <2>1c. ASSUME NEW r \in Runs, Discard(r) PROVE SharedMutex'
    BY <2>1c DEF Discard, runVars, lockVars, cacheVars, reqVars
  <2>2. ASSUME NEW r \in Runs, ContainerExits(r) PROVE SharedMutex'
    BY <2>2 DEF ContainerExits, runVars, lockVars, cacheVars, reqVars
  <2>3. ASSUME NEW r \in Runs, WorkerReads(r) PROVE SharedMutex'
    BY <2>3 DEF WorkerReads, runVars, lockVars, cacheVars, reqVars
  <2>4. ASSUME NEW r \in Runs, DropSession(r) PROVE SharedMutex'
    <3>1. current = r /\ r # 0 /\ r \notin alive
      BY <2>4 DEF DropSession
    <3>2. ASSUME NEW q \in alive PROVE FALSE
      <4>1. q \in Runs /\ stage[q] \in {"starting", "up", "failed"}
        OBVIOUS
      <4>2. CASE stage[q] = "failed"
        BY <3>1, <4>1, <4>2
      <4>3. CASE stage[q] # "failed"
        BY <3>1, <3>2, <4>1, <4>3
      <4>. QED
        BY <4>2, <4>3
    <3>3. pc' = pc /\ mu' = mu /\ run' = run /\ alive' = alive
      BY <2>4 DEF DropSession, reqVars
    <3>. QED
      BY <3>2, <3>3
  <2>5. ASSUME NEW r \in Runs, Untrack(r) PROVE SharedMutex'
    BY <2>5 DEF Untrack, runVars, lockVars, cacheVars, reqVars
  <2>6. ASSUME NEW r \in Runs, CloseAttach(r) PROVE SharedMutex'
    BY <2>6 DEF CloseAttach, runVars, lockVars, cacheVars, reqVars
  <2>7. ASSUME NEW p \in Requests, StdinLock(p) PROVE SharedMutex'
    <3>1. mutex' \in Mutexes /\ (mutex # 0 => mutex' = mutex) /\ mu' = [mu EXCEPT ![p] = mutex']
      BY <2>7 DEF StdinLock
    <3>2. pc' = [pc EXCEPT ![p] = "lock"] /\ alive' = alive /\ run' = run
      BY <2>7 DEF StdinLock, Go, runVars
    <3>. QED
      BY <3>1, <3>2
  <2>8. ASSUME NEW p \in Requests, Lock(p) PROVE SharedMutex'
    BY <2>8 DEF Lock, Go, runVars, lockVars, cacheVars, reqVars
  <2>9. ASSUME NEW p \in Senders, NEW x \in SentIDs, MessageGet(p, x) PROVE SharedMutex'
    BY <2>9 DEF MessageGet, Go, runVars, lockVars, cacheVars, reqVars
  <2>10. ASSUME NEW p \in Senders, AckDuplicate(p) PROVE SharedMutex'
    BY <2>10 DEF AckDuplicate, Unlock, Return, Go, runVars, lockVars, cacheVars, reqVars
  <2>11. ASSUME NEW p \in Senders, Record(p) PROVE SharedMutex'
    BY <2>11 DEF Record, Unrecorded, Go, runVars, lockVars, cacheVars, reqVars
  <2>12. ASSUME NEW p \in Senders, WriteSucceeds(p) PROVE SharedMutex'
    BY <2>12 DEF WriteSucceeds, Unlock, Return, Go, runVars, lockVars, cacheVars, reqVars
  <2>13. ASSUME NEW p \in Senders, WriteFails(p) PROVE SharedMutex'
    BY <2>13 DEF WriteFails, Unlock, Return, Go, runVars, lockVars, cacheVars, reqVars
  <2>14. ASSUME NEW p \in Enders, EndGet(p) PROVE SharedMutex'
    BY <2>14 DEF EndGet, Go, runVars, lockVars, cacheVars, reqVars
  <2>15. ASSUME NEW p \in Enders, CloseStdin(p) PROVE SharedMutex'
    BY <2>15 DEF CloseStdin, Unlock, Go, runVars, lockVars, cacheVars, reqVars
  <2>16. ASSUME NEW p \in Enders, StopContainer(p) PROVE SharedMutex'
    BY <2>16 DEF StopContainer, Return, Go, runVars, lockVars, cacheVars, reqVars
  <2>17. CASE UNCHANGED vars
    BY <2>17 DEF vars, runVars, lockVars, cacheVars, reqVars
  <2>. QED
    BY <2>1, <2>1a, <2>1b, <2>1c, <2>2, <2>3, <2>4, <2>5, <2>6, <2>7, <2>8, <2>9, <2>10, <2>11, <2>12, <2>13, <2>14, <2>15, <2>16, <2>17 DEF Next, StartStep, SupervisorStep, SendStep, EndStep, Requests
<1>5. TypeOK /\ LockInv /\ [Next]_vars => Owned'
  <2>. SUFFICES ASSUME TypeOK, LockInv, [Next]_vars PROVE Owned'
    OBVIOUS
  <2>. USE DEF LockInv, HasRun, SharedMutex, Owned
  <2>1. ASSUME NEW r \in Runs, Launch(r) PROVE Owned'
    BY <2>1 DEF Launch, runVars, lockVars, cacheVars, reqVars
  <2>1a. ASSUME NEW r \in Runs, StartReturns(r) PROVE Owned'
    BY <2>1a DEF StartReturns, runVars, lockVars, cacheVars, reqVars
  <2>1b. ASSUME NEW r \in Runs, StartFails(r) PROVE Owned'
    BY <2>1b DEF StartFails, runVars, lockVars, cacheVars, reqVars
  <2>1c. ASSUME NEW r \in Runs, Discard(r) PROVE Owned'
    BY <2>1c DEF Discard, runVars, lockVars, cacheVars, reqVars
  <2>2. ASSUME NEW r \in Runs, ContainerExits(r) PROVE Owned'
    BY <2>2 DEF ContainerExits, runVars, lockVars, cacheVars, reqVars
  <2>3. ASSUME NEW r \in Runs, WorkerReads(r) PROVE Owned'
    BY <2>3 DEF WorkerReads, runVars, lockVars, cacheVars, reqVars
  <2>4. ASSUME NEW r \in Runs, DropSession(r) PROVE Owned'
    BY <2>4 DEF DropSession, runVars, lockVars, cacheVars, reqVars
  <2>5. ASSUME NEW r \in Runs, Untrack(r) PROVE Owned'
    BY <2>5 DEF Untrack, runVars, lockVars, cacheVars, reqVars
  <2>6. ASSUME NEW r \in Runs, CloseAttach(r) PROVE Owned'
    BY <2>6 DEF CloseAttach, runVars, lockVars, cacheVars, reqVars
  <2>7. ASSUME NEW p \in Requests, StdinLock(p) PROVE Owned'
    BY <2>7 DEF StdinLock, Go, runVars, lockVars, cacheVars, reqVars
  <2>8. ASSUME NEW p \in Requests, Lock(p) PROVE Owned'
    BY <2>8 DEF Lock, Go, runVars, lockVars, cacheVars, reqVars
  <2>9. ASSUME NEW p \in Senders, NEW x \in SentIDs, MessageGet(p, x) PROVE Owned'
    BY <2>9 DEF MessageGet, Go, runVars, lockVars, cacheVars, reqVars
  <2>10. ASSUME NEW p \in Senders, AckDuplicate(p) PROVE Owned'
    BY <2>10 DEF AckDuplicate, Unlock, Return, Go, runVars, lockVars, cacheVars, reqVars
  <2>11. ASSUME NEW p \in Senders, Record(p) PROVE Owned'
    BY <2>11 DEF Record, Unrecorded, Go, runVars, lockVars, cacheVars, reqVars
  <2>12. ASSUME NEW p \in Senders, WriteSucceeds(p) PROVE Owned'
    BY <2>12 DEF WriteSucceeds, Unlock, Return, Go, runVars, lockVars, cacheVars, reqVars
  <2>13. ASSUME NEW p \in Senders, WriteFails(p) PROVE Owned'
    BY <2>13 DEF WriteFails, Unlock, Return, Go, runVars, lockVars, cacheVars, reqVars
  <2>14. ASSUME NEW p \in Enders, EndGet(p) PROVE Owned'
    BY <2>14 DEF EndGet, Go, runVars, lockVars, cacheVars, reqVars
  <2>15. ASSUME NEW p \in Enders, CloseStdin(p) PROVE Owned'
    BY <2>15 DEF CloseStdin, Unlock, Go, runVars, lockVars, cacheVars, reqVars
  <2>16. ASSUME NEW p \in Enders, StopContainer(p) PROVE Owned'
    BY <2>16 DEF StopContainer, Return, Go, runVars, lockVars, cacheVars, reqVars
  <2>17. CASE UNCHANGED vars
    BY <2>17 DEF vars, runVars, lockVars, cacheVars, reqVars
  <2>. QED
    BY <2>1, <2>1a, <2>1b, <2>1c, <2>2, <2>3, <2>4, <2>5, <2>6, <2>7, <2>8, <2>9, <2>10, <2>11, <2>12, <2>13, <2>14, <2>15, <2>16, <2>17 DEF Next, StartStep, SupervisorStep, SendStep, EndStep, Requests
<1>. QED
  BY <1>1, <1>2, <1>3, <1>4, <1>5, TypeCorrect, PTL DEF Spec, LockInv

(***************************************************************************)
(* A locked mutex is held by a request that is in the middle of using      *)
(* stdin: none is left locked by a request that has answered, on whichever *)
(* of its early returns, and none by one that waits for another mutex, so  *)
(* requests never wait for each other in a circle (chat.go:492, 504).      *)
(***************************************************************************)
HeldInUse ==
  \A m \in Mutexes : owner[m] # NoOne =>
    owner[m] \in Requests /\ pc[owner[m]] \in Holding /\ mu[owner[m]] = m

(***************************************************************************)
(* What EndGetsThrough rests on: whoever waits for a mutex waits for a     *)
(* request that has only its use of stdin to finish.                       *)
(***************************************************************************)
THEOREM HeldInUseCorrect == Spec => []HeldInUse
<1>. USE RequestsAssumption, SizesAssumption DEF TypeOK, Requests, Runs, Mutexes, Acquiring, Holding
<1>1. Init => HeldInUse
  BY DEF Init, HeldInUse
<1>2. TypeOK /\ LockInv /\ HeldInUse /\ [Next]_vars => HeldInUse'
  <2>. SUFFICES ASSUME TypeOK, LockInv, HeldInUse, [Next]_vars PROVE HeldInUse'
    OBVIOUS
  <2>. USE DEF LockInv, SharedMutex, Owned, HeldInUse
  <2>1. ASSUME NEW r \in Runs, Launch(r) PROVE HeldInUse'
    BY <2>1 DEF Launch, runVars, lockVars, cacheVars, reqVars
  <2>1a. ASSUME NEW r \in Runs, StartReturns(r) PROVE HeldInUse'
    BY <2>1a DEF StartReturns, runVars, lockVars, cacheVars, reqVars
  <2>1b. ASSUME NEW r \in Runs, StartFails(r) PROVE HeldInUse'
    BY <2>1b DEF StartFails, runVars, lockVars, cacheVars, reqVars
  <2>1c. ASSUME NEW r \in Runs, Discard(r) PROVE HeldInUse'
    BY <2>1c DEF Discard, runVars, lockVars, cacheVars, reqVars
  <2>2. ASSUME NEW r \in Runs, ContainerExits(r) PROVE HeldInUse'
    BY <2>2 DEF ContainerExits, runVars, lockVars, cacheVars, reqVars
  <2>3. ASSUME NEW r \in Runs, WorkerReads(r) PROVE HeldInUse'
    BY <2>3 DEF WorkerReads, runVars, lockVars, cacheVars, reqVars
  <2>4. ASSUME NEW r \in Runs, DropSession(r) PROVE HeldInUse'
    BY <2>4 DEF DropSession, runVars, lockVars, cacheVars, reqVars
  <2>5. ASSUME NEW r \in Runs, Untrack(r) PROVE HeldInUse'
    BY <2>5 DEF Untrack, runVars, lockVars, cacheVars, reqVars
  <2>6. ASSUME NEW r \in Runs, CloseAttach(r) PROVE HeldInUse'
    BY <2>6 DEF CloseAttach, runVars, lockVars, cacheVars, reqVars
  <2>7. ASSUME NEW p \in Requests, StdinLock(p) PROVE HeldInUse'
    BY <2>7 DEF StdinLock, Go, runVars, lockVars, cacheVars, reqVars
  <2>8. ASSUME NEW p \in Requests, Lock(p) PROVE HeldInUse'
    BY <2>8 DEF Lock, Go, runVars, lockVars, cacheVars, reqVars
  <2>9. ASSUME NEW p \in Senders, NEW x \in SentIDs, MessageGet(p, x) PROVE HeldInUse'
    BY <2>9 DEF MessageGet, Go, runVars, lockVars, cacheVars, reqVars
  <2>10. ASSUME NEW p \in Senders, AckDuplicate(p) PROVE HeldInUse'
    BY <2>10 DEF AckDuplicate, Unlock, Return, Go, runVars, lockVars, cacheVars, reqVars
  <2>11. ASSUME NEW p \in Senders, Record(p) PROVE HeldInUse'
    BY <2>11 DEF Record, Unrecorded, Go, runVars, lockVars, cacheVars, reqVars
  <2>12. ASSUME NEW p \in Senders, WriteSucceeds(p) PROVE HeldInUse'
    BY <2>12 DEF WriteSucceeds, Unlock, Return, Go, runVars, lockVars, cacheVars, reqVars
  <2>13. ASSUME NEW p \in Senders, WriteFails(p) PROVE HeldInUse'
    BY <2>13 DEF WriteFails, Unlock, Return, Go, runVars, lockVars, cacheVars, reqVars
  <2>14. ASSUME NEW p \in Enders, EndGet(p) PROVE HeldInUse'
    BY <2>14 DEF EndGet, Go, runVars, lockVars, cacheVars, reqVars
  <2>15. ASSUME NEW p \in Enders, CloseStdin(p) PROVE HeldInUse'
    BY <2>15 DEF CloseStdin, Unlock, Go, runVars, lockVars, cacheVars, reqVars
  <2>16. ASSUME NEW p \in Enders, StopContainer(p) PROVE HeldInUse'
    BY <2>16 DEF StopContainer, Return, Go, runVars, lockVars, cacheVars, reqVars
  <2>17. CASE UNCHANGED vars
    BY <2>17 DEF vars, runVars, lockVars, cacheVars, reqVars
  <2>. QED
    BY <2>1, <2>1a, <2>1b, <2>1c, <2>2, <2>3, <2>4, <2>5, <2>6, <2>7, <2>8, <2>9, <2>10, <2>11, <2>12, <2>13, <2>14, <2>15, <2>16, <2>17 DEF Next, StartStep, SupervisorStep, SendStep, EndStep, Requests
<1>. QED
  BY <1>1, <1>2, TypeCorrect, LockInvCorrect, PTL DEF Spec

(***************************************************************************)
(* The stdin of a container that is alive has one user at a time: two      *)
(* requests on it would have to hold the same mutex.                       *)
(***************************************************************************)
THEOREM OneLiveWriterCorrect == Spec => []OneLiveWriter
<1>1. LockInv => OneLiveWriter
  <2>. SUFFICES ASSUME LockInv, NEW p \in Requests, NEW q \in Requests, p # q,
                       UsesStdin(p), UsesStdin(q), run[p] = run[q], run[p] \in alive
                PROVE FALSE
    BY DEF OneLiveWriter
  <2>1. pc[p] \in Holding /\ pc[q] \in Holding
    BY DEF UsesStdin, Holding
  <2>2. mu[p] = mutex /\ mu[q] = mutex
    BY <2>1 DEF LockInv, SharedMutex, Acquiring, Holding
  <2>. QED
    BY <2>1, <2>2 DEF LockInv, Owned
<1>. QED
  BY <1>1, LockInvCorrect, PTL

\* After the step the request's container has ended, or it was still starting
\* or being undone.
Ended(p) == run[p] \notin alive' \/ stage[run[p]] \in {"starting", "failed"}

(***************************************************************************)
(* When an end has been answered its container is not alive, unless its    *)
(* start is in progress or being undone: while it was, its run was the     *)
(* tracked one, which is the one Stop looks up.                            *)
(***************************************************************************)
THEOREM EndStopsItsRunCorrect == Spec => EndStopsItsRun
<1>. USE RequestsAssumption, SizesAssumption DEF TypeOK, Requests, Runs
<1>1. TypeOK /\ LockInv /\ [Next]_vars =>
        [\A p \in Enders :
           EndAnswered(p) => run[p] \notin alive' \/ stage[run[p]] \in {"starting", "failed"}]_vars
  <2>. SUFFICES ASSUME TypeOK, LockInv, [Next]_vars, NEW e \in Enders,
                       pc[e] = "stop", pc'[e] = "idle"
                PROVE Ended(e)
    BY DEF EndAnswered, Ended
  <2>. USE DEF LockInv, OneCurrent, AliveStage, HasRun, Ended
  <2>1. ASSUME NEW r \in Runs, Launch(r) PROVE Ended(e)
    BY <2>1 DEF Launch, runVars, lockVars, cacheVars, reqVars
  <2>1a. ASSUME NEW r \in Runs, StartReturns(r) PROVE Ended(e)
    BY <2>1a DEF StartReturns, runVars, lockVars, cacheVars, reqVars
  <2>1b. ASSUME NEW r \in Runs, StartFails(r) PROVE Ended(e)
    BY <2>1b DEF StartFails, runVars, lockVars, cacheVars, reqVars
  <2>1c. ASSUME NEW r \in Runs, Discard(r) PROVE Ended(e)
    BY <2>1c DEF Discard, runVars, lockVars, cacheVars, reqVars
  <2>2. ASSUME NEW r \in Runs, ContainerExits(r) PROVE Ended(e)
    BY <2>2 DEF ContainerExits, runVars, lockVars, cacheVars, reqVars
  <2>3. ASSUME NEW r \in Runs, WorkerReads(r) PROVE Ended(e)
    BY <2>3 DEF WorkerReads, runVars, lockVars, cacheVars, reqVars
  <2>4. ASSUME NEW r \in Runs, DropSession(r) PROVE Ended(e)
    BY <2>4 DEF DropSession, runVars, lockVars, cacheVars, reqVars
  <2>5. ASSUME NEW r \in Runs, Untrack(r) PROVE Ended(e)
    BY <2>5 DEF Untrack, runVars, lockVars, cacheVars, reqVars
  <2>6. ASSUME NEW r \in Runs, CloseAttach(r) PROVE Ended(e)
    BY <2>6 DEF CloseAttach, runVars, lockVars, cacheVars, reqVars
  <2>7. ASSUME NEW p \in Requests, StdinLock(p) PROVE Ended(e)
    BY <2>7 DEF StdinLock, Go, runVars, lockVars, cacheVars, reqVars
  <2>8. ASSUME NEW p \in Requests, Lock(p) PROVE Ended(e)
    BY <2>8 DEF Lock, Go, runVars, lockVars, cacheVars, reqVars
  <2>9. ASSUME NEW p \in Senders, NEW x \in SentIDs, MessageGet(p, x) PROVE Ended(e)
    BY <2>9 DEF MessageGet, Go, runVars, lockVars, cacheVars, reqVars
  <2>10. ASSUME NEW p \in Senders, AckDuplicate(p) PROVE Ended(e)
    BY <2>10 DEF AckDuplicate, Unlock, Return, Go, runVars, lockVars, cacheVars, reqVars
  <2>11. ASSUME NEW p \in Senders, Record(p) PROVE Ended(e)
    BY <2>11 DEF Record, Unrecorded, Go, runVars, lockVars, cacheVars, reqVars
  <2>12. ASSUME NEW p \in Senders, WriteSucceeds(p) PROVE Ended(e)
    BY <2>12 DEF WriteSucceeds, Unlock, Return, Go, runVars, lockVars, cacheVars, reqVars
  <2>13. ASSUME NEW p \in Senders, WriteFails(p) PROVE Ended(e)
    BY <2>13 DEF WriteFails, Unlock, Return, Go, runVars, lockVars, cacheVars, reqVars
  <2>14. ASSUME NEW p \in Enders, EndGet(p) PROVE Ended(e)
    BY <2>14 DEF EndGet, Go, runVars, lockVars, cacheVars, reqVars
  <2>15. ASSUME NEW p \in Enders, CloseStdin(p) PROVE Ended(e)
    BY <2>15 DEF CloseStdin, Unlock, Go, runVars, lockVars, cacheVars, reqVars
  <2>16. ASSUME NEW p \in Enders, StopContainer(p) PROVE Ended(e)
    BY <2>16 DEF StopContainer, Return, Go, runVars, lockVars, cacheVars, reqVars
  <2>17. CASE UNCHANGED vars
    BY <2>17 DEF vars, runVars, lockVars, cacheVars, reqVars
  <2>. QED
    BY <2>1, <2>1a, <2>1b, <2>1c, <2>2, <2>3, <2>4, <2>5, <2>6, <2>7, <2>8, <2>9, <2>10, <2>11, <2>12, <2>13, <2>14, <2>15, <2>16, <2>17 DEF Next, StartStep, SupervisorStep, SendStep, EndStep, Requests
<1>. QED
  BY <1>1, TypeCorrect, LockInvCorrect, PTL DEF Spec, EndStopsItsRun

-----------------------------------------------------------------------------
(* What becomes of a message id.                                           *)

(***************************************************************************)
(* The requests of MessageDelivery, with their mutexes, early returns and  *)
(* rollbacks, treat message ids as Deliveries has it.  Recording an id     *)
(* takes it up, a write delivers it, and a failed write withdraws it;      *)
(* every other step, and all that is done without an id, leaves the        *)
(* promise where it was.                                                   *)
(***************************************************************************)
THEOREM DeliveriesRefinement == Spec => ImplementsDeliveries
<1>. USE RequestsAssumption, IDsAssumption DEF TypeOK, Requests, IDs
<1>. DEFINE ahead == [x \in MsgIDs |-> Undecided(x)]
<1>1. Init => Promise!Init
  <2>. SUFFICES ASSUME Init PROVE Promise!Init
    OBVIOUS
  <2>1. \A x \in MsgIDs : Undecided(x) = {}
    BY DEF Init, Undecided
  <2>. QED
    BY <2>1 DEF Init, Promise!Init
<1>2. TypeOK /\ [Next]_vars => [Promise!Next]_(Promise!promiseVars)
  <2>. SUFFICES ASSUME TypeOK, [Next]_vars
                PROVE  [Promise!Next]_(Promise!promiseVars)
    OBVIOUS
  <2>. DEFINE Same == dedup' = dedup /\ expired' = expired /\ sent' = sent /\ ahead' = ahead
  <2>1. ASSUME NEW r \in Runs, Launch(r) PROVE Same
    BY <2>1 DEF Launch, Undecided, cacheVars, reqVars
  <2>2. ASSUME NEW r \in Runs, StartReturns(r) PROVE Same
    BY <2>2 DEF StartReturns, Undecided, cacheVars, reqVars
  <2>3. ASSUME NEW r \in Runs, StartFails(r) PROVE Same
    BY <2>3 DEF StartFails, Undecided, cacheVars, reqVars
  <2>4. ASSUME NEW r \in Runs, Discard(r) PROVE Same
    BY <2>4 DEF Discard, Undecided, cacheVars, reqVars
  <2>5. ASSUME NEW r \in Runs, ContainerExits(r) PROVE Same
    BY <2>5 DEF ContainerExits, Undecided, cacheVars, reqVars
  <2>6. ASSUME NEW r \in Runs, WorkerReads(r) PROVE Same
    BY <2>6 DEF WorkerReads, Undecided, cacheVars, reqVars
  <2>7. ASSUME NEW r \in Runs, DropSession(r) PROVE Same
    BY <2>7 DEF DropSession, Undecided, cacheVars, reqVars
  <2>8. ASSUME NEW r \in Runs, Untrack(r) PROVE Same
    BY <2>8 DEF Untrack, Undecided, cacheVars, reqVars
  <2>9. ASSUME NEW r \in Runs, CloseAttach(r) PROVE Same
    BY <2>9 DEF CloseAttach, Undecided, cacheVars, reqVars
  <2>10. ASSUME NEW p \in Requests, StdinLock(p) PROVE Same
    BY <2>10 DEF StdinLock, Go, Undecided, cacheVars, reqVars
  <2>11. ASSUME NEW p \in Requests, Lock(p) PROVE Same
    BY <2>11 DEF Lock, Go, Undecided, cacheVars, reqVars
  <2>12. ASSUME NEW p \in Senders, NEW x \in SentIDs, MessageGet(p, x) PROVE Same
    BY <2>12 DEF MessageGet, Go, Undecided, cacheVars, reqVars
  <2>13. ASSUME NEW p \in Senders, AckDuplicate(p) PROVE Same
    BY <2>13 DEF AckDuplicate, Unlock, Return, Go, Undecided, cacheVars, reqVars
  <2>14. ASSUME NEW p \in Enders, EndGet(p) PROVE Same
    BY <2>14 DEF EndGet, Go, Undecided, cacheVars, reqVars
  <2>15. ASSUME NEW p \in Enders, CloseStdin(p) PROVE Same
    BY <2>15 DEF CloseStdin, Unlock, Go, Undecided, cacheVars, reqVars
  <2>16. ASSUME NEW p \in Enders, StopContainer(p) PROVE Same
    BY <2>16 DEF StopContainer, Return, Go, Undecided, cacheVars, reqVars
  <2>17. ASSUME UNCHANGED vars PROVE Same
    BY <2>17 DEF vars, Undecided
  <2>18. ASSUME NEW p \in Senders, Record(p), id[p] \in MsgIDs PROVE Promise!TakeUp(p, id[p])
    <3>1. p \notin Undecided(id[p])
      BY <2>18 DEF Record, Go, Undecided
    <3>2. ASSUME NEW x \in MsgIDs
          PROVE  Undecided(x)' = IF x = id[p] THEN Undecided(x) \cup {p} ELSE Undecided(x)
      BY <2>18 DEF Record, Go, Undecided, reqVars
    <3>3. ahead' = [ahead EXCEPT ![id[p]] = @ \cup {p}]
      BY <3>2, <2>18
    <3>4. dedup' = dedup \cup {id[p]} /\ sent' = sent
      BY <2>18 DEF Record
    <3>5. expired' = IF id[p] \in dedup THEN [expired EXCEPT ![id[p]] = @ + 1] ELSE expired
      BY <2>18 DEF Record, Unrecorded
    <3>. QED
      BY <3>1, <3>3, <3>4, <3>5, <2>18 DEF Promise!TakeUp
  <2>19. ASSUME NEW p \in Senders, Record(p), id[p] = NoID PROVE Same
    BY <2>19 DEF Record, Unrecorded, Go, Undecided, reqVars
  <2>20. ASSUME NEW p \in Senders, WriteSucceeds(p) \/ WriteFails(p), NEW x \in MsgIDs
        PROVE  Undecided(x)' = IF x = id[p] THEN Undecided(x) \ {p} ELSE Undecided(x)
    BY <2>20 DEF WriteSucceeds, WriteFails, Return, Go, Undecided
  <2>21. ASSUME NEW p \in Senders, WriteSucceeds(p) \/ WriteFails(p), id[p] \in MsgIDs
        PROVE  Promise!Decide(p, id[p])
    <3>1. p \in Undecided(id[p])
      BY <2>21 DEF WriteSucceeds, WriteFails, Go, Undecided
    <3>2. ahead' = [ahead EXCEPT ![id[p]] = @ \ {p}]
      BY <2>21, <2>20
    <3>. QED
      BY <2>21, <3>1, <3>2 DEF Promise!Decide
  <2>22. ASSUME NEW p \in Senders, WriteSucceeds(p), id[p] \in MsgIDs PROVE Promise!Deliver(p, id[p])
    BY <2>22, <2>21 DEF WriteSucceeds, Promise!Deliver, cacheVars
  <2>23. ASSUME NEW p \in Senders, WriteFails(p), id[p] \in MsgIDs PROVE Promise!Withdraw(p, id[p])
    BY <2>23, <2>21 DEF WriteFails, Promise!Withdraw
  <2>24. ASSUME NEW p \in Senders, WriteSucceeds(p) \/ WriteFails(p), id[p] = NoID PROVE Same
    <3>1. \A x \in MsgIDs : Undecided(x)' = Undecided(x)
      BY <2>24, <2>20
    <3>2. expired' = expired /\ sent' = sent /\ (dedup' = dedup \/ dedup' = dedup \ {NoID})
      BY <2>24 DEF WriteSucceeds, WriteFails, cacheVars
    <3>3. dedup' = dedup
      <4>1. NoID \notin dedup
        OBVIOUS
      <4>2. dedup \ {NoID} = dedup
        BY <4>1
      <4>. QED
        BY <3>2, <4>2
    <3>. QED
      BY <3>1, <3>2, <3>3
  <2>25. Same => UNCHANGED Promise!promiseVars
    BY DEF Promise!promiseVars
  <2>26. ASSUME NEW p \in Senders, NEW x \in MsgIDs,
                Promise!TakeUp(p, x) \/ Promise!Deliver(p, x) \/ Promise!Withdraw(p, x)
         PROVE  Promise!Next
    BY <2>26 DEF Promise!Next
  <2>27. \A p \in Senders : id[p] \in MsgIDs \/ id[p] = NoID
    OBVIOUS
  <2>. HIDE DEF Same, TypeOK, Requests, IDs
  <2>. QED
    BY <2>1, <2>2, <2>3, <2>4, <2>5, <2>6, <2>7, <2>8, <2>9, <2>10, <2>11, <2>12, <2>13, <2>14, <2>15, <2>16, <2>17, <2>18, <2>19, <2>22, <2>23, <2>24, <2>25, <2>26, <2>27
    DEF Next, StartStep, SupervisorStep, SendStep, EndStep, Requests
<1>. QED
  BY <1>1, <1>2, TypeCorrect, PTL DEF Spec, ImplementsDeliveries, Promise!Spec

(***************************************************************************)
(* A message id is written once, and once more for each expired record:    *)
(* Deliveries has it, and the writes are the same.                         *)
(***************************************************************************)
THEOREM AtMostOnceCorrect == Spec => []AtMostOnce
<1>1. Promise!IsFiniteSet(Senders)
  BY RequestsAssumption DEF IsFiniteSet, Promise!IsFiniteSet
<1>2. Promise!Spec => []Promise!AtMostOnce
  BY <1>1, Promise!AtMostOnceCorrect
<1>3. Promise!AtMostOnce <=> AtMostOnce
  BY DEF Promise!AtMostOnce, AtMostOnce
<1>. QED
  BY <1>2, <1>3, DeliveriesRefinement, PTL DEF ImplementsDeliveries

Backed == \A x \in dedup : sent[x] > 0 \/ Undecided(x) # {}

(***************************************************************************)
(* On a live container a duplicate is of a message that has been written,  *)
(* or of one that another run's sender still holds: a sender of the same   *)
(* run would hold the mutex.                                               *)
(***************************************************************************)
THEOREM LiveDuplicateCorrect == Spec => LiveDuplicateMeansDelivered
<1>. USE RequestsAssumption, IDsAssumption, SizesAssumption DEF TypeOK, Requests, IDs
<1>1. Spec => []Backed
  <2>1. Promise!IsFiniteSet(Senders)
    BY RequestsAssumption DEF IsFiniteSet, Promise!IsFiniteSet
  <2>2. Promise!Spec => []Promise!Inv
    BY <2>1, Promise!InvCorrect
  <2>3. Promise!Inv => Backed
    BY DEF Promise!Inv, Promise!Backed, Promise!TypeOK, Backed
  <2>. QED
    BY <2>2, <2>3, DeliveriesRefinement, PTL DEF ImplementsDeliveries
<1>2. TypeOK /\ LockInv /\ Backed /\ [Next]_vars =>
        [\A p \in Senders : Acknowledged(p) /\ run[p] \in alive =>
           \/ sent[id[p]] > 0
           \/ \E q \in Undecided(id[p]) : run[q] # run[p]]_vars
  <2>. SUFFICES ASSUME TypeOK, LockInv, Backed, [Next]_vars, NEW s \in Senders,
                       Acknowledged(s), run[s] \in alive
                PROVE sent[id[s]] > 0 \/ \E q \in Undecided(id[s]) : run[q] # run[s]
    OBVIOUS
  <2>a. id[s] \in dedup
    <3>. USE DEF Acknowledged
    <3>. SUFFICES ASSUME [Next]_vars PROVE id[s] \in dedup
      OBVIOUS
    <3>1. ASSUME NEW r \in Runs, Launch(r) PROVE id[s] \in dedup
      BY <3>1 DEF Launch, runVars, lockVars, cacheVars, reqVars
    <3>1a. ASSUME NEW r \in Runs, StartReturns(r) PROVE id[s] \in dedup
      BY <3>1a DEF StartReturns, runVars, lockVars, cacheVars, reqVars
    <3>1b. ASSUME NEW r \in Runs, StartFails(r) PROVE id[s] \in dedup
      BY <3>1b DEF StartFails, runVars, lockVars, cacheVars, reqVars
    <3>1c. ASSUME NEW r \in Runs, Discard(r) PROVE id[s] \in dedup
      BY <3>1c DEF Discard, runVars, lockVars, cacheVars, reqVars
    <3>2. ASSUME NEW r \in Runs, ContainerExits(r) PROVE id[s] \in dedup
      BY <3>2 DEF ContainerExits, runVars, lockVars, cacheVars, reqVars
    <3>3. ASSUME NEW r \in Runs, WorkerReads(r) PROVE id[s] \in dedup
      BY <3>3 DEF WorkerReads, runVars, lockVars, cacheVars, reqVars
    <3>4. ASSUME NEW r \in Runs, DropSession(r) PROVE id[s] \in dedup
      BY <3>4 DEF DropSession, runVars, lockVars, cacheVars, reqVars
    <3>5. ASSUME NEW r \in Runs, Untrack(r) PROVE id[s] \in dedup
      BY <3>5 DEF Untrack, runVars, lockVars, cacheVars, reqVars
    <3>6. ASSUME NEW r \in Runs, CloseAttach(r) PROVE id[s] \in dedup
      BY <3>6 DEF CloseAttach, runVars, lockVars, cacheVars, reqVars
    <3>7. ASSUME NEW p \in Requests, StdinLock(p) PROVE id[s] \in dedup
      BY <3>7 DEF StdinLock, Go, runVars, lockVars, cacheVars, reqVars
    <3>8. ASSUME NEW p \in Requests, Lock(p) PROVE id[s] \in dedup
      BY <3>8 DEF Lock, Go, runVars, lockVars, cacheVars, reqVars
    <3>9. ASSUME NEW p \in Senders, NEW x \in SentIDs, MessageGet(p, x) PROVE id[s] \in dedup
      BY <3>9 DEF MessageGet, Go, runVars, lockVars, cacheVars, reqVars
    <3>10. ASSUME NEW p \in Senders, AckDuplicate(p) PROVE id[s] \in dedup
      BY <3>10 DEF AckDuplicate, Unlock, Return, Go, runVars, lockVars, cacheVars, reqVars
    <3>11. ASSUME NEW p \in Senders, Record(p) PROVE id[s] \in dedup
      BY <3>11 DEF Record, Unrecorded, Go, runVars, lockVars, cacheVars, reqVars
    <3>12. ASSUME NEW p \in Senders, WriteSucceeds(p) PROVE id[s] \in dedup
      BY <3>12 DEF WriteSucceeds, Unlock, Return, Go, runVars, lockVars, cacheVars, reqVars
    <3>13. ASSUME NEW p \in Senders, WriteFails(p) PROVE id[s] \in dedup
      BY <3>13 DEF WriteFails, Unlock, Return, Go, runVars, lockVars, cacheVars, reqVars
    <3>14. ASSUME NEW p \in Enders, EndGet(p) PROVE id[s] \in dedup
      BY <3>14 DEF EndGet, Go, runVars, lockVars, cacheVars, reqVars
    <3>15. ASSUME NEW p \in Enders, CloseStdin(p) PROVE id[s] \in dedup
      BY <3>15 DEF CloseStdin, Unlock, Go, runVars, lockVars, cacheVars, reqVars
    <3>16. ASSUME NEW p \in Enders, StopContainer(p) PROVE id[s] \in dedup
      BY <3>16 DEF StopContainer, Return, Go, runVars, lockVars, cacheVars, reqVars
    <3>17. CASE UNCHANGED vars
      BY <3>17 DEF vars, runVars, lockVars, cacheVars, reqVars
    <3>. QED
      BY <3>1, <3>1a, <3>1b, <3>1c, <3>2, <3>3, <3>4, <3>5, <3>6, <3>7, <3>8, <3>9, <3>10, <3>11, <3>12, <3>13, <3>14, <3>15, <3>16, <3>17 DEF Next, StartStep, SupervisorStep, SendStep, EndStep, Requests
  <2>b. ASSUME NEW q \in Undecided(id[s]) PROVE run[q] # run[s]
    <3>1. q \in Requests /\ pc[q] \in Holding /\ pc[q] # "locked" /\ pc[s] = "locked"
      BY DEF Undecided, Acknowledged, Holding
    <3>2. SUFFICES ASSUME run[q] = run[s] PROVE FALSE
      OBVIOUS
    <3>3. mu[q] = mutex /\ mu[s] = mutex
      BY <3>1, <3>2 DEF LockInv, SharedMutex, Acquiring, Holding
    <3>. QED
      BY <3>1, <3>3 DEF LockInv, Owned, Holding
  <2>. QED
    BY <2>a, <2>b DEF Backed
<1>. QED
  BY <1>1, <1>2, TypeCorrect, LockInvCorrect, PTL DEF Spec, LiveDuplicateMeansDelivered

-----------------------------------------------------------------------------
(* What is taken of the runs.                                              *)

(***************************************************************************)
(* The runs of MessageDelivery keep to SessionRuns, the contract that      *)
(* LifecycleProofs shows the service's runs to keep to. A stopped          *)
(* container is one that ends.                                             *)
(***************************************************************************)
THEOREM RunsRefinement == Spec => ImplementsRuns
<1>. USE SizesAssumption DEF TypeOK, Runs, LockInv, OneCurrent, AliveStage
<1>. DEFINE tracked == [s \in {1} |-> current]
            life == [r \in Runs |-> IF stage[r] \in {"unborn", "closed"} THEN "off" ELSE stage[r]]
<1>1. Init => Lives!Init
  BY DEF Init, Lives!Init
<1>2. TypeOK /\ LockInv /\ [Next]_vars => [Lives!Next]_(Lives!runsVars)
  <2>. SUFFICES ASSUME TypeOK, LockInv, [Next]_vars
                PROVE  [Lives!Next]_(Lives!runsVars)
    OBVIOUS
  <2>. DEFINE Same == tracked' = tracked /\ life' = life /\ alive' = alive
  <2>. USE DEF Lives!Advance, Lives!Track
  <2>1. ASSUME NEW r \in Runs, Launch(r) PROVE Lives!Admit(r)
    BY <2>1 DEF Launch, runVars, Lives!Admit
  <2>2. ASSUME NEW r \in Runs, StartReturns(r) PROVE Lives!Started(r)
    BY <2>2 DEF StartReturns, runVars, Lives!Started
  <2>3. ASSUME NEW r \in Runs, StartFails(r) PROVE Lives!StartFails(r)
    BY <2>3 DEF StartFails, runVars, Lives!StartFails
  <2>4. ASSUME NEW r \in Runs, Discard(r) PROVE Lives!Undone(r)
    BY <2>4 DEF Discard, runVars, Lives!Undone
  <2>5. ASSUME NEW r \in Runs, ContainerExits(r) PROVE Lives!ContainerEnds(r)
    BY <2>5 DEF ContainerExits, runVars, Lives!ContainerEnds
  <2>6. ASSUME NEW r \in Runs, WorkerReads(r) PROVE Same
    BY <2>6 DEF WorkerReads, runVars
  <2>7. ASSUME NEW r \in Runs, DropSession(r) PROVE Lives!Drop(r)
    BY <2>7 DEF DropSession, runVars, Lives!Drop
  <2>8. ASSUME NEW r \in Runs, Untrack(r) PROVE Lives!Release(r)
    BY <2>8 DEF Untrack, runVars, Lives!Release
  <2>9. ASSUME NEW r \in Runs, CloseAttach(r) PROVE Lives!Close(r)
    BY <2>9 DEF CloseAttach, runVars, Lives!Close
  <2>10. ASSUME NEW p \in Requests, StdinLock(p) PROVE Same
    BY <2>10 DEF StdinLock, runVars
  <2>11. ASSUME NEW p \in Requests, Lock(p) PROVE Same
    BY <2>11 DEF Lock, runVars
  <2>12. ASSUME NEW p \in Senders, NEW x \in SentIDs, MessageGet(p, x) PROVE Same
    BY <2>12 DEF MessageGet, runVars
  <2>13. ASSUME NEW p \in Senders, AckDuplicate(p) PROVE Same
    BY <2>13 DEF AckDuplicate, runVars
  <2>14. ASSUME NEW p \in Senders, Record(p) PROVE Same
    BY <2>14 DEF Record, runVars
  <2>15. ASSUME NEW p \in Senders, WriteSucceeds(p) PROVE Same
    BY <2>15 DEF WriteSucceeds, runVars
  <2>16. ASSUME NEW p \in Senders, WriteFails(p) PROVE Same
    BY <2>16 DEF WriteFails, runVars
  <2>17. ASSUME NEW p \in Enders, EndGet(p) PROVE Same
    BY <2>17 DEF EndGet, runVars
  <2>18. ASSUME NEW p \in Enders, CloseStdin(p) PROVE Same
    BY <2>18 DEF CloseStdin, runVars
  <2>19. ASSUME NEW p \in Enders, StopContainer(p)
         PROVE  Same \/ \E r \in Runs : Lives!ContainerEnds(r)
    <3>1. CASE alive' = alive
      BY <2>19, <3>1 DEF StopContainer
    <3>2. CASE current \in alive /\ alive' = alive \ {current}
      <4>1. current \in Runs /\ Lives!ContainerEnds(current)
        BY <2>19, <3>2 DEF StopContainer, Lives!ContainerEnds
      <4>. QED
        BY <4>1
    <3>. QED
      BY <2>19, <3>1, <3>2 DEF StopContainer
  <2>20. ASSUME UNCHANGED vars PROVE Same
    BY <2>20 DEF vars
  <2>21. Same => UNCHANGED Lives!runsVars
    BY DEF Lives!runsVars
  <2>22. ASSUME NEW r \in Runs,
                Lives!Admit(r) \/ Lives!Started(r) \/ Lives!StartFails(r) \/ Lives!Undone(r)
                  \/ Lives!ContainerEnds(r) \/ Lives!Drop(r) \/ Lives!Release(r) \/ Lives!Close(r)
         PROVE  Lives!Next
    BY <2>22 DEF Lives!Next
  <2>. HIDE DEF Same, Lives!Advance, Lives!Track, OneCurrent, AliveStage
  <2>. QED
    BY <2>1, <2>2, <2>3, <2>4, <2>5, <2>6, <2>7, <2>8, <2>9, <2>10, <2>11, <2>12, <2>13, <2>14, <2>15, <2>16, <2>17, <2>18, <2>19, <2>20, <2>21, <2>22
    DEF Next, StartStep, SupervisorStep, SendStep, EndStep, Requests
<1>. QED
  BY <1>1, <1>2, TypeCorrect, LockInvCorrect, PTL DEF Spec, ImplementsRuns, Lives!Spec

=============================================================================
