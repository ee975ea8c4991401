-------------------------- MODULE LifecycleProofs --------------------------
(***************************************************************************)
(* Theorems about Lifecycle, for every set of sessions, runs and end       *)
(* requests, every limit and every choice of Serial and Faults.            *)
(***************************************************************************)
EXTENDS Lifecycle, FiniteSetTheorems, TLAPS

(***************************************************************************)
(* Every variable keeps its type.                                          *)
(***************************************************************************)
THEOREM TypeCorrect == Spec => []TypeOK
<1>. USE RunsAssumption DEF TypeOK, TrackerTypeOK, Reasons, HandlerPoints, SupervisorPoints
<1>1. Init => TypeOK
  BY DEF Init, NewTracker
<1>2. TypeOK /\ [Next]_vars => TypeOK'
  <2>. SUFFICES ASSUME TypeOK, [Next]_vars PROVE TypeOK'
    OBVIOUS
  <2>1. ASSUME NEW i \in Runs, CapacityCheck(i) PROVE TypeOK'
    BY <2>1 DEF memory, endVars, procVars, CapacityCheck, Go
  <2>2. ASSUME NEW i \in Runs, ConflictCheck(i) PROVE TypeOK'
    BY <2>2 DEF memory, endVars, procVars, ConflictCheck, Go
  <2>3. ASSUME NEW i \in Runs, MakeRunDir(i) PROVE TypeOK'
    BY <2>3 DEF memory, endVars, procVars, MakeRunDir, Go
  <2>4. ASSUME NEW i \in Runs, WriteResume(i) PROVE TypeOK'
    BY <2>4 DEF memory, endVars, procVars, WriteResume, Go
  <2>5. ASSUME NEW i \in Runs, RegisterToken(i) PROVE TypeOK'
    BY <2>5 DEF memory, endVars, procVars, RegisterToken, Go
  <2>6. ASSUME NEW i \in Runs, ArmSecrets(i) PROVE TypeOK'
    BY <2>6 DEF memory, endVars, procVars, ArmSecrets, Go
  <2>7. ASSUME NEW i \in Runs, CreateContainer(i) PROVE TypeOK'
    BY <2>7 DEF memory, endVars, procVars, CreateContainer, Go
  <2>8. ASSUME NEW i \in Runs, AttachContainer(i) PROVE TypeOK'
    BY <2>8 DEF memory, endVars, procVars, AttachContainer, Go
  <2>9. ASSUME NEW i \in Runs, Admit(i) PROVE TypeOK'
    BY <2>9 DEF memory, endVars, procVars, Admit, Admits, AddIfUnderLimit, Go
  <2>10. ASSUME NEW i \in Runs, StartContainer(i) PROVE TypeOK'
    BY <2>10 DEF memory, endVars, procVars, StartContainer, Go
  <2>11. ASSUME NEW i \in Runs, UntrackFailedStart(i) PROVE TypeOK'
    BY <2>11 DEF memory, endVars, procVars, UntrackFailedStart, Remove, Go
  <2>12. ASSUME NEW i \in Runs, DiscardContainer(i) PROVE TypeOK'
    BY <2>12 DEF memory, endVars, procVars, DiscardContainer, RemoveContainer, Go
  <2>13. ASSUME NEW i \in Runs, ForgetSecrets(i) PROVE TypeOK'
    BY <2>13 DEF memory, endVars, procVars, ForgetSecrets, RemoveSessionKey, Go
  <2>14. ASSUME NEW i \in Runs, RevokeToken(i) PROVE TypeOK'
    BY <2>14 DEF memory, endVars, procVars, RevokeToken, Revoke, Go
  <2>15. ASSUME NEW i \in Runs, CleanupRunDir(i) PROVE TypeOK'
    BY <2>15 DEF memory, endVars, procVars, CleanupRunDir, RemoveRunDir, Go
  <2>16. ASSUME NEW i \in Runs, WaitReturns(i) PROVE TypeOK'
    BY <2>16 DEF memory, endVars, procVars, WaitReturns, Go
  <2>17. ASSUME NEW i \in Runs, ForceRemove(i) PROVE TypeOK'
    BY <2>17 DEF memory, endVars, procVars, ForceRemove, RemoveContainer, Go
  <2>18. ASSUME NEW i \in Runs, Drain(i) PROVE TypeOK'
    BY <2>18 DEF memory, endVars, procVars, Drain, Go
  <2>19. ASSUME NEW i \in Runs, Teardown(i) PROVE TypeOK'
    BY <2>19 DEF memory, endVars, procVars, Teardown, RemoveRunDir, Go
  <2>20. ASSUME NEW i \in Runs, ForgetExit(i) PROVE TypeOK'
    BY <2>20 DEF memory, endVars, procVars, ForgetExit, RemoveSessionKey, Go
  <2>21. ASSUME NEW i \in Runs, RevokeExit(i) PROVE TypeOK'
    BY <2>21 DEF memory, endVars, procVars, RevokeExit, Revoke, Go
  <2>22. ASSUME NEW i \in Runs, Release(i) PROVE TypeOK'
    BY <2>22 DEF memory, endVars, procVars, Release, Remove, Go
  <2>23. ASSUME NEW i \in Runs, CloseAttach(i) PROVE TypeOK'
    BY <2>23 DEF memory, endVars, procVars, CloseAttach, Go
  <2>24. ASSUME NEW i \in Runs, WaitFails(i) PROVE TypeOK'
    BY <2>24 DEF memory, endVars, procVars, WaitFails, KillContainer, Signalled, Go
  <2>25. ASSUME NEW i \in Runs, ContainerExits(i) PROVE TypeOK'
    BY <2>25 DEF memory, endVars, procVars, ContainerExits
  <2>26. ASSUME NEW i \in Runs, ContainerWrites(i) PROVE TypeOK'
    BY <2>26 DEF memory, endVars, procVars, ContainerWrites
  <2>27. ASSUME NEW i \in Runs, PumpOutput(i) PROVE TypeOK'
    BY <2>27 DEF memory, endVars, procVars, PumpOutput
  <2>28. ASSUME NEW r \in Runs, KillTracked(r) PROVE TypeOK'
    BY <2>28 DEF memory, endVars, procVars, KillTracked, SetReason, KillContainer, Signalled, RemoveRunDir
  <2>29. ASSUME NEW e \in Ends, StopGet(e) PROVE TypeOK'
    BY <2>29 DEF memory, endVars, procVars, StopGet, EndReturns
  <2>30. ASSUME NEW e \in Ends, StopReason(e) PROVE TypeOK'
    BY <2>30 DEF memory, endVars, procVars, StopReason, SetReason
  <2>31. ASSUME NEW e \in Ends, StopSignal(e) PROVE TypeOK'
    BY <2>31 DEF memory, endVars, procVars, StopSignal, EndReturns, KillContainer, Signalled
  <2>32. ASSUME NEW e \in Ends, NEW s \in Sessions, EndGet(e, s) PROVE TypeOK'
    BY <2>32 DEF memory, endVars, procVars, EndGet
  <2>33. CASE StartDraining
    BY <2>33 DEF memory, endVars, procVars, StartDraining
  <2>34. CASE HttpDown
    BY <2>34 DEF memory, endVars, procVars, HttpDown, Tracked
  <2>35. CASE ProcessExit
    BY <2>35 DEF memory, endVars, procVars, ProcessExit, LoseMemory, ResetTracker
  <2>36. CASE Crash
    BY <2>36 DEF memory, endVars, procVars, Crash, LoseMemory, ResetTracker
  <2>37. CASE Boot
    BY <2>37 DEF memory, endVars, procVars, Boot
  <2>38. CASE UNCHANGED vars
    BY <2>38 DEF memory, endVars, procVars, vars
  <2>. QED
    BY <2>1, <2>2, <2>3, <2>4, <2>5, <2>6, <2>7, <2>8, <2>9, <2>10, <2>11, <2>12, <2>13, <2>14, <2>15, <2>16, <2>17, <2>18, <2>19, <2>20, <2>21, <2>22, <2>23, <2>24, <2>25, <2>26, <2>27, <2>28, <2>29, <2>30, <2>31, <2>32, <2>33, <2>34, <2>35, <2>36, <2>37, <2>38
    DEF Next, RunStep, StartStep, SupervisorStep, EndStep
<1>. QED
  BY <1>1, <1>2, PTL DEF Spec

(***************************************************************************)
(* The tracker entry of a session belongs to the one run that has been     *)
(* admitted and not released.                                              *)
(***************************************************************************)
THEOREM SlotOwnerCorrect == Spec => []SlotOwner
<1>. USE RunsAssumption DEF TypeOK, TrackerTypeOK, Reasons, SlotOwner, HoldsSlot, Tracked
<1>1. Init => SlotOwner
  BY DEF Init, NewTracker
<1>2. TypeOK /\ SlotOwner /\ [Next]_vars => SlotOwner'
  <2>. SUFFICES ASSUME TypeOK, SlotOwner, [Next]_vars PROVE SlotOwner'
    OBVIOUS
  <2>1. ASSUME NEW i \in Runs, CapacityCheck(i) PROVE SlotOwner'
    BY <2>1 DEF memory, endVars, procVars, CapacityCheck, Go
  <2>2. ASSUME NEW i \in Runs, ConflictCheck(i) PROVE SlotOwner'
    BY <2>2 DEF memory, endVars, procVars, ConflictCheck, Go
  <2>3. ASSUME NEW i \in Runs, MakeRunDir(i) PROVE SlotOwner'
    BY <2>3 DEF memory, endVars, procVars, MakeRunDir, Go
  <2>4. ASSUME NEW i \in Runs, WriteResume(i) PROVE SlotOwner'
    BY <2>4 DEF memory, endVars, procVars, WriteResume, Go
  <2>5. ASSUME NEW i \in Runs, RegisterToken(i) PROVE SlotOwner'
    BY <2>5 DEF memory, endVars, procVars, RegisterToken, Go
  <2>6. ASSUME NEW i \in Runs, ArmSecrets(i) PROVE SlotOwner'
    BY <2>6 DEF memory, endVars, procVars, ArmSecrets, Go
  <2>7. ASSUME NEW i \in Runs, CreateContainer(i) PROVE SlotOwner'
    BY <2>7 DEF memory, endVars, procVars, CreateContainer, Go
  <2>8. ASSUME NEW i \in Runs, AttachContainer(i) PROVE SlotOwner'
    BY <2>8 DEF memory, endVars, procVars, AttachContainer, Go
  <2>9. ASSUME NEW i \in Runs, Admit(i) PROVE SlotOwner'
    BY <2>9 DEF memory, endVars, procVars, Admit, Admits, AddIfUnderLimit, Go
  <2>10. ASSUME NEW i \in Runs, StartContainer(i) PROVE SlotOwner'
    BY <2>10 DEF memory, endVars, procVars, StartContainer, Go
  <2>11. ASSUME NEW i \in Runs, UntrackFailedStart(i) PROVE SlotOwner'
    BY <2>11 DEF memory, endVars, procVars, UntrackFailedStart, Remove, Go
  <2>12. ASSUME NEW i \in Runs, DiscardContainer(i) PROVE SlotOwner'
    BY <2>12 DEF memory, endVars, procVars, DiscardContainer, RemoveContainer, Go
  <2>13. ASSUME NEW i \in Runs, ForgetSecrets(i) PROVE SlotOwner'
    BY <2>13 DEF memory, endVars, procVars, ForgetSecrets, RemoveSessionKey, Go
  <2>14. ASSUME NEW i \in Runs, RevokeToken(i) PROVE SlotOwner'
    BY <2>14 DEF memory, endVars, procVars, RevokeToken, Revoke, Go
  <2>15. ASSUME NEW i \in Runs, CleanupRunDir(i) PROVE SlotOwner'
    BY <2>15 DEF memory, endVars, procVars, CleanupRunDir, RemoveRunDir, Go
  <2>16. ASSUME NEW i \in Runs, WaitReturns(i) PROVE SlotOwner'
    BY <2>16 DEF memory, endVars, procVars, WaitReturns, Go
  <2>17. ASSUME NEW i \in Runs, ForceRemove(i) PROVE SlotOwner'
    BY <2>17 DEF memory, endVars, procVars, ForceRemove, RemoveContainer, Go
  <2>18. ASSUME NEW i \in Runs, Drain(i) PROVE SlotOwner'
    BY <2>18 DEF memory, endVars, procVars, Drain, Go
  <2>19. ASSUME NEW i \in Runs, Teardown(i) PROVE SlotOwner'
    BY <2>19 DEF memory, endVars, procVars, Teardown, RemoveRunDir, Go
  <2>20. ASSUME NEW i \in Runs, ForgetExit(i) PROVE SlotOwner'
    BY <2>20 DEF memory, endVars, procVars, ForgetExit, RemoveSessionKey, Go
  <2>21. ASSUME NEW i \in Runs, RevokeExit(i) PROVE SlotOwner'
    BY <2>21 DEF memory, endVars, procVars, RevokeExit, Revoke, Go
  <2>22. ASSUME NEW i \in Runs, Release(i) PROVE SlotOwner'
    BY <2>22 DEF memory, endVars, procVars, Release, Remove, Go
  <2>23. ASSUME NEW i \in Runs, CloseAttach(i) PROVE SlotOwner'
    BY <2>23 DEF memory, endVars, procVars, CloseAttach, Go
  <2>24. ASSUME NEW i \in Runs, WaitFails(i) PROVE SlotOwner'
    BY <2>24 DEF memory, endVars, procVars, WaitFails, KillContainer, Signalled, Go
  <2>25. ASSUME NEW i \in Runs, ContainerExits(i) PROVE SlotOwner'
    BY <2>25 DEF memory, endVars, procVars, ContainerExits
  <2>26. ASSUME NEW i \in Runs, ContainerWrites(i) PROVE SlotOwner'
    BY <2>26 DEF memory, endVars, procVars, ContainerWrites
  <2>27. ASSUME NEW i \in Runs, PumpOutput(i) PROVE SlotOwner'
    BY <2>27 DEF memory, endVars, procVars, PumpOutput
  <2>28. ASSUME NEW r \in Runs, KillTracked(r) PROVE SlotOwner'
    BY <2>28 DEF memory, endVars, procVars, KillTracked, SetReason, KillContainer, Signalled, RemoveRunDir
  <2>29. ASSUME NEW e \in Ends, StopGet(e) PROVE SlotOwner'
    BY <2>29 DEF memory, endVars, procVars, StopGet, EndReturns
  <2>30. ASSUME NEW e \in Ends, StopReason(e) PROVE SlotOwner'
    BY <2>30 DEF memory, endVars, procVars, StopReason, SetReason
  <2>31. ASSUME NEW e \in Ends, StopSignal(e) PROVE SlotOwner'
    BY <2>31 DEF memory, endVars, procVars, StopSignal, EndReturns, KillContainer, Signalled
  <2>32. ASSUME NEW e \in Ends, NEW s \in Sessions, EndGet(e, s) PROVE SlotOwner'
    BY <2>32 DEF memory, endVars, procVars, EndGet
  <2>33. CASE StartDraining
    BY <2>33 DEF memory, endVars, procVars, StartDraining
  <2>34. CASE HttpDown
    BY <2>34 DEF memory, endVars, procVars, HttpDown, Tracked
  <2>35. CASE ProcessExit
    BY <2>35 DEF memory, endVars, procVars, ProcessExit, LoseMemory, ResetTracker
  <2>36. CASE Crash
    BY <2>36 DEF memory, endVars, procVars, Crash, LoseMemory, ResetTracker
  <2>37. CASE Boot
    BY <2>37 DEF memory, endVars, procVars, Boot
  <2>38. CASE UNCHANGED vars
    BY <2>38 DEF memory, endVars, procVars, vars
  <2>. QED
    BY <2>1, <2>2, <2>3, <2>4, <2>5, <2>6, <2>7, <2>8, <2>9, <2>10, <2>11, <2>12, <2>13, <2>14, <2>15, <2>16, <2>17, <2>18, <2>19, <2>20, <2>21, <2>22, <2>23, <2>24, <2>25, <2>26, <2>27, <2>28, <2>29, <2>30, <2>31, <2>32, <2>33, <2>34, <2>35, <2>36, <2>37, <2>38
    DEF Next, RunStep, StartStep, SupervisorStep, EndStep
<1>. QED
  BY <1>1, <1>2, TypeCorrect, PTL DEF Spec

(***************************************************************************)
(* A reason is never left behind for a session without a run: Remove takes *)
(* it along with the entry, and SetReason is refused when the run has been *)
(* released since the caller looked.                                       *)
(***************************************************************************)
THEOREM DeadKeyHasNoReasonCorrect == Spec => []DeadKeyHasNoReason
<1>. USE RunsAssumption DEF TypeOK, TrackerTypeOK, Reasons, DeadKeyHasNoReason, Tracked
<1>1. Init => DeadKeyHasNoReason
  BY DEF Init, NewTracker
<1>2. TypeOK /\ DeadKeyHasNoReason /\ [Next]_vars => DeadKeyHasNoReason'
  <2>. SUFFICES ASSUME TypeOK, DeadKeyHasNoReason, [Next]_vars PROVE DeadKeyHasNoReason'
    OBVIOUS
  <2>1. ASSUME NEW i \in Runs, CapacityCheck(i) PROVE DeadKeyHasNoReason'
    BY <2>1 DEF memory, endVars, procVars, CapacityCheck, Go
  <2>2. ASSUME NEW i \in Runs, ConflictCheck(i) PROVE DeadKeyHasNoReason'
    BY <2>2 DEF memory, endVars, procVars, ConflictCheck, Go
  <2>3. ASSUME NEW i \in Runs, MakeRunDir(i) PROVE DeadKeyHasNoReason'
    BY <2>3 DEF memory, endVars, procVars, MakeRunDir, Go
  <2>4. ASSUME NEW i \in Runs, WriteResume(i) PROVE DeadKeyHasNoReason'
    BY <2>4 DEF memory, endVars, procVars, WriteResume, Go
  <2>5. ASSUME NEW i \in Runs, RegisterToken(i) PROVE DeadKeyHasNoReason'
    BY <2>5 DEF memory, endVars, procVars, RegisterToken, Go
  <2>6. ASSUME NEW i \in Runs, ArmSecrets(i) PROVE DeadKeyHasNoReason'
    BY <2>6 DEF memory, endVars, procVars, ArmSecrets, Go
  <2>7. ASSUME NEW i \in Runs, CreateContainer(i) PROVE DeadKeyHasNoReason'
    BY <2>7 DEF memory, endVars, procVars, CreateContainer, Go
  <2>8. ASSUME NEW i \in Runs, AttachContainer(i) PROVE DeadKeyHasNoReason'
    BY <2>8 DEF memory, endVars, procVars, AttachContainer, Go
  <2>9. ASSUME NEW i \in Runs, Admit(i) PROVE DeadKeyHasNoReason'
    BY <2>9 DEF memory, endVars, procVars, Admit, Admits, AddIfUnderLimit, Go
  <2>10. ASSUME NEW i \in Runs, StartContainer(i) PROVE DeadKeyHasNoReason'
    BY <2>10 DEF memory, endVars, procVars, StartContainer, Go
  <2>11. ASSUME NEW i \in Runs, UntrackFailedStart(i) PROVE DeadKeyHasNoReason'
    BY <2>11 DEF memory, endVars, procVars, UntrackFailedStart, Remove, Go
  <2>12. ASSUME NEW i \in Runs, DiscardContainer(i) PROVE DeadKeyHasNoReason'
    BY <2>12 DEF memory, endVars, procVars, DiscardContainer, RemoveContainer, Go
  <2>13. ASSUME NEW i \in Runs, ForgetSecrets(i) PROVE DeadKeyHasNoReason'
    BY <2>13 DEF memory, endVars, procVars, ForgetSecrets, RemoveSessionKey, Go
  <2>14. ASSUME NEW i \in Runs, RevokeToken(i) PROVE DeadKeyHasNoReason'
    BY <2>14 DEF memory, endVars, procVars, RevokeToken, Revoke, Go
  <2>15. ASSUME NEW i \in Runs, CleanupRunDir(i) PROVE DeadKeyHasNoReason'
    BY <2>15 DEF memory, endVars, procVars, CleanupRunDir, RemoveRunDir, Go
  <2>16. ASSUME NEW i \in Runs, WaitReturns(i) PROVE DeadKeyHasNoReason'
    BY <2>16 DEF memory, endVars, procVars, WaitReturns, Go
  <2>17. ASSUME NEW i \in Runs, ForceRemove(i) PROVE DeadKeyHasNoReason'
    BY <2>17 DEF memory, endVars, procVars, ForceRemove, RemoveContainer, Go
  <2>18. ASSUME NEW i \in Runs, Drain(i) PROVE DeadKeyHasNoReason'
    BY <2>18 DEF memory, endVars, procVars, Drain, Go
  <2>19. ASSUME NEW i \in Runs, Teardown(i) PROVE DeadKeyHasNoReason'
    BY <2>19 DEF memory, endVars, procVars, Teardown, RemoveRunDir, Go
  <2>20. ASSUME NEW i \in Runs, ForgetExit(i) PROVE DeadKeyHasNoReason'
    BY <2>20 DEF memory, endVars, procVars, ForgetExit, RemoveSessionKey, Go
  <2>21. ASSUME NEW i \in Runs, RevokeExit(i) PROVE DeadKeyHasNoReason'
    BY <2>21 DEF memory, endVars, procVars, RevokeExit, Revoke, Go
  <2>22. ASSUME NEW i \in Runs, Release(i) PROVE DeadKeyHasNoReason'
    BY <2>22 DEF memory, endVars, procVars, Release, Remove, Go
  <2>23. ASSUME NEW i \in Runs, CloseAttach(i) PROVE DeadKeyHasNoReason'
    BY <2>23 DEF memory, endVars, procVars, CloseAttach, Go
  <2>24. ASSUME NEW i \in Runs, WaitFails(i) PROVE DeadKeyHasNoReason'
    BY <2>24 DEF memory, endVars, procVars, WaitFails, KillContainer, Signalled, Go
  <2>25. ASSUME NEW i \in Runs, ContainerExits(i) PROVE DeadKeyHasNoReason'
    BY <2>25 DEF memory, endVars, procVars, ContainerExits
  <2>26. ASSUME NEW i \in Runs, ContainerWrites(i) PROVE DeadKeyHasNoReason'
    BY <2>26 DEF memory, endVars, procVars, ContainerWrites
  <2>27. ASSUME NEW i \in Runs, PumpOutput(i) PROVE DeadKeyHasNoReason'
    BY <2>27 DEF memory, endVars, procVars, PumpOutput
  <2>28. ASSUME NEW r \in Runs, KillTracked(r) PROVE DeadKeyHasNoReason'
    BY <2>28 DEF memory, endVars, procVars, KillTracked, SetReason, KillContainer, Signalled, RemoveRunDir
  <2>29. ASSUME NEW e \in Ends, StopGet(e) PROVE DeadKeyHasNoReason'
    BY <2>29 DEF memory, endVars, procVars, StopGet, EndReturns
  <2>30. ASSUME NEW e \in Ends, StopReason(e) PROVE DeadKeyHasNoReason'
    BY <2>30 DEF memory, endVars, procVars, StopReason, SetReason
  <2>31. ASSUME NEW e \in Ends, StopSignal(e) PROVE DeadKeyHasNoReason'
    BY <2>31 DEF memory, endVars, procVars, StopSignal, EndReturns, KillContainer, Signalled
  <2>32. ASSUME NEW e \in Ends, NEW s \in Sessions, EndGet(e, s) PROVE DeadKeyHasNoReason'
    BY <2>32 DEF memory, endVars, procVars, EndGet
  <2>33. CASE StartDraining
    BY <2>33 DEF memory, endVars, procVars, StartDraining
  <2>34. CASE HttpDown
    BY <2>34 DEF memory, endVars, procVars, HttpDown, Tracked
  <2>35. CASE ProcessExit
    BY <2>35 DEF memory, endVars, procVars, ProcessExit, LoseMemory, ResetTracker
  <2>36. CASE Crash
    BY <2>36 DEF memory, endVars, procVars, Crash, LoseMemory, ResetTracker
  <2>37. CASE Boot
    BY <2>37 DEF memory, endVars, procVars, Boot
  <2>38. CASE UNCHANGED vars
    BY <2>38 DEF memory, endVars, procVars, vars
  <2>. QED
    BY <2>1, <2>2, <2>3, <2>4, <2>5, <2>6, <2>7, <2>8, <2>9, <2>10, <2>11, <2>12, <2>13, <2>14, <2>15, <2>16, <2>17, <2>18, <2>19, <2>20, <2>21, <2>22, <2>23, <2>24, <2>25, <2>26, <2>27, <2>28, <2>29, <2>30, <2>31, <2>32, <2>33, <2>34, <2>35, <2>36, <2>37, <2>38
    DEF Next, RunStep, StartStep, SupervisorStep, EndStep
<1>. QED
  BY <1>1, <1>2, TypeCorrect, PTL DEF Spec

(***************************************************************************)
(* The secrets and the token of a run are only ever held while the run has *)
(* still to withdraw them.                                                 *)
(***************************************************************************)
THEOREM NothingLeaksCorrect == Spec => []NothingLeaks
<1>. USE RunsAssumption DEF TypeOK, TrackerTypeOK, NothingLeaks, ForgetsLater, RevokesLater
<1>1. Init => NothingLeaks
  BY DEF Init
<1>2. TypeOK /\ NothingLeaks /\ [Next]_vars => NothingLeaks'
  <2>. SUFFICES ASSUME TypeOK, NothingLeaks, [Next]_vars PROVE NothingLeaks'
    OBVIOUS
  <2>0. ASSUME NEW i \in Runs, pc[i] \notin RevokesLater, NEW p,
               pc' = [pc EXCEPT ![i] = p], secrets' = secrets, tokens' = tokens
        PROVE  NothingLeaks'
    <3>1. \A s \in Sessions : i \notin secrets[s] /\ i \notin tokens[s]
      BY <2>0
    <3>2. \A j \in Runs : j # i => pc'[j] = pc[j]
      BY <2>0
    <3>3. \A s \in Sessions : \A j \in secrets'[s] :
             SessionOf[j] = s /\ pc'[j] \in ForgetsLater
      BY <2>0, <3>1, <3>2
    <3>4. \A s \in Sessions : \A j \in tokens'[s] :
             SessionOf[j] = s /\ pc'[j] \in RevokesLater
      BY <2>0, <3>1, <3>2
    <3>. QED
      BY <3>3, <3>4
  <2>1. ASSUME NEW i \in Runs, CapacityCheck(i) PROVE NothingLeaks'
    BY <2>0, <2>1 DEF memory, CapacityCheck, Go
  <2>2. ASSUME NEW i \in Runs, ConflictCheck(i) PROVE NothingLeaks'
    <3>1. PICK p \in {"checked", "idle"} : Go(i, "received", p)
      BY <2>2 DEF ConflictCheck
    <3>2. pc[i] \notin RevokesLater /\ pc' = [pc EXCEPT ![i] = p]
      BY <3>1 DEF Go
    <3>3. secrets' = secrets /\ tokens' = tokens
      BY <2>2 DEF ConflictCheck, memory
    <3>. QED
      BY <2>0, <3>2, <3>3
  <2>3. ASSUME NEW i \in Runs, MakeRunDir(i) PROVE NothingLeaks'
    BY <2>0, <2>3 DEF memory, MakeRunDir, Go
  <2>4. ASSUME NEW i \in Runs, WriteResume(i) PROVE NothingLeaks'
    <3>1. PICK p \in {"staged", "cleanup"} : Go(i, "prepared", p)
      BY <2>4 DEF WriteResume
    <3>2. pc[i] \notin RevokesLater /\ pc' = [pc EXCEPT ![i] = p]
      BY <3>1 DEF Go
    <3>3. secrets' = secrets /\ tokens' = tokens
      BY <2>4 DEF WriteResume, memory
    <3>. QED
      BY <2>0, <3>2, <3>3
  <2>5. ASSUME NEW i \in Runs, RegisterToken(i) PROVE NothingLeaks'
    <3>1. CASE Go(i, "staged", "cleanup") /\ UNCHANGED tokens
      <4>1. pc[i] \notin RevokesLater /\ pc' = [pc EXCEPT ![i] = "cleanup"]
        BY <3>1 DEF Go
      <4>2. secrets' = secrets /\ tokens' = tokens
        BY <2>5, <3>1 DEF RegisterToken
      <4>. QED
        BY <2>0, <4>1, <4>2
    <3>2. CASE Go(i, "staged", "registered")
               /\ tokens' = [tokens EXCEPT ![SessionOf[i]] = @ \cup {i}]
      <4>1. \A s \in Sessions : i \notin secrets[s]
        BY <3>2 DEF Go
      <4>2. secrets' = secrets
        BY <2>5 DEF RegisterToken
      <4>3. pc'[i] = "registered" /\ \A j \in Runs : j # i => pc'[j] = pc[j]
        BY <3>2 DEF Go
      <4>4. \A s \in Sessions : \A j \in secrets'[s] :
               SessionOf[j] = s /\ pc'[j] \in ForgetsLater
        BY <4>1, <4>2, <4>3
      <4>5. \A s \in Sessions : \A j \in tokens'[s] :
               j \in tokens[s] \/ (j = i /\ s = SessionOf[i])
        BY <3>2
      <4>6. \A s \in Sessions : \A j \in tokens'[s] :
               SessionOf[j] = s /\ pc'[j] \in RevokesLater
        BY <4>3, <4>5
      <4>. QED
        BY <4>4, <4>6
    <3>. QED
      BY <2>5, <3>1, <3>2 DEF RegisterToken
  <2>6. ASSUME NEW i \in Runs, ArmSecrets(i) PROVE NothingLeaks'
    BY <2>6 DEF memory, endVars, procVars, ArmSecrets, Go
  <2>7. ASSUME NEW i \in Runs, CreateContainer(i) PROVE NothingLeaks'
    <3>1. PICK p \in {"created", "forget"} : Go(i, "armed", p)
      BY <2>7 DEF CreateContainer
    <3>2. secrets' = secrets /\ tokens' = tokens
      BY <2>7 DEF CreateContainer, memory
    <3>. QED
      BY <3>1, <3>2 DEF Go
  <2>8. ASSUME NEW i \in Runs, AttachContainer(i) PROVE NothingLeaks'
    BY <2>8 DEF memory, endVars, procVars, AttachContainer, Go
  <2>9. ASSUME NEW i \in Runs, Admit(i) PROVE NothingLeaks'
    BY <2>9 DEF memory, endVars, procVars, Admit, Admits, AddIfUnderLimit, Go
  <2>10. ASSUME NEW i \in Runs, StartContainer(i) PROVE NothingLeaks'
    <3>1. PICK p \in {"wait", "untrack"} : Go(i, "admitted", p)
      BY <2>10 DEF StartContainer
    <3>2. secrets' = secrets /\ tokens' = tokens
      BY <2>10 DEF StartContainer, memory
    <3>. QED
      BY <3>1, <3>2 DEF Go
  <2>11. ASSUME NEW i \in Runs, UntrackFailedStart(i) PROVE NothingLeaks'
    BY <2>11 DEF memory, endVars, procVars, UntrackFailedStart, Remove, Go
  <2>12. ASSUME NEW i \in Runs, DiscardContainer(i) PROVE NothingLeaks'
    BY <2>12 DEF memory, endVars, procVars, DiscardContainer, RemoveContainer, Go
  <2>13. ASSUME NEW i \in Runs, ForgetSecrets(i) PROVE NothingLeaks'
    BY <2>13 DEF memory, endVars, procVars, ForgetSecrets, RemoveSessionKey, Go
  <2>14. ASSUME NEW i \in Runs, RevokeToken(i) PROVE NothingLeaks'
    BY <2>14 DEF memory, endVars, procVars, RevokeToken, Revoke, Go
  <2>15. ASSUME NEW i \in Runs, CleanupRunDir(i) PROVE NothingLeaks'
    BY <2>15 DEF memory, endVars, procVars, CleanupRunDir, RemoveRunDir, Go
  <2>16. ASSUME NEW i \in Runs, WaitReturns(i) PROVE NothingLeaks'
    BY <2>16 DEF memory, endVars, procVars, WaitReturns, Go
  <2>17. ASSUME NEW i \in Runs, ForceRemove(i) PROVE NothingLeaks'
    BY <2>17 DEF memory, endVars, procVars, ForceRemove, RemoveContainer, Go
  <2>18. ASSUME NEW i \in Runs, Drain(i) PROVE NothingLeaks'
    BY <2>18 DEF memory, endVars, procVars, Drain, Go
  <2>19. ASSUME NEW i \in Runs, Teardown(i) PROVE NothingLeaks'
    BY <2>19 DEF memory, endVars, procVars, Teardown, RemoveRunDir, Go
  <2>20. ASSUME NEW i \in Runs, ForgetExit(i) PROVE NothingLeaks'
    BY <2>20 DEF memory, endVars, procVars, ForgetExit, RemoveSessionKey, Go
  <2>21. ASSUME NEW i \in Runs, RevokeExit(i) PROVE NothingLeaks'
    BY <2>21 DEF memory, endVars, procVars, RevokeExit, Revoke, Go
  <2>22. ASSUME NEW i \in Runs, Release(i) PROVE NothingLeaks'
    BY <2>22 DEF memory, endVars, procVars, Release, Remove, Go
  <2>23. ASSUME NEW i \in Runs, CloseAttach(i) PROVE NothingLeaks'
    BY <2>23 DEF memory, endVars, procVars, CloseAttach, Go
  <2>24. ASSUME NEW i \in Runs, WaitFails(i) PROVE NothingLeaks'
    BY <2>24 DEF memory, endVars, procVars, WaitFails, KillContainer, Signalled, Go
  <2>25. ASSUME NEW i \in Runs, ContainerExits(i) PROVE NothingLeaks'
    BY <2>25 DEF memory, endVars, procVars, ContainerExits
  <2>26. ASSUME NEW i \in Runs, ContainerWrites(i) PROVE NothingLeaks'
    BY <2>26 DEF memory, endVars, procVars, ContainerWrites
  <2>27. ASSUME NEW i \in Runs, PumpOutput(i) PROVE NothingLeaks'
    BY <2>27 DEF memory, endVars, procVars, PumpOutput
  <2>28. ASSUME NEW r \in Runs, KillTracked(r) PROVE NothingLeaks'
    BY <2>28 DEF memory, endVars, procVars, KillTracked, SetReason, KillContainer, Signalled, RemoveRunDir
  <2>29. ASSUME NEW e \in Ends, StopGet(e) PROVE NothingLeaks'
    BY <2>29 DEF memory, endVars, procVars, StopGet, EndReturns
  <2>30. ASSUME NEW e \in Ends, StopReason(e) PROVE NothingLeaks'
    BY <2>30 DEF memory, endVars, procVars, StopReason, SetReason
  <2>31. ASSUME NEW e \in Ends, StopSignal(e) PROVE NothingLeaks'
    BY <2>31 DEF memory, endVars, procVars, StopSignal, EndReturns, KillContainer, Signalled
  <2>32. ASSUME NEW e \in Ends, NEW s \in Sessions, EndGet(e, s) PROVE NothingLeaks'
    BY <2>32 DEF memory, endVars, procVars, EndGet
  <2>33. CASE StartDraining
    BY <2>33 DEF memory, endVars, procVars, StartDraining
  <2>34. CASE HttpDown
    BY <2>34 DEF memory, endVars, procVars, HttpDown, Tracked
  <2>35. CASE ProcessExit
    BY <2>35 DEF memory, endVars, procVars, ProcessExit, LoseMemory, ResetTracker
  <2>36. CASE Crash
    BY <2>36 DEF memory, endVars, procVars, Crash, LoseMemory, ResetTracker
  <2>37. CASE Boot
    BY <2>37 DEF memory, endVars, procVars, Boot
  <2>38. CASE UNCHANGED vars
    BY <2>38 DEF memory, endVars, procVars, vars
  <2>. QED
    BY <2>1, <2>2, <2>3, <2>4, <2>5, <2>6, <2>7, <2>8, <2>9, <2>10, <2>11, <2>12, <2>13, <2>14, <2>15, <2>16, <2>17, <2>18, <2>19, <2>20, <2>21, <2>22, <2>23, <2>24, <2>25, <2>26, <2>27, <2>28, <2>29, <2>30, <2>31, <2>32, <2>33, <2>34, <2>35, <2>36, <2>37, <2>38
    DEF Next, RunStep, StartStep, SupervisorStep, EndStep
<1>. QED
  BY <1>1, <1>2, TypeCorrect, PTL DEF Spec

(***************************************************************************)
(* While the process is up, a running container is at one of four points:  *)
(* its run is supervised, or its failed start is being undone.             *)
(***************************************************************************)
RunningPlace ==
  phase # "down" =>
    \A i \in Runs : container[i] = "running" =>
      pc[i] \in {"untrack", "undo", "wait", "remove"}

(***************************************************************************)
(* If the daemon's removals succeed, RunningPlace holds in every           *)
(* behaviour: where a running container's goroutine may stand.             *)
(***************************************************************************)
LEMMA RunningPlaceCorrect ==
  ASSUME "remove" \notin Faults
  PROVE  Spec => []RunningPlace
<1>. USE RunsAssumption DEF TypeOK, TrackerTypeOK, RunningPlace
<1>1. Init => RunningPlace
  BY DEF Init
<1>2. TypeOK /\ RunningPlace /\ [Next]_vars => RunningPlace'
  <2>. SUFFICES ASSUME TypeOK, RunningPlace, [Next]_vars PROVE RunningPlace'
    OBVIOUS
  <2>1. ASSUME NEW i \in Runs, CapacityCheck(i) PROVE RunningPlace'
    BY <2>1 DEF memory, endVars, procVars, CapacityCheck, Go
  <2>2. ASSUME NEW i \in Runs, ConflictCheck(i) PROVE RunningPlace'
    BY <2>2 DEF memory, endVars, procVars, ConflictCheck, Go
  <2>3. ASSUME NEW i \in Runs, MakeRunDir(i) PROVE RunningPlace'
    BY <2>3 DEF memory, endVars, procVars, MakeRunDir, Go
  <2>4. ASSUME NEW i \in Runs, WriteResume(i) PROVE RunningPlace'
    BY <2>4 DEF memory, endVars, procVars, WriteResume, Go
  <2>5. ASSUME NEW i \in Runs, RegisterToken(i) PROVE RunningPlace'
    BY <2>5 DEF memory, endVars, procVars, RegisterToken, Go
  <2>6. ASSUME NEW i \in Runs, ArmSecrets(i) PROVE RunningPlace'
    BY <2>6 DEF memory, endVars, procVars, ArmSecrets, Go
  <2>7. ASSUME NEW i \in Runs, CreateContainer(i) PROVE RunningPlace'
    BY <2>7 DEF memory, endVars, procVars, CreateContainer, Go
  <2>8. ASSUME NEW i \in Runs, AttachContainer(i) PROVE RunningPlace'
    BY <2>8 DEF memory, endVars, procVars, AttachContainer, Go
  <2>9. ASSUME NEW i \in Runs, Admit(i) PROVE RunningPlace'
    BY <2>9 DEF memory, endVars, procVars, Admit, Admits, AddIfUnderLimit, Go
  <2>10. ASSUME NEW i \in Runs, StartContainer(i) PROVE RunningPlace'
    BY <2>10 DEF memory, endVars, procVars, StartContainer, Go
  <2>11. ASSUME NEW i \in Runs, UntrackFailedStart(i) PROVE RunningPlace'
    BY <2>11 DEF memory, endVars, procVars, UntrackFailedStart, Remove, Go
  <2>12. ASSUME NEW i \in Runs, DiscardContainer(i) PROVE RunningPlace'
    BY <2>12 DEF memory, endVars, procVars, DiscardContainer, RemoveContainer, Go
  <2>13. ASSUME NEW i \in Runs, ForgetSecrets(i) PROVE RunningPlace'
    BY <2>13 DEF memory, endVars, procVars, ForgetSecrets, RemoveSessionKey, Go
  <2>14. ASSUME NEW i \in Runs, RevokeToken(i) PROVE RunningPlace'
    BY <2>14 DEF memory, endVars, procVars, RevokeToken, Revoke, Go
  <2>15. ASSUME NEW i \in Runs, CleanupRunDir(i) PROVE RunningPlace'
    BY <2>15 DEF memory, endVars, procVars, CleanupRunDir, RemoveRunDir, Go
  <2>16. ASSUME NEW i \in Runs, WaitReturns(i) PROVE RunningPlace'
    BY <2>16 DEF memory, endVars, procVars, WaitReturns, Go
  <2>17. ASSUME NEW i \in Runs, ForceRemove(i) PROVE RunningPlace'
    BY <2>17 DEF memory, endVars, procVars, ForceRemove, RemoveContainer, Go
  <2>18. ASSUME NEW i \in Runs, Drain(i) PROVE RunningPlace'
    BY <2>18 DEF memory, endVars, procVars, Drain, Go
  <2>19. ASSUME NEW i \in Runs, Teardown(i) PROVE RunningPlace'
    BY <2>19 DEF memory, endVars, procVars, Teardown, RemoveRunDir, Go
  <2>20. ASSUME NEW i \in Runs, ForgetExit(i) PROVE RunningPlace'
    BY <2>20 DEF memory, endVars, procVars, ForgetExit, RemoveSessionKey, Go
  <2>21. ASSUME NEW i \in Runs, RevokeExit(i) PROVE RunningPlace'
    BY <2>21 DEF memory, endVars, procVars, RevokeExit, Revoke, Go
  <2>22. ASSUME NEW i \in Runs, Release(i) PROVE RunningPlace'
    BY <2>22 DEF memory, endVars, procVars, Release, Remove, Go
  <2>23. ASSUME NEW i \in Runs, CloseAttach(i) PROVE RunningPlace'
    BY <2>23 DEF memory, endVars, procVars, CloseAttach, Go
  <2>24. ASSUME NEW i \in Runs, WaitFails(i) PROVE RunningPlace'
    BY <2>24 DEF memory, endVars, procVars, WaitFails, KillContainer, Signalled, Go
  <2>25. ASSUME NEW i \in Runs, ContainerExits(i) PROVE RunningPlace'
    BY <2>25 DEF memory, endVars, procVars, ContainerExits
  <2>26. ASSUME NEW i \in Runs, ContainerWrites(i) PROVE RunningPlace'
    BY <2>26 DEF memory, endVars, procVars, ContainerWrites
  <2>27. ASSUME NEW i \in Runs, PumpOutput(i) PROVE RunningPlace'
    BY <2>27 DEF memory, endVars, procVars, PumpOutput
  <2>28. ASSUME NEW r \in Runs, KillTracked(r) PROVE RunningPlace'
    BY <2>28 DEF memory, endVars, procVars, KillTracked, SetReason, KillContainer, Signalled, RemoveRunDir
  <2>29. ASSUME NEW e \in Ends, StopGet(e) PROVE RunningPlace'
    BY <2>29 DEF memory, endVars, procVars, StopGet, EndReturns
  <2>30. ASSUME NEW e \in Ends, StopReason(e) PROVE RunningPlace'
    BY <2>30 DEF memory, endVars, procVars, StopReason, SetReason
  <2>31. ASSUME NEW e \in Ends, StopSignal(e) PROVE RunningPlace'
    BY <2>31 DEF memory, endVars, procVars, StopSignal, EndReturns, KillContainer, Signalled
  <2>32. ASSUME NEW e \in Ends, NEW s \in Sessions, EndGet(e, s) PROVE RunningPlace'
    BY <2>32 DEF memory, endVars, procVars, EndGet
  <2>33. CASE StartDraining
    BY <2>33 DEF memory, endVars, procVars, StartDraining
  <2>34. CASE HttpDown
    BY <2>34 DEF memory, endVars, procVars, HttpDown, Tracked
  <2>35. CASE ProcessExit
    BY <2>35 DEF memory, endVars, procVars, ProcessExit, LoseMemory, ResetTracker
  <2>36. CASE Crash
    BY <2>36 DEF memory, endVars, procVars, Crash, LoseMemory, ResetTracker
  <2>37. CASE Boot
    BY <2>37 DEF memory, endVars, procVars, Boot
  <2>38. CASE UNCHANGED vars
    BY <2>38 DEF memory, endVars, procVars, vars
  <2>. QED
    BY <2>1, <2>2, <2>3, <2>4, <2>5, <2>6, <2>7, <2>8, <2>9, <2>10, <2>11, <2>12, <2>13, <2>14, <2>15, <2>16, <2>17, <2>18, <2>19, <2>20, <2>21, <2>22, <2>23, <2>24, <2>25, <2>26, <2>27, <2>28, <2>29, <2>30, <2>31, <2>32, <2>33, <2>34, <2>35, <2>36, <2>37, <2>38
    DEF Next, RunStep, StartStep, SupervisorStep, EndStep
<1>. QED
  BY <1>1, <1>2, TypeCorrect, PTL DEF Spec

(***************************************************************************)
(* As long as the daemon removes what it is told to remove, every running  *)
(* container can be found through the tracker.                             *)
(***************************************************************************)
THEOREM RunningIsTrackedCorrect ==
  ASSUME "remove" \notin Faults
  PROVE  Spec => []RunningIsTracked
<1>1. RunningPlace /\ SlotOwner => RunningIsTracked
  BY DEF RunningPlace, SlotOwner, HoldsSlot, RunningIsTracked
<1>. QED
  BY <1>1, RunningPlaceCorrect, SlotOwnerCorrect, PTL

(***************************************************************************)
(* The set of tracked sessions grows only when AddIfUnderLimit admits a    *)
(* run, and then by that run's session.                                    *)
(***************************************************************************)
AdmitsOne ==
  \E s \in Sessions : Count < MaxConcurrent /\ Tracked' = Tracked \cup {s}

(***************************************************************************)
(* A step of the service leaves the tracked sessions alone, removes some,  *)
(* or adds the one that AddIfUnderLimit admits.                            *)
(***************************************************************************)
LEMMA TrackedGrowth ==
  ASSUME TypeOK, [Next]_vars
  PROVE  Tracked' \subseteq Tracked \/ AdmitsOne
<1>. USE RunsAssumption DEF TypeOK, TrackerTypeOK, Tracked
<1>. DEFINE Growth == Tracked' \subseteq Tracked \/ AdmitsOne
<1>. SUFFICES Growth
  OBVIOUS
<1>1. ASSUME NEW i \in Runs, CapacityCheck(i) PROVE Growth
  BY <1>1 DEF memory, endVars, procVars, CapacityCheck, Go
<1>2. ASSUME NEW i \in Runs, ConflictCheck(i) PROVE Growth
  BY <1>2 DEF memory, endVars, procVars, ConflictCheck, Go
<1>3. ASSUME NEW i \in Runs, MakeRunDir(i) PROVE Growth
  BY <1>3 DEF memory, endVars, procVars, MakeRunDir, Go
<1>4. ASSUME NEW i \in Runs, WriteResume(i) PROVE Growth
  BY <1>4 DEF memory, endVars, procVars, WriteResume, Go
<1>5. ASSUME NEW i \in Runs, RegisterToken(i) PROVE Growth
  BY <1>5 DEF memory, endVars, procVars, RegisterToken, Go
<1>6. ASSUME NEW i \in Runs, ArmSecrets(i) PROVE Growth
  BY <1>6 DEF memory, endVars, procVars, ArmSecrets, Go
<1>7. ASSUME NEW i \in Runs, CreateContainer(i) PROVE Growth
  BY <1>7 DEF memory, endVars, procVars, CreateContainer, Go
<1>8. ASSUME NEW i \in Runs, AttachContainer(i) PROVE Growth
  BY <1>8 DEF memory, endVars, procVars, AttachContainer, Go
<1>9. ASSUME NEW i \in Runs, Admit(i) PROVE Growth
  BY <1>9 DEF AdmitsOne, memory, endVars, procVars, Admit, Admits, AddIfUnderLimit, Go
<1>10. ASSUME NEW i \in Runs, StartContainer(i) PROVE Growth
  BY <1>10 DEF memory, endVars, procVars, StartContainer, Go
<1>11. ASSUME NEW i \in Runs, UntrackFailedStart(i) PROVE Growth
  BY <1>11 DEF memory, endVars, procVars, UntrackFailedStart, Remove, Go
<1>12. ASSUME NEW i \in Runs, DiscardContainer(i) PROVE Growth
  BY <1>12 DEF memory, endVars, procVars, DiscardContainer, RemoveContainer, Go
<1>13. ASSUME NEW i \in Runs, ForgetSecrets(i) PROVE Growth
  BY <1>13 DEF memory, endVars, procVars, ForgetSecrets, RemoveSessionKey, Go
<1>14. ASSUME NEW i \in Runs, RevokeToken(i) PROVE Growth
  BY <1>14 DEF memory, endVars, procVars, RevokeToken, Revoke, Go
<1>15. ASSUME NEW i \in Runs, CleanupRunDir(i) PROVE Growth
  BY <1>15 DEF memory, endVars, procVars, CleanupRunDir, RemoveRunDir, Go
<1>16. ASSUME NEW i \in Runs, WaitReturns(i) PROVE Growth
  BY <1>16 DEF memory, endVars, procVars, WaitReturns, Go
<1>17. ASSUME NEW i \in Runs, ForceRemove(i) PROVE Growth
  BY <1>17 DEF memory, endVars, procVars, ForceRemove, RemoveContainer, Go
<1>18. ASSUME NEW i \in Runs, Drain(i) PROVE Growth
  BY <1>18 DEF memory, endVars, procVars, Drain, Go
<1>19. ASSUME NEW i \in Runs, Teardown(i) PROVE Growth
  BY <1>19 DEF memory, endVars, procVars, Teardown, RemoveRunDir, Go
<1>20. ASSUME NEW i \in Runs, ForgetExit(i) PROVE Growth
  BY <1>20 DEF memory, endVars, procVars, ForgetExit, RemoveSessionKey, Go
<1>21. ASSUME NEW i \in Runs, RevokeExit(i) PROVE Growth
  BY <1>21 DEF memory, endVars, procVars, RevokeExit, Revoke, Go
<1>22. ASSUME NEW i \in Runs, Release(i) PROVE Growth
  BY <1>22 DEF memory, endVars, procVars, Release, Remove, Go
<1>23. ASSUME NEW i \in Runs, CloseAttach(i) PROVE Growth
  BY <1>23 DEF memory, endVars, procVars, CloseAttach, Go
<1>24. ASSUME NEW i \in Runs, WaitFails(i) PROVE Growth
  BY <1>24 DEF memory, endVars, procVars, WaitFails, KillContainer, Signalled, Go
<1>25. ASSUME NEW i \in Runs, ContainerExits(i) PROVE Growth
  BY <1>25 DEF memory, endVars, procVars, ContainerExits
<1>26. ASSUME NEW i \in Runs, ContainerWrites(i) PROVE Growth
  BY <1>26 DEF memory, endVars, procVars, ContainerWrites
<1>27. ASSUME NEW i \in Runs, PumpOutput(i) PROVE Growth
  BY <1>27 DEF memory, endVars, procVars, PumpOutput
<1>28. ASSUME NEW r \in Runs, KillTracked(r) PROVE Growth
  BY <1>28 DEF memory, endVars, procVars, KillTracked, SetReason, KillContainer, Signalled, RemoveRunDir
<1>29. ASSUME NEW e \in Ends, StopGet(e) PROVE Growth
  BY <1>29 DEF memory, endVars, procVars, StopGet, EndReturns
<1>30. ASSUME NEW e \in Ends, StopReason(e) PROVE Growth
  BY <1>30 DEF memory, endVars, procVars, StopReason, SetReason
<1>31. ASSUME NEW e \in Ends, StopSignal(e) PROVE Growth
  BY <1>31 DEF memory, endVars, procVars, StopSignal, EndReturns, KillContainer, Signalled
<1>32. ASSUME NEW e \in Ends, NEW s \in Sessions, EndGet(e, s) PROVE Growth
  BY <1>32 DEF memory, endVars, procVars, EndGet
<1>33. CASE StartDraining
  BY <1>33 DEF memory, endVars, procVars, StartDraining
<1>34. CASE HttpDown
  BY <1>34 DEF memory, endVars, procVars, HttpDown, Tracked
<1>35. CASE ProcessExit
  BY <1>35 DEF memory, endVars, procVars, ProcessExit, LoseMemory, ResetTracker
<1>36. CASE Crash
  BY <1>36 DEF memory, endVars, procVars, Crash, LoseMemory, ResetTracker
<1>37. CASE Boot
  BY <1>37 DEF memory, endVars, procVars, Boot
<1>38. CASE UNCHANGED vars
  BY <1>38 DEF memory, endVars, procVars, vars
<1>. QED
  BY <1>1, <1>2, <1>3, <1>4, <1>5, <1>6, <1>7, <1>8, <1>9, <1>10, <1>11, <1>12, <1>13, <1>14, <1>15, <1>16, <1>17, <1>18, <1>19, <1>20, <1>21, <1>22, <1>23, <1>24, <1>25, <1>26, <1>27, <1>28, <1>29, <1>30, <1>31, <1>32, <1>33, <1>34, <1>35, <1>36, <1>37, <1>38
  DEF Next, RunStep, StartStep, SupervisorStep, EndStep

(***************************************************************************)
(* The tracker never holds more than max_concurrent runs.                  *)
(***************************************************************************)
CountBounded == Count <= MaxConcurrent

(***************************************************************************)
(* The limit is tested and the entry made in one step (AddIfUnderLimit),   *)
(* so the count never passes max_concurrent.                               *)
(***************************************************************************)
THEOREM CountBoundedCorrect == Spec => []CountBounded
<1>. USE SessionsAssumption, MaxAssumption
<1>1. IsFiniteSet(Tracked) /\ Count \in Nat
  BY FS_Subset, FS_CardinalityType, Tracked \subseteq Sessions DEF Tracked, Count
<1>2. Init => CountBounded
  <2>1. Init => Tracked = {}
    BY DEF Init, NewTracker, Tracked
  <2>. QED
    BY <2>1, FS_EmptySet DEF CountBounded, Count
<1>3. TypeOK /\ CountBounded /\ [Next]_vars => CountBounded'
  <2>. SUFFICES ASSUME TypeOK, CountBounded, [Next]_vars PROVE CountBounded'
    OBVIOUS
  <2>1. CASE Tracked' \subseteq Tracked
    <3>1. Cardinality(Tracked') <= Cardinality(Tracked) /\ Cardinality(Tracked') \in Nat
      BY <1>1, <2>1, FS_Subset, FS_CardinalityType
    <3>. QED
      BY <1>1, <3>1 DEF CountBounded, Count
  <2>2. CASE AdmitsOne
    <3>1. PICK s \in Sessions : Count < MaxConcurrent /\ Tracked' = Tracked \cup {s}
      BY <2>2 DEF AdmitsOne
    <3>2. Cardinality(Tracked \cup {s}) \in {Count, Count + 1}
      BY <1>1, FS_AddElement DEF Count
    <3>. QED
      BY <1>1, <3>1, <3>2 DEF CountBounded, Count
  <2>. QED
    BY <2>1, <2>2, TrackedGrowth
<1>. QED
  BY <1>2, <1>3, TypeCorrect, PTL DEF Spec

(***************************************************************************)
(* No more containers run than max_concurrent allows: a running container  *)
(* that is not being discarded is its session's tracker entry, so there    *)
(* are at most as many of them as tracked sessions.                        *)
(***************************************************************************)
THEOREM WithinLimitCorrect ==
  ASSUME "remove" \notin Faults
  PROVE  Spec => []WithinLimit
<1>1. TypeOK /\ RunningIsTracked /\ CountBounded => WithinLimit
  <2>. SUFFICES ASSUME TypeOK, RunningIsTracked, CountBounded, phase # "down"
                PROVE  Cardinality({i \in Runs : container[i] = "running" /\ pc[i] # "undo"})
                         <= MaxConcurrent
    BY DEF WithinLimit, CountBounded
  <2>. DEFINE Live == {i \in Runs : container[i] = "running" /\ pc[i] # "undo"}
  <2>. DEFINE f == [i \in Live |-> SessionOf[i]]
  <2>1. \A i \in Live : SessionOf[i] \in Tracked /\ byKey[SessionOf[i]] = i
    BY RunsAssumption DEF RunningIsTracked, Tracked
  <2>2. f \in Injection(Live, Tracked)
    BY <2>1 DEF Injection, IsInjective
  <2>3. IsFiniteSet(Tracked)
    BY SessionsAssumption, FS_Subset, Tracked \subseteq Sessions DEF Tracked
  <2>4. IsFiniteSet(Live) /\ Cardinality(Live) <= Cardinality(Tracked)
    <3>. HIDE DEF Live, f
    <3>. QED
      BY <2>2, <2>3, FS_Injection
  <2>5. Cardinality(Live) \in Nat /\ Cardinality(Tracked) \in Nat
    BY <2>3, <2>4, FS_CardinalityType
  <2>. QED
    BY <2>4, <2>5, MaxAssumption DEF CountBounded, Count
<1>. QED
  BY <1>1, TypeCorrect, RunningIsTrackedCorrect, CountBoundedCorrect, PTL

(***************************************************************************)
(* During a graceful shutdown the only run directories left are those of   *)
(* runs the kill loop has still to come to.                                *)
(***************************************************************************)
ShutdownDirs ==
  /\ phase = "kill" =>
       /\ RequestsDone
       /\ \A s \in runDir : \E r \in killing : SessionOf[r] = s
  /\ phase = "down" => runDir = {} /\ \A i \in Runs : pc[i] = "idle"

(***************************************************************************)
(* Short of a crash, of a request that outlives the shutdown budget and of *)
(* a failing RemoveAll, every run directory has somebody to remove it, and *)
(* none is left when the process has shut down.                            *)
(***************************************************************************)
THEOREM RunDirOwnedCorrect ==
  ASSUME "crash" \notin Faults, "httpTimeout" \notin Faults, "rmdir" \notin Faults
  PROVE  Spec => []RunDirOwned
<1>. USE RunsAssumption DEF TypeOK, TrackerTypeOK, RunDirOwned, CleansLater, ShutdownDirs
<1>1. Init => RunDirOwned /\ ShutdownDirs
  BY DEF Init
<1>2. TypeOK /\ SlotOwner /\ RunDirOwned /\ ShutdownDirs /\ [Next]_vars
        => RunDirOwned' /\ ShutdownDirs'
  <2>. SUFFICES ASSUME TypeOK, SlotOwner, RunDirOwned, ShutdownDirs, [Next]_vars
                PROVE  RunDirOwned' /\ ShutdownDirs'
    OBVIOUS
  <2>. USE DEF RequestsDone, HandlerPoints
  <2>1. ASSUME NEW i \in Runs, CapacityCheck(i) PROVE (RunDirOwned' /\ ShutdownDirs')
    BY <2>1 DEF memory, endVars, procVars, CapacityCheck, Go
  <2>2. ASSUME NEW i \in Runs, ConflictCheck(i) PROVE (RunDirOwned' /\ ShutdownDirs')
    BY <2>2 DEF memory, endVars, procVars, ConflictCheck, Go
  <2>3. ASSUME NEW i \in Runs, MakeRunDir(i) PROVE (RunDirOwned' /\ ShutdownDirs')
    BY <2>3 DEF memory, endVars, procVars, MakeRunDir, Go
  <2>4. ASSUME NEW i \in Runs, WriteResume(i) PROVE (RunDirOwned' /\ ShutdownDirs')
    BY <2>4 DEF memory, endVars, procVars, WriteResume, Go
  <2>5. ASSUME NEW i \in Runs, RegisterToken(i) PROVE (RunDirOwned' /\ ShutdownDirs')
    BY <2>5 DEF memory, endVars, procVars, RegisterToken, Go
  <2>6. ASSUME NEW i \in Runs, ArmSecrets(i) PROVE (RunDirOwned' /\ ShutdownDirs')
    BY <2>6 DEF memory, endVars, procVars, ArmSecrets, Go
  <2>7. ASSUME NEW i \in Runs, CreateContainer(i) PROVE (RunDirOwned' /\ ShutdownDirs')
    BY <2>7 DEF memory, endVars, procVars, CreateContainer, Go
  <2>8. ASSUME NEW i \in Runs, AttachContainer(i) PROVE (RunDirOwned' /\ ShutdownDirs')
    BY <2>8 DEF memory, endVars, procVars, AttachContainer, Go
  <2>9. ASSUME NEW i \in Runs, Admit(i) PROVE (RunDirOwned' /\ ShutdownDirs')
    BY <2>9 DEF memory, endVars, procVars, Admit, Admits, AddIfUnderLimit, Go
  <2>10. ASSUME NEW i \in Runs, StartContainer(i) PROVE (RunDirOwned' /\ ShutdownDirs')
    BY <2>10 DEF memory, endVars, procVars, StartContainer, Go
  <2>11. ASSUME NEW i \in Runs, UntrackFailedStart(i) PROVE (RunDirOwned' /\ ShutdownDirs')
    BY <2>11 DEF memory, endVars, procVars, UntrackFailedStart, Remove, Go
  <2>12. ASSUME NEW i \in Runs, DiscardContainer(i) PROVE (RunDirOwned' /\ ShutdownDirs')
    BY <2>12 DEF memory, endVars, procVars, DiscardContainer, RemoveContainer, Go
  <2>13. ASSUME NEW i \in Runs, ForgetSecrets(i) PROVE (RunDirOwned' /\ ShutdownDirs')
    BY <2>13 DEF memory, endVars, procVars, ForgetSecrets, RemoveSessionKey, Go
  <2>14. ASSUME NEW i \in Runs, RevokeToken(i) PROVE (RunDirOwned' /\ ShutdownDirs')
    BY <2>14 DEF memory, endVars, procVars, RevokeToken, Revoke, Go
  <2>15. ASSUME NEW i \in Runs, CleanupRunDir(i) PROVE (RunDirOwned' /\ ShutdownDirs')
    BY <2>15 DEF memory, endVars, procVars, CleanupRunDir, RemoveRunDir, Go
  <2>16. ASSUME NEW i \in Runs, WaitReturns(i) PROVE (RunDirOwned' /\ ShutdownDirs')
    BY <2>16 DEF memory, endVars, procVars, WaitReturns, Go
  <2>17. ASSUME NEW i \in Runs, ForceRemove(i) PROVE (RunDirOwned' /\ ShutdownDirs')
    BY <2>17 DEF memory, endVars, procVars, ForceRemove, RemoveContainer, Go
  <2>18. ASSUME NEW i \in Runs, Drain(i) PROVE (RunDirOwned' /\ ShutdownDirs')
    BY <2>18 DEF memory, endVars, procVars, Drain, Go
  <2>19. ASSUME NEW i \in Runs, Teardown(i) PROVE (RunDirOwned' /\ ShutdownDirs')
    BY <2>19 DEF memory, endVars, procVars, Teardown, RemoveRunDir, Go
  <2>20. ASSUME NEW i \in Runs, ForgetExit(i) PROVE (RunDirOwned' /\ ShutdownDirs')
    BY <2>20 DEF memory, endVars, procVars, ForgetExit, RemoveSessionKey, Go
  <2>21. ASSUME NEW i \in Runs, RevokeExit(i) PROVE (RunDirOwned' /\ ShutdownDirs')
    BY <2>21 DEF memory, endVars, procVars, RevokeExit, Revoke, Go
  <2>22. ASSUME NEW i \in Runs, Release(i) PROVE (RunDirOwned' /\ ShutdownDirs')
    BY <2>22 DEF memory, endVars, procVars, Release, Remove, Go
  <2>23. ASSUME NEW i \in Runs, CloseAttach(i) PROVE (RunDirOwned' /\ ShutdownDirs')
    BY <2>23 DEF memory, endVars, procVars, CloseAttach, Go
  <2>24. ASSUME NEW i \in Runs, WaitFails(i) PROVE (RunDirOwned' /\ ShutdownDirs')
    BY <2>24 DEF memory, endVars, procVars, WaitFails, KillContainer, Signalled, Go
  <2>25. ASSUME NEW i \in Runs, ContainerExits(i) PROVE (RunDirOwned' /\ ShutdownDirs')
    BY <2>25 DEF memory, endVars, procVars, ContainerExits
  <2>26. ASSUME NEW i \in Runs, ContainerWrites(i) PROVE (RunDirOwned' /\ ShutdownDirs')
    BY <2>26 DEF memory, endVars, procVars, ContainerWrites
  <2>27. ASSUME NEW i \in Runs, PumpOutput(i) PROVE (RunDirOwned' /\ ShutdownDirs')
    BY <2>27 DEF memory, endVars, procVars, PumpOutput
  <2>28. ASSUME NEW r \in Runs, KillTracked(r) PROVE (RunDirOwned' /\ ShutdownDirs')
    BY <2>28 DEF memory, endVars, procVars, KillTracked, SetReason, KillContainer, Signalled, RemoveRunDir
  <2>29. ASSUME NEW e \in Ends, StopGet(e) PROVE (RunDirOwned' /\ ShutdownDirs')
    BY <2>29 DEF memory, endVars, procVars, StopGet, EndReturns
  <2>30. ASSUME NEW e \in Ends, StopReason(e) PROVE (RunDirOwned' /\ ShutdownDirs')
    BY <2>30 DEF memory, endVars, procVars, StopReason, SetReason
  <2>31. ASSUME NEW e \in Ends, StopSignal(e) PROVE (RunDirOwned' /\ ShutdownDirs')
    BY <2>31 DEF memory, endVars, procVars, StopSignal, EndReturns, KillContainer, Signalled
  <2>32. ASSUME NEW e \in Ends, NEW s \in Sessions, EndGet(e, s) PROVE (RunDirOwned' /\ ShutdownDirs')
    BY <2>32 DEF memory, endVars, procVars, EndGet
  <2>33. CASE StartDraining
    BY <2>33 DEF memory, endVars, procVars, StartDraining
  <2>34. CASE HttpDown
    <3>1. ASSUME NEW s \in runDir PROVE \E r \in killing' : SessionOf[r] = s
      <4>1. PICK i \in Runs : SessionOf[i] = s /\ pc[i] \in CleansLater
        OBVIOUS
      <4>2. pc[i] \in HoldsSlot
        BY <2>34, <4>1 DEF HttpDown, HoldsSlot
      <4>3. byKey[s] = i /\ s \in Tracked
        BY <4>1, <4>2 DEF SlotOwner, Tracked
      <4>. QED
        BY <2>34, <4>1, <4>3 DEF HttpDown
    <3>. QED
      BY <2>34, <3>1 DEF HttpDown, memory, endVars
  <2>35. CASE ProcessExit
    BY <2>35 DEF memory, endVars, procVars, ProcessExit, LoseMemory, ResetTracker
  <2>36. CASE Crash
    BY <2>36 DEF memory, endVars, procVars, Crash, LoseMemory, ResetTracker
  <2>37. CASE Boot
    BY <2>37 DEF memory, endVars, procVars, Boot
  <2>38. CASE UNCHANGED vars
    BY <2>38 DEF memory, endVars, procVars, vars
  <2>. QED
    BY <2>1, <2>2, <2>3, <2>4, <2>5, <2>6, <2>7, <2>8, <2>9, <2>10, <2>11, <2>12, <2>13, <2>14, <2>15, <2>16, <2>17, <2>18, <2>19, <2>20, <2>21, <2>22, <2>23, <2>24, <2>25, <2>26, <2>27, <2>28, <2>29, <2>30, <2>31, <2>32, <2>33, <2>34, <2>35, <2>36, <2>37, <2>38
    DEF Next, RunStep, StartStep, SupervisorStep, EndStep
<1>. QED
  BY <1>1, <1>2, TypeCorrect, SlotOwnerCorrect, PTL DEF Spec

(***************************************************************************)
(* During a graceful shutdown the only containers left running are those   *)
(* the kill loop has still to come to.                                     *)
(***************************************************************************)
ShutdownContainers ==
  /\ phase = "kill" =>
       /\ RequestsDone
       /\ \A i \in Runs : container[i] = "running" => i \in killing
  /\ phase = "down" => \A i \in Runs : container[i] # "running" /\ pc[i] = "idle"

(***************************************************************************)
(* Short of a crash, of a request that outlives the shutdown budget and of *)
(* a daemon that does not kill or remove, no container outlives a graceful *)
(* shutdown.                                                               *)
(***************************************************************************)
THEOREM ShutdownLeavesNoContainerCorrect ==
  ASSUME "crash" \notin Faults, "httpTimeout" \notin Faults,
         "kill" \notin Faults, "remove" \notin Faults
  PROVE  Spec => []ShutdownLeavesNoContainer
<1>. USE RunsAssumption DEF TypeOK, TrackerTypeOK, ShutdownContainers
<1>1. Init => ShutdownContainers
  BY DEF Init
<1>2. TypeOK /\ SlotOwner /\ RunningIsTracked /\ ShutdownContainers /\ [Next]_vars
        => ShutdownContainers'
  <2>. SUFFICES ASSUME TypeOK, SlotOwner, RunningIsTracked, ShutdownContainers, [Next]_vars
                PROVE  ShutdownContainers'
    OBVIOUS
  <2>. USE DEF RequestsDone, HandlerPoints
  <2>1. ASSUME NEW i \in Runs, CapacityCheck(i) PROVE ShutdownContainers'
    BY <2>1 DEF memory, endVars, procVars, CapacityCheck, Go
  <2>2. ASSUME NEW i \in Runs, ConflictCheck(i) PROVE ShutdownContainers'
    BY <2>2 DEF memory, endVars, procVars, ConflictCheck, Go
  <2>3. ASSUME NEW i \in Runs, MakeRunDir(i) PROVE ShutdownContainers'
    BY <2>3 DEF memory, endVars, procVars, MakeRunDir, Go
  <2>4. ASSUME NEW i \in Runs, WriteResume(i) PROVE ShutdownContainers'
    BY <2>4 DEF memory, endVars, procVars, WriteResume, Go
  <2>5. ASSUME NEW i \in Runs, RegisterToken(i) PROVE ShutdownContainers'
    BY <2>5 DEF memory, endVars, procVars, RegisterToken, Go
  <2>6. ASSUME NEW i \in Runs, ArmSecrets(i) PROVE ShutdownContainers'
    BY <2>6 DEF memory, endVars, procVars, ArmSecrets, Go
  <2>7. ASSUME NEW i \in Runs, CreateContainer(i) PROVE ShutdownContainers'
    BY <2>7 DEF memory, endVars, procVars, CreateContainer, Go
  <2>8. ASSUME NEW i \in Runs, AttachContainer(i) PROVE ShutdownContainers'
    BY <2>8 DEF memory, endVars, procVars, AttachContainer, Go
  <2>9. ASSUME NEW i \in Runs, Admit(i) PROVE ShutdownContainers'
    BY <2>9 DEF memory, endVars, procVars, Admit, Admits, AddIfUnderLimit, Go
  <2>10. ASSUME NEW i \in Runs, StartContainer(i) PROVE ShutdownContainers'
    BY <2>10 DEF memory, endVars, procVars, StartContainer, Go
  <2>11. ASSUME NEW i \in Runs, UntrackFailedStart(i) PROVE ShutdownContainers'
    BY <2>11 DEF memory, endVars, procVars, UntrackFailedStart, Remove, Go
  <2>12. ASSUME NEW i \in Runs, DiscardContainer(i) PROVE ShutdownContainers'
    BY <2>12 DEF memory, endVars, procVars, DiscardContainer, RemoveContainer, Go
  <2>13. ASSUME NEW i \in Runs, ForgetSecrets(i) PROVE ShutdownContainers'
    BY <2>13 DEF memory, endVars, procVars, ForgetSecrets, RemoveSessionKey, Go
  <2>14. ASSUME NEW i \in Runs, RevokeToken(i) PROVE ShutdownContainers'
    BY <2>14 DEF memory, endVars, procVars, RevokeToken, Revoke, Go
  <2>15. ASSUME NEW i \in Runs, CleanupRunDir(i) PROVE ShutdownContainers'
    BY <2>15 DEF memory, endVars, procVars, CleanupRunDir, RemoveRunDir, Go
  <2>16. ASSUME NEW i \in Runs, WaitReturns(i) PROVE ShutdownContainers'
    BY <2>16 DEF memory, endVars, procVars, WaitReturns, Go
  <2>17. ASSUME NEW i \in Runs, ForceRemove(i) PROVE ShutdownContainers'
    BY <2>17 DEF memory, endVars, procVars, ForceRemove, RemoveContainer, Go
  <2>18. ASSUME NEW i \in Runs, Drain(i) PROVE ShutdownContainers'
    BY <2>18 DEF memory, endVars, procVars, Drain, Go
  <2>19. ASSUME NEW i \in Runs, Teardown(i) PROVE ShutdownContainers'
    BY <2>19 DEF memory, endVars, procVars, Teardown, RemoveRunDir, Go
  <2>20. ASSUME NEW i \in Runs, ForgetExit(i) PROVE ShutdownContainers'
    BY <2>20 DEF memory, endVars, procVars, ForgetExit, RemoveSessionKey, Go
  <2>21. ASSUME NEW i \in Runs, RevokeExit(i) PROVE ShutdownContainers'
    BY <2>21 DEF memory, endVars, procVars, RevokeExit, Revoke, Go
  <2>22. ASSUME NEW i \in Runs, Release(i) PROVE ShutdownContainers'
    BY <2>22 DEF memory, endVars, procVars, Release, Remove, Go
  <2>23. ASSUME NEW i \in Runs, CloseAttach(i) PROVE ShutdownContainers'
    BY <2>23 DEF memory, endVars, procVars, CloseAttach, Go
  <2>24. ASSUME NEW i \in Runs, WaitFails(i) PROVE ShutdownContainers'
    BY <2>24 DEF memory, endVars, procVars, WaitFails, KillContainer, Signalled, Go
  <2>25. ASSUME NEW i \in Runs, ContainerExits(i) PROVE ShutdownContainers'
    BY <2>25 DEF memory, endVars, procVars, ContainerExits
  <2>26. ASSUME NEW i \in Runs, ContainerWrites(i) PROVE ShutdownContainers'
    BY <2>26 DEF memory, endVars, procVars, ContainerWrites
  <2>27. ASSUME NEW i \in Runs, PumpOutput(i) PROVE ShutdownContainers'
    BY <2>27 DEF memory, endVars, procVars, PumpOutput
  <2>28. ASSUME NEW r \in Runs, KillTracked(r) PROVE ShutdownContainers'
    BY <2>28 DEF RunningIsTracked, memory, endVars, procVars, KillTracked, SetReason, KillContainer, Signalled, RemoveRunDir
  <2>29. ASSUME NEW e \in Ends, StopGet(e) PROVE ShutdownContainers'
    BY <2>29 DEF memory, endVars, procVars, StopGet, EndReturns
  <2>30. ASSUME NEW e \in Ends, StopReason(e) PROVE ShutdownContainers'
    BY <2>30 DEF memory, endVars, procVars, StopReason, SetReason
  <2>31. ASSUME NEW e \in Ends, StopSignal(e) PROVE ShutdownContainers'
    BY <2>31 DEF memory, endVars, procVars, StopSignal, EndReturns, KillContainer, Signalled
  <2>32. ASSUME NEW e \in Ends, NEW s \in Sessions, EndGet(e, s) PROVE ShutdownContainers'
    BY <2>32 DEF memory, endVars, procVars, EndGet
  <2>33. CASE StartDraining
    BY <2>33 DEF memory, endVars, procVars, StartDraining
  <2>34. CASE HttpDown
    BY <2>34 DEF RunningIsTracked, memory, endVars, procVars, HttpDown, Tracked
  <2>35. CASE ProcessExit
    BY <2>35 DEF memory, endVars, procVars, ProcessExit, LoseMemory, ResetTracker
  <2>36. CASE Crash
    BY <2>36 DEF memory, endVars, procVars, Crash, LoseMemory, ResetTracker
  <2>37. CASE Boot
    BY <2>37 DEF memory, endVars, procVars, Boot
  <2>38. CASE UNCHANGED vars
    BY <2>38 DEF memory, endVars, procVars, vars
  <2>. QED
    BY <2>1, <2>2, <2>3, <2>4, <2>5, <2>6, <2>7, <2>8, <2>9, <2>10, <2>11, <2>12, <2>13, <2>14, <2>15, <2>16, <2>17, <2>18, <2>19, <2>20, <2>21, <2>22, <2>23, <2>24, <2>25, <2>26, <2>27, <2>28, <2>29, <2>30, <2>31, <2>32, <2>33, <2>34, <2>35, <2>36, <2>37, <2>38
    DEF Next, RunStep, StartStep, SupervisorStep, EndStep
<1>3. ShutdownContainers => ShutdownLeavesNoContainer
  BY DEF ShutdownLeavesNoContainer
<1>. QED
  BY <1>1, <1>2, <1>3, TypeCorrect, SlotOwnerCorrect, RunningIsTrackedCorrect, PTL DEF Spec

(***************************************************************************)
(* Lifecycle implements SessionSlots: whatever interleaves, the sessions   *)
(* are leases that one run at a time holds, at most max_concurrent of      *)
(* them, and a live run's lease ends only by way of its own retirement or  *)
(* with the process.                                                       *)
(***************************************************************************)
THEOREM Refinement == Spec => ImplementsSlots
<1>. USE RunsAssumption DEF TypeOK, TrackerTypeOK, SlotOwner, HoldsSlot, Tracked, StageOf
<1>. DEFINE stage == [s \in Sessions |-> StageOf(byKey[s])]
            up == phase # "down"
<1>1. Init => Slots!Init
  BY DEF Init, NewTracker, Slots!Init
<1>2. TypeOK /\ SlotOwner /\ [Next]_vars => [Slots!Next]_(Slots!slotVars)
  <2>. SUFFICES ASSUME TypeOK, SlotOwner, [Next]_vars
                PROVE  [Slots!Next]_(Slots!slotVars)
    OBVIOUS
  <2>. DEFINE Same == byKey' = byKey /\ stage' = stage /\ up' = up
  <2>1. ASSUME NEW i \in Runs, CapacityCheck(i) PROVE Same
    BY <2>1 DEF memory, endVars, procVars, CapacityCheck, Go
  <2>2. ASSUME NEW i \in Runs, ConflictCheck(i) PROVE Same
    BY <2>2 DEF memory, endVars, procVars, ConflictCheck, Go
  <2>3. ASSUME NEW i \in Runs, MakeRunDir(i) PROVE Same
    BY <2>3 DEF memory, endVars, procVars, MakeRunDir, Go
  <2>4. ASSUME NEW i \in Runs, WriteResume(i) PROVE Same
    BY <2>4 DEF memory, endVars, procVars, WriteResume, Go
  <2>5. ASSUME NEW i \in Runs, RegisterToken(i) PROVE Same
    BY <2>5 DEF memory, endVars, procVars, RegisterToken, Go
  <2>6. ASSUME NEW i \in Runs, ArmSecrets(i) PROVE Same
    BY <2>6 DEF memory, endVars, procVars, ArmSecrets, Go
  <2>7. ASSUME NEW i \in Runs, CreateContainer(i) PROVE Same
    BY <2>7 DEF memory, endVars, procVars, CreateContainer, Go
  <2>8. ASSUME NEW i \in Runs, AttachContainer(i) PROVE Same
    BY <2>8 DEF memory, endVars, procVars, AttachContainer, Go
  <2>9. ASSUME NEW i \in Runs, Admit(i) PROVE (Same \/ Slots!Acquire(i))
    <3>1. CASE Admits(SessionOf[i])
      <4>1. byKey' = [byKey EXCEPT ![SessionOf[i]] = i] /\ pc' = [pc EXCEPT ![i] = "admitted"]
        BY <2>9, <3>1 DEF Admit, AddIfUnderLimit, Go
      <4>2. \A s \in Sessions : byKey[s] # i
        BY <2>9 DEF Admit, Go
      <4>3. ASSUME NEW s \in Sessions
            PROVE  stage'[s] = IF s = SessionOf[i] THEN "starting" ELSE stage[s]
        <5>1. CASE s = SessionOf[i]
          BY <4>1, <5>1
        <5>2. CASE s # SessionOf[i]
          <6>1. byKey'[s] = byKey[s] /\ (byKey[s] # NoRun => pc'[byKey[s]] = pc[byKey[s]])
            BY <4>1, <4>2, <5>2
          <6>. QED
            BY <5>2, <6>1
        <5>. QED
          BY <5>1, <5>2
      <4>4. stage = [s \in Sessions |-> stage[s]] /\ stage' = [s \in Sessions |-> stage'[s]]
        OBVIOUS
      <4>5. stage' = [stage EXCEPT ![SessionOf[i]] = "starting"]
        <5>. HIDE DEF stage
        <5>. QED
          BY <4>3, <4>4
      <4>6. stage[SessionOf[i]] = "free" /\ RoomBesides(Slots!Held)
        BY <3>1 DEF Admits, Count, RoomBesides, Slots!Held
      <4>7. UNCHANGED up
        BY <2>9 DEF Admit, procVars
      <4>. QED
        BY <4>1, <4>5, <4>6, <4>7 DEF Slots!Acquire
    <3>2. CASE ~Admits(SessionOf[i])
      BY <2>9, <3>2 DEF Admit, Go, procVars
    <3>. QED
      BY <3>1, <3>2
  <2>10. ASSUME NEW i \in Runs, StartContainer(i) PROVE (Same \/ Slots!GoLive(SessionOf[i]))
    BY <2>10 DEF Slots!GoLive, Slots!Advance, memory, endVars, procVars, StartContainer, Go
  <2>11. ASSUME NEW i \in Runs, UntrackFailedStart(i) PROVE Slots!GiveUp(SessionOf[i])
    BY <2>11 DEF Slots!GiveUp, memory, endVars, procVars, UntrackFailedStart, Remove, Go
  <2>12. ASSUME NEW i \in Runs, DiscardContainer(i) PROVE Same
    BY <2>12 DEF memory, endVars, procVars, DiscardContainer, RemoveContainer, Go
  <2>13. ASSUME NEW i \in Runs, ForgetSecrets(i) PROVE Same
    BY <2>13 DEF memory, endVars, procVars, ForgetSecrets, RemoveSessionKey, Go
  <2>14. ASSUME NEW i \in Runs, RevokeToken(i) PROVE Same
    BY <2>14 DEF memory, endVars, procVars, RevokeToken, Revoke, Go
  <2>15. ASSUME NEW i \in Runs, CleanupRunDir(i) PROVE Same
    BY <2>15 DEF memory, endVars, procVars, CleanupRunDir, RemoveRunDir, Go
  <2>16. ASSUME NEW i \in Runs, WaitReturns(i) PROVE Slots!Retire(SessionOf[i])
    BY <2>16 DEF Slots!Retire, Slots!Advance, memory, endVars, procVars, WaitReturns, Go
  <2>17. ASSUME NEW i \in Runs, ForceRemove(i) PROVE Same
    BY <2>17 DEF memory, endVars, procVars, ForceRemove, RemoveContainer, Go
  <2>18. ASSUME NEW i \in Runs, Drain(i) PROVE Same
    BY <2>18 DEF memory, endVars, procVars, Drain, Go
  <2>19. ASSUME NEW i \in Runs, Teardown(i) PROVE Same
    BY <2>19 DEF memory, endVars, procVars, Teardown, RemoveRunDir, Go
  <2>20. ASSUME NEW i \in Runs, ForgetExit(i) PROVE Same
    BY <2>20 DEF memory, endVars, procVars, ForgetExit, RemoveSessionKey, Go
  <2>21. ASSUME NEW i \in Runs, RevokeExit(i) PROVE Same
    BY <2>21 DEF memory, endVars, procVars, RevokeExit, Revoke, Go
  <2>22. ASSUME NEW i \in Runs, Release(i) PROVE Slots!GiveUp(SessionOf[i])
    BY <2>22 DEF Slots!GiveUp, memory, endVars, procVars, Release, Remove, Go
  <2>23. ASSUME NEW i \in Runs, CloseAttach(i) PROVE Same
    BY <2>23 DEF memory, endVars, procVars, CloseAttach, Go
  <2>24. ASSUME NEW i \in Runs, WaitFails(i) PROVE Slots!Retire(SessionOf[i])
    BY <2>24 DEF Slots!Retire, Slots!Advance, memory, endVars, procVars, WaitFails, KillContainer, Signalled, Go
  <2>25. ASSUME NEW i \in Runs, ContainerExits(i) PROVE Same
    BY <2>25 DEF memory, endVars, procVars, ContainerExits
  <2>26. ASSUME NEW i \in Runs, ContainerWrites(i) PROVE Same
    BY <2>26 DEF memory, endVars, procVars, ContainerWrites
  <2>27. ASSUME NEW i \in Runs, PumpOutput(i) PROVE Same
    BY <2>27 DEF memory, endVars, procVars, PumpOutput
  <2>28. ASSUME NEW r \in Runs, KillTracked(r) PROVE Same
    BY <2>28 DEF memory, endVars, procVars, KillTracked, SetReason, KillContainer, Signalled, RemoveRunDir
  <2>29. ASSUME NEW e \in Ends, StopGet(e) PROVE Same
    BY <2>29 DEF memory, endVars, procVars, StopGet, EndReturns
  <2>30. ASSUME NEW e \in Ends, StopReason(e) PROVE Same
    BY <2>30 DEF memory, endVars, procVars, StopReason, SetReason
  <2>31. ASSUME NEW e \in Ends, StopSignal(e) PROVE Same
    BY <2>31 DEF memory, endVars, procVars, StopSignal, EndReturns, KillContainer, Signalled
  <2>32. ASSUME NEW e \in Ends, NEW s \in Sessions, EndGet(e, s) PROVE Same
    BY <2>32 DEF memory, endVars, procVars, EndGet
  <2>33. ASSUME StartDraining PROVE Same
    BY <2>33 DEF memory, endVars, procVars, StartDraining
  <2>34. ASSUME HttpDown PROVE Same
    BY <2>34 DEF memory, endVars, procVars, HttpDown, Tracked
  <2>35. ASSUME ProcessExit PROVE Slots!LoseAll
    BY <2>35 DEF Slots!LoseAll, memory, endVars, procVars, ProcessExit, LoseMemory, ResetTracker
  <2>36. ASSUME Crash PROVE Slots!LoseAll
    BY <2>36 DEF Slots!LoseAll, memory, endVars, procVars, Crash, LoseMemory, ResetTracker
  <2>37. ASSUME Boot PROVE Slots!Return
    BY <2>37 DEF Slots!Return, memory, endVars, procVars, Boot
  <2>38. ASSUME UNCHANGED vars PROVE Same
    BY <2>38 DEF memory, endVars, procVars, vars
  <2>. QED
    BY <2>1, <2>2, <2>3, <2>4, <2>5, <2>6, <2>7, <2>8, <2>9, <2>10, <2>11, <2>12, <2>13, <2>14, <2>15, <2>16, <2>17, <2>18, <2>19, <2>20, <2>21, <2>22, <2>23, <2>24, <2>25, <2>26, <2>27, <2>28, <2>29, <2>30, <2>31, <2>32, <2>33, <2>34, <2>35, <2>36, <2>37, <2>38
    DEF Next, RunStep, StartStep, SupervisorStep, EndStep, Slots!Next, Slots!slotVars
<1>. QED
  BY <1>1, <1>2, TypeCorrect, SlotOwnerCorrect, PTL DEF Spec, ImplementsSlots, Slots!Spec

(***************************************************************************)
(* With one lifecycle request per session in flight, a run that has passed *)
(* the conflict check is alone in its session until it is released: other  *)
(* starts of the session get no further than the conflict check.           *)
(***************************************************************************)
Engaged == (HandlerPoints \ {"received"}) \cup HoldsSlot

Alone ==
  \A i, j \in Runs : i # j /\ SessionOf[i] = SessionOf[j] =>
    /\ pc[i] \in HandlerPoints => pc[j] \notin HandlerPoints
    /\ pc[i] \in Engaged => pc[j] \notin Engaged

(***************************************************************************)
(* With one lifecycle request per session in flight, two runs of a session *)
(* are never engaged at once: this is what the session-keyed cleanup of a  *)
(* start relies on.                                                        *)
(***************************************************************************)
LEMMA AloneCorrect ==
  ASSUME Serial
  PROVE  Spec => []Alone
<1>. USE RunsAssumption DEF TypeOK, TrackerTypeOK, Alone, Engaged, HandlerPoints, HoldsSlot
<1>1. Init => Alone
  BY DEF Init
<1>2. TypeOK /\ SlotOwner /\ Alone /\ [Next]_vars => Alone'
  <2>. SUFFICES ASSUME TypeOK, SlotOwner, Alone, [Next]_vars PROVE Alone'
    OBVIOUS
  <2>1. ASSUME NEW i \in Runs, CapacityCheck(i) PROVE Alone'
    BY <2>1 DEF memory, endVars, procVars, CapacityCheck, Quiet, Go
  <2>2. ASSUME NEW i \in Runs, ConflictCheck(i) PROVE Alone'
    BY <2>2 DEF memory, endVars, procVars, ConflictCheck, SlotOwner, Go
  <2>3. ASSUME NEW i \in Runs, MakeRunDir(i) PROVE Alone'
    BY <2>3 DEF memory, endVars, procVars, MakeRunDir, Go
  <2>4. ASSUME NEW i \in Runs, WriteResume(i) PROVE Alone'
    BY <2>4 DEF memory, endVars, procVars, WriteResume, Go
  <2>5. ASSUME NEW i \in Runs, RegisterToken(i) PROVE Alone'
    BY <2>5 DEF memory, endVars, procVars, RegisterToken, Go
  <2>6. ASSUME NEW i \in Runs, ArmSecrets(i) PROVE Alone'
    BY <2>6 DEF memory, endVars, procVars, ArmSecrets, Go
  <2>7. ASSUME NEW i \in Runs, CreateContainer(i) PROVE Alone'
    BY <2>7 DEF memory, endVars, procVars, CreateContainer, Go
  <2>8. ASSUME NEW i \in Runs, AttachContainer(i) PROVE Alone'
    BY <2>8 DEF memory, endVars, procVars, AttachContainer, Go
  <2>9. ASSUME NEW i \in Runs, Admit(i) PROVE Alone'
    BY <2>9 DEF memory, endVars, procVars, Admit, Admits, AddIfUnderLimit, Go
  <2>10. ASSUME NEW i \in Runs, StartContainer(i) PROVE Alone'
    BY <2>10 DEF memory, endVars, procVars, StartContainer, Go
  <2>11. ASSUME NEW i \in Runs, UntrackFailedStart(i) PROVE Alone'
    BY <2>11 DEF memory, endVars, procVars, UntrackFailedStart, Remove, Go
  <2>12. ASSUME NEW i \in Runs, DiscardContainer(i) PROVE Alone'
    BY <2>12 DEF memory, endVars, procVars, DiscardContainer, RemoveContainer, Go
  <2>13. ASSUME NEW i \in Runs, ForgetSecrets(i) PROVE Alone'
    BY <2>13 DEF memory, endVars, procVars, ForgetSecrets, RemoveSessionKey, Go
  <2>14. ASSUME NEW i \in Runs, RevokeToken(i) PROVE Alone'
    BY <2>14 DEF memory, endVars, procVars, RevokeToken, Revoke, Go
  <2>15. ASSUME NEW i \in Runs, CleanupRunDir(i) PROVE Alone'
    BY <2>15 DEF memory, endVars, procVars, CleanupRunDir, RemoveRunDir, Go
  <2>16. ASSUME NEW i \in Runs, WaitReturns(i) PROVE Alone'
    BY <2>16 DEF memory, endVars, procVars, WaitReturns, Go
  <2>17. ASSUME NEW i \in Runs, ForceRemove(i) PROVE Alone'
    BY <2>17 DEF memory, endVars, procVars, ForceRemove, RemoveContainer, Go
  <2>18. ASSUME NEW i \in Runs, Drain(i) PROVE Alone'
    BY <2>18 DEF memory, endVars, procVars, Drain, Go
  <2>19. ASSUME NEW i \in Runs, Teardown(i) PROVE Alone'
    BY <2>19 DEF memory, endVars, procVars, Teardown, RemoveRunDir, Go
  <2>20. ASSUME NEW i \in Runs, ForgetExit(i) PROVE Alone'
    BY <2>20 DEF memory, endVars, procVars, ForgetExit, RemoveSessionKey, Go
  <2>21. ASSUME NEW i \in Runs, RevokeExit(i) PROVE Alone'
    BY <2>21 DEF memory, endVars, procVars, RevokeExit, Revoke, Go
  <2>22. ASSUME NEW i \in Runs, Release(i) PROVE Alone'
    BY <2>22 DEF memory, endVars, procVars, Release, Remove, Go
  <2>23. ASSUME NEW i \in Runs, CloseAttach(i) PROVE Alone'
    BY <2>23 DEF memory, endVars, procVars, CloseAttach, Go
  <2>24. ASSUME NEW i \in Runs, WaitFails(i) PROVE Alone'
    BY <2>24 DEF memory, endVars, procVars, WaitFails, KillContainer, Signalled, Go
  <2>25. ASSUME NEW i \in Runs, ContainerExits(i) PROVE Alone'
    BY <2>25 DEF memory, endVars, procVars, ContainerExits
  <2>26. ASSUME NEW i \in Runs, ContainerWrites(i) PROVE Alone'
    BY <2>26 DEF memory, endVars, procVars, ContainerWrites
  <2>27. ASSUME NEW i \in Runs, PumpOutput(i) PROVE Alone'
    BY <2>27 DEF memory, endVars, procVars, PumpOutput
  <2>28. ASSUME NEW r \in Runs, KillTracked(r) PROVE Alone'
    BY <2>28 DEF memory, endVars, procVars, KillTracked, SetReason, KillContainer, Signalled, RemoveRunDir
  <2>29. ASSUME NEW e \in Ends, StopGet(e) PROVE Alone'
    BY <2>29 DEF memory, endVars, procVars, StopGet, EndReturns
  <2>30. ASSUME NEW e \in Ends, StopReason(e) PROVE Alone'
    BY <2>30 DEF memory, endVars, procVars, StopReason, SetReason
  <2>31. ASSUME NEW e \in Ends, StopSignal(e) PROVE Alone'
    BY <2>31 DEF memory, endVars, procVars, StopSignal, EndReturns, KillContainer, Signalled
  <2>32. ASSUME NEW e \in Ends, NEW s \in Sessions, EndGet(e, s) PROVE Alone'
    BY <2>32 DEF memory, endVars, procVars, EndGet
  <2>33. CASE StartDraining
    BY <2>33 DEF memory, endVars, procVars, StartDraining
  <2>34. CASE HttpDown
    BY <2>34 DEF memory, endVars, procVars, HttpDown, Tracked
  <2>35. CASE ProcessExit
    BY <2>35 DEF memory, endVars, procVars, ProcessExit, LoseMemory, ResetTracker
  <2>36. CASE Crash
    BY <2>36 DEF memory, endVars, procVars, Crash, LoseMemory, ResetTracker
  <2>37. CASE Boot
    BY <2>37 DEF memory, endVars, procVars, Boot
  <2>38. CASE UNCHANGED vars
    BY <2>38 DEF memory, endVars, procVars, vars
  <2>. QED
    BY <2>1, <2>2, <2>3, <2>4, <2>5, <2>6, <2>7, <2>8, <2>9, <2>10, <2>11, <2>12, <2>13, <2>14, <2>15, <2>16, <2>17, <2>18, <2>19, <2>20, <2>21, <2>22, <2>23, <2>24, <2>25, <2>26, <2>27, <2>28, <2>29, <2>30, <2>31, <2>32, <2>33, <2>34, <2>35, <2>36, <2>37, <2>38
    DEF Next, RunStep, StartStep, SupervisorStep, EndStep
<1>. QED
  BY <1>1, <1>2, TypeCorrect, SlotOwnerCorrect, PTL DEF Spec

(***************************************************************************)
(* A run goes from its attach to the discarding of its container by one    *)
(* step only: AddIfUnderLimit refused its session.                         *)
(***************************************************************************)
LEMMA RefusedByAdmit ==
  ASSUME TypeOK, [Next]_vars, NEW i \in Runs, pc[i] = "attached", pc'[i] = "discard"
  PROVE  ~Admits(SessionOf[i])
<1>. USE DEF TypeOK
<1>1. ASSUME NEW j \in Runs, CapacityCheck(j) PROVE ~Admits(SessionOf[i])
  BY <1>1 DEF memory, endVars, procVars, CapacityCheck, Go
<1>2. ASSUME NEW j \in Runs, ConflictCheck(j) PROVE ~Admits(SessionOf[i])
  BY <1>2 DEF memory, endVars, procVars, ConflictCheck, Go
<1>3. ASSUME NEW j \in Runs, MakeRunDir(j) PROVE ~Admits(SessionOf[i])
  BY <1>3 DEF memory, endVars, procVars, MakeRunDir, Go
<1>4. ASSUME NEW j \in Runs, WriteResume(j) PROVE ~Admits(SessionOf[i])
  BY <1>4 DEF memory, endVars, procVars, WriteResume, Go
<1>5. ASSUME NEW j \in Runs, RegisterToken(j) PROVE ~Admits(SessionOf[i])
  BY <1>5 DEF memory, endVars, procVars, RegisterToken, Go
<1>6. ASSUME NEW j \in Runs, ArmSecrets(j) PROVE ~Admits(SessionOf[i])
  BY <1>6 DEF memory, endVars, procVars, ArmSecrets, Go
<1>7. ASSUME NEW j \in Runs, CreateContainer(j) PROVE ~Admits(SessionOf[i])
  BY <1>7 DEF memory, endVars, procVars, CreateContainer, Go
<1>8. ASSUME NEW j \in Runs, AttachContainer(j) PROVE ~Admits(SessionOf[i])
  BY <1>8 DEF memory, endVars, procVars, AttachContainer, Go
<1>9. ASSUME NEW j \in Runs, Admit(j) PROVE ~Admits(SessionOf[i])
  BY <1>9 DEF memory, endVars, procVars, Admit, Go
<1>10. ASSUME NEW j \in Runs, StartContainer(j) PROVE ~Admits(SessionOf[i])
  BY <1>10 DEF memory, endVars, procVars, StartContainer, Go
<1>11. ASSUME NEW j \in Runs, UntrackFailedStart(j) PROVE ~Admits(SessionOf[i])
  BY <1>11 DEF memory, endVars, procVars, UntrackFailedStart, Remove, Go
<1>12. ASSUME NEW j \in Runs, DiscardContainer(j) PROVE ~Admits(SessionOf[i])
  BY <1>12 DEF memory, endVars, procVars, DiscardContainer, RemoveContainer, Go
<1>13. ASSUME NEW j \in Runs, ForgetSecrets(j) PROVE ~Admits(SessionOf[i])
  BY <1>13 DEF memory, endVars, procVars, ForgetSecrets, RemoveSessionKey, Go
<1>14. ASSUME NEW j \in Runs, RevokeToken(j) PROVE ~Admits(SessionOf[i])
  BY <1>14 DEF memory, endVars, procVars, RevokeToken, Revoke, Go
<1>15. ASSUME NEW j \in Runs, CleanupRunDir(j) PROVE ~Admits(SessionOf[i])
  BY <1>15 DEF memory, endVars, procVars, CleanupRunDir, RemoveRunDir, Go
<1>16. ASSUME NEW j \in Runs, WaitReturns(j) PROVE ~Admits(SessionOf[i])
  BY <1>16 DEF memory, endVars, procVars, WaitReturns, Go
<1>17. ASSUME NEW j \in Runs, ForceRemove(j) PROVE ~Admits(SessionOf[i])
  BY <1>17 DEF memory, endVars, procVars, ForceRemove, RemoveContainer, Go
<1>18. ASSUME NEW j \in Runs, Drain(j) PROVE ~Admits(SessionOf[i])
  BY <1>18 DEF memory, endVars, procVars, Drain, Go
<1>19. ASSUME NEW j \in Runs, Teardown(j) PROVE ~Admits(SessionOf[i])
  BY <1>19 DEF memory, endVars, procVars, Teardown, RemoveRunDir, Go
<1>20. ASSUME NEW j \in Runs, ForgetExit(j) PROVE ~Admits(SessionOf[i])
  BY <1>20 DEF memory, endVars, procVars, ForgetExit, RemoveSessionKey, Go
<1>21. ASSUME NEW j \in Runs, RevokeExit(j) PROVE ~Admits(SessionOf[i])
  BY <1>21 DEF memory, endVars, procVars, RevokeExit, Revoke, Go
<1>22. ASSUME NEW j \in Runs, Release(j) PROVE ~Admits(SessionOf[i])
  BY <1>22 DEF memory, endVars, procVars, Release, Remove, Go
<1>23. ASSUME NEW j \in Runs, CloseAttach(j) PROVE ~Admits(SessionOf[i])
  BY <1>23 DEF memory, endVars, procVars, CloseAttach, Go
<1>24. ASSUME NEW j \in Runs, WaitFails(j) PROVE ~Admits(SessionOf[i])
  BY <1>24 DEF memory, endVars, procVars, WaitFails, KillContainer, Signalled, Go
<1>25. ASSUME NEW j \in Runs, ContainerExits(j) PROVE ~Admits(SessionOf[i])
  BY <1>25 DEF memory, endVars, procVars, ContainerExits
<1>26. ASSUME NEW j \in Runs, ContainerWrites(j) PROVE ~Admits(SessionOf[i])
  BY <1>26 DEF memory, endVars, procVars, ContainerWrites
<1>27. ASSUME NEW j \in Runs, PumpOutput(j) PROVE ~Admits(SessionOf[i])
  BY <1>27 DEF memory, endVars, procVars, PumpOutput
<1>28. ASSUME NEW r \in Runs, KillTracked(r) PROVE ~Admits(SessionOf[i])
  BY <1>28 DEF memory, endVars, procVars, KillTracked, SetReason, KillContainer, Signalled, RemoveRunDir
<1>29. ASSUME NEW e \in Ends, StopGet(e) PROVE ~Admits(SessionOf[i])
  BY <1>29 DEF memory, endVars, procVars, StopGet, EndReturns
<1>30. ASSUME NEW e \in Ends, StopReason(e) PROVE ~Admits(SessionOf[i])
  BY <1>30 DEF memory, endVars, procVars, StopReason, SetReason
<1>31. ASSUME NEW e \in Ends, StopSignal(e) PROVE ~Admits(SessionOf[i])
  BY <1>31 DEF memory, endVars, procVars, StopSignal, EndReturns, KillContainer, Signalled
<1>32. ASSUME NEW e \in Ends, NEW s \in Sessions, EndGet(e, s) PROVE ~Admits(SessionOf[i])
  BY <1>32 DEF memory, endVars, procVars, EndGet
<1>33. CASE StartDraining
  BY <1>33 DEF memory, endVars, procVars, StartDraining
<1>34. CASE HttpDown
  BY <1>34 DEF memory, endVars, procVars, HttpDown
<1>35. CASE ProcessExit
  BY <1>35 DEF memory, endVars, procVars, ProcessExit, LoseMemory, ResetTracker
<1>36. CASE Crash
  BY <1>36 DEF memory, endVars, procVars, Crash, LoseMemory, ResetTracker
<1>37. CASE Boot
  BY <1>37 DEF memory, endVars, procVars, Boot
<1>38. CASE UNCHANGED vars
  BY <1>38 DEF memory, endVars, procVars, vars
<1>. QED
  BY <1>1, <1>2, <1>3, <1>4, <1>5, <1>6, <1>7, <1>8, <1>9, <1>10, <1>11, <1>12, <1>13, <1>14, <1>15, <1>16, <1>17, <1>18, <1>19, <1>20, <1>21, <1>22, <1>23, <1>24, <1>25, <1>26, <1>27, <1>28, <1>29, <1>30, <1>31, <1>32, <1>33, <1>34, <1>35, <1>36, <1>37, <1>38
  DEF Next, RunStep, StartStep, SupervisorStep, EndStep

(***************************************************************************)
(* With one lifecycle request per session in flight, a start that          *)
(* AddIfUnderLimit turns away has met a full tracker and never a tracked   *)
(* session: the 429 that handleChatStart answers is the right one, though  *)
(* the boolean it gets does not tell the two refusals apart.               *)
(***************************************************************************)
THEOREM CapacityMeansFullCorrect ==
  ASSUME Serial
  PROVE  Spec => CapacityMeansFull
<1>1. Count \in Nat
  BY SessionsAssumption, FS_Subset, FS_CardinalityType, Tracked \subseteq Sessions
  DEF Tracked, Count
<1>2. TypeOK /\ SlotOwner /\ Alone /\ [Next]_vars
        => [\A i \in Runs : pc[i] = "attached" /\ pc'[i] = "discard"
              => Count >= MaxConcurrent /\ byKey[SessionOf[i]] = NoRun]_vars
  <2>. SUFFICES ASSUME TypeOK, SlotOwner, Alone, [Next]_vars,
                       NEW i \in Runs, pc[i] = "attached", pc'[i] = "discard"
                PROVE  Count >= MaxConcurrent /\ byKey[SessionOf[i]] = NoRun
    OBVIOUS
  <2>1. ~Admits(SessionOf[i])
    BY RefusedByAdmit
  <2>2. byKey[SessionOf[i]] = NoRun
    <3>. SUFFICES ASSUME byKey[SessionOf[i]] # NoRun PROVE FALSE
      OBVIOUS
    <3>1. SessionOf[i] \in Tracked /\ byKey[SessionOf[i]] \in Runs
      BY RunsAssumption DEF Tracked, TypeOK, TrackerTypeOK
    <3>2. PICK j \in Runs : SessionOf[j] = SessionOf[i] /\ pc[j] \in HoldsSlot
      BY <3>1 DEF SlotOwner
    <3>3. j # i
      BY <3>2 DEF HoldsSlot
    <3>. QED
      BY <3>2, <3>3 DEF Alone, Engaged, HandlerPoints
  <2>. QED
    BY <1>1, <2>1, <2>2, MaxAssumption DEF Admits
<1>. QED
  BY <1>2, TypeCorrect, SlotOwnerCorrect, AloneCorrect, PTL DEF Spec, CapacityMeansFull

(***************************************************************************)
(* What a run has registered stays registered until the run itself         *)
(* withdraws it; the run directory, until shutdown.                        *)
(***************************************************************************)
Keeps ==
  /\ \A i \in Runs :
       /\ pc[i] \in ForgetsLater => i \in secrets[SessionOf[i]]
       /\ pc[i] \in ForgetsLater \cup {"registered", "revoke", "revokeExit"}
            => i \in tokens[SessionOf[i]]
       /\ pc[i] \in CleansLater => SessionOf[i] \in runDir \/ phase # "up"
  /\ phase = "down" => \A i \in Runs : pc[i] = "idle"

(***************************************************************************)
(* With one lifecycle request per session in flight, a run holds its       *)
(* secrets, token and run directory at every point from which it will      *)
(* withdraw them.                                                          *)
(***************************************************************************)
LEMMA KeepsCorrect ==
  ASSUME Serial
  PROVE  Spec => []Keeps
<1>. USE RunsAssumption DEF TypeOK, TrackerTypeOK, Keeps, ForgetsLater, CleansLater
<1>1. Init => Keeps
  BY DEF Init
<1>2. TypeOK /\ Alone /\ Keeps /\ [Next]_vars => Keeps'
  <2>. SUFFICES ASSUME TypeOK, Alone, Keeps, [Next]_vars PROVE Keeps'
    OBVIOUS
  <2>. USE DEF HandlerPoints, HoldsSlot, Engaged
  <2>1. ASSUME NEW i \in Runs, CapacityCheck(i) PROVE Keeps'
    BY <2>1 DEF memory, endVars, procVars, CapacityCheck, Go
  <2>2. ASSUME NEW i \in Runs, ConflictCheck(i) PROVE Keeps'
    BY <2>2 DEF memory, endVars, procVars, ConflictCheck, Go
  <2>3. ASSUME NEW i \in Runs, MakeRunDir(i) PROVE Keeps'
    BY <2>3 DEF memory, endVars, procVars, MakeRunDir, Go
  <2>4. ASSUME NEW i \in Runs, WriteResume(i) PROVE Keeps'
    BY <2>4 DEF memory, endVars, procVars, WriteResume, Go
  <2>5. ASSUME NEW i \in Runs, RegisterToken(i) PROVE Keeps'
    BY <2>5 DEF memory, endVars, procVars, RegisterToken, Go
  <2>6. ASSUME NEW i \in Runs, ArmSecrets(i) PROVE Keeps'
    BY <2>6 DEF memory, endVars, procVars, ArmSecrets, Go
  <2>7. ASSUME NEW i \in Runs, CreateContainer(i) PROVE Keeps'
    BY <2>7 DEF memory, endVars, procVars, CreateContainer, Go
  <2>8. ASSUME NEW i \in Runs, AttachContainer(i) PROVE Keeps'
    BY <2>8 DEF memory, endVars, procVars, AttachContainer, Go
  <2>9. ASSUME NEW i \in Runs, Admit(i) PROVE Keeps'
    BY <2>9 DEF memory, endVars, procVars, Admit, Admits, AddIfUnderLimit, Go
  <2>10. ASSUME NEW i \in Runs, StartContainer(i) PROVE Keeps'
    BY <2>10 DEF memory, endVars, procVars, StartContainer, Go
  <2>11. ASSUME NEW i \in Runs, UntrackFailedStart(i) PROVE Keeps'
    BY <2>11 DEF memory, endVars, procVars, UntrackFailedStart, Remove, Go
  <2>12. ASSUME NEW i \in Runs, DiscardContainer(i) PROVE Keeps'
    BY <2>12 DEF memory, endVars, procVars, DiscardContainer, RemoveContainer, Go
  <2>13. ASSUME NEW i \in Runs, ForgetSecrets(i) PROVE Keeps'
    BY <2>13 DEF memory, endVars, procVars, Alone, ForgetSecrets, RemoveSessionKey, Go
  <2>14. ASSUME NEW i \in Runs, RevokeToken(i) PROVE Keeps'
    BY <2>14 DEF memory, endVars, procVars, Alone, RevokeToken, Revoke, Go
  <2>15. ASSUME NEW i \in Runs, CleanupRunDir(i) PROVE Keeps'
    BY <2>15 DEF memory, endVars, procVars, Alone, CleanupRunDir, RemoveRunDir, Go
  <2>16. ASSUME NEW i \in Runs, WaitReturns(i) PROVE Keeps'
    BY <2>16 DEF memory, endVars, procVars, WaitReturns, Go
  <2>17. ASSUME NEW i \in Runs, ForceRemove(i) PROVE Keeps'
    BY <2>17 DEF memory, endVars, procVars, ForceRemove, RemoveContainer, Go
  <2>18. ASSUME NEW i \in Runs, Drain(i) PROVE Keeps'
    BY <2>18 DEF memory, endVars, procVars, Drain, Go
  <2>19. ASSUME NEW i \in Runs, Teardown(i) PROVE Keeps'
    BY <2>19 DEF memory, endVars, procVars, Alone, Teardown, RemoveRunDir, Go
  <2>20. ASSUME NEW i \in Runs, ForgetExit(i) PROVE Keeps'
    BY <2>20 DEF memory, endVars, procVars, Alone, ForgetExit, RemoveSessionKey, Go
  <2>21. ASSUME NEW i \in Runs, RevokeExit(i) PROVE Keeps'
    BY <2>21 DEF memory, endVars, procVars, Alone, RevokeExit, Revoke, Go
  <2>22. ASSUME NEW i \in Runs, Release(i) PROVE Keeps'
    BY <2>22 DEF memory, endVars, procVars, Release, Remove, Go
  <2>23. ASSUME NEW i \in Runs, CloseAttach(i) PROVE Keeps'
    BY <2>23 DEF memory, endVars, procVars, CloseAttach, Go
  <2>24. ASSUME NEW i \in Runs, WaitFails(i) PROVE Keeps'
    BY <2>24 DEF memory, endVars, procVars, WaitFails, KillContainer, Signalled, Go
  <2>25. ASSUME NEW i \in Runs, ContainerExits(i) PROVE Keeps'
    BY <2>25 DEF memory, endVars, procVars, ContainerExits
  <2>26. ASSUME NEW i \in Runs, ContainerWrites(i) PROVE Keeps'
    BY <2>26 DEF memory, endVars, procVars, ContainerWrites
  <2>27. ASSUME NEW i \in Runs, PumpOutput(i) PROVE Keeps'
    BY <2>27 DEF memory, endVars, procVars, PumpOutput
  <2>28. ASSUME NEW r \in Runs, KillTracked(r) PROVE Keeps'
    BY <2>28 DEF memory, endVars, procVars, KillTracked, SetReason, KillContainer, Signalled, RemoveRunDir
  <2>29. ASSUME NEW e \in Ends, StopGet(e) PROVE Keeps'
    BY <2>29 DEF memory, endVars, procVars, StopGet, EndReturns
  <2>30. ASSUME NEW e \in Ends, StopReason(e) PROVE Keeps'
    BY <2>30 DEF memory, endVars, procVars, StopReason, SetReason
  <2>31. ASSUME NEW e \in Ends, StopSignal(e) PROVE Keeps'
    BY <2>31 DEF memory, endVars, procVars, StopSignal, EndReturns, KillContainer, Signalled
  <2>32. ASSUME NEW e \in Ends, NEW s \in Sessions, EndGet(e, s) PROVE Keeps'
    BY <2>32 DEF memory, endVars, procVars, EndGet
  <2>33. CASE StartDraining
    BY <2>33 DEF memory, endVars, procVars, StartDraining
  <2>34. CASE HttpDown
    BY <2>34 DEF memory, endVars, procVars, HttpDown, Tracked
  <2>35. CASE ProcessExit
    BY <2>35 DEF memory, endVars, procVars, ProcessExit, LoseMemory, ResetTracker
  <2>36. CASE Crash
    BY <2>36 DEF memory, endVars, procVars, Crash, LoseMemory, ResetTracker
  <2>37. CASE Boot
    BY <2>37 DEF memory, endVars, procVars, Boot
  <2>38. CASE UNCHANGED vars
    BY <2>38 DEF memory, endVars, procVars, vars
  <2>. QED
    BY <2>1, <2>2, <2>3, <2>4, <2>5, <2>6, <2>7, <2>8, <2>9, <2>10, <2>11, <2>12, <2>13, <2>14, <2>15, <2>16, <2>17, <2>18, <2>19, <2>20, <2>21, <2>22, <2>23, <2>24, <2>25, <2>26, <2>27, <2>28, <2>29, <2>30, <2>31, <2>32, <2>33, <2>34, <2>35, <2>36, <2>37, <2>38
    DEF Next, RunStep, StartStep, SupervisorStep, EndStep
<1>. QED
  BY <1>1, <1>2, TypeCorrect, AloneCorrect, PTL DEF Spec

(***************************************************************************)
(* With one lifecycle request per session in flight, nobody takes a live   *)
(* session's secrets, token or run directory away.                         *)
(***************************************************************************)
THEOREM LiveSessionIntactCorrect ==
  ASSUME Serial
  PROVE  Spec => []LiveSessionIntact
<1>1. Keeps => LiveSessionIntact
  BY DEF Keeps, LiveSessionIntact, Intact, ForgetsLater, CleansLater
<1>. QED
  BY <1>1, KeepsCorrect, PTL

(***************************************************************************)
(* Output waits in a run's stream only until its pump has been drained.    *)
(***************************************************************************)
Backlogged == \A i \in Runs : backlog[i] => pc[i] \in {"wait", "remove", "drain"}

(***************************************************************************)
(* With one lifecycle request per session in flight, a daemon that removes *)
(* what it is told to, and a pump that ends within the drain bound, every  *)
(* line is bridged masked.                                                 *)
(***************************************************************************)
THEOREM BridgedMaskedCorrect ==
  ASSUME Serial, "remove" \notin Faults, "drainBound" \notin Faults
  PROVE  Spec => BridgedMasked
<1>. USE RunsAssumption DEF TypeOK, TrackerTypeOK, Backlogged
<1>1. Init => Backlogged
  BY DEF Init
<1>2. TypeOK /\ RunningPlace /\ Keeps /\ Backlogged /\ [Next]_vars => Backlogged'
  <2>. SUFFICES ASSUME TypeOK, RunningPlace, Keeps, Backlogged, [Next]_vars
                PROVE  Backlogged'
    OBVIOUS
  <2>1. ASSUME NEW i \in Runs, CapacityCheck(i) PROVE Backlogged'
    BY <2>1 DEF memory, endVars, procVars, CapacityCheck, Go
  <2>2. ASSUME NEW i \in Runs, ConflictCheck(i) PROVE Backlogged'
    BY <2>2 DEF memory, endVars, procVars, ConflictCheck, Go
  <2>3. ASSUME NEW i \in Runs, MakeRunDir(i) PROVE Backlogged'
    BY <2>3 DEF memory, endVars, procVars, MakeRunDir, Go
  <2>4. ASSUME NEW i \in Runs, WriteResume(i) PROVE Backlogged'
    BY <2>4 DEF memory, endVars, procVars, WriteResume, Go
  <2>5. ASSUME NEW i \in Runs, RegisterToken(i) PROVE Backlogged'
    BY <2>5 DEF memory, endVars, procVars, RegisterToken, Go
  <2>6. ASSUME NEW i \in Runs, ArmSecrets(i) PROVE Backlogged'
    BY <2>6 DEF memory, endVars, procVars, ArmSecrets, Go
  <2>7. ASSUME NEW i \in Runs, CreateContainer(i) PROVE Backlogged'
    BY <2>7 DEF memory, endVars, procVars, CreateContainer, Go
  <2>8. ASSUME NEW i \in Runs, AttachContainer(i) PROVE Backlogged'
    BY <2>8 DEF memory, endVars, procVars, AttachContainer, Go
  <2>9. ASSUME NEW i \in Runs, Admit(i) PROVE Backlogged'
    BY <2>9 DEF memory, endVars, procVars, Admit, Admits, AddIfUnderLimit, Go
  <2>10. ASSUME NEW i \in Runs, StartContainer(i) PROVE Backlogged'
    BY <2>10 DEF memory, endVars, procVars, StartContainer, Go
  <2>11. ASSUME NEW i \in Runs, UntrackFailedStart(i) PROVE Backlogged'
    BY <2>11 DEF memory, endVars, procVars, UntrackFailedStart, Remove, Go
  <2>12. ASSUME NEW i \in Runs, DiscardContainer(i) PROVE Backlogged'
    BY <2>12 DEF memory, endVars, procVars, DiscardContainer, RemoveContainer, Go
  <2>13. ASSUME NEW i \in Runs, ForgetSecrets(i) PROVE Backlogged'
    BY <2>13 DEF memory, endVars, procVars, ForgetSecrets, RemoveSessionKey, Go
  <2>14. ASSUME NEW i \in Runs, RevokeToken(i) PROVE Backlogged'
    BY <2>14 DEF memory, endVars, procVars, RevokeToken, Revoke, Go
  <2>15. ASSUME NEW i \in Runs, CleanupRunDir(i) PROVE Backlogged'
    BY <2>15 DEF memory, endVars, procVars, CleanupRunDir, RemoveRunDir, Go
  <2>16. ASSUME NEW i \in Runs, WaitReturns(i) PROVE Backlogged'
    BY <2>16 DEF memory, endVars, procVars, WaitReturns, Go
  <2>17. ASSUME NEW i \in Runs, ForceRemove(i) PROVE Backlogged'
    BY <2>17 DEF memory, endVars, procVars, ForceRemove, RemoveContainer, Go
  <2>18. ASSUME NEW i \in Runs, Drain(i) PROVE Backlogged'
    BY <2>18 DEF memory, endVars, procVars, PumpDone, Drain, Go
  <2>19. ASSUME NEW i \in Runs, Teardown(i) PROVE Backlogged'
    BY <2>19 DEF memory, endVars, procVars, Teardown, RemoveRunDir, Go
  <2>20. ASSUME NEW i \in Runs, ForgetExit(i) PROVE Backlogged'
    BY <2>20 DEF memory, endVars, procVars, ForgetExit, RemoveSessionKey, Go
  <2>21. ASSUME NEW i \in Runs, RevokeExit(i) PROVE Backlogged'
    BY <2>21 DEF memory, endVars, procVars, RevokeExit, Revoke, Go
  <2>22. ASSUME NEW i \in Runs, Release(i) PROVE Backlogged'
    BY <2>22 DEF memory, endVars, procVars, Release, Remove, Go
  <2>23. ASSUME NEW i \in Runs, CloseAttach(i) PROVE Backlogged'
    BY <2>23 DEF memory, endVars, procVars, CloseAttach, Go
  <2>24. ASSUME NEW i \in Runs, WaitFails(i) PROVE Backlogged'
    BY <2>24 DEF memory, endVars, procVars, WaitFails, KillContainer, Signalled, Go
  <2>25. ASSUME NEW i \in Runs, ContainerExits(i) PROVE Backlogged'
    BY <2>25 DEF memory, endVars, procVars, ContainerExits
  <2>26. ASSUME NEW i \in Runs, ContainerWrites(i) PROVE Backlogged'
    BY <2>26 DEF memory, endVars, procVars, RunningPlace, Keeps, SupervisorPoints, ContainerWrites
  <2>27. ASSUME NEW i \in Runs, PumpOutput(i) PROVE Backlogged'
    BY <2>27 DEF memory, endVars, procVars, PumpOutput
  <2>28. ASSUME NEW r \in Runs, KillTracked(r) PROVE Backlogged'
    BY <2>28 DEF memory, endVars, procVars, KillTracked, SetReason, KillContainer, Signalled, RemoveRunDir
  <2>29. ASSUME NEW e \in Ends, StopGet(e) PROVE Backlogged'
    BY <2>29 DEF memory, endVars, procVars, StopGet, EndReturns
  <2>30. ASSUME NEW e \in Ends, StopReason(e) PROVE Backlogged'
    BY <2>30 DEF memory, endVars, procVars, StopReason, SetReason
  <2>31. ASSUME NEW e \in Ends, StopSignal(e) PROVE Backlogged'
    BY <2>31 DEF memory, endVars, procVars, StopSignal, EndReturns, KillContainer, Signalled
  <2>32. ASSUME NEW e \in Ends, NEW s \in Sessions, EndGet(e, s) PROVE Backlogged'
    BY <2>32 DEF memory, endVars, procVars, EndGet
  <2>33. CASE StartDraining
    BY <2>33 DEF memory, endVars, procVars, StartDraining
  <2>34. CASE HttpDown
    BY <2>34 DEF memory, endVars, procVars, HttpDown, Tracked
  <2>35. CASE ProcessExit
    BY <2>35 DEF memory, endVars, procVars, ProcessExit, LoseMemory, ResetTracker
  <2>36. CASE Crash
    BY <2>36 DEF memory, endVars, procVars, Crash, LoseMemory, ResetTracker
  <2>37. CASE Boot
    BY <2>37 DEF memory, endVars, procVars, Boot
  <2>38. CASE UNCHANGED vars
    BY <2>38 DEF memory, endVars, procVars, vars
  <2>. QED
    BY <2>1, <2>2, <2>3, <2>4, <2>5, <2>6, <2>7, <2>8, <2>9, <2>10, <2>11, <2>12, <2>13, <2>14, <2>15, <2>16, <2>17, <2>18, <2>19, <2>20, <2>21, <2>22, <2>23, <2>24, <2>25, <2>26, <2>27, <2>28, <2>29, <2>30, <2>31, <2>32, <2>33, <2>34, <2>35, <2>36, <2>37, <2>38
    DEF Next, RunStep, StartStep, SupervisorStep, EndStep
<1>3. TypeOK /\ Keeps /\ Backlogged
        => \A i \in Runs : backlog[i] => i \in secrets[SessionOf[i]]
  BY DEF Keeps, ForgetsLater
<1>4. TypeOK /\ Keeps /\ Backlogged /\ [Next]_vars
        => [\A i \in Runs : backlog[i] /\ ~backlog'[i] /\ pc'[i] = pc[i]
              => i \in secrets[SessionOf[i]]]_vars
  BY <1>3
<1>. QED
  BY <1>1, <1>2, <1>4, TypeCorrect, RunningPlaceCorrect, KeepsCorrect, PTL
  DEF Spec, BridgedMasked

-----------------------------------------------------------------------------
(* The runs, as the message handlers meet them.                            *)

(***************************************************************************)
(* What the daemon has of a run at each point of its way: a container that *)
(* has not been started until it is admitted, some container while its     *)
(* start fails, none once it has been removed.  Nothing runs when the      *)
(* process is down, and no two containers have the same name.              *)
(***************************************************************************)
LifePlaces ==
  /\ \A i \in Runs : pc[i] \in {"created", "attached", "admitted"} => container[i] = "created"
  /\ \A i \in Runs : pc[i] \in {"untrack", "undo"} => container[i] # "none"
  /\ \A i \in Runs :
       pc[i] \in {"drain", "teardown", "forgetExit", "revokeExit", "release", "close"} =>
         container[i] = "none"
  /\ \A i \in Runs : phase = "down" => pc[i] = "idle"
  /\ \A i, j \in Runs :
       i # j /\ container[i] # "none" /\ container[j] # "none" =>
         NameOf[SessionOf[i]] # NameOf[SessionOf[j]]

(***************************************************************************)
(* If the daemon's removals succeed, LifePlaces holds in every behaviour.  *)
(***************************************************************************)
LEMMA LifePlacesCorrect ==
  ASSUME "remove" \notin Faults
  PROVE  Spec => []LifePlaces
<1>. USE RunsAssumption DEF TypeOK, TrackerTypeOK, LifePlaces
<1>1. Init => LifePlaces
  BY DEF Init
<1>2. TypeOK /\ LifePlaces /\ [Next]_vars => LifePlaces'
  <2>. SUFFICES ASSUME TypeOK, LifePlaces, [Next]_vars PROVE LifePlaces'
    OBVIOUS
  <2>1. ASSUME NEW i \in Runs, CapacityCheck(i) PROVE LifePlaces'
    BY <2>1 DEF memory, endVars, procVars, CapacityCheck, Go
  <2>2. ASSUME NEW i \in Runs, ConflictCheck(i) PROVE LifePlaces'
    BY <2>2 DEF memory, endVars, procVars, ConflictCheck, Go
  <2>3. ASSUME NEW i \in Runs, MakeRunDir(i) PROVE LifePlaces'
    BY <2>3 DEF memory, endVars, procVars, MakeRunDir, Go
  <2>4. ASSUME NEW i \in Runs, WriteResume(i) PROVE LifePlaces'
    BY <2>4 DEF memory, endVars, procVars, WriteResume, Go
  <2>5. ASSUME NEW i \in Runs, RegisterToken(i) PROVE LifePlaces'
    BY <2>5 DEF memory, endVars, procVars, RegisterToken, Go
  <2>6. ASSUME NEW i \in Runs, ArmSecrets(i) PROVE LifePlaces'
    BY <2>6 DEF memory, endVars, procVars, ArmSecrets, Go
  <2>7. ASSUME NEW i \in Runs, CreateContainer(i) PROVE LifePlaces'
    <3>1. pc[i] = "armed" /\ pc'[i] \in {"created", "forget"} /\ phase' = phase
          /\ \A j \in Runs : j # i => pc'[j] = pc[j] /\ container'[j] = container[j]
      BY <2>7 DEF CreateContainer, Go, procVars
    <3>2. CASE UNCHANGED container
      <4>1. pc'[i] = "forget"
        BY <2>7, <3>1, <3>2 DEF CreateContainer, Go, NameFree
      <4>. QED
        BY <3>1, <3>2, <4>1
    <3>3. CASE NameFree(i) /\ container' = [container EXCEPT ![i] = "created"]
      <4>1. container'[i] = "created"
        BY <3>3
      <4>2. \A j \in Runs : container[j] # "none" =>
              NameOf[SessionOf[j]] # NameOf[SessionOf[i]]
        BY <3>3 DEF NameFree
      <4>. QED
        BY <3>1, <4>1, <4>2
    <3>. QED
      BY <2>7, <3>2, <3>3 DEF CreateContainer
  <2>8. ASSUME NEW i \in Runs, AttachContainer(i) PROVE LifePlaces'
    BY <2>8 DEF memory, endVars, procVars, AttachContainer, Go
  <2>9. ASSUME NEW i \in Runs, Admit(i) PROVE LifePlaces'
    BY <2>9 DEF memory, endVars, procVars, Admit, Admits, AddIfUnderLimit, Go
  <2>10. ASSUME NEW i \in Runs, StartContainer(i) PROVE LifePlaces'
    BY <2>10 DEF memory, endVars, procVars, StartContainer, Go
  <2>11. ASSUME NEW i \in Runs, UntrackFailedStart(i) PROVE LifePlaces'
    BY <2>11 DEF memory, endVars, procVars, UntrackFailedStart, Remove, Go
  <2>12. ASSUME NEW i \in Runs, DiscardContainer(i) PROVE LifePlaces'
    <3>1. container' = [container EXCEPT ![i] = "none"] /\ phase' = phase
      BY <2>12 DEF DiscardContainer, RemoveContainer, procVars
    <3>2. pc[i] \in {"discard", "undo"} /\ pc' = [pc EXCEPT ![i] = "forget"]
      BY <2>12 DEF DiscardContainer, Go
    <3>. QED
      BY <3>1, <3>2
  <2>13. ASSUME NEW i \in Runs, ForgetSecrets(i) PROVE LifePlaces'
    BY <2>13 DEF memory, endVars, procVars, ForgetSecrets, RemoveSessionKey, Go
  <2>14. ASSUME NEW i \in Runs, RevokeToken(i) PROVE LifePlaces'
    BY <2>14 DEF memory, endVars, procVars, RevokeToken, Revoke, Go
  <2>15. ASSUME NEW i \in Runs, CleanupRunDir(i) PROVE LifePlaces'
    BY <2>15 DEF memory, endVars, procVars, CleanupRunDir, RemoveRunDir, Go
  <2>16. ASSUME NEW i \in Runs, WaitReturns(i) PROVE LifePlaces'
    BY <2>16 DEF memory, endVars, procVars, WaitReturns, Go
  <2>17. ASSUME NEW i \in Runs, ForceRemove(i) PROVE LifePlaces'
    BY <2>17 DEF memory, endVars, procVars, ForceRemove, RemoveContainer, Go
  <2>18. ASSUME NEW i \in Runs, Drain(i) PROVE LifePlaces'
    BY <2>18 DEF memory, endVars, procVars, Drain, Go
  <2>19. ASSUME NEW i \in Runs, Teardown(i) PROVE LifePlaces'
    BY <2>19 DEF memory, endVars, procVars, Teardown, RemoveRunDir, Go
  <2>20. ASSUME NEW i \in Runs, ForgetExit(i) PROVE LifePlaces'
    BY <2>20 DEF memory, endVars, procVars, ForgetExit, RemoveSessionKey, Go
  <2>21. ASSUME NEW i \in Runs, RevokeExit(i) PROVE LifePlaces'
    BY <2>21 DEF memory, endVars, procVars, RevokeExit, Revoke, Go
  <2>22. ASSUME NEW i \in Runs, Release(i) PROVE LifePlaces'
    BY <2>22 DEF memory, endVars, procVars, Release, Remove, Go
  <2>23. ASSUME NEW i \in Runs, CloseAttach(i) PROVE LifePlaces'
    BY <2>23 DEF memory, endVars, procVars, CloseAttach, Go
  <2>24. ASSUME NEW i \in Runs, WaitFails(i) PROVE LifePlaces'
    BY <2>24 DEF memory, endVars, procVars, WaitFails, KillContainer, Signalled, Go
  <2>25. ASSUME NEW i \in Runs, ContainerExits(i) PROVE LifePlaces'
    BY <2>25 DEF memory, endVars, procVars, ContainerExits
  <2>26. ASSUME NEW i \in Runs, ContainerWrites(i) PROVE LifePlaces'
    BY <2>26 DEF memory, endVars, procVars, ContainerWrites
  <2>27. ASSUME NEW i \in Runs, PumpOutput(i) PROVE LifePlaces'
    BY <2>27 DEF memory, endVars, procVars, PumpOutput
  <2>28. ASSUME NEW r \in Runs, KillTracked(r) PROVE LifePlaces'
    BY <2>28 DEF memory, endVars, procVars, KillTracked, SetReason, KillContainer, Signalled, RemoveRunDir
  <2>29. ASSUME NEW e \in Ends, StopGet(e) PROVE LifePlaces'
    BY <2>29 DEF memory, endVars, procVars, StopGet, EndReturns
  <2>30. ASSUME NEW e \in Ends, StopReason(e) PROVE LifePlaces'
    BY <2>30 DEF memory, endVars, procVars, StopReason, SetReason
  <2>31. ASSUME NEW e \in Ends, StopSignal(e) PROVE LifePlaces'
    BY <2>31 DEF memory, endVars, procVars, StopSignal, EndReturns, KillContainer, Signalled
  <2>32. ASSUME NEW e \in Ends, NEW s \in Sessions, EndGet(e, s) PROVE LifePlaces'
    BY <2>32 DEF memory, endVars, procVars, EndGet
  <2>33. CASE StartDraining
    BY <2>33 DEF memory, endVars, procVars, StartDraining
  <2>34. CASE HttpDown
    BY <2>34 DEF memory, endVars, procVars, HttpDown, Tracked
  <2>35. CASE ProcessExit
    BY <2>35 DEF memory, endVars, procVars, ProcessExit, LoseMemory, ResetTracker
  <2>36. CASE Crash
    BY <2>36 DEF memory, endVars, procVars, Crash, LoseMemory, ResetTracker
  <2>37. CASE Boot
    BY <2>37 DEF memory, endVars, procVars, Boot
  <2>38. CASE UNCHANGED vars
    BY <2>38 DEF memory, endVars, procVars, vars
  <2>. QED
    BY <2>1, <2>2, <2>3, <2>4, <2>5, <2>6, <2>7, <2>8, <2>9, <2>10, <2>11, <2>12, <2>13, <2>14, <2>15, <2>16, <2>17, <2>18, <2>19, <2>20, <2>21, <2>22, <2>23, <2>24, <2>25, <2>26, <2>27, <2>28, <2>29, <2>30, <2>31, <2>32, <2>33, <2>34, <2>35, <2>36, <2>37, <2>38
    DEF Next, RunStep, StartStep, SupervisorStep, EndStep
<1>. QED
  BY <1>1, <1>2, TypeCorrect, PTL DEF Spec

(***************************************************************************)
(* As long as the daemon's removals succeed, Lifecycle implements          *)
(* SessionRuns, the contract it shares with MessageDelivery. With a        *)
(* removal that fails, a container could outlive the release of its        *)
(* session, and its writers their mutex.                                   *)
(***************************************************************************)
THEOREM RunsRefinement ==
  ASSUME "remove" \notin Faults
  PROVE  Spec => ImplementsRuns
<1>. USE RunsAssumption DEF TypeOK, TrackerTypeOK
<1>. DEFINE life == [r \in Runs |-> LifeOf(r)]
            living == {r \in Runs : container[r] \in {"created", "running"} /\ LifeOf(r) # "off"}
<1>1. Init => Lives!Init
  BY DEF Init, NewTracker, Lives!Init, LifeOf
<1>2. TypeOK /\ LifePlaces /\ [Next]_vars => [Lives!Next]_(Lives!runsVars)
  <2>. SUFFICES ASSUME TypeOK, LifePlaces, [Next]_vars
                PROVE  [Lives!Next]_(Lives!runsVars)
    OBVIOUS
  <2>. DEFINE Same == byKey' = byKey /\ life' = life /\ living' = living
  <2>. USE DEF LifeOf, Lives!Advance, Lives!Track
  <2>1. ASSUME NEW i \in Runs, CapacityCheck(i) PROVE Same
    BY <2>1 DEF memory, endVars, procVars, CapacityCheck, Go
  <2>2. ASSUME NEW i \in Runs, ConflictCheck(i) PROVE Same
    BY <2>2 DEF memory, endVars, procVars, ConflictCheck, Go
  <2>3. ASSUME NEW i \in Runs, MakeRunDir(i) PROVE Same
    BY <2>3 DEF memory, endVars, procVars, MakeRunDir, Go
  <2>4. ASSUME NEW i \in Runs, WriteResume(i) PROVE Same
    BY <2>4 DEF memory, endVars, procVars, WriteResume, Go
  <2>5. ASSUME NEW i \in Runs, RegisterToken(i) PROVE Same
    BY <2>5 DEF memory, endVars, procVars, RegisterToken, Go
  <2>6. ASSUME NEW i \in Runs, ArmSecrets(i) PROVE Same
    BY <2>6 DEF memory, endVars, procVars, ArmSecrets, Go
  <2>7. ASSUME NEW i \in Runs, CreateContainer(i) PROVE Same
    BY <2>7 DEF memory, endVars, procVars, CreateContainer, Go
  <2>8. ASSUME NEW i \in Runs, AttachContainer(i) PROVE Same
    BY <2>8 DEF memory, endVars, procVars, AttachContainer, Go
  <2>9. ASSUME NEW i \in Runs, Admit(i) PROVE Same \/ Lives!Admit(i)
    <3>1. CASE Admits(SessionOf[i])
      <4>1. /\ pc[i] = "attached" /\ pc' = [pc EXCEPT ![i] = "admitted"]
            /\ byKey' = [byKey EXCEPT ![SessionOf[i]] = i] /\ container' = container
            /\ byKey[SessionOf[i]] = NoRun /\ container[i] = "created"
        BY <2>9, <3>1 DEF Admit, Admits, AddIfUnderLimit, Go, LifePlaces
      <4>2. life[i] = "off" /\ life' = [life EXCEPT ![i] = "starting"]
        BY <4>1
      <4>3. living' = living \cup {i}
        BY <4>1
      <4>4. ASSUME NEW q \in Runs, SessionOf[q] = SessionOf[i], life[q] = "failed" PROVE FALSE
        <5>1. pc[q] = "undo" /\ q # i
          BY <4>1, <4>4
        <5>. QED
          BY <5>1, <4>1, <4>4 DEF LifePlaces
      <4>. HIDE DEF LifeOf
      <4>. QED
        BY <4>1, <4>2, <4>3, <4>4 DEF Lives!Admit
    <3>2. CASE ~Admits(SessionOf[i])
      <4>1. /\ pc[i] = "attached" /\ pc' = [pc EXCEPT ![i] = "discard"]
            /\ byKey' = byKey /\ container' = container
        BY <2>9, <3>2 DEF Admit, Go
      <4>. QED
        BY <4>1
    <3>. QED
      BY <3>1, <3>2
  <2>10. ASSUME NEW i \in Runs, StartContainer(i) PROVE Same \/ Lives!Started(i)
    <3>1. pc[i] = "admitted" /\ container[i] = "created" /\ byKey' = byKey
      BY <2>10 DEF StartContainer, Go, LifePlaces
    <3>2. container' = container \/ container' = [container EXCEPT ![i] = "running"]
      BY <2>10 DEF StartContainer
    <3>3. CASE pc' = [pc EXCEPT ![i] = "untrack"]
      <4>1. life' = life
        BY <3>1, <3>3
      <4>2. living' = living
        BY <3>1, <3>2, <3>3
      <4>. QED
        BY <3>1, <4>1, <4>2
    <3>4. CASE pc' = [pc EXCEPT ![i] = "wait"]
      <4>1. life[i] = "starting" /\ life' = [life EXCEPT ![i] = "up"]
        BY <3>1, <3>4
      <4>2. living' = living
        BY <3>1, <3>2, <3>4
      <4>. HIDE DEF LifeOf
      <4>. QED
        BY <3>1, <4>1, <4>2 DEF Lives!Started
    <3>. QED
      BY <2>10, <3>3, <3>4 DEF StartContainer, Go
  <2>11. ASSUME NEW i \in Runs, UntrackFailedStart(i) PROVE Lives!StartFails(i)
    <3>1. /\ pc[i] = "untrack" /\ pc' = [pc EXCEPT ![i] = "undo"]
          /\ byKey' = [byKey EXCEPT ![SessionOf[i]] = NoRun] /\ container' = container
      BY <2>11 DEF UntrackFailedStart, Remove, Go
    <3>2. life[i] = "starting" /\ life' = [life EXCEPT ![i] = "failed"]
      BY <3>1
    <3>3. living' = living
      BY <3>1
    <3>. HIDE DEF LifeOf
    <3>. QED
      BY <3>1, <3>2, <3>3 DEF Lives!StartFails
  <2>12. ASSUME NEW i \in Runs, DiscardContainer(i) PROVE Same \/ Lives!Undone(i)
    <3>1. /\ pc' = [pc EXCEPT ![i] = "forget"] /\ byKey' = byKey
          /\ container' = [container EXCEPT ![i] = "none"]
      BY <2>12 DEF DiscardContainer, RemoveContainer, Go
    <3>2. living' = living \ {i}
      BY <3>1
    <3>3. CASE pc[i] = "undo"
      <4>1. life[i] = "failed" /\ life' = [life EXCEPT ![i] = "off"]
        BY <3>1, <3>3
      <4>. HIDE DEF LifeOf
      <4>. QED
        BY <3>1, <3>2, <4>1 DEF Lives!Undone
    <3>4. CASE pc[i] = "discard"
      BY <3>1, <3>4
    <3>. QED
      BY <2>12, <3>3, <3>4 DEF DiscardContainer, Go
  <2>13. ASSUME NEW i \in Runs, ForgetSecrets(i) PROVE Same
    BY <2>13 DEF memory, endVars, procVars, ForgetSecrets, RemoveSessionKey, Go
  <2>14. ASSUME NEW i \in Runs, RevokeToken(i) PROVE Same
    BY <2>14 DEF memory, endVars, procVars, RevokeToken, Revoke, Go
  <2>15. ASSUME NEW i \in Runs, CleanupRunDir(i) PROVE Same
    BY <2>15 DEF memory, endVars, procVars, CleanupRunDir, RemoveRunDir, Go
  <2>16. ASSUME NEW i \in Runs, WaitReturns(i) PROVE Same
    BY <2>16 DEF memory, endVars, procVars, WaitReturns, Go
  <2>17. ASSUME NEW i \in Runs, ForceRemove(i) PROVE Same \/ Lives!ContainerEnds(i)
    BY <2>17 DEF memory, endVars, procVars, ForceRemove, RemoveContainer, Go, Lives!ContainerEnds
  <2>18. ASSUME NEW i \in Runs, Drain(i) PROVE Same
    BY <2>18 DEF memory, endVars, procVars, Drain, Go
  <2>19. ASSUME NEW i \in Runs, Teardown(i) PROVE Same
    BY <2>19 DEF memory, endVars, procVars, Teardown, RemoveRunDir, Go
  <2>20. ASSUME NEW i \in Runs, ForgetExit(i) PROVE Lives!Drop(i)
    BY <2>20 DEF memory, endVars, procVars, ForgetExit, RemoveSessionKey, Go, Lives!Drop, LifePlaces
  <2>21. ASSUME NEW i \in Runs, RevokeExit(i) PROVE Same
    BY <2>21 DEF memory, endVars, procVars, RevokeExit, Revoke, Go
  <2>22. ASSUME NEW i \in Runs, Release(i) PROVE Lives!Release(i)
    <3>1. /\ pc[i] = "release" /\ pc' = [pc EXCEPT ![i] = "close"]
          /\ byKey' = [byKey EXCEPT ![SessionOf[i]] = NoRun] /\ container' = container
      BY <2>22 DEF Release, Remove, Go
    <3>2. life[i] = "dropped" /\ life' = [life EXCEPT ![i] = "released"]
      BY <3>1
    <3>3. living' = living
      BY <3>1
    <3>. HIDE DEF LifeOf
    <3>. QED
      BY <3>1, <3>2, <3>3 DEF Lives!Release
  <2>23. ASSUME NEW i \in Runs, CloseAttach(i) PROVE Lives!Close(i)
    BY <2>23 DEF memory, endVars, procVars, CloseAttach, Go, Lives!Close, LifePlaces
  <2>24. ASSUME NEW i \in Runs, WaitFails(i) PROVE Same \/ Lives!ContainerEnds(i)
    BY <2>24 DEF memory, endVars, procVars, WaitFails, KillContainer, Signalled, Go, Lives!ContainerEnds
  <2>25. ASSUME NEW i \in Runs, ContainerExits(i) PROVE Same \/ Lives!ContainerEnds(i)
    BY <2>25 DEF memory, endVars, procVars, ContainerExits, Lives!ContainerEnds
  <2>26. ASSUME NEW i \in Runs, ContainerWrites(i) PROVE Same
    BY <2>26 DEF memory, endVars, procVars, ContainerWrites
  <2>27. ASSUME NEW i \in Runs, PumpOutput(i) PROVE Same
    BY <2>27 DEF memory, endVars, procVars, PumpOutput
  <2>28. ASSUME NEW r \in Runs, KillTracked(r) PROVE Same \/ \E i \in Runs : Lives!ContainerEnds(i)
    BY <2>28 DEF memory, endVars, procVars, KillTracked, SetReason, KillContainer, Signalled, RemoveRunDir, Lives!ContainerEnds
  <2>29. ASSUME NEW e \in Ends, StopGet(e) PROVE Same
    BY <2>29 DEF memory, endVars, procVars, StopGet, EndReturns
  <2>30. ASSUME NEW e \in Ends, StopReason(e) PROVE Same
    BY <2>30 DEF memory, endVars, procVars, StopReason, SetReason
  <2>31. ASSUME NEW e \in Ends, StopSignal(e) PROVE Same \/ \E i \in Runs : Lives!ContainerEnds(i)
    BY <2>31 DEF memory, endVars, procVars, StopSignal, EndReturns, KillContainer, Signalled, Lives!ContainerEnds
  <2>32. ASSUME NEW e \in Ends, NEW s \in Sessions, EndGet(e, s) PROVE Same
    BY <2>32 DEF memory, endVars, procVars, EndGet
  <2>33. ASSUME StartDraining PROVE Same
    BY <2>33 DEF memory, endVars, procVars, StartDraining
  <2>34. ASSUME HttpDown PROVE Same
    BY <2>34 DEF memory, endVars, procVars, HttpDown, Tracked
  <2>35. ASSUME ProcessExit PROVE Lives!LoseAll
    BY <2>35 DEF memory, endVars, procVars, ProcessExit, LoseMemory, ResetTracker, Lives!LoseAll
  <2>36. ASSUME Crash PROVE Lives!LoseAll
    BY <2>36 DEF memory, endVars, procVars, Crash, LoseMemory, ResetTracker, Lives!LoseAll
  <2>37. ASSUME Boot PROVE Same
    BY <2>37 DEF memory, endVars, procVars, Boot, LifePlaces
  <2>38. ASSUME UNCHANGED vars PROVE Same
    BY <2>38 DEF vars, memory, endVars, procVars
  <2>39. Same => UNCHANGED Lives!runsVars
    BY DEF Lives!runsVars
  <2>40. ASSUME NEW r \in Runs,
                Lives!Admit(r) \/ Lives!Started(r) \/ Lives!StartFails(r) \/ Lives!Undone(r)
                  \/ Lives!ContainerEnds(r) \/ Lives!Drop(r) \/ Lives!Release(r) \/ Lives!Close(r)
         PROVE  Lives!Next
    BY <2>40 DEF Lives!Next
  <2>41. Lives!LoseAll => Lives!Next
    BY DEF Lives!Next
  <2>. HIDE DEF Same, LifeOf, Lives!Advance, Lives!Track
  <2>. QED
    BY <2>1, <2>2, <2>3, <2>4, <2>5, <2>6, <2>7, <2>8, <2>9, <2>10, <2>11, <2>12, <2>13, <2>14, <2>15, <2>16, <2>17, <2>18, <2>19, <2>20, <2>21, <2>22, <2>23, <2>24, <2>25, <2>26, <2>27, <2>28, <2>29, <2>30, <2>31, <2>32, <2>33, <2>34, <2>35, <2>36, <2>37, <2>38, <2>39, <2>40, <2>41
    DEF Next, RunStep, StartStep, SupervisorStep, EndStep
<1>. QED
  BY <1>1, <1>2, TypeCorrect, LifePlacesCorrect, PTL DEF Spec, ImplementsRuns, Lives!Spec

=============================================================================
