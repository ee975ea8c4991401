---------------------------- MODULE BridgeProofs ----------------------------
(***************************************************************************)
(* Proofs about McpBridge, for any number of callers and of sessions.      *)
(***************************************************************************)
EXTENDS McpBridge, TLAPS

\* The session is the last one dialled, and where a call is with it: on the way
\* to the lock its first session is poisoned, and past the lock it has a later one.
CallInv ==
  /\ session = dialled
  /\ \A c \in Callers :
       /\ sess[c] <= dialled
       /\ pc[c] \in {"calling", "locking", "dialling"} => sess[c] = first[c]
       /\ pc[c] \in {"locking", "dialling"} => Poisoned(sess[c])
       /\ pc[c] = "dialling" => sess[c] = session
       /\ pc[c] = "retrying" => first[c] < session
       /\ pc[c] = "recalling" => first[c] < sess[c]
       /\ pc[c] # "idle" => outcome[c] = "none" /\ ~shut

\* Until Close only lost sessions are closed, and never the current one.
CloseInv == ~shut => closed \subseteq lost /\ session \notin closed

Inv == TypeOK /\ CallInv /\ CloseInv /\ NoSessionLeft /\ SurvivesOneLoss

(***************************************************************************)
(* The invariant: a call knows which sessions it has lost, and a session   *)
(* is closed only by who replaces it, or by Close.                         *)
(***************************************************************************)
THEOREM InvCorrect == Spec => []Inv
<1>1. Init => Inv
  <2>. SUFFICES ASSUME Init PROVE Inv
    OBVIOUS
  <2>1. TypeOK
    <3>1. 1 \in Sessions /\ Opened = {1} /\ "none" \in Outcomes
      BY BridgeAssumption DEF Init, Sessions, Opened, Outcomes
    <3>. QED
      BY <3>1, BridgeAssumption DEF Init, TypeOK
  <2>2. CallInv /\ CloseInv
    BY DEF Init, CallInv, CloseInv
  <2>3. NoSessionLeft /\ SurvivesOneLoss
    BY DEF Init, NoSessionLeft, SurvivesOneLoss, Opened
  <2>. QED
    BY <2>1, <2>2, <2>3 DEF Inv
<1>2. Inv /\ [Next]_vars => Inv'
  <2>. SUFFICES ASSUME Inv, [Next]_vars PROVE Inv'
    OBVIOUS
  <2>. USE BridgeAssumption DEF Inv, TypeOK, Sessions, Opened, Outcomes
  <2>1. ASSUME NEW c \in Callers, BeginCall(c) PROVE Inv'
    <3>1. TypeOK'
      BY <2>1 DEF BeginCall, CallInv
    <3>2. CallInv'
      BY <2>1 DEF BeginCall, CallInv, Poisoned
    <3>3. CloseInv'
      BY <2>1 DEF BeginCall, CallInv, CloseInv, Poisoned
    <3>4. NoSessionLeft'
      BY <2>1 DEF BeginCall, CallInv, NoSessionLeft
    <3>5. SurvivesOneLoss'
      BY <2>1 DEF BeginCall, CallInv, CloseInv, SurvivesOneLoss, Poisoned
    <3>. QED
      BY <3>1, <3>2, <3>3, <3>4, <3>5 DEF Inv
  <2>2. ASSUME NEW c \in Callers, FirstAnswered(c) PROVE Inv'
    <3>1. TypeOK'
      BY <2>2 DEF FirstAnswered, Endings, Return, CallInv
    <3>2. CallInv'
      BY <2>2 DEF FirstAnswered, Endings, Return, CallInv, Poisoned
    <3>3. CloseInv'
      BY <2>2 DEF FirstAnswered, Endings, Return, CallInv, CloseInv, Poisoned
    <3>4. NoSessionLeft'
      BY <2>2 DEF FirstAnswered, Endings, Return, CallInv, NoSessionLeft
    <3>5. SurvivesOneLoss'
      BY <2>2 DEF FirstAnswered, Endings, Return, CallInv, CloseInv, SurvivesOneLoss, Poisoned
    <3>. QED
      BY <3>1, <3>2, <3>3, <3>4, <3>5 DEF Inv
  <2>3. ASSUME NEW c \in Callers, FirstPoisoned(c) PROVE Inv'
    <3>1. TypeOK'
      BY <2>3 DEF FirstPoisoned, Endings, CallInv
    <3>2. CallInv'
      BY <2>3 DEF FirstPoisoned, Endings, CallInv, Poisoned
    <3>3. CloseInv'
      BY <2>3 DEF FirstPoisoned, Endings, CallInv, CloseInv, Poisoned
    <3>4. NoSessionLeft'
      BY <2>3 DEF FirstPoisoned, Endings, CallInv, NoSessionLeft
    <3>5. SurvivesOneLoss'
      BY <2>3 DEF FirstPoisoned, Endings, CallInv, CloseInv, SurvivesOneLoss, Poisoned
    <3>. QED
      BY <3>1, <3>2, <3>3, <3>4, <3>5 DEF Inv
  <2>4. ASSUME NEW c \in Callers, Lock(c) PROVE Inv'
    <3>1. TypeOK'
      BY <2>4 DEF Lock, MustRedial, CallInv
    <3>2. CallInv'
      BY <2>4 DEF Lock, MustRedial, CallInv, Poisoned
    <3>3. CloseInv'
      BY <2>4 DEF Lock, MustRedial, CallInv, CloseInv, Poisoned
    <3>4. NoSessionLeft'
      BY <2>4 DEF Lock, MustRedial, CallInv, NoSessionLeft
    <3>5. SurvivesOneLoss'
      BY <2>4 DEF Lock, MustRedial, CallInv, CloseInv, SurvivesOneLoss, Poisoned
    <3>. QED
      BY <3>1, <3>2, <3>3, <3>4, <3>5 DEF Inv
  <2>5. ASSUME NEW c \in Callers, DialSucceeds(c) PROVE Inv'
    <3>0. /\ sess[c] = session /\ session = dialled /\ ~shut /\ dialled \in Nat /\ dialled >= 1
          /\ sess[c] \in lost \cup closed
      BY <2>5 DEF DialSucceeds, CallInv, Poisoned
    <3>a. closed' = closed \cup {dialled} /\ dialled' = dialled + 1 /\ session' = dialled + 1
      BY <2>5, <3>0 DEF DialSucceeds, CloseOld
    <3>b. closed' \subseteq 1 .. dialled' /\ dialled' \in 1 .. MaxSessions
      BY <2>5, <3>0, <3>a DEF DialSucceeds
    <3>c. pc' \in [Callers -> {"idle", "calling", "locking", "dialling", "retrying", "recalling"}]
      BY <2>5 DEF DialSucceeds
    <3>d. \A d \in Callers : mu' = d <=> pc'[d] \in {"dialling", "retrying"}
      BY <2>5 DEF DialSucceeds
    <3>e. session' \in 1 .. dialled' /\ lost' \subseteq 1 .. dialled'
      BY <2>5, <3>0, <3>a DEF DialSucceeds
    <3>1. TypeOK'
      BY <2>5, <3>b, <3>c, <3>d, <3>e DEF DialSucceeds
    <3>2. CallInv'
      BY <2>5 DEF DialSucceeds, CloseOld, CallInv, Poisoned
    <3>3. CloseInv'
      <4>1. closed \subseteq lost /\ session \notin closed
        BY <3>0 DEF CloseInv
      <4>2. closed' \subseteq lost
        BY <3>0, <3>a, <4>1
      <4>3. session' \notin closed'
        BY <3>0, <3>a
      <4>. QED
        BY <2>5, <4>2, <4>3 DEF DialSucceeds, CloseInv
    <3>4. NoSessionLeft'
      BY <2>5 DEF DialSucceeds, CloseOld, CallInv, NoSessionLeft
    <3>5. SurvivesOneLoss'
      BY <2>5 DEF DialSucceeds, CloseOld, CallInv, CloseInv, SurvivesOneLoss, Poisoned
    <3>. QED
      BY <3>1, <3>2, <3>3, <3>4, <3>5 DEF Inv
  <2>6. ASSUME NEW c \in Callers, DialFails(c) PROVE Inv'
    <3>1. TypeOK'
      BY <2>6 DEF DialFails, Return, UnlockAfterFailedDial, CallInv
    <3>2. CallInv'
      BY <2>6 DEF DialFails, Return, UnlockAfterFailedDial, CallInv, Poisoned
    <3>3. CloseInv'
      BY <2>6 DEF DialFails, Return, UnlockAfterFailedDial, CallInv, CloseInv, Poisoned
    <3>4. NoSessionLeft'
      BY <2>6 DEF DialFails, Return, UnlockAfterFailedDial, CallInv, NoSessionLeft
    <3>5. SurvivesOneLoss'
      BY <2>6 DEF DialFails, Return, UnlockAfterFailedDial, CallInv, CloseInv, SurvivesOneLoss, Poisoned
    <3>. QED
      BY <3>1, <3>2, <3>3, <3>4, <3>5 DEF Inv
  <2>7. ASSUME NEW c \in Callers, Unlock(c) PROVE Inv'
    <3>1. TypeOK'
      BY <2>7 DEF Unlock, RetrySession, CallInv
    <3>2. CallInv'
      BY <2>7 DEF Unlock, RetrySession, CallInv, Poisoned
    <3>3. CloseInv'
      BY <2>7 DEF Unlock, RetrySession, CallInv, CloseInv, Poisoned
    <3>4. NoSessionLeft'
      BY <2>7 DEF Unlock, RetrySession, CallInv, NoSessionLeft
    <3>5. SurvivesOneLoss'
      BY <2>7 DEF Unlock, RetrySession, CallInv, CloseInv, SurvivesOneLoss, Poisoned
    <3>. QED
      BY <3>1, <3>2, <3>3, <3>4, <3>5 DEF Inv
  <2>8. ASSUME NEW c \in Callers, SecondReturns(c) PROVE Inv'
    <3>1. TypeOK'
      BY <2>8 DEF SecondReturns, Endings, Return, CallInv
    <3>2. CallInv'
      BY <2>8 DEF SecondReturns, Endings, Return, CallInv, Poisoned
    <3>3. CloseInv'
      BY <2>8 DEF SecondReturns, Endings, Return, CallInv, CloseInv, Poisoned
    <3>4. NoSessionLeft'
      BY <2>8 DEF SecondReturns, Endings, Return, CallInv, NoSessionLeft
    <3>5. SurvivesOneLoss'
      BY <2>8 DEF SecondReturns, Endings, Return, CallInv, CloseInv, SurvivesOneLoss, Poisoned
    <3>. QED
      BY <3>1, <3>2, <3>3, <3>4, <3>5 DEF Inv
  <2>9. ASSUME CmRestarts PROVE Inv'
    <3>1. TypeOK'
      BY <2>9 DEF CmRestarts, callVars, CallInv
    <3>2. CallInv'
      BY <2>9 DEF CmRestarts, callVars, CallInv, Poisoned
    <3>3. CloseInv'
      BY <2>9 DEF CmRestarts, callVars, CallInv, CloseInv, Poisoned
    <3>4. NoSessionLeft'
      BY <2>9 DEF CmRestarts, callVars, CallInv, NoSessionLeft
    <3>5. SurvivesOneLoss'
      BY <2>9 DEF CmRestarts, callVars, CallInv, CloseInv, SurvivesOneLoss, Poisoned
    <3>. QED
      BY <3>1, <3>2, <3>3, <3>4, <3>5 DEF Inv
  <2>10. ASSUME SessionBreaks PROVE Inv'
    <3>1. TypeOK'
      BY <2>10 DEF SessionBreaks, callVars, CallInv
    <3>2. CallInv'
      BY <2>10 DEF SessionBreaks, callVars, CallInv, Poisoned
    <3>3. CloseInv'
      BY <2>10 DEF SessionBreaks, callVars, CallInv, CloseInv, Poisoned
    <3>4. NoSessionLeft'
      BY <2>10 DEF SessionBreaks, callVars, CallInv, NoSessionLeft
    <3>5. SurvivesOneLoss'
      BY <2>10 DEF SessionBreaks, callVars, CallInv, CloseInv, SurvivesOneLoss, Poisoned
    <3>. QED
      BY <3>1, <3>2, <3>3, <3>4, <3>5 DEF Inv
  <2>11. ASSUME Close PROVE Inv'
    <3>1. TypeOK'
      BY <2>11 DEF Close, callVars, CallInv
    <3>2. CallInv'
      BY <2>11 DEF Close, callVars, CallInv, Poisoned
    <3>3. CloseInv'
      BY <2>11 DEF Close, callVars, CallInv, CloseInv, Poisoned
    <3>4. NoSessionLeft'
      BY <2>11 DEF Close, callVars, CallInv, NoSessionLeft
    <3>5. SurvivesOneLoss'
      BY <2>11 DEF Close, callVars, CallInv, CloseInv, SurvivesOneLoss, Poisoned
    <3>. QED
      BY <3>1, <3>2, <3>3, <3>4, <3>5 DEF Inv
  <2>12. ASSUME UNCHANGED vars PROVE Inv'
    <3>1. TypeOK'
      BY <2>12 DEF vars, CallInv
    <3>2. CallInv'
      BY <2>12 DEF vars, CallInv, Poisoned
    <3>3. CloseInv'
      BY <2>12 DEF vars, CallInv, CloseInv, Poisoned
    <3>4. NoSessionLeft'
      BY <2>12 DEF vars, CallInv, NoSessionLeft
    <3>5. SurvivesOneLoss'
      BY <2>12 DEF vars, CallInv, CloseInv, SurvivesOneLoss, Poisoned
    <3>. QED
      BY <3>1, <3>2, <3>3, <3>4, <3>5 DEF Inv
  <2>. QED
    BY <2>1, <2>2, <2>3, <2>4, <2>5, <2>6, <2>7, <2>8, <2>9, <2>10, <2>11, <2>12
       DEF Next, CallStep
<1>. QED
  BY <1>1, <1>2, PTL DEF Spec

-----------------------------------------------------------------------------
(* The properties.                                                         *)

(***************************************************************************)
(* The variables have their types, and mu is held by the one caller that   *)
(* dials or is about to unlock (callTool).                                 *)
(***************************************************************************)
THEOREM TypeCorrect == Spec => []TypeOK
<1>1. Inv => TypeOK
  BY DEF Inv
<1>. QED
  BY <1>1, InvCorrect, PTL

(***************************************************************************)
(* No redial leaves a session behind, for any number of callers (callTool, *)
(* Close).                                                                 *)
(***************************************************************************)
THEOREM NoSessionLeftCorrect == Spec => []NoSessionLeft
<1>1. Inv => NoSessionLeft
  BY DEF Inv
<1>. QED
  BY <1>1, InvCorrect, PTL

(***************************************************************************)
(* A call fails with its session's error only if the session it was        *)
(* retried on is another than its first and lost in turn (callTool).       *)
(***************************************************************************)
THEOREM SurvivesOneLossCorrect == Spec => []SurvivesOneLoss
<1>1. Inv => SurvivesOneLoss
  BY DEF Inv
<1>. QED
  BY <1>1, InvCorrect, PTL

(***************************************************************************)
(* Only a session that is lost is replaced, however many callers fail on   *)
(* it together (callTool, "single-flight").                                *)
(***************************************************************************)
THEOREM OnlyLostReplacedCorrect == Spec => OnlyLostReplaced
<1>1. Inv /\ [Next]_vars => [session' # session => session \in lost]_vars
  <2>. SUFFICES ASSUME Inv, Next, session' # session PROVE session \in lost
    BY DEF vars
  <2>1. PICK c \in Callers : DialSucceeds(c)
    BY DEF Next, CallStep, BeginCall, FirstAnswered, FirstPoisoned, Lock, DialFails, Unlock,
           SecondReturns, CmRestarts, SessionBreaks, Close
  <2>. QED
    BY <2>1 DEF Inv, CallInv, CloseInv, Poisoned, DialSucceeds
<1>. QED
  BY <1>1, InvCorrect, PTL DEF Spec, OnlyLostReplaced

=============================================================================
