---------------------------- MODULE TokenProofs -----------------------------
(***************************************************************************)
(* Proofs about TokenWatch, for any helpers, any number of attempts and    *)
(* either kind of clock.                                                   *)
(***************************************************************************)
EXTENDS TokenWatch, TLAPS

\* What a helper has counted on its way to giving up.
AttemptInv ==
  \A h \in Helpers :
    /\ hpc[h] \in {"start", "retry"} => attempt[h] < MaxAttempts /\ refusals[h] = attempt[h]
    /\ hpc[h] = "gaveUp" => refusals[h] = MaxAttempts

\* The record of a token comes before whatever follows it.
RecordInv ==
  \A h \in Helpers : hpc[h] \in {"recorded", "used"} => h \in content \cup unrecorded

\* Who is about to append has opened the file, and created it if need be.
OpenInv == \A h \in Helpers : hpc[h] = "appending" => exists

\* The redactor is never ahead of the file, but for what was on a line without an
\* end, nor of the reload that is under way.
KnownInv ==
  /\ tail \subseteq unrecorded
  /\ known \subseteq content \cup unrecorded
  /\ tokens \subseteq content \cup unrecorded
  /\ ~blurred /\ wpc = "storing" => known \subseteq tokens \cup unrecorded

\* The file's time never goes back, and while the time that is remembered is still
\* the file's, so is what was read.
RestInv ==
  /\ preRead <= mtime /\ lastMod <= mtime
  /\ ~exists => mtime = ZeroTime
  /\ ~blurred /\ wpc = "storing" /\ preRead = mtime => content \subseteq tokens
  /\ ~blurred /\ wpc = "waiting" /\ lastMod = mtime => content \subseteq known

Inv == TypeOK /\ AttemptInv /\ RecordInv /\ OpenInv /\ KnownInv /\ RestInv

(***************************************************************************)
(* The invariant: the helpers' counts, the file and the redactor are in    *)
(* step, whatever a helper's attempts, a torn write and a coarse clock do. *)
(***************************************************************************)
THEOREM InvCorrect == Spec => []Inv
<1>1. Init => Inv
  <2>. SUFFICES ASSUME Init PROVE Inv
    OBVIOUS
  <2>1. TypeOK
    <3>1. 0 \in 0 .. MaxAttempts
      BY AttemptsAssumption
    <3>2. attempt \in [Helpers -> 0 .. MaxAttempts] /\ refusals \in [Helpers -> 0 .. MaxAttempts]
      BY <3>1 DEF Init
    <3>. QED
      BY <3>2 DEF Init, TypeOK, ZeroTime
  <2>2. AttemptInv /\ RecordInv /\ OpenInv /\ KnownInv /\ RestInv
    BY AttemptsAssumption DEF Init, AttemptInv, RecordInv, OpenInv, KnownInv, RestInv, ZeroTime
  <2>. QED
    BY <2>1, <2>2 DEF Inv
<1>2. Inv /\ [Next]_vars => Inv'
  <2>. SUFFICES ASSUME Inv, [Next]_vars PROVE Inv'
    OBVIOUS
  <2>. USE AttemptsAssumption, CoarseAssumption
       DEF Inv, TypeOK, ZeroTime, helperVars, fileVars, watchVars
  <2>1. ASSUME NEW h \in Helpers, Fetched(h) PROVE Inv'
    <3>1. TypeOK'
      BY <2>1 DEF Fetched, HelperGoes, AttemptInv
    <3>2. AttemptInv'
      BY <2>1 DEF Fetched, HelperGoes, AttemptInv
    <3>3. RecordInv' /\ OpenInv' /\ KnownInv'
      BY <2>1 DEF Fetched, HelperGoes, RecordInv, OpenInv, KnownInv
    <3>4. RestInv'
      BY <2>1 DEF Fetched, HelperGoes, RestInv
    <3>. QED
      BY <3>1, <3>2, <3>3, <3>4 DEF Inv
  <2>2. ASSUME NEW h \in Helpers, NotLive(h) PROVE Inv'
    <3>1. TypeOK'
      BY <2>2 DEF NotLive, HelperGoes, TriesAgain, AttemptInv
    <3>2. AttemptInv'
      BY <2>2 DEF NotLive, HelperGoes, TriesAgain, AttemptInv
    <3>3. RecordInv' /\ OpenInv' /\ KnownInv'
      BY <2>2 DEF NotLive, HelperGoes, TriesAgain, RecordInv, OpenInv, KnownInv
    <3>4. RestInv'
      BY <2>2 DEF NotLive, HelperGoes, TriesAgain, RestInv
    <3>. QED
      BY <3>1, <3>2, <3>3, <3>4 DEF Inv
  <2>3. ASSUME NEW h \in Helpers, Refused(h) PROVE Inv'
    <3>1. TypeOK'
      BY <2>3 DEF Refused, HelperGoes, AttemptInv
    <3>2. AttemptInv'
      BY <2>3 DEF Refused, HelperGoes, AttemptInv
    <3>3. RecordInv' /\ OpenInv' /\ KnownInv'
      BY <2>3 DEF Refused, HelperGoes, RecordInv, OpenInv, KnownInv
    <3>4. RestInv'
      BY <2>3 DEF Refused, HelperGoes, RestInv
    <3>. QED
      BY <3>1, <3>2, <3>3, <3>4 DEF Inv
  <2>4. ASSUME NEW h \in Helpers, OpenFile(h) PROVE Inv'
    <3>a. hpc' \in [Helpers -> {"start", "retry", "gaveUp", "refused", "opening",
                            "appending", "recorded", "used"}]
      BY <2>4 DEF OpenFile, HelperGoes
    <3>b. mtime' \in Nat /\ blurred' \in BOOLEAN
      BY <2>4 DEF OpenFile, Touch
    <3>c. exists' \in BOOLEAN /\ content' \subseteq Helpers
      BY <2>4 DEF OpenFile
    <3>1. TypeOK'
      BY <2>4, <3>a, <3>b, <3>c DEF OpenFile
    <3>2. AttemptInv'
      BY <2>4 DEF OpenFile, HelperGoes, Touch, AttemptInv
    <3>3. RecordInv' /\ OpenInv' /\ KnownInv'
      BY <2>4 DEF OpenFile, HelperGoes, Touch, RecordInv, OpenInv, KnownInv
    <3>4. RestInv'
      BY <2>4 DEF OpenFile, HelperGoes, Touch, RestInv
    <3>. QED
      BY <3>1, <3>2, <3>3, <3>4 DEF Inv
  <2>5. ASSUME NEW h \in Helpers, AppendToken(h) PROVE Inv'
    <3>a. hpc' \in [Helpers -> {"start", "retry", "gaveUp", "refused", "opening",
                            "appending", "recorded", "used"}]
      BY <2>5 DEF AppendToken, HelperGoes
    <3>b. mtime' \in Nat /\ blurred' \in BOOLEAN
      <4>1. mtime' \in {mtime, mtime + 1}
        BY <2>5 DEF AppendToken, Touch
      <4>2. mtime' \in Nat
        BY <4>1
      <4>3. blurred' \in BOOLEAN
        BY <2>5, Zenon DEF AppendToken, Touch
      <4>. QED
        BY <4>2, <4>3
    <3>c. exists' \in BOOLEAN /\ content' \subseteq Helpers
      BY <2>5 DEF AppendToken
    <3>1. TypeOK'
      BY <2>5, <3>a, <3>b, <3>c DEF AppendToken
    <3>2. AttemptInv'
      BY <2>5 DEF AppendToken, HelperGoes, Touch, AttemptInv
    <3>3. RecordInv' /\ OpenInv' /\ KnownInv'
      BY <2>5 DEF AppendToken, HelperGoes, Touch, RecordInv, OpenInv, KnownInv
    <3>4. RestInv'
      <4>1. \/ mtime' = mtime + 1 /\ blurred' = blurred
            \/ mtime' = mtime /\ blurred' = TRUE
        BY <2>5, Zenon DEF AppendToken, Touch
      <4>2. preRead' = preRead /\ lastMod' = lastMod /\ exists' = exists /\ wpc' = wpc
        BY <2>5 DEF AppendToken
      <4>3. exists
        BY <2>5 DEF AppendToken, OpenInv
      <4>. QED
        BY <4>1, <4>2, <4>3 DEF RestInv
    <3>. QED
      BY <3>1, <3>2, <3>3, <3>4 DEF Inv
  <2>6. ASSUME NEW h \in Helpers, RecordFails(h) PROVE Inv'
    <3>a. hpc' = [hpc EXCEPT ![h] = "recorded"] /\ unrecorded' = unrecorded \cup {h}
      BY <2>6 DEF RecordFails, HelperGoes
    <3>b. UNCHANGED <<live, attempt, refusals, watchVars, exists, content>>
      BY <2>6 DEF RecordFails, TornWrite
    <3>c. CASE UNCHANGED <<fileVars, blurred>>
      <4>1. TypeOK'
        BY <3>a, <3>b, <3>c
      <4>2. AttemptInv' /\ RecordInv'
        BY <3>a, <3>b DEF AttemptInv, RecordInv
      <4>3. KnownInv'
        BY <3>a, <3>b, <3>c DEF KnownInv
      <4>4. RestInv' /\ OpenInv'
        BY <2>6, <3>a, <3>b, <3>c DEF RestInv, OpenInv
      <4>. QED
        BY <4>1, <4>2, <4>3, <4>4 DEF Inv
    <3>d. CASE TornWrite(h)
      <4>a. \/ mtime' = mtime + 1 /\ blurred' = blurred
            \/ mtime' = mtime /\ blurred' = TRUE
        BY <3>d, Zenon DEF TornWrite, Touch
      <4>b. mtime' \in Nat /\ blurred' \in BOOLEAN
        <5>1. mtime' \in Nat
          BY <4>a
        <5>2. blurred' \in BOOLEAN
          BY <4>a, Zenon
        <5>. QED
          BY <5>1, <5>2
      <4>c. torn' \in BOOLEAN /\ tail' \subseteq {h}
        BY <3>d DEF TornWrite
      <4>1. TypeOK'
        BY <3>a, <3>b, <4>b, <4>c
      <4>2. AttemptInv' /\ RecordInv'
        BY <3>a, <3>b DEF AttemptInv, RecordInv
      <4>3. KnownInv'
        BY <3>a, <3>b, <4>a, <4>c DEF KnownInv
      <4>4. OpenInv' /\ exists
        BY <2>6, <3>a, <3>b, <3>d DEF OpenInv, TornWrite
      <4>5. RestInv'
        BY <3>b, <4>a, <4>4 DEF RestInv
      <4>. QED
        BY <4>1, <4>2, <4>3, <4>4, <4>5 DEF Inv
    <3>. QED
      BY <2>6, <3>c, <3>d DEF RecordFails
  <2>7. ASSUME NEW h \in Helpers, Use(h) PROVE Inv'
    <3>1. TypeOK'
      BY <2>7 DEF Use, HelperGoes, AttemptInv
    <3>2. AttemptInv'
      BY <2>7 DEF Use, HelperGoes, AttemptInv
    <3>3. RecordInv' /\ OpenInv' /\ KnownInv'
      BY <2>7 DEF Use, HelperGoes, RecordInv, OpenInv, KnownInv
    <3>4. RestInv'
      BY <2>7 DEF Use, HelperGoes, RestInv
    <3>. QED
      BY <3>1, <3>2, <3>3, <3>4 DEF Inv
  <2>8. ASSUME Tick PROVE Inv'
    <3>1. TypeOK'
      BY <2>8 DEF Tick, AttemptInv
    <3>2. AttemptInv'
      BY <2>8 DEF Tick, AttemptInv
    <3>3. RecordInv' /\ OpenInv' /\ KnownInv'
      BY <2>8 DEF Tick, RecordInv, OpenInv, KnownInv
    <3>4. RestInv'
      BY <2>8 DEF Tick, RestInv
    <3>. QED
      BY <3>1, <3>2, <3>3, <3>4 DEF Inv
  <2>9. ASSUME Stat PROVE Inv'
    <3>1. TypeOK'
      BY <2>9 DEF Stat, ModTime, AttemptInv
    <3>2. AttemptInv'
      BY <2>9 DEF Stat, ModTime, AttemptInv
    <3>3. RecordInv' /\ OpenInv' /\ KnownInv'
      BY <2>9 DEF Stat, ModTime, RecordInv, OpenInv, KnownInv
    <3>4. RestInv'
      BY <2>9 DEF Stat, ModTime, RestInv
    <3>. QED
      BY <3>1, <3>2, <3>3, <3>4 DEF Inv
  <2>10. ASSUME Read PROVE Inv'
    <3>1. TypeOK'
      BY <2>10 DEF Read, Lines
    <3>2. AttemptInv'
      BY <2>10 DEF Read, AttemptInv
    <3>3. RecordInv' /\ OpenInv' /\ KnownInv'
      BY <2>10 DEF Read, Lines, RecordInv, OpenInv, KnownInv
    <3>4. RestInv'
      BY <2>10 DEF Read, Lines, RestInv
    <3>. QED
      BY <3>1, <3>2, <3>3, <3>4 DEF Inv
  <2>11. ASSUME Store PROVE Inv'
    <3>1. TypeOK'
      BY <2>11 DEF Store, AttemptInv
    <3>2. AttemptInv'
      BY <2>11 DEF Store, AttemptInv
    <3>3. RecordInv' /\ OpenInv' /\ KnownInv'
      BY <2>11 DEF Store, RecordInv, OpenInv, KnownInv
    <3>4. RestInv'
      BY <2>11 DEF Store, RestInv
    <3>. QED
      BY <3>1, <3>2, <3>3, <3>4 DEF Inv
  <2>12. ASSUME SessionGoesLive PROVE Inv'
    <3>1. TypeOK'
      BY <2>12 DEF SessionGoesLive, AttemptInv
    <3>2. AttemptInv'
      BY <2>12 DEF SessionGoesLive, AttemptInv
    <3>3. RecordInv' /\ OpenInv' /\ KnownInv'
      BY <2>12 DEF SessionGoesLive, RecordInv, OpenInv, KnownInv
    <3>4. RestInv'
      BY <2>12 DEF SessionGoesLive, RestInv
    <3>. QED
      BY <3>1, <3>2, <3>3, <3>4 DEF Inv
  <2>13. ASSUME Stop PROVE Inv'
    <3>1. TypeOK'
      BY <2>13 DEF Stop, AttemptInv
    <3>2. AttemptInv'
      BY <2>13 DEF Stop, AttemptInv
    <3>3. RecordInv' /\ OpenInv' /\ KnownInv'
      BY <2>13 DEF Stop, RecordInv, OpenInv, KnownInv
    <3>4. RestInv'
      BY <2>13 DEF Stop, RestInv
    <3>. QED
      BY <3>1, <3>2, <3>3, <3>4 DEF Inv
  <2>14. ASSUME UNCHANGED vars PROVE Inv'
    <3>1. TypeOK'
      BY <2>14 DEF vars, AttemptInv
    <3>2. AttemptInv'
      BY <2>14 DEF vars, AttemptInv
    <3>3. RecordInv' /\ OpenInv' /\ KnownInv'
      BY <2>14 DEF vars, RecordInv, OpenInv, KnownInv
    <3>4. RestInv'
      BY <2>14 DEF vars, RestInv
    <3>. QED
      BY <3>1, <3>2, <3>3, <3>4 DEF Inv
  <2>. QED
    BY <2>1, <2>2, <2>3, <2>4, <2>5, <2>6, <2>7, <2>8, <2>9, <2>10, <2>11, <2>12, <2>13, <2>14
       DEF Next, HelperStep, WatchStep
<1>. QED
  BY <1>1, <1>2, PTL DEF Spec

-----------------------------------------------------------------------------
(* The properties.                                                         *)

(***************************************************************************)
(* The variables have their types; no helper makes more than MaxAttempts   *)
(* attempts (fetch).                                                       *)
(***************************************************************************)
THEOREM TypeCorrect == Spec => []TypeOK
<1>1. Inv => TypeOK
  BY DEF Inv
<1>. QED
  BY <1>1, InvCorrect, PTL

(***************************************************************************)
(* No helper hands a token to git or gh before it is in the file, or its   *)
(* record has failed (gitCredentialGetWithClient, RunGHWrapper).           *)
(***************************************************************************)
THEOREM RecordedBeforeUseCorrect == Spec => []RecordedBeforeUse
<1>1. Inv => RecordedBeforeUse
  BY DEF Inv, RecordInv, RecordedBeforeUse
<1>. QED
  BY <1>1, InvCorrect, PTL

(***************************************************************************)
(* A helper gives up only after MaxAttempts refusals (fetch).              *)
(***************************************************************************)
THEOREM GivesUpAfterAllAttemptsCorrect == Spec => []GivesUpAfterAllAttempts
<1>1. Inv => GivesUpAfterAllAttempts
  BY DEF Inv, AttemptInv, GivesUpAfterAllAttempts
<1>. QED
  BY <1>1, InvCorrect, PTL

(***************************************************************************)
(* Whenever the watcher waits with the file's present time, every recorded *)
(* token in use is masked, unless the last read failed or a write since    *)
(* kept the clock (reload's order of stat, read and store).                *)
(***************************************************************************)
THEOREM RestMeansMaskedCorrect == Spec => []RestMeansMasked
<1>1. Inv => RestMeansMasked
  <2>. SUFFICES ASSUME Inv, wpc = "waiting", lastMod = ModTime, ~blurred,
                       NEW h \in Helpers, hpc[h] = "used"
                PROVE  h \in known \cup unrecorded
    BY DEF RestMeansMasked
  <2>1. ModTime = mtime
    BY DEF Inv, RestInv, ModTime
  <2>2. content \subseteq known
    BY <2>1 DEF Inv, RestInv
  <2>3. h \in content \cup unrecorded
    BY DEF Inv, RecordInv
  <2>. QED
    BY <2>2, <2>3
<1>. QED
  BY <1>1, InvCorrect, PTL

(***************************************************************************)
(* The redactor never forgets a recorded token while reads of the file succeed and  *)
(* its clock tells writes apart (reload against concurrent appends).       *)
(***************************************************************************)
THEOREM NeverForgetsCorrect == Spec => NeverForgets
<1>1. Inv /\ [Next]_vars => [known \ unrecorded \subseteq known' \/ blurred']_vars
  <2>. SUFFICES ASSUME Inv, Next, known' # known, ~blurred'
                PROVE  known \ unrecorded \subseteq known'
    BY DEF vars
  <2>1. Store
    BY DEF Next, HelperStep, WatchStep, Fetched, NotLive, Refused, OpenFile, AppendToken,
           RecordFails, Use, Tick, Stat, Read, SessionGoesLive, Stop, helperVars, watchVars
  <2>. QED
    BY <2>1 DEF Store, Inv, KnownInv
<1>. QED
  BY <1>1, InvCorrect, PTL DEF Spec, NeverForgets

=============================================================================
