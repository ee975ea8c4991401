----------------------------- MODULE TokenWatch ----------------------------
(***************************************************************************)
(* Git tokens fetched in the middle of a session and the redactor that has *)
(* to learn of them (internal/chatwork/credhelper.go, ghwrapper.go and     *)
(* redactor.go).                                                           *)
(*                                                                         *)
(* Each helper is a short-lived process, the git credential helper or the  *)
(* gh wrapper: it fetches a token from ContextMatrix, with a few more      *)
(* attempts while the session is not yet live there, appends it to the     *)
(* shared fetched-tokens file, and only then uses it.  The worker's watch  *)
(* goroutine shares nothing with the helpers but that file: on each tick   *)
(* it compares the file's modification time with the one of its last       *)
(* reload, and reloads by stat, read, store.  A token stands for the       *)
(* helper that fetched it.                                                 *)
(*                                                                         *)
(* The file system and ContextMatrix are external.  A modification time is *)
(* a number that an append moves on, or, on a file system whose clock is   *)
(* coarse, leaves where it was.  A write may fail in the middle and leave  *)
(* a line without its end, which the next token is then joined to.  What   *)
(* coverage is lost in these ways, and by a read that fails, the ghosts    *)
(* unrecorded and blurred remember.                                        *)
(*                                                                         *)
(* Variant definitions are not part of the specification: each is the form *)
(* its neighbour would have under a plausible mistake.                     *)
(***************************************************************************)
EXTENDS Naturals

CONSTANTS
    Helpers,      \* helper processes
    MaxAttempts,  \* gitCredentialDefaultMaxAttempts
    Coarse        \* TRUE: two writes may leave the same modification time

ASSUME AttemptsAssumption == MaxAttempts \in Nat \ {0}
ASSUME CoarseAssumption == Coarse \in BOOLEAN

VARIABLES
    live,        \* ContextMatrix has the session as running
    hpc,         \* where each helper stands
    attempt,     \* attempts the helper has made
    refusals,    \* ghost: how many of them found the session not live
    exists,      \* the fetched-tokens file exists
    content,     \* the tokens on its finished lines
    torn,        \* a failed write has left its last line without an end
    tail,        \* the token that last line is, if it is a whole one
    mtime,       \* its modification time
    wpc,         \* where the watch goroutine stands
    preRead,     \* fetchedPreReadMod
    tokens,      \* what readLines returned
    known,       \* the fetched tokens the current redactor masks
    lastMod,     \* w.fetchedLastMod
    unrecorded,  \* ghost: tokens whose record failed, or was joined to one that had
    blurred      \* ghost: since a read last succeeded, one has failed or a write
                 \*        has kept the modification time

vars == <<live, hpc, attempt, refusals, exists, content, torn, tail, mtime, wpc,
          preRead, tokens, known, lastMod, unrecorded, blurred>>
helperVars == <<hpc, attempt, refusals, unrecorded>>
fileVars == <<exists, content, torn, tail, mtime>>
watchVars == <<wpc, preRead, tokens, known, lastMod>>

\* The zero time.Time, and what ModTime is compared with when there is no file.
ZeroTime == 0

(***************************************************************************)
(* The watcher's constructor reloads once, and the watch goroutine follows *)
(* it.  Helpers may run before that reload and during it: the clone that   *)
(* comes before the constructor already asks for its credential.           *)
(***************************************************************************)
Init ==
    /\ live = FALSE
    /\ hpc = [h \in Helpers |-> "start"]
    /\ attempt = [h \in Helpers |-> 0]
    /\ refusals = [h \in Helpers |-> 0]
    /\ exists = FALSE
    /\ content = {}
    /\ torn = FALSE
    /\ tail = {}
    /\ mtime = ZeroTime
    /\ wpc = "reloading"
    /\ preRead = ZeroTime
    /\ tokens = {}
    /\ known = {}
    /\ lastMod = ZeroTime
    /\ unrecorded = {}
    /\ blurred = FALSE

-----------------------------------------------------------------------------
(* The helpers.                                                            *)

HelperGoes(h, to) == hpc' = [hpc EXCEPT ![h] = to]

SessionGoesLive ==
    /\ ~live
    /\ live' = TRUE
    /\ UNCHANGED <<helperVars, fileVars, watchVars, blurred>>

\* doFetch brought a token.
Fetched(h) ==
    /\ hpc[h] \in {"start", "retry"}
    /\ live
    /\ attempt' = [attempt EXCEPT ![h] = @ + 1]
    /\ HelperGoes(h, "opening")
    /\ UNCHANGED <<live, refusals, unrecorded, fileVars, watchVars, blurred>>

\* Variant: one attempt too few.
TriesOneLess(h) == attempt[h] + 2 < MaxAttempts

\* fetch goes round again while attempt < c.maxAttempts.
TriesAgain(h) == attempt[h] + 1 < MaxAttempts

\* 409 WORKER_NOT_RUNNING, the only refusal that is retried.
NotLive(h) ==
    /\ hpc[h] \in {"start", "retry"}
    /\ ~live
    /\ attempt' = [attempt EXCEPT ![h] = @ + 1]
    /\ refusals' = [refusals EXCEPT ![h] = @ + 1]
    /\ HelperGoes(h, IF TriesAgain(h) THEN "retry" ELSE "gaveUp")
    /\ UNCHANGED <<live, unrecorded, fileVars, watchVars, blurred>>

\* Every other refusal, a transport error, or the context's end between two
\* attempts: git fails its operation, gh runs without a token.
Refused(h) ==
    /\ hpc[h] \in {"start", "retry"}
    /\ HelperGoes(h, "refused")
    /\ UNCHANGED <<live, attempt, refusals, unrecorded, fileVars, watchVars, blurred>>

\* A write, or the creation of the file, moves the modification time, or not
\* when the clock is coarse.
Touch ==
    \/ mtime' = mtime + 1 /\ UNCHANGED blurred
    \/ Coarse /\ exists /\ mtime' = mtime /\ blurred' = TRUE

\* Variant: O_TRUNC in place of O_APPEND.
OpenFileTruncating(h) ==
    /\ hpc[h] = "opening"
    /\ HelperGoes(h, "appending")
    /\ exists' = TRUE
    /\ content' = {} /\ torn' = FALSE /\ tail' = {}
    /\ Touch
    /\ UNCHANGED <<live, attempt, refusals, unrecorded, watchVars>>

\* O_APPEND|O_CREATE: an absent file comes into being empty.
OpenFile(h) ==
    /\ hpc[h] = "opening"
    /\ HelperGoes(h, "appending")
    /\ IF exists THEN UNCHANGED <<fileVars, blurred>>
                 ELSE exists' = TRUE /\ Touch /\ UNCHANGED <<content, torn, tail>>
    /\ UNCHANGED <<live, attempt, refusals, unrecorded, watchVars>>

\* The token and its newline go to the end of the file.  Where that is a line
\* without an end, the two become one line, which is neither token.
AppendToken(h) ==
    /\ hpc[h] = "appending"
    /\ HelperGoes(h, "recorded")
    /\ content' = content \cup (IF torn THEN {} ELSE {h})
    /\ unrecorded' = unrecorded \cup (IF torn THEN {h} ELSE {})
    /\ torn' = FALSE /\ tail' = {}
    /\ Touch
    /\ UNCHANGED <<live, attempt, refusals, exists, watchVars>>

\* A write that fails in the middle leaves a piece of the token behind, or all of
\* it but the newline.
TornWrite(h) ==
    /\ hpc[h] = "appending"
    /\ torn' = TRUE
    /\ tail' \in IF torn THEN {{}} ELSE {{}, {h}}
    /\ Touch
    /\ UNCHANGED <<exists, content>>

\* Best effort: a failed open or write is logged and the token used all the same.
RecordFails(h) ==
    /\ hpc[h] \in {"opening", "appending"}
    /\ HelperGoes(h, "recorded")
    /\ unrecorded' = unrecorded \cup {h}
    /\ \/ UNCHANGED <<fileVars, blurred>>
       \/ TornWrite(h)
    /\ UNCHANGED <<live, attempt, refusals, watchVars>>

\* Variant: the token is used before it is recorded.
UseFirst(h) ==
    /\ hpc[h] \in {"opening", "recorded"}
    /\ HelperGoes(h, "used")
    /\ UNCHANGED <<live, attempt, refusals, unrecorded, fileVars, watchVars, blurred>>

\* The token is handed to git, or to gh in the exec that ends this process.
Use(h) ==
    /\ hpc[h] = "recorded"
    /\ HelperGoes(h, "used")
    /\ UNCHANGED <<live, attempt, refusals, unrecorded, fileVars, watchVars, blurred>>

-----------------------------------------------------------------------------
(* The watch goroutine.                                                    *)

ModTime == IF exists THEN mtime ELSE ZeroTime

\* changed: a failing stat is not a change.
Tick ==
    /\ wpc = "waiting"
    /\ exists /\ mtime # lastMod
    /\ wpc' = "reloading"
    /\ UNCHANGED <<live, helperVars, fileVars, preRead, tokens, known, lastMod, blurred>>

\* reload looks at the clock of the file before it reads the file.
Stat ==
    /\ wpc = "reloading"
    /\ wpc' = "reading"
    /\ preRead' = ModTime
    /\ UNCHANGED <<live, helperVars, fileVars, tokens, known, lastMod, blurred>>

\* readLines takes every line of the file, the last one with or without its end.
Lines == content \cup tail

\* An unreadable file contributes nothing.
Read ==
    /\ wpc = "reading"
    /\ wpc' = "storing"
    /\ \/ tokens' = Lines /\ blurred' = FALSE
       \/ exists /\ tokens' = {} /\ blurred' = TRUE
    /\ UNCHANGED <<live, helperVars, fileVars, preRead, known, lastMod>>

\* Variant: the time stamped is the one after the read.
StoreStampingNow ==
    /\ wpc = "storing"
    /\ wpc' = "waiting"
    /\ known' = tokens
    /\ lastMod' = ModTime
    /\ UNCHANGED <<live, helperVars, fileVars, preRead, tokens, blurred>>

\* The new redactor is published, then the time taken before the read is stamped.
Store ==
    /\ wpc = "storing"
    /\ wpc' = "waiting"
    /\ known' = tokens
    /\ lastMod' = preRead
    /\ UNCHANGED <<live, helperVars, fileVars, preRead, tokens, blurred>>

\* The worker's context ends; a reload under way is finished first.
Stop ==
    /\ wpc = "waiting"
    /\ wpc' = "stopped"
    /\ UNCHANGED <<live, helperVars, fileVars, preRead, tokens, known, lastMod, blurred>>

-----------------------------------------------------------------------------
HelperStep(h) ==
    \/ Fetched(h) \/ NotLive(h) \/ Refused(h)
    \/ OpenFile(h) \/ AppendToken(h) \/ RecordFails(h) \/ Use(h)

WatchStep == Tick \/ Stat \/ Read \/ Store

Next ==
    \/ \E h \in Helpers : HelperStep(h)
    \/ WatchStep
    \/ SessionGoesLive
    \/ Stop

(***************************************************************************)
(* The ticker keeps firing and the goroutine it wakes runs; nothing is     *)
(* assumed of the helpers.                                                 *)
(***************************************************************************)
Spec == Init /\ [][Next]_vars
FairSpec == Spec /\ WF_vars(WatchStep)

-----------------------------------------------------------------------------
\* The types of the variables.
TypeOK ==
    /\ live \in BOOLEAN
    /\ hpc \in [Helpers -> {"start", "retry", "gaveUp", "refused", "opening",
                            "appending", "recorded", "used"}]
    /\ attempt \in [Helpers -> 0 .. MaxAttempts]
    /\ refusals \in [Helpers -> 0 .. MaxAttempts]
    /\ exists \in BOOLEAN
    /\ content \subseteq Helpers
    /\ torn \in BOOLEAN
    /\ tail \subseteq Helpers
    /\ mtime \in Nat /\ preRead \in Nat /\ lastMod \in Nat
    /\ wpc \in {"waiting", "reloading", "reading", "storing", "stopped"}
    /\ tokens \subseteq Helpers
    /\ known \subseteq Helpers
    /\ unrecorded \subseteq Helpers
    /\ blurred \in BOOLEAN

\* A token is in the file, or its record has failed, before git or gh has it
\* (credhelper.go:280, "before it is written").
RecordedBeforeUse ==
    \A h \in Helpers : hpc[h] = "used" => h \in content \cup unrecorded

\* A helper whose session goes live in time is not turned away: it gives up
\* only after it has been told MaxAttempts times that the session is not.
GivesUpAfterAllAttempts ==
    \A h \in Helpers : hpc[h] = "gaveUp" => refusals[h] = MaxAttempts

\* At rest the redactor is complete: once the watcher waits with the time of the
\* file as it is now, it masks every token in use whose record succeeded.  A failed
\* read, or a write the clock did not show, breaks this no longer than to the next
\* read that succeeds (redactor.go:75, the time stamped is the one before the read).
RestMeansMasked ==
    wpc = "waiting" /\ lastMod = ModTime /\ ~blurred =>
        \A h \in Helpers : hpc[h] = "used" => h \in known \cup unrecorded

\* What the redactor once masks it goes on masking: no later reload, and no
\* later helper, takes a recorded token out of it while reads succeed.
NeverForgets == [][known \ unrecorded \subseteq known' \/ blurred']_vars

\* A rewrite between the stat and the read is not missed: every token that is
\* in use ends up masked, unless its record failed or the worker has stopped.
EveryTokenMasked ==
    \A h \in Helpers :
        hpc[h] = "used" ~> h \in known \/ h \in unrecorded \/ blurred \/ wpc = "stopped"
=============================================================================
