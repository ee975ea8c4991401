----------------------------- MODULE McpBridge -----------------------------
(***************************************************************************)
(* The worker's single long-lived MCP session (internal/mcpbridge).        *)
(* Every tool call goes through callTool: it reads b.session under mu,     *)
(* calls without the lock, and when the session turns out to be lost it    *)
(* takes mu again, dials a fresh session unless a fellow caller already    *)
(* did, and calls once more.                                               *)
(*                                                                         *)
(* Sessions are numbered in the order they are dialled.  ContextMatrix and *)
(* the SDK are external: a session may be lost at any time (a restart of   *)
(* ContextMatrix forgets all of them), a dial may fail, and a call on a    *)
(* live session may return a result or an error that is not the session's. *)
(*                                                                         *)
(* Variant definitions are not part of the specification: each is the form *)
(* its neighbour would have under a plausible mistake.                     *)
(***************************************************************************)
EXTENDS Naturals, FiniteSets

CONSTANTS
    Callers,      \* goroutines that call a board tool
    MaxSessions,  \* bound: sessions ever dialled
    None          \* no process

ASSUME BridgeAssumption == /\ MaxSessions \in Nat \ {0}
                           /\ None \notin Callers

VARIABLES
    mu,       \* the caller that holds Bridge.mu across its dial, or None
    session,  \* b.session
    dialled,  \* number of sessions dialled so far
    lost,     \* sessions the far side no longer serves
    closed,   \* sessions this side has closed
    pc,       \* where each caller stands in callTool
    sess,     \* the local variable sess of each caller
    first,    \* ghost: the session the call was first made on
    outcome,  \* how the caller's last call ended
    shut      \* Bridge.Close has run

vars == <<mu, session, dialled, lost, closed, pc, sess, first, outcome, shut>>
callVars == <<pc, sess, first, outcome>>

Sessions == 1 .. MaxSessions
Opened == 1 .. dialled
Outcomes == {"none", "answered", "otherError", "sessionLost", "dialFailed"}

(***************************************************************************)
(* The worker connects before it hands out the tools; it fails to start    *)
(* when that dial fails.                                                   *)
(***************************************************************************)
Init ==
    /\ mu = None
    /\ session = 1
    /\ dialled = 1
    /\ lost = {}
    /\ closed = {}
    /\ pc = [c \in Callers |-> "idle"]
    /\ sess = [c \in Callers |-> 1]
    /\ first = [c \in Callers |-> 1]
    /\ outcome = [c \in Callers |-> "none"]
    /\ shut = FALSE

-----------------------------------------------------------------------------
\* A call on a session that is lost or closed cannot be answered.
Poisoned(s) == s \in lost \cup closed

\* How a call on a session ends: on a poisoned one mostly with ErrSessionMissing or
\* ErrConnectionClosed; on any with an error that is not the session's, such as the
\* end of the caller's context or a transport that fails before either is seen.
Endings(s) == {"otherError"} \cup (IF Poisoned(s) THEN {"sessionLost"} ELSE {"answered"})

Return(c, how) ==
    /\ pc' = [pc EXCEPT ![c] = "idle"]
    /\ outcome' = [outcome EXCEPT ![c] = how]

\* callTool begins: the current session is read under mu.
BeginCall(c) ==
    /\ pc[c] = "idle"
    /\ ~shut
    /\ mu = None
    /\ pc' = [pc EXCEPT ![c] = "calling"]
    /\ sess' = [sess EXCEPT ![c] = session]
    /\ first' = [first EXCEPT ![c] = session]
    /\ outcome' = [outcome EXCEPT ![c] = "none"]
    /\ UNCHANGED <<mu, session, dialled, lost, closed, shut>>

\* The first call ends with a result or with an error other than those two: it is
\* final, and nothing is redialled.
FirstAnswered(c) ==
    /\ pc[c] = "calling"
    /\ \E how \in Endings(sess[c]) \ {"sessionLost"} : Return(c, how)
    /\ UNCHANGED <<mu, session, dialled, lost, closed, sess, first, shut>>

\* The first call finds its session poisoned and goes for the lock.
FirstPoisoned(c) ==
    /\ pc[c] = "calling"
    /\ "sessionLost" \in Endings(sess[c])
    /\ pc' = [pc EXCEPT ![c] = "locking"]
    /\ UNCHANGED <<mu, session, dialled, lost, closed, sess, first, outcome, shut>>

\* Variant: every caller that finds its session lost redials.
RedialUnguarded(c) == TRUE

\* Nobody has replaced the session yet.
MustRedial(c) == session = sess[c]

Lock(c) ==
    /\ pc[c] = "locking"
    /\ mu = None
    /\ mu' = c
    /\ pc' = [pc EXCEPT ![c] = IF MustRedial(c) THEN "dialling" ELSE "retrying"]
    /\ UNCHANGED <<session, dialled, lost, closed, sess, first, outcome, shut>>

\* Variant: the old session is not closed.
RedialLeavingOld(c) == closed

\* The old session is closed once the fresh one is connected.
CloseOld(c) == closed \cup {sess[c]}

DialSucceeds(c) ==
    /\ pc[c] = "dialling"
    /\ dialled < MaxSessions
    /\ dialled' = dialled + 1
    /\ session' = dialled + 1
    /\ closed' = CloseOld(c)
    /\ pc' = [pc EXCEPT ![c] = "retrying"]
    /\ UNCHANGED <<mu, lost, sess, first, outcome, shut>>

\* Variant: the early return keeps mu.
DialFailsHoldingLock == UNCHANGED mu

UnlockAfterFailedDial == mu' = None

DialFails(c) ==
    /\ pc[c] = "dialling"
    /\ UnlockAfterFailedDial
    /\ Return(c, "dialFailed")
    /\ UNCHANGED <<session, dialled, lost, closed, sess, first, shut>>

\* Variant: the call is repeated on the session it failed on.
RetrySame(c) == sess[c]

\* sess = b.session, and mu is released before the second call.
RetrySession(c) == session

Unlock(c) ==
    /\ pc[c] = "retrying"
    /\ mu' = None
    /\ sess' = [sess EXCEPT ![c] = RetrySession(c)]
    /\ pc' = [pc EXCEPT ![c] = "recalling"]
    /\ UNCHANGED <<session, dialled, lost, closed, first, outcome, shut>>

\* Whatever the second call returns is what callTool returns.
SecondReturns(c) ==
    /\ pc[c] = "recalling"
    /\ \E how \in Endings(sess[c]) : Return(c, how)
    /\ UNCHANGED <<mu, session, dialled, lost, closed, sess, first, shut>>

\* ContextMatrix restarts and forgets every session it had.
CmRestarts ==
    /\ Opened \ (lost \cup closed) # {}
    /\ lost' = Opened
    /\ UNCHANGED <<mu, session, dialled, closed, callVars, shut>>

\* One session breaks on its own (the SDK gives its connection up).
SessionBreaks ==
    /\ \E s \in Opened \ (lost \cup closed) : lost' = lost \cup {s}
    /\ UNCHANGED <<mu, session, dialled, closed, callVars, shut>>

\* Run's deferred Close, after the epoch loop and with it every tool call.
Close ==
    /\ ~shut
    /\ \A c \in Callers : pc[c] = "idle"
    /\ mu = None
    /\ shut' = TRUE
    /\ closed' = closed \cup {session}
    /\ UNCHANGED <<mu, session, dialled, lost, callVars>>

-----------------------------------------------------------------------------
CallStep(c) ==
    \/ FirstAnswered(c)
    \/ FirstPoisoned(c)
    \/ Lock(c)
    \/ DialSucceeds(c)
    \/ DialFails(c)
    \/ Unlock(c)
    \/ SecondReturns(c)

Next ==
    \/ \E c \in Callers : BeginCall(c) \/ CallStep(c)
    \/ CmRestarts
    \/ SessionBreaks
    \/ Close

(***************************************************************************)
(* Go runs every caller, and hands a mutex to every waiter in the end      *)
(* (strong fairness of Lock).  That a call or a dial in flight comes to an *)
(* end is an assumption about ContextMatrix and the network: the HTTP      *)
(* client sets no timeout, and the session's context no deadline.          *)
(***************************************************************************)
Fairness == \A c \in Callers : WF_vars(CallStep(c)) /\ SF_vars(Lock(c))

Spec == Init /\ [][Next]_vars
FairSpec == Spec /\ Fairness

-----------------------------------------------------------------------------
\* The types of the variables, and who may be where while mu is held.
TypeOK ==
    /\ mu \in Callers \cup {None}
    /\ dialled \in Sessions
    /\ session \in Opened
    /\ lost \subseteq Opened
    /\ closed \subseteq Opened
    /\ pc \in [Callers -> {"idle", "calling", "locking", "dialling", "retrying", "recalling"}]
    /\ sess \in [Callers -> Sessions]
    /\ first \in [Callers -> Sessions]
    /\ outcome \in [Callers -> Outcomes]
    /\ shut \in BOOLEAN
    /\ \A c \in Callers : mu = c <=> pc[c] \in {"dialling", "retrying"}

\* Only a session that is really lost is replaced: callers that fail together
\* on one lost session share the first redial (bridge.go:145, "single-flight").
OnlyLostReplaced == [][session' # session => session \in lost]_vars

\* No redial leaves a session behind: every session that was dialled, other
\* than the current one, has been closed, and the last one is closed by Close.
NoSessionLeft == Opened \ closed \subseteq (IF shut THEN {} ELSE {session})

\* A call survives the loss of the session it started on, and a redial by a
\* fellow caller: it ends with the session's error only when the fresh session
\* it was retried on was lost in turn.
SurvivesOneLoss ==
    \A c \in Callers :
        outcome[c] = "sessionLost" => sess[c] > first[c] /\ sess[c] \in lost

\* Every call returns, though its session is lost, the dial fails or fellow
\* callers hold the lock meanwhile.
EveryCallReturns == \A c \in Callers : pc[c] = "calling" ~> pc[c] = "idle"
=============================================================================
