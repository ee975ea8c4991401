----------------------------- MODULE ChatInbox -----------------------------
(***************************************************************************)
(* internal/chatwork/inbox.go: the worker's inbox.  The Pump goroutine     *)
(* fills it from stdin frames, the harness empties it, and the epoch loop  *)
(* opens it again after a /clear.  Each operation below is what the code   *)
(* does under the inbox's mutex; ping, on the signal channel, comes after  *)
(* the unlock and is a step of its own where another goroutine can see the *)
(* difference.  Messages are numbered in the order they are read.          *)
(***************************************************************************)
EXTENDS Integers, Sequences

VARIABLES
  pending,  \* messages queued, oldest first
  closed,   \* stdin has ended
  held,     \* a clear hides pending from the epoch it ends
  signal    \* the signal channel (capacity 1) holds a wake-up

inboxVars == <<pending, closed, held, signal>>

NewInbox ==
  /\ pending = <<>>
  /\ closed = FALSE
  /\ held = FALSE
  /\ signal = FALSE

\* Variant: the hold does not matter.
DeliverableThoughHeld == pending # <<>>

Deliverable == ~held /\ pending # <<>>

Push(m) == pending' = Append(pending, m) /\ UNCHANGED <<closed, held, signal>>

CloseInbox == closed' = TRUE /\ UNCHANGED <<pending, held, signal>>

\* A non-blocking send: a second wake-up is dropped.
Ping == signal' = TRUE /\ UNCHANGED <<pending, closed, held>>

\* Variant: the queue is handed out and kept.
TakeAllKeeping == Deliverable /\ UNCHANGED inboxVars

TakeAll == Deliverable /\ pending' = <<>> /\ UNCHANGED <<closed, held, signal>>

TakeFirst == Deliverable /\ pending' = Tail(pending) /\ UNCHANGED <<closed, held, signal>>

\* Variant: the epoch being cleared can still take messages.
OnClearWithoutHold == pending' = <<>> /\ UNCHANGED <<closed, held, signal>>

\* Variant: messages from before the clear stay queued.
OnClearKeepingPending == held' = TRUE /\ UNCHANGED <<pending, closed, signal>>

OnClear == pending' = <<>> /\ held' = TRUE /\ UNCHANGED <<closed, signal>>

\* releaseClear's report: stdin is gone and nothing is left for another epoch.
ReleaseReportsClosed == closed /\ pending = <<>>

\* Variant: the hold is not opened.
ReleaseKeepingHold == signal' = TRUE /\ UNCHANGED <<pending, closed, held>>

\* Variant: messages are dropped here rather than when the clear is read.
ReleaseDropping ==
  pending' = <<>> /\ held' = FALSE /\ signal' = TRUE /\ UNCHANGED closed

ReleaseClear == held' = FALSE /\ signal' = TRUE /\ UNCHANGED <<pending, closed>>

=============================================================================
