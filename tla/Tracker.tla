------------------------------ MODULE Tracker ------------------------------
(***************************************************************************)
(* internal/executor/tracker.go: the concurrency gate and run registry.    *)
(* Every operation holds the tracker's mutex for its whole body, so each   *)
(* is one atomic action on byKey and reason.  The module has no behaviour  *)
(* of its own; the components that share the tracker EXTEND it.            *)
(*                                                                         *)
(* A run is named after the /chat/start request that launches it: a        *)
(* request launches at most one container.                                 *)
(*                                                                         *)
(* Here and in the other modules a definition marked "Variant" is a        *)
(* plausible mistake in the one that follows it.  No behaviour uses it; it *)
(* is there to put in the other's place and see a property fail.           *)
(***************************************************************************)
EXTENDS Integers, FiniteSets

CONSTANTS
  Sessions,       \* session ids, the keys of byKey
  Runs,           \* /chat/start requests, and the runs they register
  SessionOf,      \* the session each run belongs to (Run.SessionID)
  MaxConcurrent,  \* Tracker.max
  NoRun           \* "no entry" in byKey

ASSUME SessionsAssumption == IsFiniteSet(Sessions)
ASSUME RunsAssumption == NoRun \notin Runs /\ SessionOf \in [Runs -> Sessions]
ASSUME MaxAssumption == MaxConcurrent \in Nat

VARIABLES
  byKey,   \* Tracker.byKey: the run registered for a session, or NoRun
  reason   \* Tracker.reason: why a session's container is being terminated

Reasons == {"none", "ended", "killed"}

TrackerTypeOK ==
  /\ byKey \in [Sessions -> Runs \cup {NoRun}]
  /\ reason \in [Sessions -> Reasons]

NewTracker ==
  /\ byKey = [s \in Sessions |-> NoRun]
  /\ reason = [s \in Sessions |-> "none"]

\* A process that ends loses the tracker; the next one starts with an empty one.
ResetTracker ==
  /\ byKey' = [s \in Sessions |-> NoRun]
  /\ reason' = [s \in Sessions |-> "none"]

Tracked == {s \in Sessions : byKey[s] # NoRun}

Count == Cardinality(Tracked)

(***************************************************************************)
(* AddIfUnderLimit answers false both for a session that already has a run *)
(* and for a full tracker; the caller cannot tell the two apart.           *)
(***************************************************************************)
\* Variant: one run too many.
CountOffByOne(s) == byKey[s] = NoRun /\ Count <= MaxConcurrent

\* Variant: one run too few.
CountTooStrict(s) == byKey[s] = NoRun /\ Count + 1 < MaxConcurrent

Admits(s) == byKey[s] = NoRun /\ Count < MaxConcurrent

AddIfUnderLimit(r) ==
  /\ byKey' = [byKey EXCEPT ![SessionOf[r]] = r]
  /\ UNCHANGED reason

Remove(s) ==
  /\ byKey' = [byKey EXCEPT ![s] = NoRun]
  /\ reason' = [reason EXCEPT ![s] = "none"]

\* Variant: the session may have been removed meanwhile.
SetReasonUntracked(s, why) ==
  /\ reason' = [reason EXCEPT ![s] = why]
  /\ UNCHANGED byKey

SetReason(s, why) ==
  /\ reason' = IF byKey[s] = NoRun THEN reason ELSE [reason EXCEPT ![s] = why]
  /\ UNCHANGED byKey

=============================================================================
