---------------------------- MODULE SessionSlots ----------------------------
(***************************************************************************)
(* What the serve process promises about chat sessions, whatever requests, *)
(* container exits and crashes do: a session is held by at most one run at *)
(* a time, no session is taken without room for it, a run goes live        *)
(* only in a slot it holds, and the slot of a run that went live is given  *)
(* up only after that run has been retired.  Lifecycle implements it.      *)
(***************************************************************************)
CONSTANTS
  Sessions,   \* session ids
  Runs,       \* runs that may hold a session
  SessionOf,  \* the session each run is for
  Room(_),    \* whether one more session may be held besides those of a set
  NoRun       \* nobody holds the session

VARIABLES
  holder,  \* session -> the run that holds it, or NoRun
  stage,   \* session -> how far its holder has come
  up       \* the process is there

slotVars == <<holder, stage, up>>

Held == {s \in Sessions : holder[s] # NoRun}

Init ==
  /\ holder = [s \in Sessions |-> NoRun]
  /\ stage = [s \in Sessions |-> "free"]
  /\ up = TRUE

Acquire(r) ==
  LET s == SessionOf[r] IN
  /\ stage[s] = "free"
  /\ Room(Held)
  /\ holder' = [holder EXCEPT ![s] = r]
  /\ stage' = [stage EXCEPT ![s] = "starting"]
  /\ UNCHANGED up

Advance(s, from, to) ==
  /\ stage[s] = from
  /\ stage' = [stage EXCEPT ![s] = to]
  /\ UNCHANGED <<holder, up>>

GoLive(s) == Advance(s, "starting", "live")

Retire(s) == Advance(s, "live", "retiring")

GiveUp(s) ==
  /\ stage[s] \in {"starting", "retiring"}
  /\ holder' = [holder EXCEPT ![s] = NoRun]
  /\ stage' = [stage EXCEPT ![s] = "free"]
  /\ UNCHANGED up

\* The process ends and its memory with it; the next one starts with no leases.
LoseAll ==
  /\ up /\ up' = FALSE
  /\ holder' = [s \in Sessions |-> NoRun]
  /\ stage' = [s \in Sessions |-> "free"]

Return ==
  /\ ~up /\ up' = TRUE
  /\ UNCHANGED <<holder, stage>>

Next ==
  \/ \E r \in Runs : Acquire(r)
  \/ \E s \in Sessions : GoLive(s) \/ Retire(s) \/ GiveUp(s)
  \/ LoseAll \/ Return

Spec == Init /\ [][Next]_slotVars

=============================================================================
