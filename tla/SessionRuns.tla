---------------------------- MODULE SessionRuns ----------------------------
(***************************************************************************)
(* The runs of the chat sessions as the message handlers meet them: when a *)
(* run is in the tracker, when its container is there and may take what is *)
(* written to its stdin, and when its session's state is dropped.          *)
(*                                                                         *)
(* It is the contract of the modules that share the runs. Lifecycle and    *)
(* MessageDelivery both implement it: neither has a run take a step,       *)
(* between its admission and its end, that the contract does not have.     *)
(***************************************************************************)
CONSTANTS
  Sessions,   \* session ids
  Runs,       \* runs, each of which may be over and come again
  SessionOf,  \* the session each run is for
  NoRun       \* the session is not tracked

VARIABLES
  current,  \* session -> the tracked run, or NoRun
  stage,    \* run -> off; starting, up or failed; dropped, released
  alive     \* runs whose container is there and has not ended

runsVars == <<current, stage, alive>>

Init ==
  /\ current = [s \in Sessions |-> NoRun]
  /\ stage = [r \in Runs |-> "off"]
  /\ alive = {}

Advance(r, from, to) == stage[r] = from /\ stage' = [stage EXCEPT ![r] = to]

Track(s, r) == current' = [current EXCEPT ![s] = r]

\* The session is not tracked, nor is a failed start of it being undone.
Admit(r) ==
  /\ current[SessionOf[r]] = NoRun
  /\ \A q \in Runs : SessionOf[q] = SessionOf[r] => stage[q] # "failed"
  /\ Advance(r, "off", "starting")
  /\ Track(SessionOf[r], r)
  /\ alive' = alive \cup {r}

Started(r) == Advance(r, "starting", "up") /\ UNCHANGED <<current, alive>>

\* The session's state is not dropped on this path.
StartFails(r) ==
  /\ Advance(r, "starting", "failed")
  /\ Track(SessionOf[r], NoRun)
  /\ UNCHANGED alive

Undone(r) ==
  /\ Advance(r, "failed", "off")
  /\ alive' = alive \ {r}
  /\ UNCHANGED current

ContainerEnds(r) ==
  /\ r \in alive
  /\ alive' = alive \ {r}
  /\ UNCHANGED <<current, stage>>

\* Only the state of a session whose container has ended is dropped.
Drop(r) ==
  /\ r \notin alive
  /\ Advance(r, "up", "dropped")
  /\ UNCHANGED <<current, alive>>

Release(r) ==
  /\ Advance(r, "dropped", "released")
  /\ Track(SessionOf[r], NoRun)
  /\ UNCHANGED alive

Close(r) == Advance(r, "released", "off") /\ UNCHANGED <<current, alive>>

\* The process ends; the next one knows no runs.
LoseAll ==
  /\ current' = [s \in Sessions |-> NoRun]
  /\ stage' = [r \in Runs |-> "off"]
  /\ alive' = {}

Next ==
  \/ \E r \in Runs :
       \/ Admit(r) \/ Started(r) \/ StartFails(r) \/ Undone(r)
       \/ ContainerEnds(r) \/ Drop(r) \/ Release(r) \/ Close(r)
  \/ LoseAll

Spec == Init /\ [][Next]_runsVars

=============================================================================
