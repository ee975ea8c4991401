--------------------------- MODULE Conversations ---------------------------
(***************************************************************************)
(* What a worker promises about a session's conversations, whatever its    *)
(* goroutines do: messages are taken up in the order they were heard, each *)
(* once at the most and by one conversation; a clear discards what waits   *)
(* and keeps what is heard from then on out of the conversation it ends;   *)
(* and each conversation after the first is owed to a clear of its own.    *)
(* EpochLoop implements it.                                                *)
(***************************************************************************)
EXTENDS Naturals, Sequences

VARIABLES
  heard,         \* messages heard so far
  clears,        \* clears heard so far
  waiting,       \* messages heard and not yet taken up
  mode,          \* open; held, from a clear to the next conversation; over
  conversation,  \* the present conversation, or the one about to begin
  said           \* <<message, conversation>> in the order they were taken up

convVars == <<heard, clears, waiting, mode, conversation, said>>

Init ==
  /\ heard = 0 /\ clears = 0 /\ waiting = <<>>
  /\ mode = "open" /\ conversation = 1 /\ said = <<>>

Hear ==
  /\ mode # "over"
  /\ heard' = heard + 1
  /\ waiting' = Append(waiting, heard')
  /\ UNCHANGED <<clears, mode, conversation, said>>

Clear ==
  /\ mode # "over"
  /\ clears' = clears + 1
  /\ waiting' = <<>>
  /\ mode' = "held"
  /\ UNCHANGED <<heard, conversation, said>>

\* The first n messages that wait.
TakeUp(n) ==
  /\ mode = "open"
  /\ said' = said \o [k \in 1..n |-> <<waiting[k], conversation>>]
  /\ waiting' = SubSeq(waiting, n + 1, Len(waiting))
  /\ UNCHANGED <<heard, clears, mode, conversation>>

Begin ==
  /\ mode # "over"
  /\ conversation <= clears
  /\ conversation' = conversation + 1
  /\ mode' = "open"
  /\ UNCHANGED <<heard, clears, waiting, said>>

End ==
  /\ mode # "over"
  /\ mode' = "over"
  /\ UNCHANGED <<heard, clears, waiting, conversation, said>>

Next ==
  \/ Hear \/ Clear \/ Begin \/ End
  \/ \E n \in 1..Len(waiting) : TakeUp(n)

Spec == Init /\ [][Next]_convVars

=============================================================================
