---------------------------- MODULE ResumedChat -----------------------------
(***************************************************************************)
(* The conversation of a worker (internal/chatwork): the transcript of an  *)
(* earlier session is read from resume.jsonl (resume.go), it opens the     *)
(* first epoch's conversation, and each round of the conversation is a     *)
(* request to the LLM gateway through roleOrderFallback (roleorder.go).    *)
(* What the rounds yield goes to the log bridge by way of OutputPump.      *)
(*                                                                         *)
(* The harness and the gateway are external: the harness sends the whole   *)
(* conversation every round, sends it once more without the reasoning      *)
(* details if it had some and is answered 400, and otherwise emits an      *)
(* error event and waits for the user; the gateway may want a user turn    *)
(* first, may not take reasoning details, and may find fault with a round  *)
(* whatever its form.  How /clear ends an epoch is EpochLoop's subject.    *)
(***************************************************************************)
EXTENDS OutputPump

CONSTANTS
  Transcripts,  \* what CM may supply: sequences of turns
  MaxLength     \* bound: messages in the conversation

TurnRoles == {"user", "assistant_text", "tool_call", "tool_result_summary", "other"}

\* Content "long" stands for every line that the scanner or the decoder refuses.
Turns == [role : TurnRoles, content : {"empty", "some", "long"}]

Messages == [role : {"system", "user", "assistant", "tool"}, details : BOOLEAN]

ASSUME TranscriptsAssumption == Transcripts \subseteq Seq(Turns)
ASSUME BoundsAssumption == MaxLength \in Nat

VARIABLES
  resume,    \* the transcript, and the lines of resume.jsonl
  turns,     \* LoadResume: turns read so far
  history,   \* harness.Config.History
  gateway,   \* strict: it wants a user turn first; refuses: it does not take details
  engaged,   \* roleOrderFallback.engaged
  conv,      \* the harness's conversation, system prompt left out
  stripped,  \* the round is being sent without reasoning details
  wireReq,   \* the request the gateway has been sent
  bad,       \* the gateway rejects this round in any form
  trouble,   \* the round has met with something that is not a matter of form
  refused,   \* requests the gateway has rejected in this round
  pc         \* open, scan, ready, round, call, resend, failed, idle

gatewayVars == <<gateway, bad>>
chatVars == <<resume, turns, history, gateway, engaged, conv, stripped, wireReq, bad, trouble,
              refused, pc>>
vars == <<resume, turns, history, gateway, engaged, conv, stripped, wireReq, bad, trouble, refused,
          pc, outputVars>>

TypeOK ==
  /\ resume \in Seq(Turns) /\ turns \in Seq(Turns)
  /\ history \in Seq(Messages) /\ conv \in Seq(Messages) /\ wireReq \in Seq(Messages)
  /\ gateway \in [strict : BOOLEAN, refuses : BOOLEAN]
  /\ engaged \in BOOLEAN /\ stripped \in BOOLEAN /\ bad \in BOOLEAN /\ trouble \in BOOLEAN
  /\ refused \in Nat
  /\ pc \in {"open", "scan", "ready", "round", "call", "resend", "failed", "idle"}

Init ==
  /\ resume \in Transcripts /\ turns = <<>> /\ history = <<>>
  /\ gateway \in [strict : BOOLEAN, refuses : BOOLEAN]
  /\ engaged = FALSE
  /\ conv = <<>> /\ stripped = FALSE /\ wireReq = <<>>
  /\ bad = FALSE /\ trouble = FALSE /\ refused = 0
  /\ pc = "open"
  /\ NewOutput

-----------------------------------------------------------------------------
(* LoadResume and SeedHistory.                                             *)

Maps(t) == t.content # "empty" /\ t.role # "other"

Message(role, details) == [role |-> role, details |-> details]

SeedRole(role) ==
  CASE role = "user" -> "user"
    [] role = "assistant_text" -> "assistant"
    [] OTHER -> "system"

Kept(ts) == {k \in 1..Len(ts) : Maps(ts[k])}

\* The turns that map to a message, in order.
SeedHistory(ts) ==
  [n \in 1..Cardinality(Kept(ts)) |->
     LET k == CHOOSE k \in Kept(ts) : PlaceIn(Kept(ts), k) = n
     IN Message(SeedRole(ts[k].role), FALSE)]

\* CM_CHAT_RESUME is set if CM has supplied a transcript; the file may be gone.
OpenResume ==
  /\ pc = "open"
  /\ \/ resume # <<>> /\ pc' = "scan"
     \/ pc' = "ready"
  /\ UNCHANGED <<resume, turns, history, gatewayVars, engaged, conv, stripped, wireReq, trouble,
                 refused, outputVars>>

ScanTurn ==
  /\ pc = "scan"
  /\ Len(turns) < Len(resume) /\ resume[Len(turns) + 1].content # "long"
  /\ turns' = Append(turns, resume[Len(turns) + 1])
  /\ UNCHANGED <<resume, history, gatewayVars, engaged, conv, stripped, wireReq, trouble, refused,
                 pc, outputVars>>

\* Variant: a line that is refused ends the reading like the end of the file.
ScanFailsUnchecked ==
  /\ pc = "scan"
  /\ Len(turns) < Len(resume) /\ resume[Len(turns) + 1].content = "long"
  /\ history' = SeedHistory(turns)
  /\ pc' = "ready"
  /\ UNCHANGED <<resume, turns, gatewayVars, engaged, conv, stripped, wireReq, trouble, refused, outputVars>>

\* LoadResume returns an error, and Run starts fresh.
ScanFails ==
  /\ pc = "scan"
  /\ Len(turns) < Len(resume) /\ resume[Len(turns) + 1].content = "long"
  /\ pc' = "ready"
  /\ UNCHANGED <<resume, turns, history, gatewayVars, engaged, conv, stripped, wireReq, trouble,
                 refused, outputVars>>

ScanEnds ==
  /\ pc = "scan" /\ Len(turns) = Len(resume)
  /\ history' = SeedHistory(turns)
  /\ pc' = "ready"
  /\ UNCHANGED <<resume, turns, gatewayVars, engaged, conv, stripped, wireReq, trouble, refused, outputVars>>

LoadResume == OpenResume \/ ScanTurn \/ ScanFails \/ ScanEnds

-----------------------------------------------------------------------------
(* Rounds of the harness, external.                                        *)

\* A round begins; the gateway may have something against it.
NewRound ==
  /\ pc' = "round" /\ stripped' = FALSE /\ refused' = 0 /\ wireReq' = <<>>
  /\ bad' \in BOOLEAN /\ trouble' = bad'

\* The harness waits for the user.
RoundOver ==
  /\ pc' = "idle" /\ stripped' = FALSE /\ refused' = 0 /\ wireReq' = <<>>
  /\ bad' = FALSE /\ trouble' = FALSE

\* The primer is the epoch's first user turn.
StartEpoch ==
  /\ pc = "ready"
  /\ conv' = Append(history, Message("user", FALSE))
  /\ NewRound
  /\ UNCHANGED <<resume, turns, history, gateway, engaged, outputVars>>

UserSpeaks ==
  /\ pc = "idle" /\ Connected /\ Len(conv) < MaxLength
  /\ conv' = Append(conv, Message("user", FALSE))
  /\ NewRound
  /\ UNCHANGED <<resume, turns, history, gateway, engaged, outputVars>>

-----------------------------------------------------------------------------
(* roleOrderFallback.                                                      *)

\* The index of the first message that is not a system one, if an assistant's.
LeadingAssistant(ms) ==
  {k \in 1..Len(ms) : ms[k].role = "assistant" /\ \A j \in 1..(k - 1) : ms[j].role = "system"}

Flipped(ms) ==
  [k \in 1..Len(ms) |-> IF k \in LeadingAssistant(ms) THEN Message("user", ms[k].details) ELSE ms[k]]

HasReasoningDetails(ms) == \E k \in 1..Len(ms) : ms[k].details

\* What the harness sends: the conversation, with its details unless they are dropped.
Request == [k \in 1..Len(conv) |-> Message(conv[k].role, conv[k].details /\ ~stripped)]

\* Variant: requests are flipped one by one, never up front.
SendAsItIs ==
  /\ pc = "round"
  /\ wireReq' = Request
  /\ pc' = "call"
  /\ UNCHANGED <<resume, turns, history, gatewayVars, engaged, conv, stripped, trouble, refused, outputVars>>

Send ==
  /\ pc = "round"
  /\ wireReq' = IF engaged THEN Flipped(Request) ELSE Request
  /\ pc' = "call"
  /\ UNCHANGED <<resume, turns, history, gatewayVars, engaged, conv, stripped, trouble, refused, outputVars>>

\* The gateway answers 400.
Rejected ==
  \/ gateway.strict /\ LeadingAssistant(wireReq) # {}
  \/ gateway.refuses /\ HasReasoningDetails(wireReq)
  \/ bad

\* Variant: the details do not matter.
FlippableAlways == LeadingAssistant(Request) # {} /\ ~engaged

\* A first call that a flip can be tried on: not with details in it.
Flippable ==
  LeadingAssistant(Request) # {} /\ ~engaged /\ ~HasReasoningDetails(Request)

Resend ==
  /\ pc = "call" /\ Rejected /\ Flippable
  /\ wireReq' = Flipped(Request)
  /\ refused' = refused + 1
  /\ pc' = "resend"
  /\ UNCHANGED <<resume, turns, history, gatewayVars, engaged, conv, stripped, trouble,
                 outputVars>>

\* The gateway answers the request it has; a resend that is answered engages.
Answers ==
  /\ pc \in {"call", "resend"} /\ ~Rejected
  /\ engaged' = (engaged \/ pc = "resend")

\* The reply is text, and the round is the last of the user's turn ...
Reply ==
  /\ Answers
  /\ Len(conv) < MaxLength
  /\ Emit("text")
  /\ \E d \in BOOLEAN : conv' = Append(conv, Message("assistant", d))
  /\ RoundOver
  /\ UNCHANGED <<resume, turns, history, gateway>>

\* ... or it calls a tool, and another round follows.
ToolCall ==
  /\ Answers
  /\ Len(conv) + 1 < MaxLength
  /\ \E e \in {"tool", "board"} : Emit(e)
  /\ \E d \in BOOLEAN :
       conv' = Append(Append(conv, Message("assistant", d)), Message("tool", FALSE))
  /\ NewRound
  /\ UNCHANGED <<resume, turns, history, gateway>>

\* The call returns the gateway's 400, as it is.
ReturnRejection ==
  /\ \/ pc = "call" /\ Rejected /\ ~Flippable
     \/ pc = "resend" /\ Rejected
  /\ refused' = refused + 1
  /\ pc' = "failed"
  /\ UNCHANGED <<resume, turns, history, gatewayVars, engaged, conv, stripped, wireReq, trouble, outputVars>>

\* The call returns any other error, which the harness does not answer by dropping details.
ReturnError ==
  /\ pc \in {"call", "resend"}
  /\ trouble' = TRUE
  /\ wireReq' = <<>>
  /\ pc' = "failed"
  /\ UNCHANGED <<resume, turns, history, gatewayVars, engaged, conv, stripped, refused,
                 outputVars>>

-----------------------------------------------------------------------------
(* The harness, on an error of the call.                                   *)

DropReplay ==
  /\ pc = "failed" /\ HasReasoningDetails(wireReq)
  /\ stripped' = TRUE
  /\ pc' = "round"
  /\ UNCHANGED <<resume, turns, history, gatewayVars, engaged, conv, wireReq, trouble, refused, outputVars>>

GiveUp ==
  /\ pc = "failed" /\ ~HasReasoningDetails(wireReq)
  /\ Emit("error")
  /\ RoundOver
  /\ UNCHANGED <<resume, turns, history, gateway, engaged, conv>>

ChatStep ==
  \/ LoadResume \/ StartEpoch \/ UserSpeaks
  \/ Send \/ Resend \/ Reply \/ ToolCall \/ ReturnRejection \/ ReturnError
  \/ DropReplay \/ GiveUp

Next ==
  \/ Connected /\ ChatStep
  \/ \E t \in StderrTexts : WriteStderr(t) /\ UNCHANGED chatVars
  \/ PumpStep /\ UNCHANGED chatVars
  \/ StreamEnds /\ UNCHANGED chatVars

Spec == Init /\ [][Next]_vars

-----------------------------------------------------------------------------
(* Properties.                                                             *)

(***************************************************************************)
(* A resumed session opens with the whole transcript or with none of it,   *)
(* never with the part of it that could be read (resume.go:60, "a          *)
(* malformed line returns an error", and run.go:150).                      *)
(***************************************************************************)
HistoryWhole ==
  history # <<>> =>
    history = SeedHistory(resume) /\ \A k \in 1..Len(resume) : resume[k].content # "long"

(***************************************************************************)
(* The user sees an error only if the gateway has failed or would not have *)
(* the request in any form: that it wants a user turn first, does not take *)
(* reasoning details, or both, costs no turn (roleorder.go:13).            *)
(***************************************************************************)
ErrorHasCause == pc = "failed" /\ ~HasReasoningDetails(wireReq) => trouble

(***************************************************************************)
(* Requests are flipped for good only if the gateway wants a user turn     *)
(* first: a refused replay never engages the flip (roleorder.go:69).       *)
(***************************************************************************)
EngagedMeansStrict == engaged => gateway.strict

(***************************************************************************)
(* The shape of a request costs one rejected request a round at the most   *)
(* (roleorder.go:21, 68): the two reasons never add up.                    *)
(***************************************************************************)
OneRejectionPerRound == refused <= 1 \/ bad
=============================================================================
