--------------------------- MODULE ResumedProofs ---------------------------
(***************************************************************************)
(* Proofs about ResumedChat, for every transcript and every gateway: what  *)
(* roleOrderFallback and the harness's own resend promise together.        *)
(***************************************************************************)
EXTENDS ResumedChat, OutputProofs, FiniteSetTheorems, TLAPS

-----------------------------------------------------------------------------
(* Requests.                                                               *)

LEMMA AsSequence ==
  ASSUME NEW n \in Nat, NEW S, NEW f \in [1..n -> S]
  PROVE  f \in Seq(S) /\ Len(f) = n
OBVIOUS

LEMMA FlippedOpens ==
  ASSUME NEW ms \in Seq(Messages)
  PROVE  Flipped(ms) \in Seq(Messages) /\ LeadingAssistant(Flipped(ms)) = {}
<1>a. Len(ms) \in Nat /\ \A k \in 1..Len(ms) : ms[k] \in Messages
  OBVIOUS
<1>b. \A k \in 1..Len(ms) : Message("user", ms[k].details) \in Messages
  BY <1>a DEF Message, Messages
<1>c. Flipped(ms) \in [1..Len(ms) -> Messages]
  BY <1>a, <1>b DEF Flipped
<1>1. Flipped(ms) \in Seq(Messages) /\ Len(Flipped(ms)) = Len(ms)
  BY <1>a, <1>c, AsSequence
<1>2. ASSUME NEW k \in LeadingAssistant(Flipped(ms)) PROVE FALSE
  <2>1. k \in 1..Len(ms) /\ Flipped(ms)[k].role = "assistant"
    BY <1>1, <1>2 DEF LeadingAssistant
  <2>2. k \notin LeadingAssistant(ms) /\ ms[k].role = "assistant"
    BY <2>1 DEF Flipped, Message
  <2>3. PICK j \in 1..(k - 1) : ms[j].role # "system"
    BY <2>1, <2>2 DEF LeadingAssistant
  <2>4. Flipped(ms)[j].role # "system"
    BY <2>1, <2>3 DEF Flipped, Message
  <2>. QED
    BY <1>1, <1>2, <2>3, <2>4 DEF LeadingAssistant
<1>. QED
  BY <1>1, <1>2

LEMMA FlippedDetails ==
  ASSUME NEW ms \in Seq(Messages)
  PROVE  HasReasoningDetails(Flipped(ms)) <=> HasReasoningDetails(ms)
<1>1. Len(Flipped(ms)) = Len(ms) /\ Len(ms) \in Nat
  BY DEF Flipped
<1>2. \A k \in 1..Len(ms) : Flipped(ms)[k].details = ms[k].details
  BY DEF Flipped, Message
<1>. QED
  BY <1>1, <1>2 DEF HasReasoningDetails

\* What a request has of its conversation.
LEMMA RequestShape ==
  ASSUME conv \in Seq(Messages), stripped \in BOOLEAN
  PROVE  /\ Request \in Seq(Messages)
         /\ LeadingAssistant(Request) = LeadingAssistant(conv)
         /\ stripped => ~HasReasoningDetails(Request)
         /\ HasReasoningDetails(Request) => HasReasoningDetails(conv)
<1>1. Len(conv) \in Nat /\ \A k \in 1..Len(conv) : conv[k] \in Messages
  OBVIOUS
<1>2. \A k \in 1..Len(conv) :
        Message(conv[k].role, conv[k].details /\ ~stripped) \in Messages
  BY <1>1, Zenon DEF Message, Messages
<1>3. Request \in [1..Len(conv) -> Messages]
  BY <1>2 DEF Request
<1>4. Request \in Seq(Messages) /\ Len(Request) = Len(conv)
  BY <1>1, <1>3, AsSequence
<1>5. \A k \in 1..Len(conv) : Request[k].role = conv[k].role
  BY DEF Request, Message
<1>6. \A k \in 1..Len(conv) : Request[k].details = (conv[k].details /\ ~stripped)
  BY DEF Request, Message
<1>7. LeadingAssistant(Request) = LeadingAssistant(conv)
  BY <1>1, <1>4, <1>5 DEF LeadingAssistant
<1>8. HasReasoningDetails(Request) => HasReasoningDetails(conv) /\ ~stripped
  BY <1>4, <1>6, Zenon DEF HasReasoningDetails
<1>. QED
  BY <1>4, <1>7, <1>8

LEMMA SeedType ==
  ASSUME NEW ts \in Seq(Turns)
  PROVE  SeedHistory(ts) \in Seq(Messages) /\ ~HasReasoningDetails(SeedHistory(ts))
<1>1. Cardinality(Kept(ts)) \in Nat
  <2>1. IsFiniteSet(1..Len(ts))
    BY FS_Interval
  <2>2. Kept(ts) \subseteq 1..Len(ts)
    BY DEF Kept
  <2>. QED
    BY <2>1, <2>2, FS_Subset, FS_CardinalityType
<1>2. \A role : SeedRole(role) \in {"user", "assistant", "system"}
  BY DEF SeedRole
<1>3. \A role : Message(SeedRole(role), FALSE) \in Messages
  BY <1>2 DEF Message, Messages
<1>4. SeedHistory(ts) \in [1..Cardinality(Kept(ts)) -> Messages]
  BY <1>3 DEF SeedHistory
<1>5. SeedHistory(ts) \in Seq(Messages) /\ Len(SeedHistory(ts)) = Cardinality(Kept(ts))
  BY <1>1, <1>4, AsSequence
<1>6. \A n \in 1..Cardinality(Kept(ts)) : SeedHistory(ts)[n].details = FALSE
  BY DEF SeedHistory, Message
<1>. QED
  BY <1>5, <1>6 DEF HasReasoningDetails

(***************************************************************************)
(* A resumed conversation opens with one message for each turn of the      *)
(* transcript that maps to one, in their order and in that turn's role     *)
(* (resume.go:22).                                                         *)
(***************************************************************************)
THEOREM SeedHistoryInOrder ==
  ASSUME NEW ts \in Seq(Turns)
  PROVE  /\ Len(SeedHistory(ts)) = Cardinality(Kept(ts))
         /\ \A k \in Kept(ts) :
              /\ PlaceIn(Kept(ts), k) \in 1..Cardinality(Kept(ts))
              /\ SeedHistory(ts)[PlaceIn(Kept(ts), k)] = Message(SeedRole(ts[k].role), FALSE)
<1>. DEFINE S == Kept(ts)
<1>1. S \in SUBSET (1..Len(ts)) /\ Len(ts) \in Nat
  BY DEF Kept
<1>2. S \in SUBSET Nat /\ IsFiniteSet(S) /\ Cardinality(S) \in Nat
  <2>1. IsFiniteSet(1..Len(ts))
    BY <1>1, FS_Interval
  <2>2. IsFiniteSet(S)
    BY <1>1, <2>1, FS_Subset
  <2>. QED
    BY <1>1, <2>2, FS_CardinalityType
<1>3. SeedHistory(ts) = [n \in 1..Cardinality(S) |->
        Message(SeedRole(ts[CHOOSE k \in S : PlaceIn(S, k) = n].role), FALSE)]
  BY DEF SeedHistory
<1>. HIDE DEF S
<1>4. Len(SeedHistory(ts)) = Cardinality(S)
  BY <1>2, <1>3
<1>5. ASSUME NEW k \in S
      PROVE  /\ PlaceIn(S, k) \in 1..Cardinality(S)
             /\ SeedHistory(ts)[PlaceIn(S, k)] = Message(SeedRole(ts[k].role), FALSE)
  <2>. DEFINE n == PlaceIn(S, k)
  <2>. DEFINE c == CHOOSE j \in S : PlaceIn(S, j) = n
  <2>1. n \in 1..Cardinality(S)
    BY <1>2, PlaceType
  <2>2. c \in S /\ PlaceIn(S, c) = n
    OBVIOUS
  <2>. HIDE DEF c
  <2>3. c \in Nat /\ k \in Nat
    BY <1>2, <2>2
  <2>4. c = k
    <3>1. /\ c < k => PlaceIn(S, c) < PlaceIn(S, k)
          /\ k < c => PlaceIn(S, k) < PlaceIn(S, c)
      BY <1>2, <2>2, PlacesDiffer
    <3>2. PlaceIn(S, k) \in Nat /\ PlaceIn(S, c) = PlaceIn(S, k)
      BY <1>2, <2>1, <2>2
    <3>. QED
      BY <2>3, <3>1, <3>2
  <2>5. SeedHistory(ts)[n] = Message(SeedRole(ts[c].role), FALSE)
    BY <1>3, <2>1 DEF c
  <2>. QED
    BY <2>1, <2>4, <2>5
<1>. QED
  BY <1>4, <1>5 DEF S

LEMMA MessageType ==
  ASSUME NEW role \in {"system", "user", "assistant", "tool"}, NEW d \in BOOLEAN
  PROVE  Message(role, d) \in Messages /\ Message(role, d).role = role /\ Message(role, d).details = d
BY DEF Message, Messages

LEMMA AppendType ==
  ASSUME NEW ms \in Seq(Messages), NEW m \in Messages
  PROVE  /\ Append(ms, m) \in Seq(Messages) /\ Len(ms) \in Nat
         /\ Len(Append(ms, m)) = Len(ms) + 1
         /\ \A k \in 1..Len(ms) : Append(ms, m)[k] = ms[k]
         /\ Append(ms, m)[Len(ms) + 1] = m
OBVIOUS

\* A user's turn in the conversation, which no assistant's can then lead.
HasUser(ms) == \E k \in 1..Len(ms) : ms[k].role = "user"

LEMMA AppendDetails ==
  ASSUME NEW ms \in Seq(Messages), NEW m \in Messages
  PROVE  HasReasoningDetails(Append(ms, m)) <=> HasReasoningDetails(ms) \/ m.details
<1>1. ASSUME NEW k \in 1..Len(Append(ms, m)), Append(ms, m)[k].details
      PROVE  HasReasoningDetails(ms) \/ m.details
  <2>1. CASE k = Len(ms) + 1
    BY <1>1, <2>1, AppendType
  <2>2. CASE k # Len(ms) + 1
    <3>1. k \in 1..Len(ms) /\ Append(ms, m)[k] = ms[k]
      BY <2>2, AppendType
    <3>2. ms[k].details
      BY <1>1, <3>1, Zenon
    <3>. QED
      BY <3>1, <3>2 DEF HasReasoningDetails
  <2>. QED
    BY <2>1, <2>2
<1>2. ASSUME NEW k \in 1..Len(ms), ms[k].details
      PROVE  HasReasoningDetails(Append(ms, m))
  <2>1. k \in 1..Len(Append(ms, m)) /\ Append(ms, m)[k] = ms[k]
    BY AppendType
  <2>2. Append(ms, m)[k].details
    BY <1>2, <2>1, Zenon
  <2>. QED
    BY <2>1, <2>2, Zenon DEF HasReasoningDetails
<1>3. ASSUME m.details PROVE HasReasoningDetails(Append(ms, m))
  <2>1. Len(ms) + 1 \in 1..Len(Append(ms, m)) /\ Append(ms, m)[Len(ms) + 1] = m
    BY AppendType
  <2>. QED
    BY <1>3, <2>1, Zenon DEF HasReasoningDetails
<1>. QED
  BY <1>1, <1>2, <1>3, Zenon DEF HasReasoningDetails

LEMMA AppendUser ==
  ASSUME NEW ms \in Seq(Messages), NEW m \in Messages
  PROVE  /\ HasUser(ms) \/ m.role = "user" => HasUser(Append(ms, m))
         /\ HasUser(ms) /\ LeadingAssistant(Append(ms, m)) # {} => LeadingAssistant(ms) # {}
<1>1. ASSUME NEW k \in 1..Len(ms), ms[k].role = "user" PROVE HasUser(Append(ms, m))
  <2>1. k \in 1..Len(Append(ms, m)) /\ Append(ms, m)[k] = ms[k]
    BY AppendType
  <2>. QED
    BY <1>1, <2>1 DEF HasUser
<1>2. ASSUME m.role = "user" PROVE HasUser(Append(ms, m))
  <2>1. Len(ms) + 1 \in 1..Len(Append(ms, m)) /\ Append(ms, m)[Len(ms) + 1] = m
    BY AppendType
  <2>. QED
    BY <1>2, <2>1 DEF HasUser
<1>3. ASSUME NEW k \in 1..Len(ms), ms[k].role = "user", NEW j \in LeadingAssistant(Append(ms, m))
      PROVE  j \in LeadingAssistant(ms)
  <2>1. /\ j \in 1..Len(Append(ms, m)) /\ Append(ms, m)[j].role = "assistant"
        /\ \A i \in 1..(j - 1) : Append(ms, m)[i].role = "system"
    BY <1>3 DEF LeadingAssistant
  <2>2. j # Len(ms) + 1
    <3>. SUFFICES ASSUME j = Len(ms) + 1 PROVE FALSE
      OBVIOUS
    <3>1. k \in 1..(j - 1) /\ Append(ms, m)[k] = ms[k]
      BY AppendType
    <3>. QED
      BY <1>3, <2>1, <3>1
  <2>3. j \in 1..Len(ms) /\ \A i \in 1..(j - 1) : i \in 1..Len(ms)
    BY <2>1, <2>2, AppendType
  <2>4. Append(ms, m)[j] = ms[j] /\ \A i \in 1..(j - 1) : Append(ms, m)[i] = ms[i]
    BY <2>3, AppendType
  <2>. QED
    BY <2>1, <2>3, <2>4 DEF LeadingAssistant
<1>. QED
  BY <1>1, <1>2, <1>3 DEF HasUser

-----------------------------------------------------------------------------
(* Types.                                                                  *)

(***************************************************************************)
(* The variables of the conversation have their types.                     *)
(***************************************************************************)
THEOREM TypeCorrect == Spec => []TypeOK
<1>1. Init => TypeOK
  <2>. SUFFICES ASSUME Init PROVE TypeOK
    OBVIOUS
  <2>1. resume \in Seq(Turns)
    BY TranscriptsAssumption DEF Init
  <2>2. <<>> \in Seq(Turns) /\ <<>> \in Seq(Messages)
    OBVIOUS
  <2>. QED
    BY <2>1, <2>2 DEF Init, TypeOK
<1>2. TypeOK /\ [Next]_vars => TypeOK'
  <2>. SUFFICES ASSUME TypeOK, [Next]_vars PROVE TypeOK'
    OBVIOUS
  <2>. USE DEF TypeOK
  <2>0. <<>> \in Seq(Messages)
    OBVIOUS
  <2>1. CASE OpenResume
    BY <2>1 DEF OpenResume, gatewayVars
  <2>2. CASE ScanTurn
    <3>1. resume[Len(turns) + 1] \in Turns
      BY <2>2 DEF ScanTurn
    <3>2. turns' \in Seq(Turns)
      BY <2>2, <3>1 DEF ScanTurn
    <3>. QED
      BY <2>2, <3>2 DEF ScanTurn, gatewayVars
  <2>3. CASE ScanFails
    BY <2>3 DEF ScanFails, gatewayVars
  <2>4. CASE ScanEnds
    BY <2>4, SeedType DEF ScanEnds, gatewayVars
  <2>5. CASE StartEpoch
    <3>1. conv' \in Seq(Messages)
      BY <2>5, MessageType, AppendType DEF StartEpoch
    <3>. QED
      BY <2>0, <2>5, <3>1 DEF StartEpoch, NewRound
  <2>6. CASE UserSpeaks
    <3>1. conv' \in Seq(Messages)
      BY <2>6, MessageType, AppendType DEF UserSpeaks
    <3>. QED
      BY <2>0, <2>6, <3>1 DEF UserSpeaks, NewRound
  <2>7. CASE Send
    BY <2>7, RequestShape, FlippedOpens DEF Send, gatewayVars
  <2>8. CASE Resend
    BY <2>8, RequestShape, FlippedOpens DEF Resend, gatewayVars
  <2>9. CASE Reply
    <3>1. PICK d \in BOOLEAN : conv' = Append(conv, Message("assistant", d))
      BY <2>9 DEF Reply
    <3>2. conv' \in Seq(Messages)
      BY <3>1, MessageType, AppendType
    <3>. QED
      BY <2>0, <2>9, <3>2 DEF Reply, Answers, RoundOver
  <2>10. CASE ToolCall
    <3>1. PICK d \in BOOLEAN :
            conv' = Append(Append(conv, Message("assistant", d)), Message("tool", FALSE))
      BY <2>10 DEF ToolCall
    <3>2. Append(conv, Message("assistant", d)) \in Seq(Messages)
      BY MessageType, AppendType
    <3>3. conv' \in Seq(Messages)
      BY <3>1, <3>2, MessageType, AppendType
    <3>. QED
      BY <2>0, <2>10, <3>3 DEF ToolCall, Answers, NewRound
  <2>11. CASE ReturnRejection
    BY <2>11 DEF ReturnRejection, gatewayVars
  <2>12. CASE ReturnError
    BY <2>0, <2>12 DEF ReturnError, gatewayVars
  <2>13. CASE DropReplay
    BY <2>13 DEF DropReplay, gatewayVars
  <2>14. CASE GiveUp
    BY <2>0, <2>14 DEF GiveUp, RoundOver
  <2>15. CASE UNCHANGED chatVars
    BY <2>15 DEF chatVars
  <2>16. CASE UNCHANGED vars
    BY <2>16 DEF vars
  <2>. QED
    BY <2>1, <2>2, <2>3, <2>4, <2>5, <2>6, <2>7, <2>8, <2>9, <2>10, <2>11, <2>12, <2>13, <2>14,
       <2>15, <2>16 DEF Next, ChatStep, LoadResume
<1>. QED
  BY <1>1, <1>2, PTL DEF Spec

-----------------------------------------------------------------------------
(* The inductive invariant.                                                *)

\* What has been read is the beginning of the transcript, and history all of it or nothing.
ReadInv ==
  /\ pc = "open" => turns = <<>>
  /\ pc \in {"open", "scan"} => history = <<>>
  /\ Len(turns) <= Len(resume)
  /\ \A k \in 1..Len(turns) : turns[k] = resume[k] /\ resume[k].content # "long"
  /\ HistoryWhole

\* Details come with replies, and a gateway that wants a user turn first has
\* replied to an assistant-led conversation only if the fallback is engaged.
ConvInv ==
  /\ ~HasReasoningDetails(history)
  /\ pc \notin {"open", "scan", "ready"} => HasUser(conv)
  /\ HasReasoningDetails(conv) /\ LeadingAssistant(conv) # {} => engaged \/ ~gateway.strict
  /\ EngagedMeansStrict

\* What is known of the request that is out, and of those refused before it.
RoundInv ==
  /\ pc = "call" => wireReq = IF engaged THEN Flipped(Request) ELSE Request
  /\ pc = "resend" =>
       wireReq = Flipped(Request) /\ ~HasReasoningDetails(Request) /\ (bad \/ gateway.strict)
  /\ pc = "failed" =>
       /\ HasReasoningDetails(wireReq) \/ trouble
       /\ HasReasoningDetails(wireReq) => HasReasoningDetails(conv)
  /\ bad => trouble
  /\ stripped => HasReasoningDetails(conv)
  /\ ~bad => refused <= 1
  /\ ~stripped /\ pc \in {"round", "call"} => refused = 0

Inv == TypeOK /\ ReadInv /\ ConvInv /\ RoundInv

LEMMA NoDetails == ~HasReasoningDetails(<<>>)
BY DEF HasReasoningDetails

\* Why the gateway rejects a first call, and that one sent without details has no fault.
LEMMA CallRejected ==
  ASSUME TypeOK, ConvInv, RoundInv, pc = "call", Rejected
  PROVE  /\ ~bad => ~stripped
         /\ Flippable => bad \/ gateway.strict
         /\ ~Flippable => bad \/ HasReasoningDetails(wireReq)
         /\ HasReasoningDetails(wireReq) => HasReasoningDetails(conv)
<1>1. /\ Request \in Seq(Messages) /\ LeadingAssistant(Request) = LeadingAssistant(conv)
      /\ stripped => ~HasReasoningDetails(Request)
      /\ HasReasoningDetails(Request) => HasReasoningDetails(conv)
  BY RequestShape DEF TypeOK
<1>2. /\ LeadingAssistant(Flipped(Request)) = {}
      /\ HasReasoningDetails(Flipped(Request)) <=> HasReasoningDetails(Request)
  BY <1>1, FlippedOpens, FlippedDetails
<1>3. wireReq = IF engaged THEN Flipped(Request) ELSE Request
  BY DEF RoundInv
<1>4. HasReasoningDetails(wireReq) <=> HasReasoningDetails(Request)
  BY <1>2, <1>3
<1>5. engaged => LeadingAssistant(wireReq) = {}
  BY <1>2, <1>3
<1>6. ~engaged => LeadingAssistant(wireReq) = LeadingAssistant(conv)
  BY <1>1, <1>3
<1>7. ~bad => ~stripped
  BY <1>1, <1>4, <1>5, <1>6 DEF Rejected, ConvInv, RoundInv
<1>8. Flippable => bad \/ gateway.strict
  BY <1>4 DEF Rejected, Flippable
<1>9. ~Flippable => bad \/ HasReasoningDetails(wireReq)
  BY <1>1, <1>4, <1>5, <1>6 DEF Rejected, Flippable
<1>. QED
  BY <1>1, <1>4, <1>7, <1>8, <1>9

\* A resend has nothing left that its form could be at fault for.
LEMMA ResendRejected ==
  ASSUME TypeOK, RoundInv, pc = "resend"
  PROVE  (Rejected <=> bad) /\ ~HasReasoningDetails(wireReq)
<1>1. Request \in Seq(Messages)
  BY RequestShape DEF TypeOK
<1>2. wireReq = Flipped(Request) /\ ~HasReasoningDetails(Request)
  BY DEF RoundInv
<1>3. LeadingAssistant(wireReq) = {} /\ ~HasReasoningDetails(wireReq)
  BY <1>1, <1>2, FlippedOpens, FlippedDetails
<1>. QED
  BY <1>3 DEF Rejected

\* A gateway that wants a user turn first has taken an assistant-led conversation
\* only with the fallback engaged.
LEMMA AnswersEngaged ==
  ASSUME TypeOK, ConvInv, RoundInv, Answers
  PROVE  /\ LeadingAssistant(conv) # {} => engaged' \/ ~gateway.strict
         /\ engaged' => gateway.strict
<1>1. CASE pc = "call"
  <2>1. LeadingAssistant(Request) = LeadingAssistant(conv)
    BY RequestShape DEF TypeOK
  <2>2. engaged \/ wireReq = Request
    BY <1>1 DEF RoundInv
  <2>3. engaged' = engaged
    BY <1>1 DEF Answers, TypeOK
  <2>. QED
    BY <2>1, <2>2, <2>3 DEF Answers, Rejected, ConvInv, EngagedMeansStrict
<1>2. CASE pc = "resend"
  <2>1. ~bad /\ engaged'
    BY <1>2, ResendRejected DEF Answers
  <2>. QED
    BY <1>2, <2>1 DEF RoundInv
<1>. QED
  BY <1>1, <1>2 DEF Answers

(***************************************************************************)
(* The invariant is one: every handler and every answer keeps its parts.   *)
(***************************************************************************)
THEOREM InvCorrect == Spec => []Inv
<1>1. Init => Inv
  <2>. SUFFICES ASSUME Init PROVE Inv
    OBVIOUS
  <2>1. TypeOK
    <3>1. resume \in Seq(Turns)
      BY TranscriptsAssumption DEF Init
    <3>2. <<>> \in Seq(Turns) /\ <<>> \in Seq(Messages)
      OBVIOUS
    <3>. QED
      BY <3>1, <3>2 DEF Init, TypeOK
  <2>2. ReadInv
    BY <2>1 DEF Init, ReadInv, HistoryWhole, TypeOK
  <2>3. ConvInv
    BY NoDetails DEF Init, ConvInv, EngagedMeansStrict
  <2>4. RoundInv
    BY DEF Init, RoundInv
  <2>. QED
    BY <2>1, <2>2, <2>3, <2>4 DEF Inv
<1>2. Inv /\ TypeOK' /\ [Next]_vars => Inv'
  <2>. SUFFICES ASSUME Inv, TypeOK', [Next]_vars PROVE ReadInv' /\ ConvInv' /\ RoundInv'
    BY DEF Inv
  <2>0. TypeOK /\ ReadInv /\ ConvInv /\ RoundInv
    BY DEF Inv
  <2>r. UNCHANGED <<resume, turns, history>> /\ pc # "open" /\ pc' \notin {"open", "scan"} => ReadInv'
    BY <2>0 DEF ReadInv, HistoryWhole
  <2>q. UNCHANGED <<conv, stripped>> => Request' = Request
    BY DEF Request
  <2>c. UNCHANGED <<history, conv, engaged, gateway>> /\ pc \notin {"open", "scan", "ready"} => ConvInv'
    BY <2>0 DEF ConvInv, EngagedMeansStrict
  <2>1. CASE OpenResume
    <3>1. /\ UNCHANGED <<resume, turns, history, gateway, engaged, conv, stripped, wireReq, bad, trouble, refused>>
          /\ pc = "open" /\ pc' \in {"scan", "ready"}
      BY <2>1 DEF OpenResume, gatewayVars
    <3>2. ReadInv'
      BY <2>0, <3>1 DEF ReadInv, HistoryWhole
    <3>3. ConvInv'
      BY <2>0, <3>1 DEF ConvInv, EngagedMeansStrict
    <3>4. RoundInv'
      BY <2>0, <3>1 DEF RoundInv
    <3>. QED
      BY <3>2, <3>3, <3>4
  <2>2. CASE ScanTurn
    <3>1. /\ UNCHANGED <<resume, history, gateway, engaged, conv, stripped, wireReq, bad, trouble, refused, pc>>
          /\ pc = "scan" /\ Len(turns) < Len(resume) /\ resume[Len(turns) + 1].content # "long"
          /\ turns' = Append(turns, resume[Len(turns) + 1])
      BY <2>2 DEF ScanTurn, gatewayVars
    <3>2. ReadInv'
      <4>1. Len(turns) \in Nat /\ Len(resume) \in Nat /\ Len(turns') = Len(turns) + 1
        BY <2>0, <3>1 DEF TypeOK
      <4>2. \A k \in 1..Len(turns) : turns'[k] = turns[k]
        BY <2>0, <3>1 DEF TypeOK
      <4>3. turns'[Len(turns) + 1] = resume[Len(turns) + 1]
        BY <2>0, <3>1 DEF TypeOK
      <4>4. ASSUME NEW k \in 1..Len(turns') PROVE turns'[k] = resume[k] /\ resume[k].content # "long"
        <5>1. CASE k = Len(turns) + 1
          BY <3>1, <4>3, <5>1
        <5>2. CASE k # Len(turns) + 1
          BY <2>0, <4>1, <4>2, <5>2 DEF ReadInv
        <5>. QED
          BY <5>1, <5>2
      <4>. QED
        BY <2>0, <3>1, <4>1, <4>4 DEF ReadInv, HistoryWhole
    <3>3. ConvInv'
      BY <2>0, <3>1 DEF ConvInv, EngagedMeansStrict
    <3>4. RoundInv'
      BY <2>0, <3>1 DEF RoundInv
    <3>. QED
      BY <3>2, <3>3, <3>4
  <2>3. CASE ScanFails
    <3>1. /\ UNCHANGED <<resume, turns, history, gateway, engaged, conv, stripped, wireReq, bad, trouble, refused>>
          /\ pc = "scan" /\ pc' = "ready"
      BY <2>3 DEF ScanFails, gatewayVars
    <3>2. ReadInv'
      BY <2>r, <3>1
    <3>3. ConvInv'
      BY <2>0, <3>1 DEF ConvInv, EngagedMeansStrict
    <3>4. RoundInv'
      BY <2>0, <3>1 DEF RoundInv
    <3>. QED
      BY <3>2, <3>3, <3>4
  <2>4. CASE ScanEnds
    <3>1. /\ UNCHANGED <<resume, turns, gateway, engaged, conv, stripped, wireReq, bad, trouble, refused>>
          /\ pc = "scan" /\ pc' = "ready" /\ Len(turns) = Len(resume)
          /\ history' = SeedHistory(turns)
      BY <2>4 DEF ScanEnds, gatewayVars
    <3>2. turns = resume
      <4>1. turns \in Seq(Turns) /\ resume \in Seq(Turns)
        BY <2>0 DEF TypeOK
      <4>2. \A k \in 1..Len(turns) : turns[k] = resume[k]
        BY <2>0 DEF ReadInv
      <4>. QED
        BY <3>1, <4>1, <4>2
    <3>3. ReadInv'
      BY <2>0, <3>1, <3>2 DEF ReadInv, HistoryWhole
    <3>4. ~HasReasoningDetails(history')
      BY <2>0, <3>1, SeedType DEF TypeOK
    <3>5. ConvInv'
      BY <2>0, <3>1, <3>4 DEF ConvInv, EngagedMeansStrict
    <3>6. RoundInv'
      BY <2>0, <3>1 DEF RoundInv
    <3>. QED
      BY <3>3, <3>5, <3>6
  <2>5. CASE StartEpoch
    <3>1. /\ UNCHANGED <<resume, turns, history, gateway, engaged>>
          /\ pc = "ready" /\ pc' = "round"
          /\ conv' = Append(history, Message("user", FALSE))
          /\ ~stripped' /\ refused' = 0 /\ (bad' => trouble')
      BY <2>5 DEF StartEpoch, NewRound
    <3>2. /\ HasUser(conv') /\ ~HasReasoningDetails(conv')
      BY <2>0, <3>1, MessageType, AppendDetails, AppendUser DEF TypeOK, ConvInv
    <3>3. ConvInv'
      BY <2>0, <3>1, <3>2 DEF ConvInv, EngagedMeansStrict
    <3>4. pc' = "round" /\ ~stripped' /\ refused' = 0 /\ (bad' => trouble')
      BY <3>1
    <3>5. RoundInv'
      BY <3>4 DEF RoundInv
    <3>. QED
      BY <2>r, <3>1, <3>3, <3>5
  <2>6. CASE UserSpeaks
    <3>1. /\ UNCHANGED <<resume, turns, history, gateway, engaged>>
          /\ pc = "idle" /\ pc' = "round"
          /\ conv' = Append(conv, Message("user", FALSE))
          /\ ~stripped' /\ refused' = 0 /\ (bad' => trouble')
      BY <2>6 DEF UserSpeaks, NewRound
    <3>2. /\ HasUser(conv') /\ (HasReasoningDetails(conv') => HasReasoningDetails(conv))
          /\ LeadingAssistant(conv') # {} => LeadingAssistant(conv) # {}
      BY <2>0, <3>1, MessageType, AppendDetails, AppendUser DEF TypeOK, ConvInv
    <3>3. ConvInv'
      BY <2>0, <3>1, <3>2 DEF ConvInv, EngagedMeansStrict
    <3>4. pc' = "round" /\ ~stripped' /\ refused' = 0 /\ (bad' => trouble')
      BY <3>1
    <3>5. RoundInv'
      BY <3>4 DEF RoundInv
    <3>. QED
      BY <2>r, <3>1, <3>3, <3>5
  <2>7. CASE Send
    <3>1. /\ UNCHANGED <<resume, turns, history, gateway, engaged, conv, stripped, bad, trouble, refused>>
          /\ pc = "round" /\ pc' = "call"
          /\ wireReq' = IF engaged THEN Flipped(Request) ELSE Request
      BY <2>7 DEF Send, gatewayVars
    <3>2. RoundInv'
      BY <2>0, <2>q, <3>1 DEF RoundInv
    <3>. QED
      BY <2>r, <2>c, <3>1, <3>2
  <2>8. CASE Resend
    <3>1. /\ UNCHANGED <<resume, turns, history, gateway, engaged, conv, stripped, bad, trouble>>
          /\ pc = "call" /\ pc' = "resend" /\ Rejected /\ Flippable
          /\ wireReq' = Flipped(Request) /\ refused' = refused + 1
      BY <2>8 DEF Resend, gatewayVars
    <3>2. ~HasReasoningDetails(Request)
      BY <3>1 DEF Flippable
    <3>3. RoundInv'
      BY <2>0, <2>q, <3>1, <3>2, CallRejected DEF RoundInv
    <3>. QED
      BY <2>r, <2>c, <3>1, <3>3
  <2>9. CASE Reply
    <3>1. PICK d \in BOOLEAN : conv' = Append(conv, Message("assistant", d))
      BY <2>9 DEF Reply
    <3>2. /\ UNCHANGED <<resume, turns, history, gateway>> /\ Answers
          /\ pc' = "idle" /\ ~stripped' /\ refused' = 0 /\ ~bad'
          /\ pc \in {"call", "resend"}
      BY <2>9 DEF Reply, Answers, RoundOver
    <3>3. HasUser(conv') /\ (LeadingAssistant(conv') # {} => LeadingAssistant(conv) # {})
      BY <2>0, <3>1, <3>2, MessageType, AppendUser DEF TypeOK, ConvInv
    <3>4. ConvInv'
      BY <2>0, <3>2, <3>3, AnswersEngaged DEF ConvInv, EngagedMeansStrict
    <3>5. RoundInv'
      BY <3>2 DEF RoundInv
    <3>. QED
      BY <2>r, <3>2, <3>4, <3>5
  <2>10. CASE ToolCall
    <3>1. PICK d \in BOOLEAN :
            conv' = Append(Append(conv, Message("assistant", d)), Message("tool", FALSE))
      BY <2>10 DEF ToolCall
    <3>2. /\ UNCHANGED <<resume, turns, history, gateway>> /\ Answers
          /\ pc' = "round" /\ ~stripped' /\ refused' = 0 /\ (bad' => trouble')
          /\ pc \in {"call", "resend"}
      BY <2>10 DEF ToolCall, Answers, NewRound
    <3>. DEFINE half == Append(conv, Message("assistant", d))
    <3>3. half \in Seq(Messages) /\ HasUser(half) /\ (LeadingAssistant(half) # {} => LeadingAssistant(conv) # {})
      BY <2>0, <3>2, MessageType, AppendType, AppendUser DEF TypeOK, ConvInv
    <3>. HIDE DEF half
    <3>4. conv' = Append(half, Message("tool", FALSE))
      BY <3>1 DEF half
    <3>5. HasUser(conv') /\ (LeadingAssistant(conv') # {} => LeadingAssistant(conv) # {})
      BY <3>3, <3>4, MessageType, AppendUser
    <3>6. ConvInv'
      BY <2>0, <3>2, <3>5, AnswersEngaged DEF ConvInv, EngagedMeansStrict
    <3>7. RoundInv'
      BY <3>2 DEF RoundInv
    <3>. QED
      BY <2>r, <3>2, <3>6, <3>7
  <2>11. CASE ReturnRejection
    <3>1. /\ UNCHANGED <<resume, turns, history, gateway, engaged, conv, stripped, wireReq, bad, trouble>>
          /\ pc' = "failed" /\ refused' = refused + 1 /\ Rejected
          /\ (pc = "call" /\ ~Flippable) \/ pc = "resend"
      BY <2>11 DEF ReturnRejection, gatewayVars
    <3>2. RoundInv'
      <4>1. CASE pc = "call"
        BY <2>0, <3>1, <4>1, CallRejected DEF RoundInv
      <4>2. CASE pc = "resend"
        BY <2>0, <3>1, <4>2, ResendRejected DEF RoundInv
      <4>. QED
        BY <3>1, <4>1, <4>2
    <3>. QED
      BY <2>r, <2>c, <3>1, <3>2
  <2>12. CASE ReturnError
    <3>1. /\ UNCHANGED <<resume, turns, history, gateway, engaged, conv, stripped, bad, refused>>
          /\ pc \in {"call", "resend"} /\ pc' = "failed" /\ trouble' = TRUE /\ wireReq' = <<>>
      BY <2>12 DEF ReturnError, gatewayVars
    <3>2. RoundInv'
      BY <2>0, <3>1, NoDetails DEF RoundInv
    <3>. QED
      BY <2>r, <2>c, <3>1, <3>2
  <2>13. CASE DropReplay
    <3>1. /\ UNCHANGED <<resume, turns, history, gateway, engaged, conv, wireReq, bad, trouble, refused>>
          /\ pc = "failed" /\ pc' = "round" /\ stripped' = TRUE /\ HasReasoningDetails(wireReq)
      BY <2>13 DEF DropReplay, gatewayVars
    <3>2. RoundInv'
      BY <2>0, <3>1 DEF RoundInv
    <3>. QED
      BY <2>r, <2>c, <3>1, <3>2
  <2>14. CASE GiveUp
    <3>1. /\ UNCHANGED <<resume, turns, history, gateway, engaged, conv>>
          /\ pc = "failed" /\ pc' = "idle" /\ ~stripped' /\ refused' = 0 /\ ~bad'
      BY <2>14 DEF GiveUp, RoundOver
    <3>2. RoundInv'
      BY <3>1 DEF RoundInv
    <3>. QED
      BY <2>r, <2>c, <3>1, <3>2
  <2>15. CASE UNCHANGED chatVars
    BY <2>0, <2>15, <2>q DEF chatVars, ReadInv, HistoryWhole, ConvInv, EngagedMeansStrict, RoundInv
  <2>16. CASE UNCHANGED vars
    BY <2>0, <2>16, <2>q DEF vars, ReadInv, HistoryWhole, ConvInv, EngagedMeansStrict, RoundInv
  <2>. QED
    BY <2>1, <2>2, <2>3, <2>4, <2>5, <2>6, <2>7, <2>8, <2>9, <2>10, <2>11, <2>12, <2>13, <2>14,
       <2>15, <2>16 DEF Next, ChatStep, LoadResume
<1>. QED
  BY <1>1, <1>2, TypeCorrect, PTL DEF Spec

-----------------------------------------------------------------------------
(* The properties.                                                         *)

(***************************************************************************)
(* A resumed session opens with the whole transcript or with none of it    *)
(* (LoadResume), whatever the transcript and wherever its reading fails.   *)
(***************************************************************************)
THEOREM HistoryWholeCorrect == Spec => []HistoryWhole
<1>1. Inv => HistoryWhole
  BY DEF Inv, ReadInv
<1>. QED
  BY <1>1, InvCorrect, PTL

(***************************************************************************)
(* The user sees an error only if the gateway has failed or would not have *)
(* the request in any form (roleOrderFallback.send and the harness's own   *)
(* resend without reasoning details, together).                            *)
(***************************************************************************)
THEOREM ErrorHasCauseCorrect == Spec => []ErrorHasCause
<1>1. Inv => ErrorHasCause
  BY DEF Inv, RoundInv, ErrorHasCause
<1>. QED
  BY <1>1, InvCorrect, PTL

(***************************************************************************)
(* Requests are flipped for good only for a gateway that wants a user turn *)
(* first (roleOrderFallback.send).                                         *)
(***************************************************************************)
THEOREM EngagedMeansStrictCorrect == Spec => []EngagedMeansStrict
<1>1. Inv => EngagedMeansStrict
  BY DEF Inv, ConvInv
<1>. QED
  BY <1>1, InvCorrect, PTL

(***************************************************************************)
(* The shape of a request costs one rejected request a round at the most   *)
(* (roleOrderFallback.send and the harness's own resend, together).        *)
(***************************************************************************)
THEOREM OneRejectionPerRoundCorrect == Spec => []OneRejectionPerRound
<1>1. Inv => OneRejectionPerRound
  BY DEF Inv, RoundInv, OneRejectionPerRound
<1>. QED
  BY <1>1, InvCorrect, PTL

=============================================================================
