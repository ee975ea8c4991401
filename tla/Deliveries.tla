----------------------------- MODULE Deliveries -----------------------------
(***************************************************************************)
(* What POST /message promises of a message id, whatever its requests, the *)
(* locks they take and the runs they write to do: an id is taken up at     *)
(* most once per record of it in the dedup cache, and what has been taken  *)
(* up is then written once or withdrawn, record and all.  There are no     *)
(* locks, runs or containers here.  MessageDelivery implements it.         *)
(***************************************************************************)
EXTENDS Naturals, FiniteSets, FiniteSetTheorems, TLAPS

CONSTANTS
  Senders,  \* requests
  MsgIDs    \* message ids

VARIABLES
  recorded,  \* ids the cache has a record of
  expired,   \* id -> records of it that have expired
  ahead,     \* id -> requests that have taken it up and not yet decided its fate
  sent       \* id -> frames of it written

promiseVars == <<recorded, expired, ahead, sent>>

Init ==
  /\ recorded = {}
  /\ expired = [x \in MsgIDs |-> 0]
  /\ ahead = [x \in MsgIDs |-> {}]
  /\ sent = [x \in MsgIDs |-> 0]

\* A record that is there has to expire first.
TakeUp(p, x) ==
  /\ p \notin ahead[x]
  /\ expired' = IF x \in recorded THEN [expired EXCEPT ![x] = @ + 1] ELSE expired
  /\ recorded' = recorded \cup {x}
  /\ ahead' = [ahead EXCEPT ![x] = @ \cup {p}]
  /\ UNCHANGED sent

Decide(p, x) == p \in ahead[x] /\ ahead' = [ahead EXCEPT ![x] = @ \ {p}]

Deliver(p, x) ==
  /\ Decide(p, x)
  /\ sent' = [sent EXCEPT ![x] = @ + 1]
  /\ UNCHANGED <<recorded, expired>>

\* It may be another request's record that is withdrawn.
Withdraw(p, x) ==
  /\ Decide(p, x)
  /\ recorded' = recorded \ {x}
  /\ UNCHANGED <<expired, sent>>

Next ==
  \E p \in Senders : \E x \in MsgIDs : TakeUp(p, x) \/ Deliver(p, x) \/ Withdraw(p, x)

Spec == Init /\ [][Next]_promiseVars

-----------------------------------------------------------------------------
TypeOK ==
  /\ recorded \subseteq MsgIDs
  /\ expired \in [MsgIDs -> Nat]
  /\ ahead \in [MsgIDs -> SUBSET Senders]
  /\ sent \in [MsgIDs -> Nat]

\* An id is written once, and once more for each of its expired records.
AtMostOnce == \A x \in MsgIDs : sent[x] <= 1 + expired[x]

\* A recorded id has been written, or a request has yet to decide its fate.
Backed == \A x \in recorded : sent[x] > 0 \/ ahead[x] # {}

(***************************************************************************)
(* Each write of an id, done or ahead, is paid for by an expired record or *)
(* by the one that is in the cache.  When a withdrawal takes a record that *)
(* another request has made, it is that request's write which is unpaid,   *)
(* but for the one that has just been given up.                            *)
(***************************************************************************)
Paid(x) ==
  sent[x] + Cardinality(ahead[x]) <= expired[x] + (IF x \in recorded THEN 1 ELSE 0)
Budget == \A x \in MsgIDs : Paid(x)

Inv == TypeOK /\ Backed /\ Budget

LEMMA AheadFinite ==
  ASSUME IsFiniteSet(Senders), TypeOK
  PROVE  \A x \in MsgIDs : IsFiniteSet(ahead[x]) /\ Cardinality(ahead[x]) \in Nat
BY FS_Subset, FS_CardinalityType DEF TypeOK

(***************************************************************************)
(* Every write is accounted for, and every record backed, for any finite   *)
(* set of requests.                                                        *)
(***************************************************************************)
THEOREM InvCorrect ==
  ASSUME IsFiniteSet(Senders)
  PROVE  Spec => []Inv
<1>1. Init => Inv
  <2>. SUFFICES ASSUME Init PROVE Inv
    OBVIOUS
  <2>1. TypeOK /\ Backed
    BY DEF Init, TypeOK, Backed
  <2>2. \A x \in MsgIDs : Cardinality(ahead[x]) = 0
    BY FS_EmptySet DEF Init
  <2>3. Budget
    BY <2>2 DEF Init, Budget, Paid
  <2>. QED
    BY <2>1, <2>3 DEF Inv
<1>2. Inv /\ [Next]_promiseVars => Inv'
  <2>. SUFFICES ASSUME Inv, [Next]_promiseVars PROVE Inv'
    OBVIOUS
  <2>. USE DEF Inv
  <2>1. CASE UNCHANGED promiseVars
    BY <2>1 DEF promiseVars, TypeOK, Backed, Budget, Paid
  <2>2. ASSUME NEW p \in Senders, NEW x \in MsgIDs,
               TakeUp(p, x) \/ Deliver(p, x) \/ Withdraw(p, x)
        PROVE  Inv'
    <3>. DEFINE A == ahead[x]
    <3>1. IsFiniteSet(A) /\ Cardinality(A) \in Nat
      BY AheadFinite
    <3>2. /\ sent[x] \in Nat /\ expired[x] \in Nat
          /\ sent[x] + Cardinality(A) <= expired[x] + (IF x \in recorded THEN 1 ELSE 0)
      BY DEF TypeOK, Budget, Paid
    <3>3. TypeOK'
      <4>1. CASE TakeUp(p, x)
        BY <4>1 DEF TakeUp, TypeOK
      <4>2. CASE Deliver(p, x)
        BY <4>2 DEF Deliver, Decide, TypeOK
      <4>3. CASE Withdraw(p, x)
        BY <4>3 DEF Withdraw, Decide, TypeOK
      <4>. QED
        BY <2>2, <4>1, <4>2, <4>3
    <3>4. Backed'
      BY <2>2 DEF TypeOK, Backed, TakeUp, Deliver, Withdraw, Decide
    <3>5. Paid(x)'
      <4>1. CASE TakeUp(p, x)
        <5>1. Cardinality(A') = Cardinality(A) + 1
          BY <4>1, <3>1, FS_AddElement DEF TakeUp, TypeOK
        <5>2. /\ sent'[x] = sent[x] /\ x \in recorded'
              /\ expired'[x] = expired[x] + (IF x \in recorded THEN 1 ELSE 0)
          BY <4>1 DEF TakeUp, TypeOK
        <5>3. sent'[x] + Cardinality(A') <= expired'[x] + 1
          BY <5>1, <5>2, <3>1, <3>2
        <5>. QED
          BY <5>2, <5>3 DEF Paid
      <4>2. CASE Deliver(p, x)
        <5>1. Cardinality(A') = Cardinality(A) - 1
          BY <4>2, <3>1, FS_RemoveElement DEF Deliver, Decide, TypeOK
        <5>2. sent'[x] = sent[x] + 1 /\ expired' = expired /\ recorded' = recorded
          BY <4>2 DEF Deliver, TypeOK
        <5>3. sent'[x] + Cardinality(A') <= expired'[x] + (IF x \in recorded' THEN 1 ELSE 0)
          BY <5>1, <5>2, <3>1, <3>2
        <5>. QED
          BY <5>3 DEF Paid
      <4>3. CASE Withdraw(p, x)
        <5>1. Cardinality(A') = Cardinality(A) - 1
          BY <4>3, <3>1, FS_RemoveElement DEF Withdraw, Decide, TypeOK
        <5>2. sent' = sent /\ expired' = expired /\ x \notin recorded'
          BY <4>3 DEF Withdraw
        <5>3. sent'[x] + Cardinality(A') <= expired'[x]
          BY <5>1, <5>2, <3>1, <3>2
        <5>. QED
          BY <5>2, <5>3, <3>1, <3>2 DEF Paid
      <4>. QED
        BY <2>2, <4>1, <4>2, <4>3
    <3>6. ASSUME NEW y \in MsgIDs, y # x PROVE Paid(y)'
      <4>1. /\ ahead'[y] = ahead[y] /\ sent'[y] = sent[y] /\ expired'[y] = expired[y]
            /\ y \in recorded' <=> y \in recorded
        BY <2>2, <3>6 DEF TypeOK, TakeUp, Deliver, Withdraw, Decide
      <4>. QED
        BY <4>1 DEF Budget, Paid
    <3>. QED
      BY <3>3, <3>4, <3>5, <3>6 DEF Budget
  <2>. QED
    BY <2>1, <2>2 DEF Next
<1>. QED
  BY <1>1, <1>2, PTL DEF Spec

(***************************************************************************)
(* A message id is written once, and once more for each expired record.    *)
(***************************************************************************)
THEOREM AtMostOnceCorrect ==
  ASSUME IsFiniteSet(Senders)
  PROVE  Spec => []AtMostOnce
<1>1. Inv => AtMostOnce
  <2>. SUFFICES ASSUME Inv, NEW x \in MsgIDs PROVE sent[x] <= 1 + expired[x]
    BY DEF AtMostOnce
  <2>1. Cardinality(ahead[x]) \in Nat /\ sent[x] \in Nat /\ expired[x] \in Nat
    BY AheadFinite DEF Inv, TypeOK
  <2>2. sent[x] + Cardinality(ahead[x]) <= expired[x] + (IF x \in recorded THEN 1 ELSE 0)
    BY DEF Inv, Budget, Paid
  <2>. QED
    BY <2>1, <2>2
<1>. QED
  BY <1>1, InvCorrect, PTL

=============================================================================
