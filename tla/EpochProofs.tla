---------------------------- MODULE EpochProofs -----------------------------
(***************************************************************************)
(* Proofs about EpochLoop, for any number of messages and clears.          *)
(***************************************************************************)
EXTENDS EpochLoop, TLAPS

-----------------------------------------------------------------------------
(* The invariant.                                                          *)

One(b) == IF b THEN 1 ELSE 0

\* No epoch without a clear of its own: each is started by a signal, and a
\* clear sends one at the most.
CountInv ==
  /\ epoch + One(clearCh # 0) + One(killedBy # 0) + One(pump = "notify") <= clears + 1
  /\ watcher = "waiting" => killedBy = 0 /\ ~cleared
  /\ watcher = "got" => killedBy # 0
  /\ cleared => killedBy # 0
  /\ loop \in {"release", "drain"} => killedBy # 0

\* Where the harness and the pump are once they have seen the end.
PlaceInv ==
  /\ loop # "run" => harness \in {"closed", "failed"}
  /\ closed => pump \in {"ping", "end"}
  /\ harness = "closed" /\ loop # "drain" => closed /\ (held \/ pending = <<>>)

\* taken, then pending, then what is still unread: in order, and what is queued
\* was read after the last clear.
QueueInv ==
  /\ \A m \in 1..read : gen[m] <= clears
  /\ \A k \in 1..Len(pending) : pending[k] \in 1..read /\ gen[pending[k]] = clears
  /\ \A j, k \in 1..Len(pending) : j < k => pending[j] < pending[k]
  /\ \A k \in 1..Len(taken) : taken[k][1] \in 1..read /\ taken[k][2] <= epoch
  /\ \A j \in 1..Len(taken), k \in 1..Len(pending) : taken[j][1] < pending[k]

\* A message that no clear has come after is queued or taken.
NotLost ==
  \A m \in 1..read : gen[m] = clears =>
    \/ \E k \in 1..Len(pending) : pending[k] = m
    \/ \E k \in 1..Len(taken) : taken[k][1] = m

\* The messages of the present epoch lie between the clear it follows and,
\* once that has been read, the one that ends it.
GenInv ==
  /\ born <= clears
  /\ loop = "run" => \A k \in 1..Len(taken) : taken[k][2] = epoch => gen[taken[k][1]] >= born
  /\ held => \A k \in 1..Len(taken) : taken[k][2] = epoch => gen[taken[k][1]] < clears

\* Unless clears have come in too fast, there is one under way at the most.
SignalInv ==
  ~hurried =>
    /\ pump = "notify" => clearCh = 0 /\ killedBy = 0 /\ held
    /\ clearCh # 0 => clearCh = clears /\ killedBy = 0 /\ held
    /\ killedBy # 0 =>
         /\ killedBy = clears /\ (held \/ loop \in {"drain", "exit"})
         /\ \A k \in 1..Len(taken) : taken[k][2] = epoch => gen[taken[k][1]] < killedBy

Inv == TypeOK /\ CountInv /\ PlaceInv /\ QueueInv /\ InOrder /\ NotLost /\ GenInv /\ SignalInv

LEMMA AsSequence ==
  ASSUME NEW n \in Nat, NEW S, NEW f \in [1..n -> S]
  PROVE  f \in Seq(S) /\ Len(f) = n
OBVIOUS

-----------------------------------------------------------------------------
(* Which steps concern which part of it.                                   *)

LEMMA QueueSteps ==
  ASSUME [Next]_vars
  PROVE  \/ PumpMessage \/ PumpClear \/ HarnessDrain \/ WaitTakes \/ LoopReleases \/ NextEpoch
         \/ UNCHANGED <<pending, held, read, clears, gen, taken, epoch, born>> /\ (loop' = "run" => loop = "run")
BY DEF Next, HarnessStep, LoopStep, PumpEOF, PumpPing, PumpNotify, WatcherTakes, WatcherCancels,
       WatcherLeaves, TurnEnds, WaitFindsClosed, WaitParks, WaitWakes, RunFails, RunCancels,
       RunLoads, CloseInbox, Ping, inboxVars, pumpVars, watchVars, loopVars, vars

-----------------------------------------------------------------------------
(* Types, and the number of epochs.                                        *)

LEMMA TypeStep ==
  ASSUME TypeOK, CountInv, PlaceInv, [Next]_vars
  PROVE  TypeOK'
<1>. USE BoundsAssumption DEF TypeOK, Msgs, Clears, Epochs, inboxVars, pumpVars, watchVars, loopVars
<1>1. CASE PumpMessage
  <2>1. pending' \in Seq(1..MaxMsgs) /\ gen' \in [1..MaxMsgs -> 0..MaxClears] /\ read' \in 0..MaxMsgs
    BY <1>1 DEF PumpMessage, Push
  <2>. QED
    BY <1>1, <2>1 DEF PumpMessage, Push
<1>2. CASE PumpEOF
  BY <1>2 DEF PumpEOF, CloseInbox
<1>3. CASE PumpPing
  BY <1>3 DEF PumpPing, Ping
<1>4. CASE PumpClear
  <2>1. pending' \in Seq(1..MaxMsgs) /\ clears' \in 0..MaxClears
    BY <1>4 DEF PumpClear, OnClear
  <2>2. hurried' \in BOOLEAN
    BY <1>4 DEF PumpClear
  <2>. QED
    BY <1>4, <2>1, <2>2 DEF PumpClear, OnClear
<1>5. CASE PumpNotify
  BY <1>5 DEF PumpNotify
<1>6. CASE WatcherTakes
  BY <1>6 DEF WatcherTakes
<1>7. CASE WatcherCancels
  BY <1>7 DEF WatcherCancels
<1>8. CASE WatcherLeaves
  BY <1>8 DEF WatcherLeaves
<1>9. CASE HarnessDrain
  <2>1. taken' \in Seq((1..MaxMsgs) \X (1..(MaxClears + 1)))
    <3>1. [k \in 1..Len(pending) |-> <<pending[k], epoch>>] \in Seq((1..MaxMsgs) \X (1..(MaxClears + 1)))
      <4>1. \A k \in 1..Len(pending) : <<pending[k], epoch>> \in (1..MaxMsgs) \X (1..(MaxClears + 1))
        OBVIOUS
      <4>2. [k \in 1..Len(pending) |-> <<pending[k], epoch>>]
              \in [1..Len(pending) -> (1..MaxMsgs) \X (1..(MaxClears + 1))]
        BY <4>1
      <4>. QED
        BY <4>2, AsSequence
    <3>. QED
      BY <1>9, <3>1 DEF HarnessDrain
  <2>2. pending' \in Seq(1..MaxMsgs)
    BY <1>9 DEF HarnessDrain, TakeAll
  <2>. QED
    BY <1>9, <2>1, <2>2 DEF HarnessDrain, TakeAll
<1>10. CASE TurnEnds
  BY <1>10 DEF TurnEnds
<1>11. CASE WaitTakes
  <2>1. Head(pending) \in 1..MaxMsgs /\ pending' \in Seq(1..MaxMsgs)
    BY <1>11 DEF WaitTakes, TakeFirst, Deliverable
  <2>2. taken' \in Seq((1..MaxMsgs) \X (1..(MaxClears + 1)))
    BY <1>11, <2>1 DEF WaitTakes
  <2>. QED
    BY <1>11, <2>1, <2>2 DEF WaitTakes, TakeFirst
<1>12. CASE WaitFindsClosed
  BY <1>12 DEF WaitFindsClosed, Deliverable
<1>13. CASE WaitParks
  BY <1>13 DEF WaitParks
<1>14. CASE WaitWakes
  BY <1>14 DEF WaitWakes
<1>15. CASE RunFails
  BY <1>15 DEF RunFails
<1>16. CASE RunCancels
  BY <1>16 DEF RunCancels
<1>17. CASE RunLoads
  BY <1>17 DEF RunLoads
<1>18. CASE LoopReleases
  BY <1>18 DEF LoopReleases, ReleaseClear, ReleaseReportsClosed
<1>19. CASE NextEpoch
  <2>1. epoch' \in 1..(MaxClears + 1)
    BY <1>19 DEF NextEpoch, CountInv, One
  <2>2. clearCh' \in 0..MaxClears /\ killedBy' \in 0..MaxClears
    BY <1>19 DEF NextEpoch
  <2>3. loop' \in {"run", "load", "release", "drain", "exit"} /\ watcher' \in {"waiting", "got", "done"}
        /\ harness' \in {"work", "wait", "parked", "closed", "failed"}
    BY <1>19 DEF NextEpoch
  <2>4. cleared' \in BOOLEAN /\ ctxDone' \in BOOLEAN
    BY <1>19 DEF NextEpoch
  <2>. QED
    BY <1>19, <2>1, <2>2, <2>3, <2>4 DEF NextEpoch
<1>20. CASE UNCHANGED vars
  BY <1>20 DEF vars
<1>. QED
  BY <1>1, <1>2, <1>3, <1>4, <1>5, <1>6, <1>7, <1>8, <1>9, <1>10, <1>11, <1>12, <1>13, <1>14, <1>15, <1>16, <1>17, <1>18, <1>19, <1>20
     DEF Next, HarnessStep, LoopStep

LEMMA CountStep ==
  ASSUME TypeOK, CountInv, TypeOK', [Next]_vars
  PROVE  CountInv'
<1>. USE BoundsAssumption DEF TypeOK, Clears, Epochs, One, CountInv, inboxVars, pumpVars, watchVars, loopVars
<1>1. CASE PumpMessage
  BY <1>1 DEF PumpMessage, Push
<1>2. CASE PumpEOF
  BY <1>2 DEF PumpEOF, CloseInbox
<1>3. CASE PumpPing
  BY <1>3 DEF PumpPing, Ping
<1>4. CASE PumpClear
  BY <1>4 DEF PumpClear, OnClear
<1>5. CASE PumpNotify
  BY <1>5 DEF PumpNotify
<1>6. CASE WatcherTakes
  BY <1>6 DEF WatcherTakes
<1>7. CASE WatcherCancels
  BY <1>7 DEF WatcherCancels
<1>8. CASE WatcherLeaves
  BY <1>8 DEF WatcherLeaves
<1>9. CASE HarnessDrain
  BY <1>9 DEF HarnessDrain, TakeAll
<1>10. CASE TurnEnds
  BY <1>10 DEF TurnEnds
<1>11. CASE WaitTakes
  BY <1>11 DEF WaitTakes, TakeFirst
<1>12. CASE WaitFindsClosed
  BY <1>12 DEF WaitFindsClosed, Deliverable
<1>13. CASE WaitParks
  BY <1>13 DEF WaitParks
<1>14. CASE WaitWakes
  BY <1>14 DEF WaitWakes
<1>15. CASE RunFails
  BY <1>15 DEF RunFails
<1>16. CASE RunCancels
  BY <1>16 DEF RunCancels
<1>17. CASE RunLoads
  BY <1>17 DEF RunLoads
<1>18. CASE LoopReleases
  BY <1>18 DEF LoopReleases, ReleaseClear, ReleaseReportsClosed
<1>19. CASE NextEpoch
  BY <1>19 DEF NextEpoch
<1>20. CASE UNCHANGED vars
  BY <1>20 DEF vars
<1>. QED
  BY <1>1, <1>2, <1>3, <1>4, <1>5, <1>6, <1>7, <1>8, <1>9, <1>10, <1>11, <1>12, <1>13, <1>14, <1>15, <1>16, <1>17, <1>18, <1>19, <1>20
     DEF Next, HarnessStep, LoopStep

LEMMA PlaceStep ==
  ASSUME TypeOK, CountInv, PlaceInv, TypeOK', [Next]_vars
  PROVE  PlaceInv'
<1>. USE BoundsAssumption DEF TypeOK, Clears, Epochs, One, PlaceInv, inboxVars, pumpVars, watchVars, loopVars
<1>1. CASE PumpMessage
  BY <1>1 DEF PumpMessage, Push
<1>2. CASE PumpEOF
  BY <1>2 DEF PumpEOF, CloseInbox
<1>3. CASE PumpPing
  BY <1>3 DEF PumpPing, Ping
<1>4. CASE PumpClear
  BY <1>4 DEF PumpClear, OnClear
<1>5. CASE PumpNotify
  BY <1>5 DEF PumpNotify
<1>6. CASE WatcherTakes
  BY <1>6 DEF WatcherTakes
<1>7. CASE WatcherCancels
  BY <1>7 DEF WatcherCancels
<1>8. CASE WatcherLeaves
  BY <1>8 DEF WatcherLeaves
<1>9. CASE HarnessDrain
  BY <1>9 DEF HarnessDrain, TakeAll
<1>10. CASE TurnEnds
  BY <1>10 DEF TurnEnds
<1>11. CASE WaitTakes
  BY <1>11 DEF WaitTakes, TakeFirst
<1>12. CASE WaitFindsClosed
  BY <1>12 DEF WaitFindsClosed, Deliverable
<1>13. CASE WaitParks
  BY <1>13 DEF WaitParks
<1>14. CASE WaitWakes
  BY <1>14 DEF WaitWakes
<1>15. CASE RunFails
  BY <1>15 DEF RunFails
<1>16. CASE RunCancels
  BY <1>16 DEF RunCancels
<1>17. CASE RunLoads
  BY <1>17 DEF RunLoads
<1>18. CASE LoopReleases
  BY <1>18 DEF LoopReleases, ReleaseClear, ReleaseReportsClosed
<1>19. CASE NextEpoch
  BY <1>19 DEF NextEpoch
<1>20. CASE UNCHANGED vars
  BY <1>20 DEF vars
<1>. QED
  BY <1>1, <1>2, <1>3, <1>4, <1>5, <1>6, <1>7, <1>8, <1>9, <1>10, <1>11, <1>12, <1>13, <1>14, <1>15, <1>16, <1>17, <1>18, <1>19, <1>20
     DEF Next, HarnessStep, LoopStep

-----------------------------------------------------------------------------
(* Messages.                                                               *)

\* The first n queued messages go to the present epoch.
Delivers(n) ==
  /\ Len(taken') = Len(taken) + n
  /\ \A k \in 1..Len(taken) : taken'[k] = taken[k]
  /\ \A k \in 1..n : taken'[Len(taken) + k] = <<pending[k], epoch>>
  /\ Len(pending') = Len(pending) - n
  /\ \A k \in 1..Len(pending') : pending'[k] = pending[k + n]

LEMMA Concatenation ==
  ASSUME NEW S, NEW a \in Seq(S), NEW b \in Seq(S)
  PROVE  /\ Len(a \o b) = Len(a) + Len(b)
         /\ \A k \in 1..Len(a) : (a \o b)[k] = a[k]
         /\ \A k \in 1..Len(b) : (a \o b)[Len(a) + k] = b[k]
OBVIOUS

LEMMA DeliverySteps ==
  ASSUME TypeOK, PlaceInv, HarnessDrain \/ WaitTakes
  PROVE  /\ \E n \in 1..Len(pending) : Delivers(n)
         /\ ~held /\ loop = "run"
         /\ UNCHANGED <<held, read, clears, gen, epoch, born, loop>>
<1>1. CASE HarnessDrain
  <2>1. /\ ~held /\ loop = "run" /\ pending # <<>> /\ pending' = <<>>
        /\ UNCHANGED <<held, read, clears, gen, epoch, born, loop>>
    BY <1>1 DEF HarnessDrain, TakeAll, Deliverable, pumpVars, loopVars
  <2>. DEFINE more == [k \in 1..Len(pending) |-> <<pending[k], epoch>>]
  <2>2. Len(pending) \in Nat /\ \A k \in 1..Len(pending) : <<pending[k], epoch>> \in Msgs \X Epochs
    <3>1. Len(pending) \in Nat /\ epoch \in Epochs /\ \A k \in 1..Len(pending) : pending[k] \in Msgs
      BY DEF TypeOK
    <3>. QED
      BY <3>1
  <2>3. more \in [1..Len(pending) -> Msgs \X Epochs]
    BY <2>2
  <2>4. taken' = taken \o more /\ \A k \in 1..Len(pending) : more[k] = <<pending[k], epoch>>
    BY <1>1 DEF HarnessDrain
  <2>. HIDE DEF more
  <2>m. more \in Seq(Msgs \X Epochs) /\ Len(more) = Len(pending)
    BY <2>2, <2>3, AsSequence
  <2>n. taken \in Seq(Msgs \X Epochs)
    BY DEF TypeOK
  <2>. DEFINE Pairs == Msgs \X Epochs
  <2>p. taken \in Seq(Pairs) /\ more \in Seq(Pairs)
    BY <2>m, <2>n
  <2>. HIDE DEF Pairs
  <2>5. /\ Len(taken') = Len(taken) + Len(pending)
        /\ \A k \in 1..Len(taken) : taken'[k] = taken[k]
        /\ \A k \in 1..Len(pending) : taken'[Len(taken) + k] = more[k]
    <3>1. /\ Len(taken \o more) = Len(taken) + Len(more)
          /\ \A k \in 1..Len(taken) : (taken \o more)[k] = taken[k]
          /\ \A k \in 1..Len(more) : (taken \o more)[Len(taken) + k] = more[k]
      BY <2>p, Concatenation
    <3>. QED
      BY <2>4, <2>m, <3>1
  <2>6. Len(pending) \in Nat \ {0} /\ Len(pending') = 0
    BY <2>1 DEF TypeOK
  <2>7. Delivers(Len(pending))
    BY <2>4, <2>5, <2>6 DEF Delivers
  <2>. QED
    BY <2>1, <2>6, <2>7
<1>2. CASE WaitTakes
  <2>1. /\ ~held /\ harness = "wait" /\ pending # <<>> /\ pending' = Tail(pending)
        /\ UNCHANGED <<held, read, clears, gen, epoch, born, loop>>
        /\ taken' = Append(taken, <<Head(pending), epoch>>)
    BY <1>2 DEF WaitTakes, TakeFirst, Deliverable, pumpVars, loopVars
  <2>2. loop = "run"
    BY <2>1 DEF PlaceInv
  <2>3. Len(pending) \in Nat \ {0} /\ Head(pending) = pending[1]
    BY <2>1 DEF TypeOK
  <2>4. Len(pending') = Len(pending) - 1 /\ \A k \in 1..Len(pending') : pending'[k] = pending[k + 1]
    BY <2>1, <2>3 DEF TypeOK
  <2>5. /\ Len(taken') = Len(taken) + 1
        /\ \A k \in 1..Len(taken) : taken'[k] = taken[k]
        /\ taken'[Len(taken) + 1] = <<pending[1], epoch>>
    BY <2>1, <2>3 DEF TypeOK
  <2>6. Delivers(1)
    BY <2>4, <2>5 DEF Delivers
  <2>. QED
    BY <2>1, <2>2, <2>3, <2>6
<1>. QED
  BY <1>1, <1>2

LEMMA QueueStep ==
  ASSUME Inv, TypeOK', [Next]_vars
  PROVE  QueueInv' /\ InOrder' /\ NotLost' /\ GenInv'
<1>0. /\ Len(pending) \in Nat /\ Len(taken) \in Nat /\ read \in Nat /\ clears \in Nat
      /\ epoch \in Nat /\ born \in Nat /\ Len(pending') \in Nat /\ Len(taken') \in Nat
      /\ \A m \in 1..read : gen[m] \in Nat
  BY BoundsAssumption DEF Inv, TypeOK, Msgs, Clears, Epochs
<1>1. CASE PumpMessage
  <2>1. /\ read' = read + 1 /\ gen' = [gen EXCEPT ![read + 1] = clears] /\ pending' = Append(pending, read + 1)
        /\ read + 1 \in Msgs
        /\ UNCHANGED <<clears, taken, epoch, born, held, loop>>
    BY <1>0, <1>1, BoundsAssumption DEF PumpMessage, Push, loopVars, Msgs
  <2>2. gen'[read + 1] = clears /\ \A m \in 1..read : gen'[m] = gen[m]
    BY <1>0, <2>1, BoundsAssumption DEF Inv, TypeOK, Msgs
  <2>3. /\ Len(pending') = Len(pending) + 1 /\ pending'[Len(pending) + 1] = read + 1
        /\ \A k \in 1..Len(pending) : pending'[k] = pending[k]
    BY <2>1 DEF Inv, TypeOK
  <2>4. QueueInv'
    BY <1>0, <2>1, <2>2, <2>3 DEF Inv, QueueInv
  <2>5. InOrder'
    BY <2>1 DEF Inv, InOrder
  <2>6. NotLost'
    <3>. SUFFICES ASSUME NEW m \in 1..(read + 1), gen'[m] = clears
                  PROVE  \/ \E k \in 1..Len(pending') : pending'[k] = m
                         \/ \E k \in 1..Len(taken) : taken[k][1] = m
      BY <2>1 DEF NotLost
    <3>1. CASE m = read + 1
      BY <1>0, <2>3, <3>1
    <3>2. CASE m \in 1..read
      <4>1. gen[m] = clears
        BY <2>2, <3>2
      <4>2. CASE \E k \in 1..Len(taken) : taken[k][1] = m
        BY <4>2
      <4>3. CASE \E k \in 1..Len(pending) : pending[k] = m
        BY <1>0, <2>3, <4>3
      <4>. QED
        BY <3>2, <4>1, <4>2, <4>3 DEF Inv, NotLost
    <3>. QED
      BY <1>0, <3>1, <3>2
  <2>7. GenInv'
    BY <1>0, <2>1, <2>2 DEF Inv, GenInv, QueueInv
  <2>. QED
    BY <2>4, <2>5, <2>6, <2>7
<1>2. CASE PumpClear
  <2>1. /\ clears' = clears + 1 /\ pending' = <<>> /\ held'
        /\ UNCHANGED <<read, gen, taken, epoch, born, loop>>
    BY <1>2 DEF PumpClear, OnClear, loopVars
  <2>. QED
    BY <1>0, <2>1 DEF Inv, QueueInv, InOrder, NotLost, GenInv
<1>3. CASE HarnessDrain \/ WaitTakes
  <2>1. ~held /\ loop = "run" /\ UNCHANGED <<held, read, clears, gen, epoch, born, loop>>
    BY <1>3, DeliverySteps DEF Inv
  <2>2. PICK n \in 1..Len(pending) : Delivers(n)
    BY <1>3, DeliverySteps DEF Inv
  <2>3. \A k \in 1..Len(taken') : \/ k \in 1..Len(taken) /\ taken'[k] = taken[k]
                                  \/ k - Len(taken) \in 1..n /\ taken'[k] = <<pending[k - Len(taken)], epoch>>
    <3>. SUFFICES ASSUME NEW k \in 1..Len(taken'), k \notin 1..Len(taken)
                  PROVE  k - Len(taken) \in 1..n /\ taken'[k] = <<pending[k - Len(taken)], epoch>>
      BY <2>2 DEF Delivers
    <3>1. k - Len(taken) \in 1..n /\ Len(taken) + (k - Len(taken)) = k
      BY <1>0, <2>2 DEF Delivers
    <3>. QED
      BY <2>2, <3>1 DEF Delivers
  <2>4. \A k \in 1..Len(pending') : k + n \in 1..Len(pending) /\ pending'[k] = pending[k + n]
    BY <1>0, <2>2 DEF Delivers
  <2>5. QueueInv'
    <3>1. ASSUME NEW k \in 1..Len(taken') PROVE taken'[k][1] \in 1..read /\ taken'[k][2] <= epoch
      <4>1. CASE k \in 1..Len(taken) /\ taken'[k] = taken[k]
        BY <4>1 DEF Inv, QueueInv
      <4>2. CASE k - Len(taken) \in 1..n /\ taken'[k] = <<pending[k - Len(taken)], epoch>>
        <5>1. k - Len(taken) \in 1..Len(pending)
          BY <1>0, <2>2, <4>2
        <5>. QED
          BY <1>0, <4>2, <5>1 DEF Inv, QueueInv
      <4>. QED
        BY <2>3, <4>1, <4>2
    <3>2. \A k \in 1..Len(pending') : pending'[k] \in 1..read /\ gen[pending'[k]] = clears
      BY <1>0, <2>4 DEF Inv, QueueInv
    <3>3. \A j, k \in 1..Len(pending') : j < k => pending'[j] < pending'[k]
      BY <1>0, <2>4 DEF Inv, QueueInv
    <3>4. ASSUME NEW j \in 1..Len(taken'), NEW k \in 1..Len(pending') PROVE taken'[j][1] < pending'[k]
      <4>1. k + n \in 1..Len(pending) /\ pending'[k] = pending[k + n]
        BY <2>4
      <4>2. CASE j \in 1..Len(taken) /\ taken'[j] = taken[j]
        BY <4>1, <4>2 DEF Inv, QueueInv
      <4>3. CASE j - Len(taken) \in 1..n /\ taken'[j] = <<pending[j - Len(taken)], epoch>>
        <5>1. j - Len(taken) \in 1..Len(pending) /\ j - Len(taken) < k + n
          BY <1>0, <2>2, <4>1, <4>3
        <5>2. pending[j - Len(taken)] < pending[k + n]
          BY <4>1, <5>1 DEF Inv, QueueInv
        <5>. QED
          BY <4>1, <4>3, <5>2
      <4>. QED
        BY <2>3, <4>2, <4>3
    <3>. QED
      BY <2>1, <3>1, <3>2, <3>3, <3>4 DEF Inv, QueueInv
  <2>6. InOrder'
    <3>. SUFFICES ASSUME NEW j \in 1..Len(taken'), NEW k \in 1..Len(taken'), j < k
                  PROVE  taken'[j][1] < taken'[k][1] /\ taken'[j][2] <= taken'[k][2]
      BY DEF InOrder
    <3>1. CASE k \in 1..Len(taken) /\ taken'[k] = taken[k]
      <4>1. j \in 1..Len(taken) /\ taken'[j] = taken[j]
        BY <1>0, <2>3, <3>1
      <4>. QED
        BY <3>1, <4>1 DEF Inv, InOrder
    <3>2. CASE k - Len(taken) \in 1..n /\ taken'[k] = <<pending[k - Len(taken)], epoch>>
      <4>0. k - Len(taken) \in 1..Len(pending)
        BY <1>0, <2>2, <3>2
      <4>1. CASE j \in 1..Len(taken) /\ taken'[j] = taken[j]
        BY <3>2, <4>0, <4>1 DEF Inv, QueueInv
      <4>2. CASE j - Len(taken) \in 1..n /\ taken'[j] = <<pending[j - Len(taken)], epoch>>
        <5>1. j - Len(taken) \in 1..Len(pending) /\ j - Len(taken) < k - Len(taken)
          BY <1>0, <2>2, <4>2
        <5>2. pending[j - Len(taken)] < pending[k - Len(taken)]
          BY <4>0, <5>1 DEF Inv, QueueInv
        <5>. QED
          BY <1>0, <3>2, <4>2, <5>2
      <4>. QED
        BY <2>3, <4>1, <4>2
    <3>. QED
      BY <2>3, <3>1, <3>2
  <2>7. NotLost'
    <3>. SUFFICES ASSUME NEW m \in 1..read, gen[m] = clears
                  PROVE  \/ \E k \in 1..Len(pending') : pending'[k] = m
                         \/ \E k \in 1..Len(taken') : taken'[k][1] = m
      BY <2>1 DEF NotLost
    <3>1. CASE \E k \in 1..Len(taken) : taken[k][1] = m
      BY <1>0, <2>2, <3>1 DEF Delivers
    <3>2. CASE \E k \in 1..Len(pending) : pending[k] = m
      <4>1. PICK k \in 1..Len(pending) : pending[k] = m
        BY <3>2
      <4>2. CASE k \in 1..n
        <5>1. Len(taken) + k \in 1..Len(taken') /\ taken'[Len(taken) + k] = <<m, epoch>>
          BY <1>0, <2>2, <4>1, <4>2 DEF Delivers
        <5>2. taken'[Len(taken) + k][1] = m
          BY <5>1
        <5>. QED
          BY <5>1, <5>2
      <4>3. CASE k \notin 1..n
        <5>1. k - n \in 1..Len(pending') /\ (k - n) + n = k
          BY <1>0, <2>2, <4>3 DEF Delivers
        <5>2. pending'[k - n] = m
          BY <2>4, <4>1, <5>1
        <5>. QED
          BY <5>1, <5>2
      <4>. QED
        BY <4>2, <4>3
    <3>. QED
      BY <3>1, <3>2 DEF Inv, NotLost
  <2>8. GenInv'
    <3>1. \A k \in 1..Len(taken') : taken'[k][2] = epoch => gen[taken'[k][1]] >= born
      <4>. SUFFICES ASSUME NEW k \in 1..Len(taken'), taken'[k][2] = epoch PROVE gen[taken'[k][1]] >= born
        OBVIOUS
      <4>1. CASE k \in 1..Len(taken) /\ taken'[k] = taken[k]
        BY <2>1, <4>1 DEF Inv, GenInv
      <4>2. CASE k - Len(taken) \in 1..n /\ taken'[k] = <<pending[k - Len(taken)], epoch>>
        <5>1. k - Len(taken) \in 1..Len(pending)
          BY <1>0, <2>2, <4>2
        <5>2. gen[pending[k - Len(taken)]] = clears
          BY <5>1 DEF Inv, QueueInv
        <5>. QED
          BY <1>0, <4>2, <5>2 DEF Inv, GenInv
      <4>. QED
        BY <2>3, <4>1, <4>2
    <3>. QED
      BY <2>1, <3>1 DEF Inv, GenInv
  <2>. QED
    BY <2>5, <2>6, <2>7, <2>8
<1>4. CASE LoopReleases
  <2>1. /\ born' = clears /\ loop' # "run" /\ ~held'
        /\ UNCHANGED <<pending, read, clears, gen, taken, epoch>>
    BY <1>4 DEF LoopReleases, ReleaseClear, pumpVars
  <2>. QED
    BY <1>0, <2>1 DEF Inv, QueueInv, InOrder, NotLost, GenInv
<1>5. CASE NextEpoch
  <2>1. epoch' = epoch + 1 /\ UNCHANGED <<pending, held, read, clears, gen, taken, born>>
    BY <1>5 DEF NextEpoch, inboxVars, pumpVars
  <2>2. \A k \in 1..Len(taken) : taken[k][2] # epoch'
    <3>1. \A k \in 1..Len(taken) : taken[k][2] <= epoch /\ taken[k][2] \in Nat
      BY DEF Inv, QueueInv, TypeOK, Epochs
    <3>. QED
      BY <1>0, <2>1, <3>1
  <2>3. QueueInv'
    <3>1. \A k \in 1..Len(taken) : taken[k][2] <= epoch + 1
      <4>1. \A k \in 1..Len(taken) : taken[k][2] <= epoch /\ taken[k][2] \in Nat
        BY DEF Inv, QueueInv, TypeOK, Epochs
      <4>. QED
        BY <1>0, <4>1
    <3>. QED
      BY <2>1, <3>1 DEF Inv, QueueInv
  <2>. QED
    BY <2>1, <2>2, <2>3 DEF Inv, InOrder, NotLost, GenInv
<1>6. CASE /\ UNCHANGED <<pending, held, read, clears, gen, taken, epoch, born>>
           /\ loop' = "run" => loop = "run"
  BY <1>6 DEF Inv, QueueInv, InOrder, NotLost, GenInv
<1>. QED
  BY <1>1, <1>2, <1>3, <1>4, <1>5, <1>6, QueueSteps

-----------------------------------------------------------------------------
(* Clears.                                                                 *)

LEMMA SignalStep ==
  ASSUME Inv, TypeOK', [Next]_vars
  PROVE  SignalInv'
<1>. SUFFICES ASSUME ~hurried' PROVE SignalInv'
  BY DEF SignalInv
<1>0. /\ clears \in Nat /\ epoch \in Nat /\ Len(taken) \in Nat /\ read \in Nat
      /\ \A k \in 1..Len(taken) : taken[k][1] \in 1..read /\ taken[k][2] \in Nat /\ taken[k][2] <= epoch
      /\ \A m \in 1..read : gen[m] \in Nat
  <2>1. clears \in Nat /\ epoch \in Nat /\ Len(taken) \in Nat /\ read \in Nat
    BY BoundsAssumption DEF Inv, TypeOK, Clears, Epochs
  <2>2. \A k \in 1..Len(taken) : taken[k][1] \in 1..read /\ taken[k][2] <= epoch
    BY DEF Inv, QueueInv
  <2>3. \A k \in 1..Len(taken) : taken[k][2] \in Nat
    <3>1. \A k \in 1..Len(taken) : taken[k] \in Msgs \X Epochs
      BY DEF Inv, TypeOK
    <3>2. Epochs \subseteq Nat
      BY BoundsAssumption DEF Epochs
    <3>. QED
      BY <3>1, <3>2
  <2>4. \A m \in 1..read : gen[m] \in Nat
    <3>1. 1..read \subseteq Msgs /\ Clears \subseteq Nat
      BY BoundsAssumption DEF Inv, TypeOK, Msgs, Clears
    <3>2. gen \in [Msgs -> Clears]
      BY DEF Inv, TypeOK
    <3>. QED
      BY <3>1, <3>2
  <2>. QED
    BY <2>1, <2>2, <2>3, <2>4
<1>. USE DEF Inv, SignalInv
<1>1. CASE PumpMessage
  <2>1. /\ pump' = "ping" /\ gen' = [gen EXCEPT ![read + 1] = clears]
        /\ UNCHANGED <<clears, hurried, clearCh, killedBy, held, loop, epoch, taken>>
    BY <1>1 DEF PumpMessage, Push, watchVars, loopVars
  <2>2. \A m \in 1..read : gen'[m] = gen[m]
    BY <1>0, <2>1 DEF TypeOK
  <2>. QED
    BY <1>0, <2>1, <2>2
<1>2. CASE PumpEOF \/ PumpPing
  <2>1. /\ pump' # "notify"
        /\ UNCHANGED <<gen, clears, hurried, clearCh, killedBy, held, loop, epoch, taken>>
    BY <1>2 DEF PumpEOF, PumpPing, CloseInbox, Ping, watchVars, loopVars
  <2>. QED
    BY <2>1
<1>3. CASE PumpClear
  <2>1. held' /\ clearCh' = 0 /\ killedBy' = 0
    BY <1>3 DEF PumpClear, OnClear, ClearSettled, watchVars
  <2>. QED
    BY <2>1
<1>4. CASE PumpNotify
  <2>1. /\ pump = "notify" /\ pump' = "read" /\ clearCh' = (IF clearCh = 0 THEN clears ELSE clearCh)
        /\ UNCHANGED <<gen, clears, hurried, killedBy, held, loop, epoch, taken>>
    BY <1>4 DEF PumpNotify, inboxVars, watchVars, loopVars
  <2>. QED
    BY <2>1
<1>5. CASE WatcherTakes
  <2>1. /\ clearCh # 0 /\ killedBy' = clearCh /\ clearCh' = 0
        /\ UNCHANGED <<pump, gen, clears, hurried, held, loop, epoch, taken>>
    BY <1>5 DEF WatcherTakes, inboxVars, pumpVars, loopVars
  <2>2. clearCh = clears /\ held /\ pump # "notify"
    BY <2>1
  <2>. QED
    BY <2>1, <2>2 DEF GenInv
<1>6. CASE HarnessDrain \/ WaitTakes
  <2>1. ~held /\ loop = "run" /\ UNCHANGED <<held, clears, loop>>
    BY <1>6, DeliverySteps
  <2>2. UNCHANGED <<pump, hurried, clearCh, killedBy>>
    BY <1>6 DEF HarnessDrain, WaitTakes, pumpVars, watchVars
  <2>3. killedBy = 0 /\ clearCh = 0 /\ pump # "notify"
    BY <2>1, <2>2
  <2>. QED
    BY <2>2, <2>3
<1>7. CASE LoopReleases
  <2>1. /\ loop = "release" /\ loop' \in {"exit", "drain"}
        /\ UNCHANGED <<pump, gen, clears, hurried, clearCh, killedBy, epoch, taken>>
    BY <1>7 DEF LoopReleases, ReleaseClear, pumpVars, watchVars
  <2>2. killedBy # 0
    BY <2>1 DEF CountInv
  <2>. QED
    BY <2>1, <2>2
<1>8. CASE NextEpoch
  <2>1. clearCh' = 0 /\ killedBy' = 0 /\ loop = "drain" /\ UNCHANGED <<pump, hurried>>
    BY <1>8 DEF NextEpoch, pumpVars
  <2>2. killedBy # 0
    BY <2>1 DEF CountInv
  <2>. QED
    BY <2>1, <2>2
<1>9. CASE /\ UNCHANGED <<pump, gen, clears, hurried, clearCh, killedBy, held, epoch, taken>>
           /\ loop \in {"drain", "exit"} => loop' = loop
  BY <1>9
<1>. QED
  <2>1. \/ PumpMessage \/ PumpEOF \/ PumpPing \/ PumpClear \/ PumpNotify \/ WatcherTakes
        \/ HarnessDrain \/ WaitTakes \/ LoopReleases \/ NextEpoch
        \/ /\ UNCHANGED <<pump, gen, clears, hurried, clearCh, killedBy, held, epoch, taken>>
           /\ loop \in {"drain", "exit"} => loop' = loop
    BY DEF Next, HarnessStep, LoopStep, WatcherCancels, WatcherLeaves, TurnEnds, WaitFindsClosed,
           WaitParks, WaitWakes, RunFails, RunCancels, RunLoads, inboxVars, pumpVars, watchVars,
           loopVars, vars
  <2>. QED
    BY <1>1, <1>2, <1>3, <1>4, <1>5, <1>6, <1>7, <1>8, <1>9, <2>1

(***************************************************************************)
(* The invariant: the queue is in order, what is queued is newer than the  *)
(* last clear, and what an epoch takes lies between two clears (chatInbox, *)
(* epochLoop, Pump).                                                       *)
(***************************************************************************)
THEOREM InvCorrect == Spec => []Inv
<1>1. Init => Inv
  <2>. SUFFICES ASSUME Init PROVE Inv
    OBVIOUS
  <2>1. TypeOK
    <3>1. <<>> \in Seq(Msgs) /\ <<>> \in Seq(Msgs \X Epochs)
      OBVIOUS
    <3>2. 0 \in Clears /\ 1 \in Epochs /\ 0 \in 0..MaxMsgs
      BY BoundsAssumption DEF Clears, Epochs
    <3>3. gen \in [Msgs -> Clears]
      BY <3>2 DEF Init
    <3>. QED
      BY <3>1, <3>2, <3>3 DEF Init, NewInbox, TypeOK
  <2>2. CountInv /\ PlaceInv
    BY DEF Init, NewInbox, CountInv, PlaceInv, One
  <2>3. QueueInv /\ InOrder /\ NotLost /\ GenInv /\ SignalInv
    BY DEF Init, NewInbox, QueueInv, InOrder, NotLost, GenInv, SignalInv
  <2>. QED
    BY <2>1, <2>2, <2>3 DEF Inv
<1>2. Inv /\ [Next]_vars => Inv'
  <2>. SUFFICES ASSUME Inv, [Next]_vars PROVE Inv'
    OBVIOUS
  <2>1. TypeOK'
    BY TypeStep DEF Inv
  <2>2. CountInv' /\ PlaceInv'
    BY <2>1, CountStep, PlaceStep DEF Inv
  <2>3. QueueInv' /\ InOrder' /\ NotLost' /\ GenInv' /\ SignalInv'
    BY <2>1, QueueStep, SignalStep
  <2>. QED
    BY <2>1, <2>2, <2>3 DEF Inv
<1>. QED
  BY <1>1, <1>2, PTL DEF Spec

-----------------------------------------------------------------------------
(* The properties.                                                         *)

LEMMA TakenByIndex ==
  ASSUME NEW n, NEW m
  PROVE  m \in TakenBy(n) <=> \E k \in 1..Len(taken) : taken[k][2] = n /\ taken[k][1] = m
BY DEF TakenBy

(***************************************************************************)
(* The variables have their types; in particular no more epochs are        *)
(* started than clears have been read.                                     *)
(***************************************************************************)
THEOREM TypeCorrect == Spec => []TypeOK
<1>1. Inv => TypeOK
  BY DEF Inv
<1>. QED
  BY <1>1, InvCorrect, PTL

(***************************************************************************)
(* No epoch is given a message from before the clear it follows (onClear,  *)
(* Drain, Wait).                                                           *)
(***************************************************************************)
THEOREM FreshEpochCorrect == Spec => []FreshEpoch
<1>1. Inv => FreshEpoch
  <2>. SUFFICES ASSUME Inv, loop = "run", NEW m \in TakenBy(epoch) PROVE gen[m] >= born
    BY DEF FreshEpoch
  <2>1. PICK k \in 1..Len(taken) : taken[k][2] = epoch /\ taken[k][1] = m
    BY TakenByIndex
  <2>. QED
    BY <2>1 DEF Inv, GenInv
<1>. QED
  BY <1>1, InvCorrect, PTL

(***************************************************************************)
(* Messages are delivered in order, once each, and never to an earlier     *)
(* epoch than one before them (Drain, Wait, releaseClear).                 *)
(***************************************************************************)
THEOREM InOrderCorrect == Spec => []InOrder
<1>1. Inv => InOrder
  BY DEF Inv
<1>. QED
  BY <1>1, InvCorrect, PTL

(***************************************************************************)
(* The epoch that a clear ends takes no message read after that clear,     *)
(* unless clears have come in too fast (onClear before clearCh).           *)
(***************************************************************************)
THEOREM NotSwallowedCorrect == Spec => []NotSwallowed
<1>1. Inv => NotSwallowed
  <2>. SUFFICES ASSUME Inv, killedBy # 0, ~hurried, NEW m \in TakenBy(epoch) PROVE gen[m] < killedBy
    BY DEF NotSwallowed
  <2>1. PICK k \in 1..Len(taken) : taken[k][2] = epoch /\ taken[k][1] = m
    BY TakenByIndex
  <2>. QED
    BY <2>1 DEF Inv, SignalInv
<1>. QED
  BY <1>1, InvCorrect, PTL

(***************************************************************************)
(* A message is lost only to a clear read after it (onClear, releaseClear, *)
(* and the two ways of taking).                                            *)
(***************************************************************************)
THEOREM NoMessageLostCorrect == Spec => []NoMessageLost
<1>1. Inv => NoMessageLost
  <2>. SUFFICES ASSUME Inv, NEW m \in 1..read, gen[m] = clears
                PROVE  Queued(m) \/ \E n \in Epochs : m \in TakenBy(n)
    BY DEF NoMessageLost
  <2>1. CASE \E k \in 1..Len(pending) : pending[k] = m
    BY <2>1 DEF Queued
  <2>2. CASE \E k \in 1..Len(taken) : taken[k][1] = m
    <3>1. PICK k \in 1..Len(taken) : taken[k][1] = m
      BY <2>2
    <3>2. taken[k][2] \in Epochs
      BY DEF Inv, TypeOK
    <3>3. m \in TakenBy(taken[k][2])
      BY <3>1, TakenByIndex
    <3>. QED
      BY <3>2, <3>3
  <2>. QED
    BY <2>1, <2>2 DEF Inv, NotLost
<1>. QED
  BY <1>1, InvCorrect, PTL

(***************************************************************************)
(* The worker does not leave for the end of stdin with a message queued,   *)
(* unless a clear hides it (Wait, releaseClear).                           *)
(***************************************************************************)
THEOREM ClosedMeansServedCorrect == Spec => []ClosedMeansServed
<1>1. Inv => ClosedMeansServed
  BY DEF Inv, PlaceInv, ClosedMeansServed
<1>. QED
  BY <1>1, InvCorrect, PTL

-----------------------------------------------------------------------------
(* The abstract specification.                                             *)

LEMMA ReleaseOwed ==
  ASSUME Inv, loop = "release"
  PROVE  epoch <= clears /\ epoch \in Nat /\ clears \in Nat
<1>1. epoch \in Nat /\ clears \in Nat
  BY BoundsAssumption DEF Inv, TypeOK, Clears, Epochs
<1>2. One(killedBy # 0) = 1 /\ One(clearCh # 0) \in Nat /\ One(pump = "notify") \in Nat
  BY DEF Inv, CountInv, One
<1>. QED
  BY <1>1, <1>2 DEF Inv, CountInv

(***************************************************************************)
(* EpochLoop implements Conversations: a release is the beginning of the   *)
(* next conversation, which a clear is owed for, or the end of the last.   *)
(***************************************************************************)
THEOREM Refinement == Spec => ImplementsConversations
<1>. DEFINE mode == IF loop = "exit" THEN "over" ELSE IF held THEN "held" ELSE "open"
            conversation == IF loop = "drain" THEN epoch + 1 ELSE epoch
            Same == UNCHANGED <<read, clears, pending, mode, conversation, taken>>
<1>1. Init => Promise!Init
  BY DEF Init, NewInbox, Promise!Init
<1>2. Inv /\ [Next]_vars => [Promise!Next]_(Promise!convVars)
  <2>. SUFFICES ASSUME Inv, [Next]_vars PROVE Promise!Next \/ Same
    BY DEF Promise!convVars
  <2>1. ASSUME PumpMessage PROVE Promise!Hear
    <3>1. /\ loop # "exit" /\ read' = read + 1 /\ pending' = Append(pending, read + 1)
          /\ UNCHANGED <<clears, held, loop, epoch, taken>>
      BY <2>1 DEF PumpMessage, Alive, Push, loopVars
    <3>. QED
      BY <3>1 DEF Promise!Hear
  <2>2. ASSUME PumpClear PROVE Promise!Clear
    <3>1. /\ loop # "exit" /\ clears' = clears + 1 /\ pending' = <<>> /\ held'
          /\ UNCHANGED <<read, loop, epoch, taken>>
      BY <2>2 DEF PumpClear, Alive, OnClear, loopVars
    <3>. QED
      BY <3>1 DEF Promise!Clear
  <2>3. ASSUME PumpEOF \/ PumpPing \/ PumpNotify PROVE Same
    BY <2>3 DEF PumpEOF, PumpPing, PumpNotify, CloseInbox, Ping, inboxVars, loopVars
  <2>4. ASSUME WatcherTakes \/ WatcherCancels \/ WatcherLeaves PROVE Same
    BY <2>4 DEF WatcherTakes, WatcherCancels, WatcherLeaves, inboxVars, pumpVars, loopVars
  <2>5. ASSUME HarnessDrain PROVE \E n \in 1..Len(pending) : Promise!TakeUp(n)
    <3>1. /\ ~held /\ loop = "run" /\ pending # <<>> /\ pending' = <<>>
          /\ taken' = taken \o [k \in 1..Len(pending) |-> <<pending[k], epoch>>]
          /\ UNCHANGED <<read, clears, held, loop, epoch>>
      BY <2>5 DEF HarnessDrain, TakeAll, Deliverable, pumpVars, loopVars
    <3>2. Len(pending) \in 1..Len(pending) /\ SubSeq(pending, Len(pending) + 1, Len(pending)) = <<>>
      BY <3>1 DEF Inv, TypeOK
    <3>. QED
      BY <3>1, <3>2 DEF Promise!TakeUp
  <2>6. ASSUME WaitTakes PROVE \E n \in 1..Len(pending) : Promise!TakeUp(n)
    <3>1. /\ ~held /\ pending # <<>> /\ pending' = Tail(pending)
          /\ taken' = Append(taken, <<Head(pending), epoch>>)
          /\ UNCHANGED <<read, clears, held, loop, epoch>>
      BY <2>6 DEF WaitTakes, TakeFirst, Deliverable, pumpVars, loopVars
    <3>2. loop = "run"
      BY <2>6 DEF WaitTakes, Inv, PlaceInv
    <3>3. pending \in Seq(Msgs) /\ taken \in Seq(Msgs \X Epochs)
      BY DEF Inv, TypeOK
    <3>4. 1 \in 1..Len(pending) /\ SubSeq(pending, 1 + 1, Len(pending)) = Tail(pending)
      BY <3>1, <3>3
    <3>. DEFINE one == [k \in 1..1 |-> <<pending[k], epoch>>]
                said == <<Head(pending), epoch>>
    <3>5. one = <<said>>
      BY <3>1, <3>3
    <3>6. said \in Msgs \X Epochs
      <4>1. Head(pending) \in Msgs
        BY <3>1, <3>3
      <4>. QED
        BY <4>1 DEF Inv, TypeOK
    <3>7. taken \o <<said>> = Append(taken, said)
      <4>. HIDE DEF said
      <4>. DEFINE Pairs == Msgs \X Epochs
      <4>1. taken \in Seq(Pairs) /\ said \in Pairs
        BY <3>3, <3>6
      <4>. HIDE DEF Pairs
      <4>. QED
        BY <4>1
    <3>8. taken' = taken \o one
      BY <3>1, <3>5, <3>7
    <3>9. Promise!TakeUp(1)
      BY <3>1, <3>2, <3>4, <3>8 DEF Promise!TakeUp
    <3>. QED
      BY <3>4, <3>9
  <2>7. ASSUME TurnEnds \/ WaitFindsClosed \/ WaitParks \/ WaitWakes \/ RunFails PROVE Same
    BY <2>7 DEF TurnEnds, WaitFindsClosed, WaitParks, WaitWakes, RunFails, inboxVars, pumpVars, loopVars
  <2>8. ASSUME RunCancels PROVE Same
    BY <2>8 DEF RunCancels, inboxVars, pumpVars
  <2>9. ASSUME RunLoads PROVE Same \/ Promise!End
    <3>1. /\ loop = "load" /\ loop' \in {"release", "exit"}
          /\ UNCHANGED <<pending, held, read, clears, epoch, taken>>
      BY <2>9 DEF RunLoads, inboxVars, pumpVars
    <3>. QED
      BY <3>1 DEF Promise!End
  <2>10. ASSUME LoopReleases PROVE Promise!Begin \/ Promise!End
    <3>1. /\ loop = "release" /\ loop' \in {"drain", "exit"} /\ ~held'
          /\ UNCHANGED <<pending, read, clears, epoch, taken>>
      BY <2>10 DEF LoopReleases, ReleaseClear, pumpVars
    <3>. QED
      BY <3>1, ReleaseOwed DEF Promise!Begin, Promise!End
  <2>11. ASSUME NextEpoch PROVE Same
    BY <2>11 DEF NextEpoch, inboxVars, pumpVars
  <2>12. ASSUME UNCHANGED vars PROVE Same
    BY <2>12 DEF vars
  <2>. QED
    BY <2>1, <2>2, <2>3, <2>4, <2>5, <2>6, <2>7, <2>8, <2>9, <2>10, <2>11, <2>12
    DEF Next, HarnessStep, LoopStep, Promise!Next
<1>. QED
  BY <1>1, <1>2, InvCorrect, PTL DEF Spec, ImplementsConversations, Promise!Spec

=============================================================================
