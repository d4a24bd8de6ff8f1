------------------------- MODULE SubComponentProofs -------------------------
(***************************************************************************)
(* What holds of a component's thread whatever the callers, the methods    *)
(* and the exceptions: its queue is first come first served, wait() covers *)
(* everything put before it returns, a stop leaves nothing behind that was *)
(* put before it, and the thread implements Mailbox.                       *)
(***************************************************************************)
EXTENDS SubComponent, SequenceTheorems, TLAPS

(* Tickets leave the queue in the order they entered it: those taken are   *)
(* 1, 2, ... and those queued follow on.                                   *)
InOrder ==
  /\ Len(ledger) = Len(handled) + Len(queue)
  /\ \A i \in 1..Len(handled) : handled[i] = i
  /\ \A i \in 1..Len(queue) : queue[i] = Len(handled) + i

(* The call in hand is the last one taken, and unfinished_tasks counts the *)
(* calls queued and the one in hand.                                       *)
InHand ==
  /\ hand # 0 => hand = Len(handled)
  /\ pc \in {"exec", "task_done"} => hand # 0
  /\ hand # 0 => pc \in {"exec", "task_done", "dead"}
  /\ unfinished = Len(queue) + (IF hand = 0 THEN 0 ELSE 1)

(* run is false only once a stop has been served.                          *)
StopServed ==
  /\ ~run => \E s \in 1..Len(handled) :
               ledger[s].req = Stop /\ (hand = s => pc = "task_done")
  /\ pc \in {"final", "exited"} => ~run

(* NoLostWakeup, from the moment the drain ends.                           *)
WakeupPending ==
  pc \in {"loop", "wait"} /\ queue # <<>> =>
    event \/ \E c \in Callers : cpc[c] = "set_event"

(* FollowUpsDrained, from before the thread is started.                    *)
NoFollowUpQueued ==
  pc \in {"unstarted", "loop", "wait", "clear", "check", "final", "exited"} =>
    \A t \in 1..Len(ledger) : ledger[t].by = Worker => t <= Len(handled)

IInv ==
  /\ TypeOK
  /\ InOrder
  /\ InHand
  /\ StopServed
  /\ WakeupPending
  /\ NoFollowUpQueued

LEMMA InitIInv == Init => IInv
<1> SUFFICES ASSUME Init PROVE IInv
  OBVIOUS
<1> USE DEF Init
<1>1. TypeOK
  <2>1. ledger \in Seq(Calls) /\ queue \in Seq(Nat) /\ handled \in Seq(Nat)
    BY EmptySeq
  <2>2. cpc \in [Callers -> CallerPC]
    BY DEF CallerPC
  <2> QED
    BY <2>1, <2>2 DEF TypeOK, WorkerPC
<1>2. Len(ledger) = 0 /\ Len(queue) = 0 /\ Len(handled) = 0
  BY EmptySeq
<1>3. InOrder
  BY <1>2 DEF InOrder
<1>4. InHand /\ StopServed /\ WakeupPending /\ NoFollowUpQueued
  BY <1>2 DEF InHand, StopServed, WakeupPending, NoFollowUpQueued
<1> QED
  BY <1>1, <1>3, <1>4 DEF IInv

(* What a put does to the queue and its ledger, whoever puts.              *)
LEMMA PutFacts ==
  ASSUME TypeOK, InOrder,
         NEW r \in Requests, NEW who \in Callers \cup {Worker},
         Put(r, who), UNCHANGED handled
  PROVE  /\ ledger' \in Seq(Calls)
         /\ queue' \in Seq(Nat)
         /\ Len(ledger') = Len(ledger) + 1
         /\ Len(queue') = Len(queue) + 1
         /\ \A t \in 1..Len(ledger) : ledger'[t] = ledger[t]
         /\ \A t \in 1..Len(ledger') :
              t \in 1..Len(ledger) \/ ledger'[t] = [req |-> r, by |-> who]
         /\ InOrder'
<1> DEFINE new == [req |-> r, by |-> who]
<1>1. new \in Calls
  BY DEF Calls
<1>2. Len(ledger) \in Nat /\ Len(queue) \in Nat /\ Len(handled) \in Nat
  BY LenProperties DEF TypeOK
<1>3. /\ ledger' \in Seq(Calls)
      /\ queue' \in Seq(Nat)
  BY <1>1, <1>2 DEF Put, TypeOK
<1>4. /\ Len(ledger') = Len(ledger) + 1
      /\ Len(queue') = Len(queue) + 1
      /\ \A t \in 1..Len(ledger) : ledger'[t] = ledger[t]
      /\ ledger'[Len(ledger) + 1] = new
      /\ queue'[Len(queue) + 1] = Len(ledger) + 1
      /\ \A i \in 1..Len(queue) : queue'[i] = queue[i]
  BY <1>1 DEF Put, TypeOK
<1>5. ASSUME NEW t \in 1..Len(ledger')
      PROVE  t \in 1..Len(ledger) \/ ledger'[t] = new
  BY <1>2, <1>4
<1>6. InOrder'
  <2>1. ASSUME NEW i \in 1..Len(queue')
        PROVE  queue'[i] = Len(handled) + i
    <3>1. i \in 1..Len(queue) \/ i = Len(queue) + 1
      BY <1>2, <1>4
    <3>2. CASE i \in 1..Len(queue)
      BY <1>4, <3>2 DEF InOrder
    <3>3. CASE i = Len(queue) + 1
      <4>1. queue'[i] = Len(ledger) + 1
        BY <1>4, <3>3
      <4>2. Len(ledger) = Len(handled) + Len(queue)
        BY DEF InOrder
      <4> QED
        BY <1>2, <3>3, <4>1, <4>2
    <3> QED
      BY <3>1, <3>2, <3>3
  <2> QED
    BY <1>2, <1>4, <2>1 DEF InOrder
<1> QED
  BY <1>3, <1>4, <1>5, <1>6

LEMMA CallerStepIInv ==
  ASSUME IInv, NEW c \in Callers, CallerStep(c)
  PROVE  IInv'
<1> USE DEF IInv
<1> Len(ledger) \in Nat /\ Len(queue) \in Nat /\ Len(handled) \in Nat
  BY LenProperties DEF TypeOK
<1>1. CASE \E r \in Requests : Call(c, r)
  <2> PICK r \in Requests : Call(c, r)
    BY <1>1
  <2>1. /\ Put(r, c)
        /\ UNCHANGED <<event, run, pc, hand, handled>>
        /\ unfinished' = unfinished + 1
    BY DEF Call, Put
  <2>2. /\ ledger' \in Seq(Calls)
        /\ queue' \in Seq(Nat)
        /\ Len(ledger') = Len(ledger) + 1
        /\ Len(queue') = Len(queue) + 1
        /\ \A t \in 1..Len(ledger) : ledger'[t] = ledger[t]
        /\ \A t \in 1..Len(ledger') :
             t \in 1..Len(ledger) \/ ledger'[t] = [req |-> r, by |-> c]
        /\ InOrder'
    BY <2>1, PutFacts
  <2>3. TypeOK'
    <3>1. cpc' \in [Callers -> CallerPC]
      BY DEF Call, TypeOK, CallerPC
    <3> QED
      BY <2>1, <2>2, <3>1 DEF TypeOK
  <2>4. InHand'
    BY <2>1, <2>2 DEF InHand, TypeOK
  <2>5. StopServed'
    BY <2>1, <2>2 DEF StopServed, InOrder
  <2>6. WakeupPending'
    <3>1. cpc'[c] = "set_event"
      BY DEF Call, TypeOK
    <3> QED
      BY <3>1 DEF WakeupPending
  <2>7. NoFollowUpQueued'
    <3>1. c # Worker
      BY CallersAssumption
    <3>2. \A t \in 1..Len(ledger') : ledger'[t].by = Worker => t \in 1..Len(ledger)
      BY <2>2, <3>1
    <3> QED
      BY <2>1, <2>2, <3>2 DEF NoFollowUpQueued
  <2> QED
    BY <2>2, <2>3, <2>4, <2>5, <2>6, <2>7
<1>2. CASE SetEvent(c)
  <2>1. TypeOK'
    BY <1>2 DEF SetEvent, TypeOK, CallerPC
  <2>2. InOrder' /\ InHand' /\ StopServed' /\ NoFollowUpQueued'
    BY <1>2 DEF SetEvent, InOrder, InHand, StopServed, NoFollowUpQueued
  <2>3. WakeupPending'
    BY <1>2 DEF SetEvent, WakeupPending
  <2> QED
    BY <2>1, <2>2, <2>3
<1>3. CASE WaitCall(c) \/ WaitReturn(c) \/ JoinCall(c) \/ JoinReturn(c)
  <2>1. /\ UNCHANGED <<ledger, queue, unfinished, event, run, pc, hand, handled>>
        /\ cpc[c] # "set_event"
        /\ \E p \in CallerPC : cpc' = [cpc EXCEPT ![c] = p]
    BY <1>3 DEF WaitCall, WaitReturn, JoinCall, JoinReturn, CallerPC
  <2>2. TypeOK'
    BY <2>1 DEF TypeOK
  <2>3. InOrder' /\ InHand' /\ StopServed' /\ NoFollowUpQueued'
    BY <2>1 DEF InOrder, InHand, StopServed, NoFollowUpQueued
  <2>4. WakeupPending'
    BY <2>1 DEF WakeupPending, TypeOK
  <2> QED
    BY <2>2, <2>3, <2>4
<1> QED
  BY <1>1, <1>2, <1>3 DEF CallerStep
(* The steps of the worker that leave the queue and what is in hand alone. *)
Between ==
  \/ Start \/ CheckRun \/ QueueEmpty \/ LoopReturns \/ LoopFails
  \/ WokenByEvent \/ WokenByTimeout \/ ClearEvent \/ Final

LEMMA BetweenIInv ==
  ASSUME IInv, Between
  PROVE  IInv'
<1> USE DEF IInv
<1> Len(ledger) \in Nat /\ Len(queue) \in Nat /\ Len(handled) \in Nat
  BY LenProperties DEF TypeOK
<1>1. UNCHANGED <<ledger, queue, unfinished, run, hand, handled, cpc>>
  BY DEF Between, Start, CheckRun, QueueEmpty, LoopReturns, LoopFails,
         WokenByEvent, WokenByTimeout, ClearEvent, Final
<1>2. /\ pc \notin {"exec", "task_done", "dead", "exited"}
      /\ pc' \in WorkerPC \ {"exec", "task_done", "unstarted"}
  BY DEF Between, Start, CheckRun, QueueEmpty, LoopReturns, LoopFails,
         WokenByEvent, WokenByTimeout, ClearEvent, Final, WorkerPC
<1>3. hand = 0
  BY <1>2 DEF InHand
<1>4. event' \in BOOLEAN
  BY DEF Between, Start, CheckRun, QueueEmpty, LoopReturns, LoopFails,
         WokenByEvent, WokenByTimeout, ClearEvent, Final, TypeOK
<1>5. TypeOK' /\ InOrder' /\ InHand'
  BY <1>1, <1>2, <1>3, <1>4 DEF TypeOK, InOrder, InHand
<1>6. StopServed'
  <2>1. pc' \in {"final", "exited"} => ~run
    BY DEF Between, Start, CheckRun, QueueEmpty, LoopReturns, LoopFails,
           WokenByEvent, WokenByTimeout, ClearEvent, Final, StopServed
  <2> QED
    BY <1>1, <1>3, <2>1 DEF StopServed
<1>7. WakeupPending'
  <2>1. pc' \in {"loop", "wait"} =>
          \/ queue = <<>>
          \/ pc = "loop" /\ event' = event
    BY DEF Between, Start, CheckRun, QueueEmpty, LoopReturns, LoopFails,
           WokenByEvent, WokenByTimeout, ClearEvent, Final
  <2> QED
    BY <1>1, <2>1 DEF WakeupPending
<1>8. NoFollowUpQueued'
  <2>1. CASE QueueEmpty
    <3>1. Len(ledger) = Len(handled)
      BY <2>1, EmptySeq DEF QueueEmpty, InOrder
    <3> QED
      BY <1>1, <3>1 DEF NoFollowUpQueued
  <2>2. CASE ~QueueEmpty
    <3>1. pc' = "dead" \/ pc \in {"unstarted", "loop", "wait", "clear",
                                  "check", "final", "exited"} \/ pc' = "drain"
      BY <2>2 DEF Between, Start, CheckRun, LoopReturns, LoopFails,
             WokenByEvent, WokenByTimeout, ClearEvent, Final
    <3> QED
      BY <1>1, <3>1 DEF NoFollowUpQueued
  <2> QED
    BY <2>1, <2>2
<1> QED
  BY <1>5, <1>6, <1>7, <1>8

LEMMA TakeRequestIInv ==
  ASSUME IInv, TakeRequest
  PROVE  IInv'
<1> USE DEF IInv
<1> Len(ledger) \in Nat /\ Len(queue) \in Nat /\ Len(handled) \in Nat
  BY LenProperties DEF TypeOK
<1>1. hand = 0
  BY DEF TakeRequest, InHand
<1>2. /\ Len(queue) >= 1
      /\ Head(queue) = Len(handled) + 1
  <2>1. Len(queue) >= 1
    BY EmptySeq DEF TakeRequest, TypeOK
  <2> QED
    BY <2>1 DEF TypeOK, InOrder
<1>3. /\ queue' \in Seq(Nat)
      /\ Len(queue') = Len(queue) - 1
      /\ \A i \in 1..Len(queue') : queue'[i] = queue[i + 1]
  BY HeadTailProperties DEF TakeRequest, TypeOK
<1>4. /\ handled' \in Seq(Nat)
      /\ Len(handled') = Len(handled) + 1
      /\ \A i \in 1..Len(handled) : handled'[i] = handled[i]
      /\ handled'[Len(handled) + 1] = Len(handled) + 1
  BY <1>2 DEF TakeRequest, TypeOK
<1>5. TypeOK'
  BY <1>2, <1>3, <1>4 DEF TakeRequest, TypeOK, WorkerPC
<1>6. InOrder'
  <2>1. Len(ledger') = Len(handled') + Len(queue')
    <3>1. Len(ledger) = Len(handled) + Len(queue) /\ ledger' = ledger
      BY DEF TakeRequest, InOrder
    <3>2. Len(queue') = Len(queue) - 1 /\ Len(handled') = Len(handled) + 1
      BY <1>3, <1>4
    <3>3. Len(ledger') = Len(ledger)
      BY <3>1
    <3> HIDE DEF IInv
    <3> QED
      BY <3>1, <3>2, <3>3
  <2>2. ASSUME NEW i \in 1..Len(handled')
        PROVE  handled'[i] = i
    <3>1. i \in 1..Len(handled) \/ i = Len(handled) + 1
      BY <1>4
    <3> QED
      BY <1>4, <3>1 DEF InOrder
  <2>3. ASSUME NEW i \in 1..Len(queue')
        PROVE  queue'[i] = Len(handled') + i
    <3>1. queue[i + 1] = Len(handled) + (i + 1)
      BY <1>2, <1>3 DEF InOrder
    <3> QED
      BY <1>3, <1>4, <3>1
  <2> QED
    BY <2>1, <2>2, <2>3 DEF InOrder
<1>7. InHand'
  BY <1>1, <1>2, <1>3, <1>4 DEF TakeRequest, InHand, TypeOK
<1>8. StopServed'
  <2>1. ASSUME NEW s \in 1..Len(handled)
        PROVE  s \in 1..Len(handled') /\ hand' # s
    BY <1>2, <1>4 DEF TakeRequest
  <2> QED
    BY <2>1 DEF TakeRequest, StopServed
<1>9. WakeupPending' /\ NoFollowUpQueued'
  BY DEF TakeRequest, WakeupPending, NoFollowUpQueued
<1> QED
  BY <1>5, <1>6, <1>7, <1>8, <1>9

(* A handler runs, and task_done is called: the queue is what it was, but  *)
(* for a follow-up put at its end.                                         *)
LEMMA HandleFollowUpIInv ==
  ASSUME IInv, HandleFollowUp
  PROVE  IInv'
<1> USE DEF IInv
<1> Len(ledger) \in Nat /\ Len(queue) \in Nat /\ Len(handled) \in Nat
  BY LenProperties DEF TypeOK
<1> DEFINE r == FollowUp[ledger[hand].req]
<1>1. r \in Requests
  BY MethodsAssumption DEF HandleFollowUp, Requests
<1>2. /\ Put(r, Worker)
      /\ UNCHANGED <<run, hand, handled, cpc>>
      /\ unfinished' = unfinished + 1
      /\ event' = TRUE
      /\ pc = "exec"
      /\ pc' = "task_done"
  BY DEF HandleFollowUp, Put
<1> HIDE DEF r
<1>3. /\ ledger' \in Seq(Calls)
      /\ queue' \in Seq(Nat)
      /\ Len(ledger') = Len(ledger) + 1
      /\ Len(queue') = Len(queue) + 1
      /\ \A t \in 1..Len(ledger) : ledger'[t] = ledger[t]
      /\ InOrder'
  BY <1>1, <1>2, PutFacts
<1>4. TypeOK'
  BY <1>2, <1>3 DEF TypeOK, WorkerPC
<1>5. InHand'
  BY <1>2, <1>3 DEF InHand, TypeOK
<1>6. StopServed'
  BY <1>2, <1>3 DEF StopServed, InOrder
<1>7. WakeupPending' /\ NoFollowUpQueued'
  BY <1>2 DEF WakeupPending, NoFollowUpQueued
<1> QED
  BY <1>3, <1>4, <1>5, <1>6, <1>7

LEMMA HandlerIInv ==
  ASSUME IInv, HandleStop \/ HandlePlain \/ HandleRaises \/ TaskDone
  PROVE  IInv'
<1> USE DEF IInv
<1> Len(ledger) \in Nat /\ Len(queue) \in Nat /\ Len(handled) \in Nat
  BY LenProperties DEF TypeOK
<1>1. /\ UNCHANGED <<ledger, queue, handled, cpc>>
      /\ pc \in {"exec", "task_done"}
      /\ pc' \in {"task_done", "dead", "drain"}
  BY DEF HandleStop, HandlePlain, HandleRaises, TaskDone
<1>2. hand \in 1..Len(handled) /\ hand = Len(handled)
  BY <1>1 DEF InHand, TypeOK
<1>3. unfinished = Len(queue) + 1
  BY <1>2 DEF InHand
<1>4. InOrder' /\ WakeupPending' /\ NoFollowUpQueued'
  BY <1>1 DEF InOrder, WakeupPending, NoFollowUpQueued
<1>5. CASE HandleStop
  <2>1. TypeOK' /\ InHand'
    BY <1>2, <1>5 DEF HandleStop, TypeOK, InHand, WorkerPC
  <2>2. StopServed'
    BY <1>2, <1>5 DEF HandleStop, StopServed
  <2> QED
    BY <1>4, <2>1, <2>2
<1>6. CASE HandlePlain \/ HandleRaises
  <2>1. /\ UNCHANGED <<unfinished, event, run, hand>>
        /\ pc = "exec"
        /\ pc' \in {"task_done", "dead"}
    BY <1>6 DEF HandlePlain, HandleRaises
  <2>2. TypeOK' /\ InHand'
    BY <1>1, <1>2, <2>1 DEF TypeOK, InHand, WorkerPC
  <2>3. StopServed'
    BY <1>1, <2>1 DEF StopServed
  <2> QED
    BY <1>4, <2>2, <2>3
<1>7. CASE TaskDone
  <2>1. TypeOK' /\ InHand'
    BY <1>1, <1>3, <1>7 DEF TaskDone, TypeOK, InHand, WorkerPC
  <2>2. StopServed'
    BY <1>1, <1>7 DEF TaskDone, StopServed
  <2> QED
    BY <1>4, <2>1, <2>2
<1> QED
  BY <1>5, <1>6, <1>7

LEMMA NextIInv == IInv /\ [Next]_vars => IInv'
<1> SUFFICES ASSUME IInv, [Next]_vars PROVE IInv'
  OBVIOUS
<1>1. CASE Start \/ MainThread
  <2>1. \/ Between \/ TakeRequest \/ HandleFollowUp
        \/ HandleStop \/ HandlePlain \/ HandleRaises \/ TaskDone
    BY <1>1 DEF MainThread, ExecuteQueue, Between
  <2> QED
    BY <2>1, BetweenIInv, TakeRequestIInv, HandleFollowUpIInv, HandlerIInv
<1>2. CASE \E c \in Callers : CallerStep(c)
  BY <1>2, CallerStepIInv
<1>3. CASE UNCHANGED vars
  BY <1>3 DEF vars, IInv, TypeOK, InOrder, InHand, StopServed, WakeupPending,
              NoFollowUpQueued
<1> QED
  BY <1>1, <1>2, <1>3 DEF Next

(* The inductive invariant holds of every component.                       *)
THEOREM Invariance == Spec => []IInv
BY InitIInv, NextIInv, PTL DEF Spec

LEMMA IInvHandled ==
  ASSUME IInv, NEW t \in 1..Len(handled), hand = t => pc = "task_done"
  PROVE  Handled(t)
BY DEF IInv, InOrder, Handled

(* Every variable keeps its type.                                          *)
THEOREM TypeCorrectness == Spec => []TypeOK
<1>1. IInv => TypeOK
  BY DEF IInv
<1> QED
  BY <1>1, Invariance, PTL

(* No component sleeps on a call whose event has been and gone.            *)
THEOREM WakeupSafety == Spec => []NoLostWakeup
<1>1. IInv => NoLostWakeup
  BY DEF IInv, WakeupPending, NoLostWakeup
<1> QED
  BY <1>1, Invariance, PTL

(* A thread that ended by stop() has served all that was put before it.    *)
THEOREM StopSafety == Spec => []StopDrains
<1>1. IInv => StopDrains
  <2> SUFFICES ASSUME IInv, pc \in {"final", "exited"}
               PROVE  \E s \in Tickets : /\ ledger[s].req = Stop
                                         /\ \A t \in 1..s : Handled(t)
    BY DEF StopDrains
  <2>1. Len(ledger) \in Nat /\ Len(queue) \in Nat /\ Len(handled) \in Nat
    BY LenProperties DEF IInv, TypeOK
  <2>2. hand = 0
    BY DEF IInv, InHand
  <2>3. PICK s \in 1..Len(handled) : ledger[s].req = Stop
    BY DEF IInv, StopServed
  <2>4. s \in Tickets
    BY <2>1 DEF IInv, InOrder, Tickets
  <2>5. \A t \in 1..s : Handled(t)
    BY <2>1, <2>2, IInvHandled
  <2> QED
    BY <2>3, <2>4, <2>5
<1> QED
  BY <1>1, Invariance, PTL

(* What a handler queues on its own component is served in the same drain. *)
THEOREM FollowUpSafety == Spec => []FollowUpsDrained
<1>1. IInv => FollowUpsDrained
  <2> SUFFICES ASSUME IInv,
                      pc \in {"loop", "wait", "clear", "check", "final", "exited"},
                      NEW t \in Tickets, ledger[t].by = Worker
               PROVE  Handled(t)
    BY DEF FollowUpsDrained
  <2>1. Len(ledger) \in Nat /\ Len(handled) \in Nat
    BY LenProperties DEF IInv, TypeOK
  <2>2. t \in 1..Len(handled)
    BY <2>1 DEF IInv, NoFollowUpQueued, Tickets
  <2>3. hand = 0
    BY DEF IInv, InHand
  <2> QED
    BY <2>1, <2>2, <2>3, IInvHandled
<1> QED
  BY <1>1, Invariance, PTL

(* wait() returns to a thread when every call put so far has been served.  *)
THEOREM WaitSafety == Spec => WaitCoversCalls
<1> DEFINE Covers == \A c \in Callers :
                       cpc[c] = "waiting" /\ cpc'[c] = "idle" =>
                         \A t \in Tickets : Handled(t)
<1>1. IInv /\ [Next]_vars => [Covers]_vars
  <2> SUFFICES ASSUME IInv, Next,
                      NEW c \in Callers,
                      cpc[c] = "waiting", cpc'[c] = "idle",
                      NEW t \in Tickets
               PROVE  Handled(t)
    OBVIOUS
  <2>1. Len(ledger) \in Nat /\ Len(queue) \in Nat /\ Len(handled) \in Nat
    BY LenProperties DEF IInv, TypeOK
  <2>2. unfinished = 0
    <3>1. ~UNCHANGED cpc
      OBVIOUS
    <3>2. PICK d \in Callers : CallerStep(d)
      BY <3>1 DEF Next, MainThread, ExecuteQueue, Start, CheckRun, TakeRequest,
        QueueEmpty, HandleStop, HandlePlain, HandleFollowUp, HandleRaises,
        TaskDone, LoopReturns, LoopFails, WokenByEvent, WokenByTimeout,
        ClearEvent, Final
    <3>3. c = d
      BY <3>2 DEF CallerStep, Call, SetEvent, WaitCall, WaitReturn, JoinCall,
                  JoinReturn, IInv, TypeOK
    <3> QED
      BY <3>2, <3>3 DEF CallerStep, Call, SetEvent, WaitCall, WaitReturn,
                        JoinCall, JoinReturn
  <2>3. hand = 0 /\ Len(queue) = 0
    BY <2>1, <2>2 DEF IInv, InHand
  <2>4. t \in 1..Len(handled)
    BY <2>1, <2>3 DEF IInv, InOrder, Tickets
  <2> QED
    BY <2>1, <2>3, <2>4, IInvHandled
<1> QED
  BY <1>1, Invariance, PTL DEF Spec, WaitCoversCalls

(* The steps that leave queue, ledger and life of the thread as they were  *)
(* are not seen by the mailbox.                                            *)
Posted == [t \in 1..Len(ledger) |-> ledger[t].req]
Open == pc \notin {"exited", "dead"}

LEMMA PostedIsSeq ==
  ASSUME ledger \in Seq(Calls)
  PROVE  Posted \in Seq(Requests) /\ Len(Posted) = Len(ledger)
<1>1. Len(ledger) \in Nat
  BY LenProperties
<1>2. ASSUME NEW t \in 1..Len(ledger)
      PROVE  ledger[t].req \in Requests
  <2>1. ledger[t] \in Calls
    BY ElementOfSeq
  <2> QED
    BY <2>1 DEF Calls
<1>3. Posted \in [1..Len(ledger) -> Requests]
  BY <1>2 DEF Posted
<1>4. Posted \in Seq(Requests)
  BY <1>1, <1>3, SeqDef
<1> QED
  BY <1>1, <1>3, <1>4, LenProperties

LEMMA PutPosts ==
  ASSUME TypeOK, InOrder,
         NEW r \in Requests, NEW who \in Callers \cup {Worker},
         Put(r, who), UNCHANGED handled
  PROVE  Posted' = Append(Posted, r)
<1>1. /\ ledger \in Seq(Calls)
      /\ ledger' \in Seq(Calls)
      /\ Len(ledger') = Len(ledger) + 1
      /\ \A t \in 1..Len(ledger) : ledger'[t] = ledger[t]
  BY PutFacts DEF TypeOK
<1>2. ledger'[Len(ledger) + 1].req = r
  <2>1. [req |-> r, by |-> who] \in Calls
    BY DEF Calls
  <2> QED
    BY <1>1, <2>1 DEF Put
<1>3. Posted \in Seq(Requests) /\ Len(Posted) = Len(ledger)
  BY <1>1, PostedIsSeq
<1>4. Posted' \in Seq(Requests) /\ Len(Posted') = Len(ledger')
  <2>1. Len(ledger') \in Nat
    BY <1>1, LenProperties
  <2>2. ASSUME NEW t \in 1..Len(ledger')
        PROVE  ledger'[t].req \in Requests
    <3>1. ledger'[t] \in Calls
      BY <1>1, ElementOfSeq
    <3> QED
      BY <3>1 DEF Calls
  <2>3. Posted' \in [1..Len(ledger') -> Requests]
    BY <2>2 DEF Posted
  <2>4. Posted' \in Seq(Requests)
    BY <2>1, <2>3, SeqDef
  <2> QED
    BY <2>1, <2>3, <2>4, LenProperties
<1>5. Append(Posted, r) \in Seq(Requests) /\ Len(Append(Posted, r)) = Len(ledger) + 1
  BY <1>3
<1>6. ASSUME NEW t \in 1..Len(Posted')
      PROVE  Posted'[t] = Append(Posted, r)[t]
  <2>1. Len(ledger) \in Nat
    BY <1>1, LenProperties
  <2>2. Posted'[t] = ledger'[t].req
    BY <1>4 DEF Posted
  <2>3. CASE t \in 1..Len(ledger)
    <3>1. Posted[t] = ledger[t].req
      BY <2>3 DEF Posted
    <3> QED
      BY <1>1, <1>3, <2>2, <2>3, <3>1
  <2>4. CASE t = Len(ledger) + 1
    BY <1>2, <1>3, <2>2, <2>4
  <2>5. t \in 1..(Len(ledger) + 1)
    BY <1>1, <1>4
  <2>6. t \in 1..Len(ledger) \/ t = Len(ledger) + 1
    BY <2>1, <2>5
  <2> QED
    BY <2>3, <2>4, <2>6
<1> QED
  BY <1>1, <1>3, <1>4, <1>5, <1>6, SeqEqual

(* The thread implements the mailbox: a put is a Post, taking a call off   *)
(* the queue a TakeUp, the end of the thread a Close, and nothing else     *)
(* shows.                                                                  *)
THEOREM Refinement == Spec => ImplementsMailbox
<1>1. Init => Box!Init
  <2> SUFFICES ASSUME Init PROVE Box!Init
    OBVIOUS
  <2>1. ledger = <<>> /\ Len(ledger) = 0
    BY EmptySeq DEF Init
  <2>2. [t \in 1..Len(ledger) |-> ledger[t].req] = <<>>
    BY <2>1
  <2> QED
    BY <2>2 DEF Init, Box!Init
<1>2. IInv /\ [Next]_vars => [Box!Next]_(Box!vars)
  <2> SUFFICES ASSUME IInv, [Next]_vars PROVE Box!Next \/ UNCHANGED Box!vars
    BY DEF Box!vars
  <2> USE DEF IInv
  <2>1. ASSUME UNCHANGED <<ledger, handled>>, Open' = Open
        PROVE  UNCHANGED Box!vars
    BY <2>1 DEF Box!vars, Open
  <2>2. ASSUME NEW r \in Requests, NEW who \in Callers \cup {Worker},
               Put(r, who), UNCHANGED handled, Open' = Open
        PROVE  Box!Next
    <3>1. Posted' = Append(Posted, r)
      BY <2>2, PutPosts
    <3>2. Box!Post(r)
      BY <2>2, <3>1 DEF Box!Post, Posted, Open
    <3> QED
      BY <3>2 DEF Box!Next
  <2>3. CASE \E c \in Callers : CallerStep(c)
    <3> PICK c \in Callers : CallerStep(c)
      BY <2>3
    <3>1. CASE \E r \in Requests : Call(c, r)
      BY <2>2, <3>1 DEF Call, Open
    <3>2. CASE ~ \E r \in Requests : Call(c, r)
      BY <2>1, <3>2 DEF CallerStep, SetEvent, WaitCall, WaitReturn, JoinCall,
                        JoinReturn, Open
    <3> QED
      BY <3>1, <3>2
  <2>4. CASE TakeRequest
    <3>1. Head(queue) = Len(handled) + 1 /\ Len(handled) < Len(ledger)
      <4>1. Len(queue) \in Nat /\ Len(handled) \in Nat
        BY LenProperties DEF TypeOK
      <4>2. Len(queue) >= 1
        BY <2>4, EmptySeq DEF TakeRequest, TypeOK
      <4>3. Head(queue) = queue[1]
        BY <4>2 DEF TypeOK
      <4> QED
        BY <4>1, <4>2, <4>3 DEF InOrder
    <3>2. Len(Posted) = Len(ledger)
      BY PostedIsSeq DEF TypeOK
    <3>3. Box!TakeUp
      BY <2>4, <3>1, <3>2 DEF TakeRequest, Box!TakeUp, Posted, Open
    <3> QED
      BY <3>3 DEF Box!Next
  <2>5. CASE HandleFollowUp
    <3>1. FollowUp[ledger[hand].req] \in Requests
      BY <2>5, MethodsAssumption DEF HandleFollowUp, Requests
    <3> QED
      BY <2>2, <2>5, <3>1 DEF HandleFollowUp, Open
  <2>6. CASE Final
    <3>1. PICK s \in 1..Len(handled) : ledger[s].req = Stop
      BY <2>6 DEF Final, StopServed
    <3>2. handled[s] = s
      BY DEF InOrder
    <3>3. s \in 1..Len(ledger)
      <4>1. Len(ledger) \in Nat /\ Len(queue) \in Nat /\ Len(handled) \in Nat
        BY LenProperties DEF TypeOK
      <4> QED
        BY <4>1 DEF InOrder
    <3>4. Posted[handled[s]] = Stop
      BY <3>1, <3>2, <3>3 DEF Posted
    <3>5. Box!Close
      BY <2>6, <3>4 DEF Final, Box!Close, Posted
    <3> QED
      BY <3>5 DEF Box!Next
  <2>7. CASE LoopFails \/ HandleRaises
    <3>1. CASE pc' = "dead"
      <4>1. ~Survives /\ (LoopRaises \/ Raising # {})
        BY <2>7, <3>1 DEF LoopFails, HandleRaises
      <4>2. Box!Close
        BY <2>7, <3>1, <4>1 DEF LoopFails, HandleRaises, Box!Close
      <4> QED
        BY <4>2 DEF Box!Next
    <3>2. CASE pc' # "dead"
      BY <2>1, <2>7, <3>2 DEF LoopFails, HandleRaises, Open
    <3> QED
      BY <3>1, <3>2
  <2>8. CASE \/ Start \/ CheckRun \/ QueueEmpty \/ LoopReturns
             \/ WokenByEvent \/ WokenByTimeout \/ ClearEvent
             \/ HandleStop \/ HandlePlain \/ TaskDone
    BY <2>1, <2>8 DEF Start, CheckRun, QueueEmpty, LoopReturns, WokenByEvent,
       WokenByTimeout, ClearEvent, HandleStop, HandlePlain, TaskDone, Open
  <2>9. CASE UNCHANGED vars
    BY <2>1, <2>9 DEF vars, Open
  <2> QED
    BY <2>3, <2>4, <2>5, <2>6, <2>7, <2>8, <2>9
       DEF Next, MainThread, ExecuteQueue
<1> QED
  BY <1>1, <1>2, Invariance, PTL DEF Spec, ImplementsMailbox, Box!Spec
=============================================================================
