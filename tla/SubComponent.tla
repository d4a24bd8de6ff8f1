---------------------------- MODULE SubComponent ----------------------------
(***************************************************************************)
(* The thread every part of the backend runs on: subcomponent.py.          *)
(*                                                                         *)
(* A component owns a queue of decorated method calls, an event and one    *)
(* worker thread.  Any thread calls a decorated method: the call is put on *)
(* the queue and, as a second step, the event is set.  The worker drains   *)
(* the queue, runs loop(), sleeps on the event for at most looptime and    *)
(* clears it.  stop() is itself a decorated method.  wait() is the join of *)
(* the queue: it returns when every put has had its task_done.             *)
(*                                                                         *)
(* Every put gets a ticket, its position in ledger.  The ledger and        *)
(* handled are history variables: no action reads them except through the  *)
(* ticket in hand, to know which call it stands for.                       *)
(***************************************************************************)
EXTENDS Naturals, Sequences

CONSTANTS
  Callers,      \* threads that use the component
  Methods,      \* its decorated methods other than stop
  FollowUp,     \* FollowUp[m] is the decorated method m calls on itself, or None
  None,
  Raising,      \* methods that may raise
  LoopRaises,   \* TRUE iff loop() may raise
  Survives,     \* TRUE iff handle_exception does not re-raise
  MaxPuts       \* bound on the calls that callers may start

Stop == "stop"
Requests == Methods \cup {Stop}

ASSUME MethodsAssumption ==
  /\ Stop \notin Methods
  /\ None \notin Methods
  /\ FollowUp \in [Methods -> Methods \cup {None}]
  /\ Raising \subseteq Methods
ASSUME SwitchesAssumption ==
  /\ LoopRaises \in BOOLEAN
  /\ Survives \in BOOLEAN
  /\ MaxPuts \in Nat
Worker == "worker"      \* the poster of a follow-up
ASSUME CallersAssumption == Worker \notin Callers

VARIABLES
  ledger,       \* every call put so far: what was called, and by whom
  queue,        \* function_queue, as tickets
  unfinished,   \* function_queue.unfinished_tasks
  event,        \* the threading.Event
  run,          \* self.run
  pc,           \* where the worker is in mainthread / execute_queue
  hand,         \* the ticket whose handler is running, 0 if none
  handled,      \* the tickets taken off the queue, in order
  cpc           \* where each caller is

vars == <<ledger, queue, unfinished, event, run, pc, hand, handled, cpc>>

WorkerPC == {"unstarted", "check", "drain", "exec", "task_done", "loop",
             "wait", "clear", "final", "exited", "dead"}
CallerPC == {"idle", "set_event", "waiting", "joining"}

Calls == [req : Requests, by : Callers \cup {Worker}]

Init ==
  /\ ledger = <<>>
  /\ queue = <<>>
  /\ unfinished = 0
  /\ event = FALSE
  /\ run = TRUE
  /\ pc = "unstarted"
  /\ hand = 0
  /\ handled = <<>>
  /\ cpc = [c \in Callers |-> "idle"]

-----------------------------------------------------------------------------
(* The queue: function_queue.put and what it counts.                       *)

Put(r, who) ==
  /\ ledger' = Append(ledger, [req |-> r, by |-> who])
  /\ queue' = Append(queue, Len(ledger) + 1)
  /\ unfinished' = unfinished + 1

-----------------------------------------------------------------------------
(* The callers.                                                            *)

(* Variant: stop() clears run in the thread of its caller.                 *)
CallStopsAtOnce(c, r) ==
  /\ cpc[c] = "idle"
  /\ Len(ledger) < MaxPuts
  /\ Put(r, c)
  /\ run' = (run /\ r # Stop)
  /\ cpc' = [cpc EXCEPT ![c] = "set_event"]
  /\ UNCHANGED <<event, pc, hand, handled>>

Call(c, r) ==
  /\ cpc[c] = "idle"
  /\ Len(ledger) < MaxPuts
  /\ Put(r, c)
  /\ cpc' = [cpc EXCEPT ![c] = "set_event"]
  /\ UNCHANGED <<event, run, pc, hand, handled>>

(* Variant: the decorator puts and forgets to set the event.               *)
SetEventForgotten(c) ==
  /\ cpc[c] = "set_event"
  /\ cpc' = [cpc EXCEPT ![c] = "idle"]
  /\ UNCHANGED <<ledger, queue, unfinished, event, run, pc, hand, handled>>

SetEvent(c) ==
  /\ cpc[c] = "set_event"
  /\ event' = TRUE
  /\ cpc' = [cpc EXCEPT ![c] = "idle"]
  /\ UNCHANGED <<ledger, queue, unfinished, run, pc, hand, handled>>

WaitCall(c) ==
  /\ cpc[c] = "idle"
  /\ cpc' = [cpc EXCEPT ![c] = "waiting"]
  /\ UNCHANGED <<ledger, queue, unfinished, event, run, pc, hand, handled>>

(* Variant: wait() polls whether the queue is empty.                       *)
WaitReturnOnEmpty(c) ==
  /\ cpc[c] = "waiting"
  /\ queue = <<>>
  /\ cpc' = [cpc EXCEPT ![c] = "idle"]
  /\ UNCHANGED <<ledger, queue, unfinished, event, run, pc, hand, handled>>

WaitReturn(c) ==
  /\ cpc[c] = "waiting"
  /\ unfinished = 0
  /\ cpc' = [cpc EXCEPT ![c] = "idle"]
  /\ UNCHANGED <<ledger, queue, unfinished, event, run, pc, hand, handled>>

JoinCall(c) ==
  /\ cpc[c] = "idle"
  /\ pc # "unstarted"
  /\ cpc' = [cpc EXCEPT ![c] = "joining"]
  /\ UNCHANGED <<ledger, queue, unfinished, event, run, pc, hand, handled>>

JoinReturn(c) ==
  /\ cpc[c] = "joining"
  /\ pc \in {"exited", "dead"}
  /\ cpc' = [cpc EXCEPT ![c] = "idle"]
  /\ UNCHANGED <<ledger, queue, unfinished, event, run, pc, hand, handled>>

-----------------------------------------------------------------------------
(* The worker.                                                             *)

Start ==
  /\ pc = "unstarted"
  /\ run
  /\ pc' = "check"
  /\ UNCHANGED <<ledger, queue, unfinished, event, run, hand, handled, cpc>>

CheckRun ==
  /\ pc = "check"
  /\ pc' = IF run THEN "drain" ELSE "final"
  /\ UNCHANGED <<ledger, queue, unfinished, event, run, hand, handled, cpc>>

(* Variant: the last call put is the first one served.                     *)
TakeRequestLast ==
  /\ pc = "drain"
  /\ queue # <<>>
  /\ hand' = queue[Len(queue)]
  /\ handled' = Append(handled, queue[Len(queue)])
  /\ queue' = SubSeq(queue, 1, Len(queue) - 1)
  /\ pc' = "exec"
  /\ UNCHANGED <<ledger, unfinished, event, run, cpc>>

TakeRequest ==
  /\ pc = "drain"
  /\ queue # <<>>
  /\ hand' = Head(queue)
  /\ handled' = Append(handled, Head(queue))
  /\ queue' = Tail(queue)
  /\ pc' = "exec"
  /\ UNCHANGED <<ledger, unfinished, event, run, cpc>>

(* Variant: task_done is called on queue.Empty too.                        *)
QueueEmptyCounted ==
  /\ pc = "drain"
  /\ queue = <<>>
  /\ unfinished' = unfinished - 1
  /\ pc' = "loop"
  /\ UNCHANGED <<ledger, queue, event, run, hand, handled, cpc>>

QueueEmpty ==
  /\ pc = "drain"
  /\ queue = <<>>
  /\ pc' = "loop"
  /\ UNCHANGED <<ledger, queue, unfinished, event, run, hand, handled, cpc>>

(* Variant: stop does not set the event a second time.                     *)
HandleStopSilent ==
  /\ pc = "exec"
  /\ ledger[hand].req = Stop
  /\ run' = FALSE
  /\ pc' = "task_done"
  /\ UNCHANGED <<ledger, queue, unfinished, event, hand, handled, cpc>>

HandleStop ==
  /\ pc = "exec"
  /\ ledger[hand].req = Stop
  /\ run' = FALSE
  /\ event' = TRUE
  /\ pc' = "task_done"
  /\ UNCHANGED <<ledger, queue, unfinished, hand, handled, cpc>>

HandlePlain ==
  /\ pc = "exec"
  /\ ledger[hand].req \in Methods
  /\ FollowUp[ledger[hand].req] = None
  /\ pc' = "task_done"
  /\ UNCHANGED <<ledger, queue, unfinished, event, run, hand, handled, cpc>>

(* A handler that calls a decorated method of its own component: the call  *)
(* goes to the end of the very queue that is being drained.                *)
HandleFollowUp ==
  /\ pc = "exec"
  /\ ledger[hand].req \in Methods
  /\ FollowUp[ledger[hand].req] # None
  /\ Put(FollowUp[ledger[hand].req], Worker)
  /\ event' = TRUE
  /\ pc' = "task_done"
  /\ UNCHANGED <<run, hand, handled, cpc>>

(* Variant: task_done is inside the try, so an exception skips it.         *)
HandleRaisesUncounted ==
  /\ pc = "exec"
  /\ ledger[hand].req \in Raising
  /\ pc' = IF Survives THEN "drain" ELSE "dead"
  /\ UNCHANGED <<ledger, queue, unfinished, event, run, hand, handled, cpc>>

(* If handle_exception re-raises, the exception leaves execute_queue before *)
(* task_done and ends the thread; otherwise task_done follows.              *)
HandleRaises ==
  /\ pc = "exec"
  /\ ledger[hand].req \in Raising
  /\ pc' = IF Survives THEN "task_done" ELSE "dead"
  /\ UNCHANGED <<ledger, queue, unfinished, event, run, hand, handled, cpc>>

(* Variant: one call per turn of mainthread instead of a full drain.       *)
TaskDoneOnce ==
  /\ pc = "task_done"
  /\ unfinished' = unfinished - 1
  /\ hand' = 0
  /\ pc' = "loop"
  /\ UNCHANGED <<ledger, queue, event, run, handled, cpc>>

TaskDone ==
  /\ pc = "task_done"
  /\ unfinished' = unfinished - 1
  /\ hand' = 0
  /\ pc' = "drain"
  /\ UNCHANGED <<ledger, queue, event, run, handled, cpc>>

(* Variant: the event is cleared before it is waited for.                  *)
LoopReturnsCleared ==
  /\ pc = "loop"
  /\ event' = FALSE
  /\ pc' = "wait"
  /\ UNCHANGED <<ledger, queue, unfinished, run, hand, handled, cpc>>

LoopReturns ==
  /\ pc = "loop"
  /\ pc' = "wait"
  /\ UNCHANGED <<ledger, queue, unfinished, event, run, hand, handled, cpc>>

LoopFails ==
  /\ pc = "loop"
  /\ LoopRaises
  /\ ~Survives
  /\ pc' = "dead"
  /\ UNCHANGED <<ledger, queue, unfinished, event, run, hand, handled, cpc>>

WokenByEvent ==
  /\ pc = "wait"
  /\ event
  /\ pc' = "clear"
  /\ UNCHANGED <<ledger, queue, unfinished, event, run, hand, handled, cpc>>

WokenByTimeout ==
  /\ pc = "wait"
  /\ ~event
  /\ pc' = "clear"
  /\ UNCHANGED <<ledger, queue, unfinished, event, run, hand, handled, cpc>>

ClearEvent ==
  /\ pc = "clear"
  /\ event' = FALSE
  /\ pc' = "check"
  /\ UNCHANGED <<ledger, queue, unfinished, run, hand, handled, cpc>>

Final ==
  /\ pc = "final"
  /\ pc' = "exited"
  /\ UNCHANGED <<ledger, queue, unfinished, event, run, hand, handled, cpc>>

ExecuteQueue ==
  \/ TakeRequest \/ QueueEmpty \/ TaskDone
  \/ HandleStop \/ HandlePlain \/ HandleFollowUp \/ HandleRaises

MainThread ==
  \/ CheckRun \/ ExecuteQueue \/ LoopReturns \/ LoopFails
  \/ WokenByEvent \/ WokenByTimeout \/ ClearEvent \/ Final

CallerStep(c) ==
  \/ \E r \in Requests : Call(c, r)
  \/ SetEvent(c)
  \/ WaitCall(c) \/ WaitReturn(c)
  \/ JoinCall(c) \/ JoinReturn(c)

Next == Start \/ MainThread \/ \E c \in Callers : CallerStep(c)

Spec == Init /\ [][Next]_vars

(* The scheduler runs the worker and lets a caller finish the call it is   *)
(* in.  Nothing obliges a caller to call.  The timeout of event.wait is    *)
(* left out on purpose: progress must come from the event alone.           *)
Fairness ==
  /\ WF_vars(Start)
  /\ WF_vars(CheckRun \/ ExecuteQueue \/ LoopReturns \/ LoopFails
                      \/ WokenByEvent \/ ClearEvent \/ Final)
  /\ \A c \in Callers : WF_vars(SetEvent(c)) /\ WF_vars(WaitReturn(c))
                                             /\ WF_vars(JoinReturn(c))

FairSpec == Spec /\ Fairness

-----------------------------------------------------------------------------
(* Properties.                                                             *)

Tickets == 1..Len(ledger)

(* A call is over once its handler has returned or raised: from then on    *)
(* its effects are there.                                                  *)
Handled(t) ==
  /\ \E i \in 1..Len(handled) : handled[i] = t
  /\ hand = t => pc = "task_done"

(* Every variable keeps its type (subcomponent.py:16-23).                  *)
TypeOK ==
  /\ ledger \in Seq(Calls)
  /\ queue \in Seq(Nat)
  /\ unfinished \in Nat
  /\ event \in BOOLEAN
  /\ run \in BOOLEAN
  /\ pc \in WorkerPC
  /\ hand \in Nat
  /\ handled \in Seq(Nat)
  /\ cpc \in [Callers -> CallerPC]

(* The worker never goes to sleep on a call it has not seen: while it is   *)
(* in event.wait and the queue is not empty, the event is set or the       *)
(* caller that put last is about to set it.  clear() comes after wait()    *)
(* and before the next drain (lines 34-41): with the two the other way     *)
(* round a call could wait out the whole looptime.                         *)
NoLostWakeup ==
  pc = "wait" /\ queue # <<>> =>
    event \/ \E c \in Callers : cpc[c] = "set_event"

(* A thread whose stop() has taken effect has served every call that was   *)
(* put before that stop: this is what lets Roach2.stop and Ringbuffer.stop *)
(* queue their cleanup first and their stop after it.                      *)
StopDrains ==
  pc \in {"final", "exited"} =>
    \E s \in Tickets :
      /\ ledger[s].req = Stop
      /\ \A t \in 1..s : Handled(t)

(* What a handler queues on its own component (abort_observation queues    *)
(* cleanup_observation) is served in the same drain, so loop() and the end *)
(* of the thread never find it pending (lines 67-77).                      *)
FollowUpsDrained ==
  pc \in {"loop", "wait", "clear", "check", "final", "exited"} =>
    \A t \in Tickets : ledger[t].by = Worker => Handled(t)

(* wait() returns to a thread only when every call put so far has been     *)
(* served, those its own calls queued in turn included: the caller's       *)
(* unfinished count may not touch zero between a call and its follow-up    *)
(* (lines 60-61, 72-75).                                                   *)
WaitCoversCalls ==
  [][\A c \in Callers :
       cpc[c] = "waiting" /\ cpc'[c] = "idle" =>
         \A t \in Tickets : Handled(t)]_vars

(* The component is a mailbox: first come first served over all callers,   *)
(* one at a time, closed only by a stop or an exception.                   *)
Box == INSTANCE Mailbox WITH
         MayDie <- (~Survives /\ (LoopRaises \/ Raising # {})),
         posted <- [t \in 1..Len(ledger) |-> ledger[t].req],
         taken  <- handled,
         open   <- pc \notin {"exited", "dead"}
ImplementsMailbox == Box!Spec

(* Every call put on a component that has been started is served in the    *)
(* end, unless its thread ends first: the event alone brings this about,   *)
(* whatever the looptime.                                                  *)
EveryCallServed ==
  \A t \in 1..MaxPuts :
    (t \in Tickets) ~> (Handled(t) \/ pc \in {"exited", "dead"})

(* A stop() ends the thread, so that join() returns (lines 54-65).         *)
StopEndsThread ==
  (\E t \in Tickets : ledger[t].req = Stop) ~> (pc \in {"exited", "dead"})

(* wait() returns unless the thread has ended: a thread that died in a     *)
(* handler or left calls behind keeps its waiters for ever.                *)
WaitReturns ==
  \A c \in Callers :
    (cpc[c] = "waiting") ~> (cpc[c] # "waiting" \/ pc \in {"exited", "dead"})
=============================================================================
