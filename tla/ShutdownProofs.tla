--------------------------- MODULE ShutdownProofs ---------------------------
(***************************************************************************)
(* The end of the program is shown to the user: for any band, any sources  *)
(* and any failures, wherever SHUTDOWN or SIGINT finds the threads.        *)
(***************************************************************************)
EXTENDS Shutdown, ObservationProofs

EndRequests == [op : {"start", "abort", "stop", "shutdown"},
             src : Sources \cup {NoSource}, by : {"user", "backend"}]

IsShutdown(i) == bq[i].op = "shutdown"

(* The request to shut down is put once, and is gone when it is served.    *)
OneShutdown ==
  /\ \A i, j \in 1..Len(bq) : IsShutdown(i) /\ IsShutdown(j) => i = j
  /\ by # "SHUTDOWN" \/ spc # "idle" => \A i \in 1..Len(bq) : ~IsShutdown(i)

(* SHUTDOWN runs stop() in the backend's thread, which does nothing else.  *)
StopHolds ==
  /\ by = "nobody" => spc = "idle"
  /\ by = "SHUTDOWN" /\ Stopping => bpc = "stopping"

(* What Monitor has still to write.                                        *)
Published ==
  spc = "monitor" => /\ overall = "Shutdown"
                     /\ by = "SHUTDOWN" => status = "Shutdown"

SInv ==
  /\ bq \in Seq(EndRequests)
  /\ OneShutdown
  /\ StopHolds
  /\ Published
  /\ ShutdownShown

LEMMA InitSInv == StoppingInit => SInv
BY DEF StoppingInit, Init, SInv, OneShutdown, IsShutdown, StopHolds, Stopping,
       Published, ShutdownShown

-----------------------------------------------------------------------------
(* What happens to the backend's queue: a request is taken from its head,  *)
(* and others than a shutdown are put at its end.                          *)

LEMMA HeadTaken ==
  ASSUME SInv, bq # <<>>
  PROVE  /\ Head(bq) \in EndRequests /\ Tail(bq) \in Seq(EndRequests)
         /\ Len(bq) \in Nat /\ Len(Tail(bq)) = Len(bq) - 1
         /\ \A i \in 1..Len(Tail(bq)) : i + 1 \in 1..Len(bq) /\ Tail(bq)[i] = bq[i + 1]
         /\ 1 \in 1..Len(bq) /\ bq[1] = Head(bq)
<1>1. bq \in Seq(EndRequests)
  BY DEF SInv
<1>2. /\ Head(bq) \in EndRequests /\ Tail(bq) \in Seq(EndRequests)
      /\ Len(Tail(bq)) = Len(bq) - 1
      /\ \A i \in 1..Len(Tail(bq)) : Tail(bq)[i] = bq[i + 1]
  BY <1>1, HeadTailProperties
<1>3. Len(bq) \in Nat /\ Len(bq) > 0
  BY <1>1
<1>4. \A i \in 1..Len(Tail(bq)) : i + 1 \in 1..Len(bq)
  BY <1>2, <1>3
<1> QED
  BY <1>1, <1>2, <1>3, <1>4

(* No shutdown comes into the queue, and none is twice in it.              *)
LEMMA QueueShrinks ==
  ASSUME SInv, NEW q \in Seq(EndRequests), bq' = q,
         NEW off \in Nat,
         \A i \in 1..Len(q) : q[i].op = "shutdown" =>
           i + off \in 1..Len(bq) /\ IsShutdown(i + off),
         by' = by,
         \/ spc' = spc
         \/ /\ spc' # "idle"
            /\ \A i \in 1..Len(q) : q[i].op # "shutdown"
  PROVE  bq' \in Seq(EndRequests) /\ OneShutdown'
<1>1. ASSUME NEW i \in 1..Len(q), NEW j \in 1..Len(q),
             q[i].op = "shutdown", q[j].op = "shutdown"
      PROVE  i = j
  <2>1. i + off = j + off
    BY <1>1 DEF SInv, OneShutdown
  <2> QED
    BY <2>1
<1>2. by' # "SHUTDOWN" \/ spc' # "idle" => \A i \in 1..Len(q) : q[i].op # "shutdown"
  BY DEF SInv, OneShutdown
<1> QED
  BY <1>1, <1>2 DEF OneShutdown, IsShutdown

LEMMA QueueTakes ==
  ASSUME SInv, bq # <<>>, NEW more \in Seq(EndRequests),
         \A i \in 1..Len(more) : more[i].op # "shutdown",
         bq' = Tail(bq) \o more, by' = by, spc' = spc
  PROVE  bq' \in Seq(EndRequests) /\ OneShutdown'
<1> DEFINE t == Tail(bq)
           q == t \o more
<1>1. /\ t \in Seq(EndRequests) /\ Len(t) \in Nat /\ Len(more) \in Nat
      /\ \A i \in 1..Len(t) : i + 1 \in 1..Len(bq) /\ t[i] = bq[i + 1]
  BY HeadTaken
<1> HIDE DEF t
<1>2. /\ q \in Seq(EndRequests) /\ Len(q) = Len(t) + Len(more)
      /\ \A i \in 1..Len(t) + Len(more) :
           q[i] = IF i <= Len(t) THEN t[i] ELSE more[i - Len(t)]
  BY <1>1, ConcatProperties
<1> HIDE DEF q
<1>3. ASSUME NEW i \in 1..Len(q), q[i].op = "shutdown"
      PROVE  i + 1 \in 1..Len(bq) /\ IsShutdown(i + 1)
  <2>1. i <= Len(t)
    <3> SUFFICES ASSUME i > Len(t) PROVE FALSE
      BY <1>1, <1>2
    <3>1. i - Len(t) \in 1..Len(more) /\ q[i] = more[i - Len(t)]
      BY <1>1, <1>2
    <3> QED
      BY <1>3, <3>1
  <2>2. i \in 1..Len(t) /\ q[i] = t[i]
    BY <1>1, <1>2, <2>1
  <2> QED
    BY <1>1, <1>3, <2>2 DEF IsShutdown
<1>4. bq' = q
  BY DEF q, t
<1> QED
  BY <1>2, <1>3, <1>4, QueueShrinks

LEMMA QueueGrows ==
  ASSUME SInv, NEW r \in EndRequests, bq' = Append(bq, r), by' = by,
         r.op # "shutdown",
         spc' = spc \/ (spc # "idle" /\ spc' # "idle")
  PROVE  bq' \in Seq(EndRequests) /\ OneShutdown'
<1> DEFINE q == Append(bq, r)
<1>1. /\ q \in Seq(EndRequests) /\ Len(bq) \in Nat /\ Len(q) = Len(bq) + 1
      /\ q[Len(bq) + 1] = r /\ \A i \in 1..Len(bq) : q[i] = bq[i]
  BY DEF SInv
<1> HIDE DEF q
<1>2. ASSUME NEW i \in 1..Len(q), q[i].op = "shutdown"
      PROVE  i + 0 \in 1..Len(bq) /\ IsShutdown(i + 0)
  <2>1. i \in 1..Len(bq)
    BY <1>1, <1>2
  <2> QED
    BY <1>1, <1>2, <2>1 DEF IsShutdown
<1>3. bq' = q
  BY DEF q
<1>4. spc # "idle" => \A i \in 1..Len(q) : q[i].op # "shutdown"
  BY <1>2 DEF SInv, OneShutdown
<1> QED
  BY <1>1, <1>2, <1>3, <1>4, QueueShrinks

-----------------------------------------------------------------------------
(* The steps that leave stop() where it is.                                *)

Elsewhere ==
  /\ UNCHANGED <<by, spc, overall, shown>>
  /\ UNCHANGED <<status, bpc>> \/ bpc # "stopping"

LEMMA ElsewhereSInv ==
  ASSUME SInv, Elsewhere, bq' \in Seq(EndRequests), OneShutdown'
  PROVE  SInv'
<1>1. StopHolds'
  BY DEF SInv, Elsewhere, StopHolds, Stopping
<1>2. Published'
  BY DEF SInv, Elsewhere, StopHolds, Stopping, Published
<1>3. ShutdownShown'
  BY DEF SInv, Elsewhere, ShutdownShown
<1> QED
  BY <1>1, <1>2, <1>3 DEF SInv

(* The steps that leave the backend's queue alone too.                     *)
LEMMA SameQueue ==
  ASSUME SInv, bq' = bq, by' = by,
         spc' = spc \/ (spc # "idle" /\ spc' # "idle")
  PROVE  bq' \in Seq(EndRequests) /\ OneShutdown'
BY DEF SInv, OneShutdown, IsShutdown

LEMMA CommandSInv ==
  ASSUME SInv, NEW r \in UserRequests, During(Command(r))
  PROVE  SInv'
<1>1. r \in EndRequests /\ r.op # "shutdown"
  BY DEF UserRequests, StartReq, AbortReq, EndRequests
<1>2. bq' = Append(bq, r) /\ Elsewhere
  BY DEF During, Command, Elsewhere, stopVars
<1>3. bq' \in Seq(EndRequests) /\ OneShutdown'
  BY <1>1, <1>2, QueueGrows DEF Elsewhere
<1> QED
  BY <1>2, <1>3, ElsewhereSInv

(* What start_observation leaves on the queue when it returns early.       *)
Mores == {<<>>, <<AbortReq("backend"), StartReq(Head(bq).src, "backend")>>}

LEMMA MoreRequests ==
  ASSUME SInv, bq # <<>>, NEW more \in Mores
  PROVE  more \in Seq(EndRequests) /\ \A i \in 1..Len(more) : more[i].op # "shutdown"
<1> DEFINE a == AbortReq("backend")
           b == StartReq(Head(bq).src, "backend")
<1>1. Head(bq) \in EndRequests
  BY HeadTaken
<1>2. a \in EndRequests /\ b \in EndRequests /\ a.op # "shutdown" /\ b.op # "shutdown"
  BY <1>1 DEF AbortReq, StartReq, EndRequests
<1> HIDE DEF a, b
<1>3. CASE more = <<>>
  BY <1>3
<1>4. CASE more = <<a, b>>
  BY <1>2, <1>4
<1> QED
  BY <1>3, <1>4 DEF Mores, a, b

LEMMA BackendSInv ==
  ASSUME SInv, Watched(Backend /\ UNCHANGED stopVars)
  PROVE  SInv'
<1>1. Backend /\ UNCHANGED stopVars
  BY DEF Watched
<1>2. bpc # "stopping"
  BY <1>1 DEF Backend, StartAlready, StartChangesSource, StartRefused,
              StartReturns, StartAccepted, StartFrom, Serve, BuffersReady,
              BuffersFailed, DspsrWaited, DspsrWaitedUntil, Roach2Waited,
              Abort, AbortTick, AbortTickBelow, AbortDspsr, EnoughTicks,
              AbortCheck, BackendDrained, BackendLoop, BackendLoopCleans, Turn
<1>3. Elsewhere
  BY <1>1, <1>2 DEF Elsewhere, stopVars
<1>4. CASE StartAlready \/ StartChangesSource \/ StartRefused
  <2>1. bq # <<>> /\ \E more \in Mores : bq' = Tail(bq) \o more
    BY <1>4 DEF StartAlready, StartChangesSource, StartRefused, StartReturns,
                Serve, Mores
  <2>2. bq' \in Seq(EndRequests) /\ OneShutdown'
    BY <1>3, <2>1, MoreRequests, QueueTakes DEF Elsewhere
  <2> QED
    BY <1>3, <2>2, ElsewhereSInv
<1>5. CASE StartAccepted \/ Abort
  <2>1. bq # <<>> /\ bq' = Tail(bq)
    BY <1>5 DEF StartAccepted, StartFrom, Abort, Serve
  <2>2. bq' = Tail(bq) \o <<>>
    BY <2>1, HeadTaken, ConcatEmptySeq
  <2>3. bq' \in Seq(EndRequests) /\ OneShutdown'
    BY <1>3, <2>1, <2>2, MoreRequests, QueueTakes DEF Elsewhere, Mores
  <2> QED
    BY <1>3, <2>3, ElsewhereSInv
<1>6. CASE bq' = bq
  BY <1>3, <1>6, SameQueue, ElsewhereSInv DEF Elsewhere
<1> QED
  BY <1>1, <1>4, <1>5, <1>6
     DEF Backend, BuffersReady, BuffersFailed, DspsrWaited, DspsrWaitedUntil,
         Roach2Waited, AbortTick, AbortTickBelow, AbortDspsr, EnoughTicks,
         AbortCheck, BackendDrained, BackendLoop, BackendLoopCleans, Turn

LEMMA BackendServesStopSInv ==
  ASSUME SInv, Watched(BackendServesStop /\ UNCHANGED stopVars)
  PROVE  SInv'
<1>1. Elsewhere /\ bq # <<>> /\ bq' = Tail(bq)
  BY DEF Watched, BackendServesStop, Serve, Elsewhere, stopVars
<1>2. bq' = Tail(bq) \o <<>>
  BY <1>1, HeadTaken, ConcatEmptySeq
<1>3. bq' \in Seq(EndRequests) /\ OneShutdown'
  BY <1>1, <1>2, MoreRequests, QueueTakes DEF Elsewhere, Mores
<1> QED
  BY <1>1, <1>3, ElsewhereSInv

-----------------------------------------------------------------------------
(* How stop() begins, and its steps.                                       *)

LEMMA RequestShutdownSInv ==
  ASSUME SInv, Watched(RequestShutdown)
  PROVE  SInv'
<1> DEFINE q == Append(bq, ShutdownReq)
<1>1. /\ by = "nobody" /\ spc = "idle" /\ by' = "SHUTDOWN" /\ bq' = q
      /\ UNCHANGED <<spc, overall, shown, status, bpc>>
  BY DEF Watched, RequestShutdown, SInv, StopHolds
<1>2. ShutdownReq \in EndRequests
  BY DEF ShutdownReq, EndRequests
<1>3. /\ q \in Seq(EndRequests) /\ Len(bq) \in Nat /\ Len(q) = Len(bq) + 1
      /\ \A i \in 1..Len(bq) : q[i] = bq[i]
  BY <1>2 DEF SInv
<1>4. \A i \in 1..Len(bq) : ~IsShutdown(i)
  BY <1>1 DEF SInv, OneShutdown
<1> HIDE DEF q
<1>5. OneShutdown'
  BY <1>1, <1>3, <1>4 DEF OneShutdown, IsShutdown
<1> QED
  BY <1>1, <1>3, <1>5 DEF SInv, StopHolds, Stopping, Published, ShutdownShown

LEMMA ServeShutdownSInv ==
  ASSUME SInv, Watched(ServeShutdown)
  PROVE  SInv'
<1>1. /\ bq # <<>> /\ Head(bq).op = "shutdown" /\ bq' = Tail(bq)
      /\ bpc' = "stopping" /\ spc' = "begin"
      /\ UNCHANGED <<by, overall, shown, status>>
  BY DEF Watched, ServeShutdown, Serve
<1> DEFINE q == Tail(bq)
<1>2. /\ q \in Seq(EndRequests) /\ Len(q) \in Nat
      /\ \A i \in 1..Len(q) : i + 1 \in 1..Len(bq) /\ q[i] = bq[i + 1]
      /\ 1 \in 1..Len(bq) /\ IsShutdown(1)
  BY <1>1, HeadTaken DEF IsShutdown
<1> HIDE DEF q
<1>3. by = "SHUTDOWN" /\ spc = "idle"
  BY <1>2 DEF SInv, OneShutdown
<1>4. \A i \in 1..Len(q) : q[i].op # "shutdown"
  <2> SUFFICES ASSUME NEW i \in 1..Len(q), q[i].op = "shutdown" PROVE FALSE
    OBVIOUS
  <2>1. i + 1 = 1
    BY <1>2 DEF SInv, OneShutdown, IsShutdown
  <2> QED
    BY <1>2, <2>1
<1>5. bq' = q
  BY <1>1 DEF q
<1>6. OneShutdown'
  BY <1>4, <1>5 DEF OneShutdown, IsShutdown
<1> QED
  BY <1>1, <1>2, <1>3, <1>5, <1>6
     DEF SInv, StopHolds, Stopping, Published, ShutdownShown

LEMMA SigintSInv ==
  ASSUME SInv, Watched(Sigint)
  PROVE  SInv'
<1>1. /\ by = "nobody" /\ by' = "SIGINT" /\ spc' = "begin"
      /\ UNCHANGED <<bq, overall, shown, status, bpc>>
  BY DEF Watched, Sigint, vars, backendVars
<1>2. OneShutdown'
  BY <1>1 DEF SInv, OneShutdown, IsShutdown
<1> QED
  BY <1>1, <1>2 DEF SInv, StopHolds, Stopping, Published, ShutdownShown

LEMMA StopSInv ==
  ASSUME SInv, Watched(Stop)
  PROVE  SInv'
<1>1. Stop
  BY DEF Watched
<1>2. by' = by /\ spc # "idle" /\ spc' # "idle" /\ spc # "done"
  BY <1>1 DEF Stop, StopBegins, DestroyNext, StopRingbuffer,
              StopRingbufferRaises, AbortRoach2, StopRoach2, StopDspsr,
              StopBackend, JoinAll, PublishShutdown, Publishes, MonitorEnds, At
<1>3. bq' = bq \/ bq' = Append(bq, StopReq)
  BY <1>1 DEF Stop, StopBegins, DestroyNext, StopRingbuffer,
              StopRingbufferRaises, PutRingStop, AbortRoach2, StopRoach2,
              StopDspsr, Calls, StopBackend, JoinAll, PublishShutdown,
              Publishes, MonitorEnds
<1>4. StopReq \in EndRequests /\ StopReq.op # "shutdown"
  BY DEF StopReq, EndRequests
<1>5. bq' \in Seq(EndRequests) /\ OneShutdown'
  BY <1>2, <1>3, <1>4, SameQueue, QueueGrows
<1>6. CASE MonitorEnds
  <2>1. /\ spc = "monitor" /\ spc' = "done" /\ shown' = <<status, overall>>
        /\ by' = by
    BY <1>6 DEF MonitorEnds, At
  <2> QED
    BY <1>5, <2>1 DEF SInv, StopHolds, Stopping, Published, ShutdownShown
<1>7. CASE PublishShutdown
  <2>1. /\ spc = "publish" /\ spc' = "monitor" /\ status' = "Shutdown"
        /\ overall' = "Shutdown" /\ bpc' = bpc
    BY <1>7 DEF PublishShutdown, Publishes, At
  <2> QED
    BY <1>2, <1>5, <2>1 DEF SInv, StopHolds, Stopping, Published, ShutdownShown
<1>8. CASE ~MonitorEnds /\ ~PublishShutdown
  <2>1. bpc' = bpc /\ spc' \notin {"monitor", "done"}
    BY <1>1, <1>8 DEF Stop, StopBegins, DestroyNext, StopRingbuffer,
         StopRingbufferRaises, PutRingStop, AbortRoach2, StopRoach2, StopDspsr,
         Calls, Queues, StopBackend, JoinAll, At
  <2> QED
    BY <1>2, <1>5, <2>1 DEF SInv, StopHolds, Stopping, Published, ShutdownShown
<1> QED
  BY <1>6, <1>7, <1>8

-----------------------------------------------------------------------------
LEMMA NextSInv == SInv /\ [StoppingNext]_allVars => SInv'
<1> SUFFICES ASSUME SInv, [StoppingNext]_allVars PROVE SInv'
  OBVIOUS
<1>1. CASE UNCHANGED <<backendVars, stopVars>>
  <2>1. Elsewhere /\ bq' = bq
    BY <1>1 DEF Elsewhere, backendVars, stopVars
  <2> QED
    BY <2>1, SameQueue, ElsewhereSInv DEF Elsewhere
<1>2. CASE RingThread
  <2>1. UNCHANGED <<backendVars, stopVars>>
    BY <1>2 DEF RingThread, During, Ringbuffer, RingServesStop, RingExits
  <2> QED
    BY <1>1, <2>1
<1>3. CASE DspsrThread
  <2>1. UNCHANGED <<backendVars, stopVars>>
    BY <1>3 DEF DspsrThread, During, Working, ServeStop
  <2> QED
    BY <1>1, <2>1
<1>4. CASE Roach2Thread
  <2>1. UNCHANGED <<backendVars, stopVars>>
    BY <1>4 DEF Roach2Thread, During, Working, ServeStop, StartWiped
  <2> QED
    BY <1>1, <2>1
<1>5. CASE \E w \in Workers, b \in Bands : During(Working(Exits(w, b)))
  <2>1. UNCHANGED <<backendVars, stopVars>>
    BY <1>5 DEF During, Working
  <2> QED
    BY <1>1, <2>1
<1>6. CASE UNCHANGED allVars
  <2>1. UNCHANGED <<backendVars, stopVars>>
    BY <1>6 DEF allVars, vars
  <2> QED
    BY <1>1, <2>1
<1>7. CASE \E r \in UserRequests : During(Command(r))
  BY <1>7, CommandSInv
<1> QED
  BY <1>2, <1>3, <1>4, <1>5, <1>6, <1>7, BackendSInv, BackendServesStopSInv,
     RequestShutdownSInv, ServeShutdownSInv, SigintSInv, StopSInv
     DEF StoppingNext, BackendThread

(* Monitor's last word is Shutdown: after a SHUTDOWN in both places, after *)
(* a SIGINT in status at least (nunabe.py:116-121).                        *)
THEOREM ShownSafety == StoppingSpec => []ShutdownShown
<1>1. SInv => ShutdownShown
  BY DEF SInv
<1> QED
  BY <1>1, InitSInv, NextSInv, PTL DEF StoppingSpec

-----------------------------------------------------------------------------
(* The steps of stop(), and those before which a thread is not yet told to *)
(* stop.                                                                   *)
StopSteps == {"idle", "begin", "destroy", "roach2_abort", "roach2_stop",
          "dspsr_first", "dspsr_second", "own_stop", "join", "publish",
          "monitor", "done"}
BeforeRing == {"idle", "begin", "destroy"}
Early(w) == BeforeRing \cup {"roach2_abort", "roach2_stop"}
              \cup (IF w = "dspsr" THEN {"dspsr_first"} ELSE {})
Joined == {"publish", "monitor", "done"}

CallNames == {"start", "abort", "cleanup", "stop"}
Phases == {"drain", "loop", "exited", "dead"}

ThreadsTyped ==
  /\ run \in [Threads -> BOOLEAN]
  /\ phase \in [Threads \ {"backend"} -> Phases]
  /\ calls \in [Workers -> Seq(CallNames)]
  /\ proc \in [Workers -> [Bands -> {"none", "running", "ok", "err"}]]

(* A start that is under way during stop() is seen, and stop() in the      *)
(* backend's own thread meets none.                                        *)
Control ==
  /\ spc \in StopSteps
  /\ by \in {"nobody", "SHUTDOWN", "SIGINT"}
  /\ clash \in BOOLEAN
  /\ InStart /\ Stopping => clash
  /\ by # "SIGINT" => ~clash
  /\ wiped => spc \notin Early("roach2")

LEMMA InitControl == StoppingInit => Control
BY DEF StoppingInit, Control, StopSteps, Stopping, Early, BeforeRing

(* The way through stop().                                                 *)
Path(s, t) ==
  \/ s = "begin" /\ t = "destroy"
  \/ s = "destroy" /\ t \in {"destroy", "roach2_abort"}
  \/ s = "roach2_abort" /\ t = "roach2_stop"
  \/ s = "roach2_stop" /\ t = "dspsr_first"
  \/ s = "dspsr_first" /\ t = "dspsr_second"
  \/ s = "dspsr_second" /\ t = "own_stop"
  \/ s = "own_stop" /\ t = "join"
  \/ s = "join" /\ t = "publish"
  \/ s = "publish" /\ t = "monitor"
  \/ s = "monitor" /\ t = "done"

LEMMA StopPath ==
  ASSUME Stop
  PROVE  Path(spc, spc') /\ by' = by
BY DEF Stop, StopBegins, DestroyNext, StopRingbuffer, StopRingbufferRaises,
       AbortRoach2, StopRoach2, StopDspsr, StopBackend, JoinAll,
       PublishShutdown, Publishes, MonitorEnds, At, Path

LEMMA StopWipes ==
  ASSUME Stop
  PROVE  wiped' = wiped \/ spc' = "dspsr_first"
BY DEF Stop, StopBegins, DestroyNext, StopRingbuffer, StopRingbufferRaises,
       PutRingStop, AbortRoach2, Calls, StopRoach2, StopDspsr, StopBackend,
       JoinAll, PublishShutdown, Publishes, MonitorEnds, At, Queues

(* The steps of the other threads.                                         *)
Quiet == UNCHANGED <<spc, by, bpc, clash, wiped>>

LEMMA QuietControl == ASSUME Control, Quiet PROVE Control'
BY DEF Control, Quiet, InStart, Stopping

LEMMA WatchedControl ==
  ASSUME SInv', Control, clash' = (clash \/ (InStart /\ Stopping)'),
         spc' \in StopSteps, by' \in {"nobody", "SHUTDOWN", "SIGINT"},
         by' = "SIGINT" \/ by # "SIGINT",
         wiped' => spc' \notin Early("roach2")
  PROVE  Control'
<1>1. clash' \in BOOLEAN /\ ((InStart /\ Stopping)' => clash')
  OBVIOUS
<1>2. ASSUME by' # "SIGINT" PROVE ~(InStart /\ Stopping)'
  BY <1>2 DEF SInv, StopHolds, InStart, Stopping
<1>3. by' # "SIGINT" => ~clash'
  BY <1>2 DEF Control
<1> QED
  BY <1>1, <1>3 DEF Control

LEMMA NextControl ==
  ASSUME SInv, Control, [StoppingNext]_allVars
  PROVE  Control'
<1>0. SInv'
  BY NextSInv
<1>1. CASE Watched(Stop)
  <2>1. Stop /\ clash' = (clash \/ (InStart /\ Stopping)')
    BY <1>1 DEF Watched
  <2>2. Path(spc, spc') /\ by' = by /\ (wiped' = wiped \/ spc' = "dspsr_first")
    BY <2>1, StopPath, StopWipes
  <2>3. spc' \in StopSteps
    BY <2>2 DEF Path, StopSteps
  <2>4. wiped' => spc' \notin Early("roach2")
    BY <2>2 DEF Path, Control, Early, BeforeRing
  <2>5. by' \in {"nobody", "SHUTDOWN", "SIGINT"}
    BY <2>2 DEF Control
  <2> QED
    BY <1>0, <2>1, <2>2, <2>3, <2>4, <2>5, WatchedControl
<1>2. CASE Watched(Sigint) \/ Watched(RequestShutdown) \/ Watched(ServeShutdown)
  <2>1. /\ clash' = (clash \/ (InStart /\ Stopping)') /\ wiped' = wiped
        /\ by' \in {"nobody", "SHUTDOWN", "SIGINT"}
        /\ by' = "SIGINT" \/ by # "SIGINT"
        /\ spc' = spc \/ spc' = "begin"
    BY <1>2 DEF Watched, Sigint, RequestShutdown, ServeShutdown, Control
  <2>2. spc' = "begin" => ~wiped
    <3>1. CASE Watched(Sigint)
      BY <3>1 DEF Watched, Sigint, SInv, StopHolds, Control, Early, BeforeRing
    <3>2. CASE Watched(RequestShutdown)
      BY <3>2 DEF Watched, RequestShutdown, Control, Early, BeforeRing
    <3>3. CASE Watched(ServeShutdown)
      <4>1. spc = "idle"
        <5>1. bq # <<>> /\ Head(bq).op = "shutdown"
          BY <3>3 DEF Watched, ServeShutdown, Serve
        <5>2. 1 \in 1..Len(bq) /\ IsShutdown(1)
          BY <5>1, HeadTaken DEF IsShutdown
        <5> QED
          BY <5>2 DEF SInv, OneShutdown
      <4> QED
        BY <4>1 DEF Control, Early, BeforeRing
    <3> QED
      BY <1>2, <3>1, <3>2, <3>3
  <2>3. spc' \in StopSteps /\ (wiped' => spc' \notin Early("roach2"))
    BY <2>1, <2>2 DEF Control, StopSteps
  <2> QED
    BY <1>0, <2>1, <2>3, WatchedControl
<1>3. CASE \/ Watched(Backend /\ UNCHANGED stopVars)
           \/ Watched(BackendServesStop /\ UNCHANGED stopVars)
  <2>1. /\ clash' = (clash \/ (InStart /\ Stopping)')
        /\ UNCHANGED <<spc, by, wiped>>
    BY <1>3 DEF Watched, stopVars
  <2>2. /\ spc' \in StopSteps /\ by' \in {"nobody", "SHUTDOWN", "SIGINT"}
        /\ wiped' => spc' \notin Early("roach2")
    BY <2>1 DEF Control
  <2> QED
    BY <1>0, <2>1, <2>2, WatchedControl
<1>4. CASE \E r \in UserRequests : During(Command(r))
  BY <1>4, QuietControl DEF During, Command, Quiet, stopVars
<1>5. CASE RingThread \/ DspsrThread \/ Roach2Thread
  BY <1>5, QuietControl DEF RingThread, DspsrThread, Roach2Thread, During,
     Working, Ringbuffer, RingServesStop, RingExits, ServeStop, StartWiped,
     backendVars, stopVars, Quiet
<1>6. CASE \E w \in Workers, b \in Bands : During(Working(Exits(w, b)))
  BY <1>6, QuietControl DEF During, Working, backendVars, stopVars, Quiet
<1>7. CASE UNCHANGED allVars
  BY <1>7, QuietControl DEF allVars, vars, backendVars, stopVars, Quiet
<1> QED
  BY <1>1, <1>2, <1>3, <1>4, <1>5, <1>6, <1>7 DEF StoppingNext, BackendThread

-----------------------------------------------------------------------------
(* The shared memory.                                                      *)

StopCall == [op |-> "stop"]
BufferCalls == [op : {"destroy", "create"}, band : Bands]
DestroyCall(b) == [op |-> "destroy", band |-> b]

RingTyped ==
  /\ gq \in Seq(BufferCalls \cup {StopCall})
  /\ rb \in [Bands -> {"absent", "ready", "closed"}]
  /\ shm \in [Bands -> BOOLEAN]
  /\ iter \in [all : SUBSET Bands, left : SUBSET Bands]
  /\ run \in [Threads -> BOOLEAN]
  /\ phase \in [Threads \ {"backend"} -> Phases]
  /\ phase["ringbuffer"] \in {"drain", "exited"}

(* Ringbuffer serves its queue until stop() has put its stop.              *)
RingServes ==
  spc \in BeforeRing =>
    phase["ringbuffer"] = "drain" /\ run["ringbuffer"] /\ ~InQueue(StopCall, gq)

(* A buffer is made only while the backend waits for it.                   *)
CreatesAwaited ==
  \A b \in Bands : InQueue([op |-> "create", band |-> b], gq) =>
    bpc = "wait_buffers" \/ spc = "done"

(* No buffer appears or goes under the loop of Ringbuffer.stop, and each   *)
(* has its destroy on the queue or is still to get it.                     *)
Remaining ==
  spc = "destroy" /\ ~clash =>
    /\ iter.all = Keys
    /\ \A b \in Bands : rb[b] = "ready" =>
         b \in iter.left \/ InQueue(DestroyCall(b), gq)

(* From then on Ringbuffer does not end before the destroys are served.    *)
Destroyed ==
  spc \notin BeforeRing /\ ~clash =>
    \A b \in Bands : rb[b] = "ready" =>
      phase["ringbuffer"] = "drain" /\ InQueue(DestroyCall(b), gq)

(* When dada_db does not fail.                                             *)
MemoryOfReady == \A b \in Bands : shm[b] => rb[b] = "ready"

RingInv ==
  /\ RingTyped
  /\ RingServes
  /\ CreatesAwaited
  /\ Remaining
  /\ Destroyed
  /\ spc \in Joined => phase["ringbuffer"] = "exited"
  /\ "buffer" \notin Faults => MemoryOfReady

LEMMA InitRing == StoppingInit => RingInv
<1> SUFFICES ASSUME StoppingInit PROVE RingInv
  OBVIOUS
<1>1. /\ gq = <<>> /\ spc = "idle" /\ rb = All("absent") /\ shm = All(FALSE)
      /\ run = [t \in Threads |-> TRUE]
      /\ phase = [t \in Threads \ {"backend"} |-> "drain"]
      /\ iter = [all |-> {}, left |-> {}]
  BY DEF StoppingInit, Init
<1>2. "ringbuffer" \in Threads \ {"backend"}
  BY DEF Threads, Workers
<1>3. RingTyped /\ MemoryOfReady
  BY <1>1, <1>2 DEF RingTyped, Phases, All, MemoryOfReady
<1>4. RingServes /\ CreatesAwaited
  BY <1>1, <1>2, InEmpty DEF RingServes, CreatesAwaited
<1>5. Remaining /\ Destroyed /\ spc \notin Joined
  BY <1>1 DEF Remaining, Destroyed, BeforeRing, Joined
<1> QED
  BY <1>3, <1>4, <1>5 DEF RingInv

(* StopSteps that are no business of Ringbuffer's.                             *)
LEMMA RingElsewhere ==
  ASSUME RingInv, UNCHANGED <<gq, rb, shm, iter, spc>>,
         clash => clash',
         bpc = "wait_buffers" /\ gq # <<>> => bpc' = "wait_buffers",
         run' \in [Threads -> BOOLEAN], phase' \in [Threads \ {"backend"} -> Phases],
         phase'["ringbuffer"] = phase["ringbuffer"],
         run'["ringbuffer"] = run["ringbuffer"]
  PROVE  RingInv'
<1>1. RingTyped' /\ RingServes'
  BY DEF RingInv, RingTyped, RingServes
<1>2. CreatesAwaited'
  <2> SUFFICES ASSUME NEW b \in Bands, InQueue([op |-> "create", band |-> b], gq)
               PROVE  bpc' = "wait_buffers" \/ spc = "done"
    BY DEF CreatesAwaited
  <2>1. gq # <<>>
    BY InEmpty
  <2> QED
    BY <2>1 DEF RingInv, CreatesAwaited
<1>3. Remaining' /\ Destroyed'
  BY DEF RingInv, Remaining, Destroyed, Keys
<1>4. MemoryOfReady => MemoryOfReady'
  BY DEF MemoryOfReady
<1> QED
  BY <1>1, <1>2, <1>3, <1>4 DEF RingInv

(* What serving a call does to a buffer.                                   *)
LEMMA BufferServed ==
  ASSUME RingTyped, NEW b \in Bands,
         \/ DestroyIgnored(b) \/ Destroy(b) \/ CreateIgnored(b) \/ Create(b)
         \/ CreateFails(b) \/ CreateRaises(b)
  PROVE  /\ rb' \in [Bands -> {"absent", "ready", "closed"}]
         /\ shm' \in [Bands -> BOOLEAN]
         /\ "buffer" \notin Faults /\ MemoryOfReady => MemoryOfReady'
         /\ gq # <<>> /\ gq' = Tail(gq)
         /\ \/ Head(gq) = [op |-> "create", band |-> b]
            \/ /\ Head(gq) = DestroyCall(b)
               /\ rb'[b] # "ready"
               /\ \A c \in Bands : rb'[c] = "ready" => rb[c] = "ready"
               /\ Keys' = Keys
<1>1. CASE DestroyIgnored(b)
  BY <1>1 DEF RingTyped, DestroyIgnored, ServeBuffer, DestroyCall, ringVars,
              MemoryOfReady, Keys
<1>2. CASE Destroy(b)
  <2>1. PICK left \in BOOLEAN : /\ left => "buffer" \in Faults
                                /\ shm' = [shm EXCEPT ![b] = left]
    BY <1>2 DEF Destroy
  <2>2. rb' = [rb EXCEPT ![b] = "closed"] /\ rb[b] = "ready"
    BY <1>2 DEF Destroy
  <2>3. "buffer" \notin Faults /\ MemoryOfReady => MemoryOfReady'
    BY <2>1, <2>2 DEF RingTyped, MemoryOfReady
  <2>4. Keys' = Keys
    BY <2>2 DEF RingTyped, Keys
  <2>5. shm' \in [Bands -> BOOLEAN]
    BY <2>1 DEF RingTyped
  <2> QED
    BY <1>2, <2>2, <2>3, <2>4, <2>5 DEF RingTyped, Destroy, ServeBuffer, DestroyCall
<1>3. CASE CreateIgnored(b) \/ CreateRaises(b)
  BY <1>3 DEF RingTyped, CreateIgnored, CreateRaises, ServeBuffer, ringVars,
              MemoryOfReady
<1>4. CASE Create(b)
  BY <1>4 DEF RingTyped, Create, ServeBuffer, MemoryOfReady
<1>5. CASE CreateFails(b)
  BY <1>5 DEF RingTyped, CreateFails, ServeBuffer
<1> QED
  BY <1>1, <1>2, <1>3, <1>4, <1>5

LEMMA RingbufferRing ==
  ASSUME Control, RingInv, During(Ringbuffer)
  PROVE  RingInv'
<1>1. PICK b \in Bands :
        \/ DestroyIgnored(b) \/ Destroy(b) \/ CreateIgnored(b) \/ Create(b)
        \/ CreateFails(b) \/ CreateRaises(b)
  BY DEF During, Ringbuffer
<1>2. /\ bpc' = bpc /\ run' = run /\ phase' = phase /\ spc' = spc
      /\ iter' = iter /\ clash' = clash
  BY DEF During, Ringbuffer, backendVars, workerVars, stopVars
<1>3. /\ gq \in Seq(BufferCalls \cup {StopCall}) /\ RingTyped
      /\ rb' \in [Bands -> {"absent", "ready", "closed"}]
      /\ shm' \in [Bands -> BOOLEAN]
      /\ "buffer" \notin Faults /\ MemoryOfReady => MemoryOfReady'
      /\ gq # <<>> /\ gq' = Tail(gq)
      /\ \/ Head(gq) = [op |-> "create", band |-> b]
         \/ /\ Head(gq) = DestroyCall(b)
            /\ rb'[b] # "ready"
            /\ \A c \in Bands : rb'[c] = "ready" => rb[c] = "ready"
            /\ Keys' = Keys
  BY <1>1, BufferServed DEF RingInv, RingTyped
<1>4. /\ gq' \in Seq(BufferCalls \cup {StopCall})
      /\ \A x : InQueue(x, gq) <=> x = Head(gq) \/ InQueue(x, gq')
  BY <1>3, InTail
<1>5. RingTyped' /\ RingServes'
  BY <1>2, <1>3, <1>4 DEF RingInv, RingTyped, RingServes
<1>6. CreatesAwaited'
  BY <1>2, <1>4 DEF RingInv, CreatesAwaited
<1>7. ASSUME Stopping, ~clash
      PROVE  /\ Head(gq) = DestroyCall(b) /\ rb'[b] # "ready" /\ Keys' = Keys
             /\ \A c \in Bands : rb'[c] = "ready" => rb[c] = "ready"
  <2>1. Head(gq) # [op |-> "create", band |-> b]
    BY <1>4, <1>7 DEF Control, RingInv, CreatesAwaited, InStart, Stopping
  <2> QED
    BY <1>3, <2>1
<1>8. ASSUME Stopping, ~clash, NEW c \in Bands, rb'[c] = "ready",
             InQueue(DestroyCall(c), gq)
      PROVE  InQueue(DestroyCall(c), gq')
  <2>1. c # b /\ Head(gq) = DestroyCall(b)
    BY <1>7, <1>8
  <2>2. DestroyCall(c) # DestroyCall(b)
    BY <2>1 DEF DestroyCall
  <2> QED
    BY <1>4, <1>8, <2>1, <2>2
<1>9. Remaining'
  BY <1>2, <1>7, <1>8 DEF RingInv, Remaining, Stopping
<1>10. phase["ringbuffer"] = "drain"
  BY <1>1 DEF DestroyIgnored, Destroy, CreateIgnored, Create, CreateFails,
              CreateRaises, ServeBuffer
<1>11. Destroyed'
  <2>1. spc \notin Joined
    BY <1>10 DEF RingInv
  <2>2. spc \notin BeforeRing => Stopping
    BY <2>1 DEF BeforeRing, Stopping, Joined
  <2> QED
    BY <1>2, <1>7, <1>8, <2>2 DEF RingInv, Destroyed
<1> QED
  BY <1>2, <1>3, <1>5, <1>6, <1>9, <1>11 DEF RingInv

LEMMA RingServesStopRing ==
  ASSUME Control, RingInv, During(RingServesStop)
  PROVE  RingInv'
<1>1. /\ phase["ringbuffer"] = "drain" /\ gq # <<>> /\ Head(gq) = StopCall
      /\ gq' = Tail(gq) /\ run' = [run EXCEPT !["ringbuffer"] = FALSE]
      /\ bpc' = bpc /\ rb' = rb /\ shm' = shm /\ phase' = phase /\ spc' = spc
      /\ iter' = iter /\ clash' = clash
  BY DEF During, RingServesStop, backendVars, ringVars, workerVars, stopVars,
         StopCall
<1>2. /\ gq' \in Seq(BufferCalls \cup {StopCall})
      /\ \A x : InQueue(x, gq) <=> x = StopCall \/ InQueue(x, gq')
  BY <1>1, InTail DEF RingInv, RingTyped
<1>3. RingTyped' /\ run' \in [Threads -> BOOLEAN]
  BY <1>1, <1>2 DEF RingInv, RingTyped
<1>4. spc \notin BeforeRing
  BY <1>2 DEF RingInv, RingServes
<1>5. RingServes' /\ CreatesAwaited'
  BY <1>1, <1>2, <1>4 DEF RingInv, RingServes, CreatesAwaited
<1>6. \A b \in Bands : DestroyCall(b) # StopCall
  <2> SUFFICES ASSUME NEW b \in Bands PROVE DestroyCall(b).op # StopCall.op
    OBVIOUS
  <2> QED
    BY DEF DestroyCall, StopCall
<1>7. Remaining' /\ Destroyed'
  BY <1>1, <1>2, <1>4, <1>6 DEF RingInv, Remaining, Destroyed, BeforeRing
<1>8. MemoryOfReady => MemoryOfReady'
  BY <1>1 DEF MemoryOfReady
<1> QED
  BY <1>1, <1>3, <1>5, <1>7, <1>8 DEF RingInv

(* Ringbuffer ends with an empty queue: nothing is left to be destroyed.   *)
LEMMA RingExitsRing ==
  ASSUME Control, RingInv, During(RingExits)
  PROVE  RingInv'
<1>1. /\ phase["ringbuffer"] = "drain" /\ gq = <<>> /\ ~run["ringbuffer"]
      /\ phase' = [phase EXCEPT !["ringbuffer"] = "exited"]
      /\ gq' = gq /\ run' = run /\ bpc' = bpc /\ rb' = rb /\ shm' = shm
      /\ spc' = spc /\ iter' = iter /\ clash' = clash
  BY DEF During, RingExits, backendVars, ringVars, stopVars
<1>2. "ringbuffer" \in Threads \ {"backend"}
  BY DEF Threads, Workers
<1>3. /\ phase' \in [Threads \ {"backend"} -> Phases]
      /\ phase'["ringbuffer"] = "exited"
  BY <1>1, <1>2 DEF RingInv, RingTyped, Phases
<1>4. RingTyped' /\ CreatesAwaited' /\ (MemoryOfReady => MemoryOfReady')
  BY <1>1, <1>3 DEF RingInv, RingTyped, CreatesAwaited, MemoryOfReady
<1>5. spc \notin BeforeRing
  BY <1>1 DEF RingInv, RingServes
<1>6. RingServes' /\ Remaining'
  BY <1>1, <1>5 DEF RingServes, Remaining, BeforeRing
<1>7. Destroyed'
  BY <1>1, <1>5, InEmpty DEF RingInv, Destroyed
<1> QED
  BY <1>1, <1>3, <1>4, <1>6, <1>7 DEF RingInv

(* The calls that are put: those of an accepted start, which the backend   *)
(* then waits for, and those of Ringbuffer.stop.                           *)
LEMMA StartAcceptedRing ==
  ASSUME Control', RingInv, StartAccepted, UNCHANGED <<run, ringVars, workerVars>>,
         UNCHANGED stopVars, clash => clash'
  PROVE  RingInv'
<1>1. /\ gq' = gq \o Recreate /\ bpc' = "wait_buffers" /\ spc' = spc
      /\ iter' = iter /\ rb' = rb /\ shm' = shm /\ run' = run /\ phase' = phase
  BY DEF StartAccepted, StartFrom, ringVars, workerVars, stopVars
<1>2. Recreate \in Seq(BufferCalls \cup {StopCall})
  <2>1. Recreate \in Seq(BufferCalls)
    BY RecreateCalls DEF BufferCalls
  <2> QED
    BY <2>1
<1>3. /\ gq' \in Seq(BufferCalls \cup {StopCall})
      /\ \A x : InQueue(x, gq') <=> InQueue(x, gq) \/ InQueue(x, Recreate)
  BY <1>1, <1>2, InConcat DEF RingInv, RingTyped
<1>4. ~InQueue(StopCall, Recreate)
  <2>1. StopCall \notin BufferCalls
    <3>1. \A x \in BufferCalls : x.op # StopCall.op
      BY DEF BufferCalls, StopCall
    <3> QED
      BY <3>1
  <2> QED
    BY <2>1, RecreateCalls, InSome DEF BufferCalls
<1>5. RingTyped' /\ RingServes' /\ CreatesAwaited' /\ (MemoryOfReady => MemoryOfReady')
  BY <1>1, <1>3, <1>4
     DEF RingInv, RingTyped, RingServes, CreatesAwaited, MemoryOfReady
<1>6. Stopping => clash'
  BY <1>1 DEF Control, InStart, Stopping
<1>7. Remaining'
  BY <1>1, <1>6 DEF Remaining, Stopping
<1>8. Destroyed'
  <2>1. CASE spc \in BeforeRing
    BY <1>1, <2>1 DEF Destroyed
  <2>2. CASE spc \notin BeforeRing
    BY <1>1, <1>3, <2>2 DEF RingInv, Destroyed
  <2> QED
    BY <2>1, <2>2
<1> QED
  BY <1>1, <1>5, <1>7, <1>8 DEF RingInv

LEMMA BackendRing ==
  ASSUME Control', RingInv, Watched(Backend /\ UNCHANGED stopVars)
  PROVE  RingInv'
<1>1. /\ Backend /\ UNCHANGED <<run, ringVars, workerVars>> /\ UNCHANGED stopVars
      /\ clash => clash'
  BY DEF Watched, Backend
<1>2. CASE StartAccepted
  BY <1>1, <1>2, StartAcceptedRing
<1>3. CASE ~StartAccepted
  <2>1. gq' = gq
    BY <1>1, <1>3 DEF Backend, StartAlready, StartChangesSource, StartRefused,
       StartReturns, BuffersReady, BuffersFailed, DspsrWaited,
       DspsrWaitedUntil, Roach2Waited, Abort, AbortTick, AbortTickBelow,
       AbortDspsr, EnoughTicks, AbortCheck, BackendDrained, BackendLoop,
       BackendLoopCleans, Turn
  <2>2. bpc = "wait_buffers" => gq = <<>>
    BY <1>1, <1>3 DEF Backend, StartAlready, StartChangesSource, StartRefused,
       StartReturns, Serve, BuffersReady, BuffersFailed, DspsrWaited,
       DspsrWaitedUntil, Roach2Waited, Abort, AbortTick, AbortTickBelow,
       AbortDspsr, EnoughTicks, AbortCheck, BackendDrained, BackendLoop,
       BackendLoopCleans, Turn
  <2>3. /\ run' = run /\ phase' = phase /\ UNCHANGED <<gq, rb, shm, iter, spc>>
    BY <1>1, <2>1 DEF ringVars, workerVars, stopVars
  <2> QED
    BY <1>1, <2>2, <2>3, RingElsewhere DEF RingInv, RingTyped
<1> QED
  BY <1>2, <1>3

(* The steps of stop() before Ringbuffer's is over, and the others.        *)
LEMMA StopBeginsRing ==
  ASSUME Control, RingInv, Watched(StopBegins)
  PROVE  RingInv'
<1>1. /\ spc = "begin" /\ spc' = "destroy" /\ iter' = [all |-> Keys, left |-> Keys]
      /\ UNCHANGED <<gq, rb, shm, run, phase, bpc>>
  BY DEF Watched, StopBegins, At, ringVars, workerVars
<1>2. \A b \in Bands : rb[b] = "ready" => b \in Keys
  BY DEF Keys
<1>3. Remaining'
  BY <1>1, <1>2 DEF Remaining, Keys
<1>4. iter' \in [all : SUBSET Bands, left : SUBSET Bands]
  BY <1>1 DEF Keys
<1>5. RingTyped'
  BY <1>1, <1>4 DEF RingInv, RingTyped
<1>6. RingServes' /\ CreatesAwaited' /\ Destroyed'
  BY <1>1 DEF RingInv, RingServes, CreatesAwaited, Destroyed, BeforeRing
<1> QED
  BY <1>1, <1>3, <1>5, <1>6 DEF RingInv, MemoryOfReady, Joined

LEMMA DestroyNextRing ==
  ASSUME Control, RingInv, Watched(DestroyNext)
  PROVE  RingInv'
<1>1. /\ spc = "destroy" /\ spc' = "destroy"
      /\ UNCHANGED <<rb, shm, run, phase, bpc>> /\ (clash => clash')
  BY DEF Watched, DestroyNext, At, ringVars, workerVars
<1>2. PICK i \in 1..Len(BandOrder) :
        /\ gq' = Append(gq, DestroyCall(BandOrder[i]))
        /\ iter' = [iter EXCEPT !.left = iter.left \ {BandOrder[i]}]
  BY DEF Watched, DestroyNext, DestroyCall
<1> DEFINE b == BandOrder[i]
           S == BufferCalls \cup {StopCall}
<1>3. b \in Bands /\ DestroyCall(b) \in S /\ DestroyCall(b).op = "destroy"
  BY DEF Bands, BufferCalls, DestroyCall
<1> HIDE DEF b, S
<1>4. /\ gq' \in Seq(S)
      /\ \A x : InQueue(x, gq') <=> InQueue(x, gq) \/ x = DestroyCall(b)
  <2>1. gq \in Seq(S) /\ gq' = Append(gq, DestroyCall(b))
    BY <1>2 DEF RingInv, RingTyped, b, S
  <2> QED
    BY <1>3, <2>1, InAppend
<1>5. DestroyCall(b) # StopCall
  BY <1>3 DEF StopCall
<1>6. \A c \in Bands : DestroyCall(b) # [op |-> "create", band |-> c]
  BY <1>3
<1>7. /\ iter' \in [all : SUBSET Bands, left : SUBSET Bands]
      /\ iter'.all = iter.all /\ iter'.left = iter.left \ {b}
  BY <1>2 DEF RingInv, RingTyped, b
<1>8. RingTyped' /\ RingServes'
  BY <1>1, <1>4, <1>5, <1>7 DEF RingInv, RingTyped, RingServes, S
<1>9. CreatesAwaited'
  BY <1>1, <1>4, <1>6 DEF RingInv, CreatesAwaited
<1>10. Remaining'
  <2> SUFFICES ASSUME ~clash'
               PROVE  /\ iter'.all = Keys'
                      /\ \A c \in Bands : rb[c] = "ready" =>
                           c \in iter'.left \/ InQueue(DestroyCall(c), gq')
    BY <1>1 DEF Remaining
  <2>1. /\ iter.all = Keys /\ Keys' = Keys
        /\ \A c \in Bands : rb[c] = "ready" =>
             c \in iter.left \/ InQueue(DestroyCall(c), gq)
    BY <1>1 DEF RingInv, Remaining, Keys
  <2> QED
    BY <1>3, <1>4, <1>7, <2>1
<1> QED
  BY <1>1, <1>8, <1>9, <1>10 DEF RingInv, Destroyed, MemoryOfReady, BeforeRing, Joined

LEMMA StopRingbufferRing ==
  ASSUME Control, RingInv, Watched(StopRingbuffer \/ StopRingbufferRaises)
  PROVE  RingInv'
<1>1. /\ spc = "destroy" /\ spc' = "roach2_abort" /\ iter' = iter
      /\ UNCHANGED <<rb, shm, run, phase, bpc>> /\ (clash => clash')
  BY DEF Watched, StopRingbuffer, StopRingbufferRaises, PutRingStop, Queues, At,
         ringVars, workerVars
<1>2. gq' = gq \/ gq' = Append(gq, StopCall)
  BY DEF Watched, StopRingbuffer, StopRingbufferRaises, PutRingStop, StopCall
<1>3. /\ gq' \in Seq(BufferCalls \cup {StopCall})
      /\ \A x : InQueue(x, gq) => InQueue(x, gq')
      /\ \A x : InQueue(x, gq') => InQueue(x, gq) \/ x = StopCall
  <2> DEFINE S == BufferCalls \cup {StopCall}
  <2>1. gq \in Seq(S) /\ StopCall \in S
    BY DEF RingInv, RingTyped
  <2> HIDE DEF S
  <2>2. CASE gq' = gq
    BY <2>1, <2>2 DEF S
  <2>3. CASE gq' = Append(gq, StopCall)
    <3>1. /\ gq' \in Seq(S)
          /\ \A x : InQueue(x, gq') <=> InQueue(x, gq) \/ x = StopCall
      BY <2>1, <2>3, InAppend
    <3> QED
      BY <3>1 DEF S
  <2> QED
    BY <1>2, <2>2, <2>3
<1>4. \A b \in Bands : StopCall # [op |-> "create", band |-> b]
  <2> SUFFICES ASSUME NEW b \in Bands
               PROVE  StopCall.op # [op |-> "create", band |-> b].op
    OBVIOUS
  <2> QED
    BY DEF StopCall
<1>5. RingTyped'
  BY <1>1, <1>3 DEF RingInv, RingTyped
<1>6. CreatesAwaited'
  BY <1>1, <1>3, <1>4 DEF RingInv, CreatesAwaited
<1>7. RingServes' /\ Remaining' /\ spc' \notin Joined
  BY <1>1 DEF RingServes, Remaining, BeforeRing, Joined
<1>8. Destroyed'
  <2> SUFFICES ASSUME ~clash, NEW b \in Bands, rb[b] = "ready"
               PROVE  phase["ringbuffer"] = "drain" /\ InQueue(DestroyCall(b), gq')
    BY <1>1 DEF Destroyed
  <2>1. phase["ringbuffer"] = "drain"
    BY <1>1 DEF RingInv, RingServes, BeforeRing
  <2>2. iter.all = Keys /\ (b \in iter.left \/ InQueue(DestroyCall(b), gq))
    BY <1>1 DEF RingInv, Remaining
  <2>3. iter.left = {}
    <3>1. StopRingbuffer
      BY <2>2 DEF Watched, StopRingbufferRaises
    <3>2. iter = [all |-> Keys, left |-> {}]
      BY <3>1 DEF StopRingbuffer
    <3> QED
      BY <3>2
  <2> QED
    BY <1>3, <2>1, <2>2, <2>3
<1> QED
  BY <1>1, <1>5, <1>6, <1>7, <1>8 DEF RingInv, MemoryOfReady

LEMMA StopRing ==
  ASSUME Control, SInv, RingInv, Watched(Stop)
  PROVE  RingInv'
<1>1. CASE Watched(StopBegins) \/ Watched(DestroyNext)
           \/ Watched(StopRingbuffer \/ StopRingbufferRaises)
  BY <1>1, StopBeginsRing, DestroyNextRing, StopRingbufferRing
<1>2. CASE \/ AbortRoach2 \/ StopRoach2 \/ StopDspsr \/ StopBackend
           \/ JoinAll \/ PublishShutdown \/ MonitorEnds
  <2>1. /\ spc \notin BeforeRing /\ spc' \notin BeforeRing
        /\ spc' \in Joined => spc \in Joined \/ phase["ringbuffer"] = "exited"
        /\ gq' = gq /\ iter' = iter /\ rb' = rb /\ shm' = shm /\ run' = run
        /\ phase' = phase
        /\ bpc' = bpc \/ spc' = "done"
        /\ spc # "done"
    <3>1. CASE JoinAll
      <4>1. "ringbuffer" \in Threads \ {"backend"}
        BY DEF Threads, Workers
      <4>2. Gone("ringbuffer")
        BY <3>1, <4>1 DEF JoinAll
      <4>3. phase["ringbuffer"] = "exited"
        BY <4>2 DEF RingInv, RingTyped, Gone
      <4> QED
        BY <3>1, <4>3 DEF JoinAll, At, Queues, BeforeRing, ringVars, workerVars
    <3>2. CASE ~JoinAll
      BY <1>2, <3>2 DEF AbortRoach2, StopRoach2, StopDspsr, StopBackend,
         PublishShutdown, Publishes, MonitorEnds, At, Calls, Queues, BeforeRing,
         Joined, ringVars, workerVars
    <3> QED
      BY <3>1, <3>2
  <2>2. clash => clash'
    BY DEF Watched
  <2>3. RingTyped' /\ RingServes' /\ CreatesAwaited' /\ Remaining' /\ Destroyed'
    BY <2>1, <2>2 DEF RingInv, RingTyped, RingServes, CreatesAwaited, Remaining,
                      Destroyed, BeforeRing
  <2> QED
    BY <2>1, <2>3 DEF RingInv, MemoryOfReady
<1>3. Stop /\ clash' = (clash \/ (InStart /\ Stopping)')
  BY DEF Watched
<1> QED
  BY <1>1, <1>2, <1>3 DEF Watched, Stop

(* How stop() begins.  The backend is not waiting for the buffers then, or *)
(* it is a clash.                                                          *)
LEMMA BeginRing ==
  ASSUME SInv, Control, RingInv,
         Watched(RequestShutdown) \/ Watched(ServeShutdown) \/ Watched(Sigint)
  PROVE  RingInv'
<1>1. /\ UNCHANGED <<gq, rb, shm, iter, run, phase>> /\ (clash => clash')
      /\ bpc' = bpc \/ bpc # "wait_buffers"
      /\ spc \in BeforeRing /\ spc' \in {"idle", "begin"}
  <2>1. CASE Watched(RequestShutdown)
    BY <2>1 DEF Watched, RequestShutdown, ringVars, workerVars, SInv, StopHolds,
                BeforeRing
  <2>2. CASE Watched(Sigint)
    BY <2>2 DEF Watched, Sigint, vars, backendVars, ringVars, workerVars, SInv,
                StopHolds, BeforeRing
  <2>3. CASE Watched(ServeShutdown)
    <3>1. bq # <<>> /\ Head(bq).op = "shutdown"
      BY <2>3 DEF Watched, ServeShutdown, Serve
    <3>2. 1 \in 1..Len(bq) /\ IsShutdown(1)
      BY <3>1, HeadTaken DEF IsShutdown
    <3>3. spc = "idle"
      BY <3>2 DEF SInv, OneShutdown
    <3> QED
      BY <2>3, <3>3 DEF Watched, ServeShutdown, Serve, ringVars, workerVars,
                        BeforeRing
  <2> QED
    BY <2>1, <2>2, <2>3
<1>2. RingTyped' /\ RingServes'
  BY <1>1 DEF RingInv, RingTyped, RingServes
<1>3. CreatesAwaited'
  BY <1>1 DEF RingInv, CreatesAwaited, BeforeRing
<1>4. Remaining' /\ Destroyed' /\ spc' \notin Joined
  BY <1>1 DEF Remaining, Destroyed, BeforeRing, Joined
<1> QED
  BY <1>1, <1>2, <1>3, <1>4 DEF RingInv, MemoryOfReady

(* What the workers do is no business of Ringbuffer's.                     *)
LEMMA OneThreadsPhase ==
  ASSUME phase \in [Threads \ {"backend"} -> Phases], run \in [Threads -> BOOLEAN],
         NEW w \in Workers,
         \/ phase' = phase
         \/ \E p \in Phases : phase' = [phase EXCEPT ![w] = p],
         run' = run \/ run' = [run EXCEPT ![w] = FALSE]
  PROVE  /\ phase' \in [Threads \ {"backend"} -> Phases]
         /\ run' \in [Threads -> BOOLEAN]
         /\ phase'["ringbuffer"] = phase["ringbuffer"]
         /\ run'["ringbuffer"] = run["ringbuffer"]
         /\ \A v \in Workers \ {w} : phase'[v] = phase[v] /\ run'[v] = run[v]
<1>1. /\ w # "ringbuffer" /\ "ringbuffer" \in Threads \ {"backend"}
      /\ w \in Threads /\ Workers \subseteq Threads \ {"backend"}
  BY DEF Threads, Workers
<1> QED
  BY <1>1

LEMMA WorkerPhase ==
  ASSUME NEW w \in Workers,
         \/ w = "dspsr" /\ DspsrThread
         \/ w = "roach2" /\ Roach2Thread
         \/ \E b \in Bands : During(Working(Exits(w, b)))
  PROVE  /\ UNCHANGED <<gq, rb, shm, bpc, bq>> /\ UNCHANGED stopVars /\ clash' = clash
         /\ \/ phase' = phase
            \/ \E p \in Phases : phase' = [phase EXCEPT ![w] = p]
         /\ run' = run \/ run' = [run EXCEPT ![w] = FALSE]
<1>1. CASE \E b \in Bands : During(Working(Exits(w, b)))
  BY <1>1 DEF During, Working, Exits, backendVars, ringVars
<1>2. CASE w = "dspsr" /\ DspsrThread
  <2>1. UNCHANGED stopVars /\ clash' = clash
    BY <1>2 DEF DspsrThread, During
  <2>2. CASE Working(Dspsr)
    BY <1>2, <2>1, <2>2 DEF Working, Dspsr, DspsrStart, DspsrStartRaises,
       DspsrAbort, AbortCall, DspsrCleanup, KillRaises, Drained, DspsrLoop,
       DspsrSays, LoopSays, ServeAll, HandlerRaises, Phases, backendVars, ringVars
  <2>3. CASE ServeStop("dspsr")
    BY <1>2, <2>1, <2>3 DEF ServeStop, ServeAll, backendVars, ringVars
  <2> QED
    BY <1>2, <2>2, <2>3 DEF DspsrThread, During
<1>3. CASE w = "roach2" /\ Roach2Thread
  <2>1. UNCHANGED stopVars /\ clash' = clash
    BY <1>3 DEF Roach2Thread, During
  <2>2. CASE Working(Roach2)
    BY <1>3, <2>1, <2>2 DEF Working, Roach2, Roach2Start, Roach2StartRaises,
       Roach2Abort, AbortCall, Roach2Cleanup, KillRaises, Drained, Roach2Loop,
       LoopSays, ServeAll, HandlerRaises, Phases, backendVars, ringVars
  <2>3. CASE ServeStop("roach2") \/ StartWiped
    BY <1>3, <2>1, <2>3 DEF ServeStop, ServeAll, StartWiped, HandlerRaises,
       Phases, backendVars, ringVars
  <2> QED
    BY <1>3, <2>2, <2>3 DEF Roach2Thread, During
<1> QED
  BY <1>1, <1>2, <1>3

LEMMA WorkerRing ==
  ASSUME RingInv, NEW w \in Workers,
         \/ w = "dspsr" /\ DspsrThread
         \/ w = "roach2" /\ Roach2Thread
         \/ \E b \in Bands : During(Working(Exits(w, b)))
  PROVE  RingInv'
<1>1. /\ phase' \in [Threads \ {"backend"} -> Phases]
      /\ run' \in [Threads -> BOOLEAN]
      /\ phase'["ringbuffer"] = phase["ringbuffer"]
      /\ run'["ringbuffer"] = run["ringbuffer"]
  BY WorkerPhase, OneThreadsPhase DEF RingInv, RingTyped
<1>2. UNCHANGED <<gq, rb, shm, iter, spc>> /\ clash' = clash /\ bpc' = bpc
  BY WorkerPhase DEF stopVars
<1> QED
  BY <1>1, <1>2, RingElsewhere

LEMMA NextRing ==
  ASSUME SInv, Control, RingInv, [StoppingNext]_allVars
  PROVE  RingInv'
<1>1. Control'
  BY NextControl
<1>2. CASE RingThread
  BY <1>2, RingbufferRing, RingServesStopRing, RingExitsRing DEF RingThread, During
<1>3. CASE DspsrThread \/ Roach2Thread
  BY <1>3, WorkerRing DEF Workers
<1>4. CASE \E w \in Workers, b \in Bands : During(Working(Exits(w, b)))
  BY <1>4, WorkerRing
<1>5. CASE Watched(Stop)
  BY <1>5, StopRing
<1>6. CASE Watched(RequestShutdown) \/ Watched(ServeShutdown) \/ Watched(Sigint)
  BY <1>6, BeginRing
<1>7. CASE Watched(Backend /\ UNCHANGED stopVars)
  BY <1>1, <1>7, BackendRing
<1>8. CASE \/ Watched(BackendServesStop /\ UNCHANGED stopVars)
           \/ \E r \in UserRequests : During(Command(r))
           \/ UNCHANGED allVars
  <2>1. "ringbuffer" \in Threads /\ "ringbuffer" # "backend"
    BY DEF Threads
  <2>2. /\ UNCHANGED <<gq, rb, shm, iter, spc, phase, bpc>> /\ (clash => clash')
        /\ run' = run \/ run' = [run EXCEPT !["backend"] = FALSE]
    <3>1. CASE Watched(BackendServesStop /\ UNCHANGED stopVars)
      BY <3>1 DEF Watched, BackendServesStop, Serve, ringVars, workerVars, stopVars
    <3>2. CASE \E r \in UserRequests : During(Command(r))
      BY <3>2 DEF During, Command, ringVars, workerVars, stopVars
    <3>3. CASE UNCHANGED allVars
      BY <3>3 DEF allVars, vars, backendVars, ringVars, workerVars, stopVars
    <3> QED
      BY <1>8, <3>1, <3>2, <3>3
  <2>3. /\ run' \in [Threads -> BOOLEAN]
        /\ run'["ringbuffer"] = run["ringbuffer"]
    BY <2>1, <2>2 DEF RingInv, RingTyped
  <2> QED
    BY <2>2, <2>3, RingElsewhere DEF RingInv, RingTyped
<1> QED
  BY <1>2, <1>3, <1>4, <1>5, <1>6, <1>7, <1>8 DEF StoppingNext, BackendThread

(* When stop() is over no shared memory is left, if dada_db does what it   *)
(* is asked to (ringbuffer.py:131): the destroys are on the queue before   *)
(* the stop, and Ringbuffer ends with an empty queue.                      *)
THEOREM MemorySafety ==
  "buffer" \notin Faults => (StoppingSpec => []MemoryCleaned)
<1> SUFFICES ASSUME "buffer" \notin Faults PROVE StoppingSpec => []MemoryCleaned
  OBVIOUS
<1>1. SInv /\ Control /\ RingInv => MemoryCleaned
  <2> SUFFICES ASSUME RingInv, Control, spc = "done", ~clash, NEW b \in Bands
               PROVE  ~shm[b]
    BY DEF MemoryCleaned
  <2>1. phase["ringbuffer"] = "exited" /\ rb[b] # "ready"
    BY DEF RingInv, Destroyed, BeforeRing, Joined
  <2> QED
    BY <2>1 DEF RingInv, MemoryOfReady
<1>2. StoppingInit => SInv /\ Control /\ RingInv
  BY InitSInv, InitControl, InitRing
<1>3. SInv /\ Control /\ RingInv /\ [StoppingNext]_allVars
        => (SInv /\ Control /\ RingInv)'
  BY NextSInv, NextControl, NextRing
<1> QED
  BY <1>1, <1>2, <1>3, PTL DEF StoppingSpec

(* A SHUTDOWN is served in the backend's own thread, so that no start can  *)
(* be under way (nunabe.py:125-127): only SIGINT meets one.                *)
NoStartMet == by # "SIGINT" => ~clash

THEOREM ShutdownMeetsNoStart == StoppingSpec => []NoStartMet
<1>1. SInv /\ Control => NoStartMet
  BY DEF Control, NoStartMet
<1>2. StoppingInit => SInv /\ Control
  BY InitSInv, InitControl
<1>3. SInv /\ Control /\ [StoppingNext]_allVars => (SInv /\ Control)'
  BY NextSInv, NextControl
<1> QED
  BY <1>1, <1>2, <1>3, PTL DEF StoppingSpec

-----------------------------------------------------------------------------
(* The processes of Dspsr and Roach2, when no handler of theirs raises.    *)

WaitsFor(w) == IF w = "dspsr" THEN "wait_dspsr" ELSE "wait_roach2"

(* The steps of stop() before which w is not yet asked to end its          *)
(* processes.                                                              *)
Unasked(w) == BeforeRing \cup {"roach2_abort"}
                \cup (IF w = "dspsr" THEN {"roach2_stop", "dspsr_first", "dspsr_second"}
                                     ELSE {})

StartAwaited(w) == Pending(w, "start") => bpc = WaitsFor(w)

(* Its thread goes on until stop() has put its stop.                       *)
Serving(w) ==
  spc \in Early(w) =>
    phase[w] \in {"drain", "loop"} /\ run[w] /\ ~Pending(w, "stop")

(* A thread that ends, or is about to, has served its only stop.           *)
StopTaken(w) ==
  /\ phase[w] \in {"loop", "exited"} /\ ~run[w] => ~Pending(w, "stop")
  /\ phase[w] = "exited" => ~run[w]

CleanupComing(w) == Pending(w, "abort") \/ Pending(w, "cleanup")

(* What is left of the processes is cleaned up by a call on the queue,     *)
(* which Roach2 serves before it ends: its abort was put before its stop.  *)
Ending(w) ==
  spc \notin Unasked(w) /\ ~clash =>
    \/ Alive(w) = {}
    \/ /\ CleanupComing(w)
       /\ w = "roach2" => ~Gone(w) /\ (phase[w] = "loop" => run[w])

WorkerInv(w) ==
  /\ StartAwaited(w)
  /\ Serving(w)
  /\ StopTaken(w)
  /\ Ending(w)
  /\ spc \in Joined => Gone(w)
  /\ w = "dspsr" => phase[w] # "dead"

WorkersInv == ThreadsTyped /\ \A w \in Workers : WorkerInv(w)

LEMMA InitWorkers == StoppingInit => WorkersInv
<1> SUFFICES ASSUME StoppingInit PROVE WorkersInv
  OBVIOUS
<1>1. /\ spc = "idle" /\ run = [t \in Threads |-> TRUE]
      /\ phase = [t \in Threads \ {"backend"} |-> "drain"]
      /\ calls = [w \in Workers |-> <<>>]
      /\ proc = [w \in Workers |-> All("none")]
  BY DEF StoppingInit, Init
<1>2. ThreadsTyped
  BY <1>1 DEF ThreadsTyped, Phases, All
<1>3. ASSUME NEW w \in Workers PROVE WorkerInv(w)
  <2>1. w \in Threads \ {"backend"}
    BY DEF Workers, Threads
  <2>2. /\ phase[w] = "drain" /\ run[w] /\ calls[w] = <<>>
    BY <1>1, <2>1
  <2>3. \A c : ~Pending(w, c)
    BY <2>2, NothingPending
  <2>4. spc \in Unasked(w) /\ spc \notin Joined
    BY <1>1 DEF Unasked, BeforeRing, Joined
  <2> QED
    BY <2>2, <2>3, <2>4
       DEF WorkerInv, StartAwaited, Serving, StopTaken, Ending
<1> QED
  BY <1>2, <1>3 DEF WorkersInv

(* StopSteps of others, which may put calls on the queue of w but a stop.      *)
LEMMA Undisturbed ==
  ASSUME NEW w \in Workers, WorkerInv(w),
         phase'[w] = phase[w], run'[w] = run[w], proc'[w] = proc[w],
         spc' = spc, clash => clash',
         \A c : Pending(w, c) => Pending(w, c)',
         Pending(w, "stop")' => Pending(w, "stop"),
         StartAwaited(w)'
  PROVE  WorkerInv(w)'
<1>1. Alive(w)' = Alive(w) /\ (Gone(w)' <=> Gone(w))
  BY DEF Alive, Gone
<1>2. Serving(w)' /\ StopTaken(w)'
  BY DEF WorkerInv, Serving, StopTaken
<1>3. Ending(w)'
  BY <1>1 DEF WorkerInv, Ending, CleanupComing
<1> QED
  BY <1>1, <1>2, <1>3 DEF WorkerInv

LEMMA SameCalls ==
  ASSUME NEW w \in Workers, WorkerInv(w),
         phase'[w] = phase[w], run'[w] = run[w], proc'[w] = proc[w],
         calls'[w] = calls[w], spc' = spc, clash => clash', bpc' = bpc
  PROVE  WorkerInv(w)'
<1>1. \A c : Pending(w, c)' <=> Pending(w, c)
  BY DEF Pending
<1>2. StartAwaited(w)'
  BY <1>1 DEF WorkerInv, StartAwaited
<1> QED
  BY <1>1, <1>2, Undisturbed

(* The calls of the backend: it puts a start where it waits next, and no   *)
(* stop; it stops waiting when the queue is empty.                         *)
LEMMA BackendCalls ==
  ASSUME calls \in [Workers -> Seq(CallNames)],
         \A w \in Workers : StartAwaited(w), Backend
  PROVE  /\ calls' \in [Workers -> Seq(CallNames)]
         /\ \A w \in Workers :
              /\ \A c : Pending(w, c) => Pending(w, c)'
              /\ Pending(w, "stop")' => Pending(w, "stop")
              /\ StartAwaited(w)'
<1>1. {"start", "abort", "cleanup"} \subseteq CallNames /\ Workers = {"dspsr", "roach2"}
  BY DEF CallNames, Workers
<1>2. CASE BuffersReady
  <2>1. Put("dspsr", "start") /\ bpc = "wait_buffers" /\ bpc' = "wait_dspsr"
    BY <1>2 DEF BuffersReady
  <2>2. /\ calls' \in [Workers -> Seq(CallNames)]
        /\ \A v \in Workers : \A c :
             /\ Pending(v, c) => Pending(v, c)'
             /\ Pending(v, c)' => Pending(v, c) \/ (v = "dspsr" /\ c = "start")
    BY <1>1, <2>1, PutAdds
  <2>3. \A w \in Workers : ~Pending(w, "start")
    BY <1>1, <2>1 DEF StartAwaited, WaitsFor
  <2> QED
    BY <1>1, <2>1, <2>2, <2>3 DEF StartAwaited, WaitsFor
<1>3. CASE DspsrWaited
  <2>1. /\ Put("roach2", "start") /\ bpc = "wait_dspsr" /\ bpc' = "wait_roach2"
        /\ calls["dspsr"] = <<>>
    BY <1>3 DEF DspsrWaited, DspsrWaitedUntil
  <2>2. /\ calls' \in [Workers -> Seq(CallNames)]
        /\ \A v \in Workers : \A c :
             /\ Pending(v, c) => Pending(v, c)'
             /\ Pending(v, c)' => Pending(v, c) \/ (v = "roach2" /\ c = "start")
    BY <1>1, <2>1, PutAdds
  <2>3. \A w \in Workers : ~Pending(w, "start")
    BY <1>1, <2>1, NothingPending DEF StartAwaited, WaitsFor
  <2> QED
    BY <1>1, <2>1, <2>2, <2>3 DEF StartAwaited, WaitsFor
<1>4. CASE Roach2Waited
  <2>1. bpc = "wait_roach2" /\ calls["roach2"] = <<>> /\ calls' = calls
    BY <1>4 DEF Roach2Waited
  <2>2. \A w \in Workers : ~Pending(w, "start")
    BY <1>1, <2>1, NothingPending DEF StartAwaited, WaitsFor
  <2>3. \A w \in Workers : \A c : Pending(w, c)' <=> Pending(w, c)
    BY <2>1 DEF Pending
  <2> QED
    BY <2>1, <2>2, <2>3 DEF StartAwaited
<1>5. CASE Abort \/ AbortDspsr \/ BackendLoopCleans
  <2>1. bpc \notin {"wait_dspsr", "wait_roach2"}
    BY <1>5 DEF Abort, Serve, AbortDspsr, EnoughTicks, BackendLoopCleans, Turn
  <2>2. \A w \in Workers : ~Pending(w, "start")
    BY <2>1 DEF StartAwaited, WaitsFor
  <2>3. /\ calls' \in [Workers -> Seq(CallNames)]
        /\ \A v \in Workers : \A c :
             /\ Pending(v, c) => Pending(v, c)'
             /\ Pending(v, c)' => Pending(v, c) \/ c \in {"abort", "cleanup"}
    <3>1. CASE Abort
      <4>1. Put("roach2", "abort")
        BY <3>1 DEF Abort
      <4> QED
        BY <1>1, <4>1, PutAdds
    <3>2. CASE AbortDspsr
      <4>1. Put("dspsr", "abort")
        BY <3>2 DEF AbortDspsr
      <4> QED
        BY <1>1, <4>1, PutAdds
    <3>3. CASE BackendLoopCleans
      <4>1. PutBoth("cleanup")
        BY <3>3 DEF BackendLoopCleans
      <4> QED
        BY <1>1, <4>1, PutBothAdds
    <3> QED
      BY <1>5, <3>1, <3>2, <3>3
  <2>4. "start" \notin {"abort", "cleanup"} /\ "stop" \notin {"abort", "cleanup"}
    OBVIOUS
  <2>5. ASSUME NEW w \in Workers
        PROVE  ~Pending(w, "start")' /\ (Pending(w, "stop")' => Pending(w, "stop"))
    BY <2>2, <2>3, <2>4
  <2> QED
    BY <2>3, <2>5 DEF StartAwaited
<1>6. CASE /\ calls' = calls
           /\ bpc' = bpc \/ bpc \notin {"wait_dspsr", "wait_roach2"}
  <2>1. \A w \in Workers : \A c : Pending(w, c)' <=> Pending(w, c)
    BY <1>6 DEF Pending
  <2> QED
    BY <1>6, <2>1 DEF StartAwaited, WaitsFor
<1>7. CASE \/ StartAlready \/ StartChangesSource \/ StartRefused \/ StartAccepted
           \/ BuffersFailed \/ AbortTick \/ AbortCheck \/ BackendDrained
           \/ BackendLoop
  BY <1>6, <1>7 DEF StartAlready, StartChangesSource, StartRefused, StartReturns,
     StartAccepted, StartFrom, Serve, BuffersFailed, AbortTick, AbortTickBelow,
     AbortCheck, BackendDrained, BackendLoop, Turn
<1> QED
  BY <1>2, <1>3, <1>4, <1>5, <1>7 DEF Backend

LEMMA BackendWorkers ==
  ASSUME WorkersInv, Watched(Backend /\ UNCHANGED stopVars)
  PROVE  WorkersInv'
<1>1. /\ Backend /\ spc' = spc /\ (clash => clash')
      /\ run' = run /\ phase' = phase /\ proc' = proc
  BY DEF Watched, Backend, workerVars, stopVars
<1>2. /\ calls' \in [Workers -> Seq(CallNames)]
      /\ \A w \in Workers :
           /\ \A c : Pending(w, c) => Pending(w, c)'
           /\ Pending(w, "stop")' => Pending(w, "stop")
           /\ StartAwaited(w)'
  BY <1>1, BackendCalls DEF WorkersInv, ThreadsTyped, WorkerInv
<1>3. ThreadsTyped'
  BY <1>1, <1>2 DEF WorkersInv, ThreadsTyped
<1>4. \A w \in Workers : WorkerInv(w)'
  BY <1>1, <1>2, Undisturbed DEF WorkersInv
<1> QED
  BY <1>3, <1>4 DEF WorkersInv

(* Nothing that is put on the queues by stop() is a start, and each worker *)
(* gets its one stop when it leaves the early steps.                       *)
LEMMA StopCalls ==
  ASSUME ThreadsTyped, Stop
  PROVE  /\ calls' \in [Workers -> Seq(CallNames)]
         /\ \A w \in Workers :
              /\ \A c : Pending(w, c) => Pending(w, c)'
              /\ Pending(w, "start")' => Pending(w, "start")
              /\ Pending(w, "stop")' =>
                   Pending(w, "stop") \/ (spc \in Early(w) /\ spc' \notin Early(w))
<1>1. /\ calls \in [Workers -> Seq(CallNames)]
      /\ "dspsr" \in Workers /\ "roach2" \in Workers
  BY DEF ThreadsTyped, Workers
<1>2. CASE calls' = calls
  <2>1. \A w \in Workers : \A c : Pending(w, c)' <=> Pending(w, c)
    BY <1>2 DEF Pending
  <2> QED
    BY <1>1, <1>2, <2>1
<1>3. ASSUME NEW w \in Workers, Put(w, "abort")
      PROVE  /\ calls' \in [Workers -> Seq(CallNames)]
             /\ \A v \in Workers : \A c :
                  /\ Pending(v, c) => Pending(v, c)'
                  /\ Pending(v, c)' => Pending(v, c) \/ c = "abort"
  <2>1. "abort" \in CallNames
    BY DEF CallNames
  <2> QED
    BY <1>1, <1>3, <2>1, PutAdds
<1>4. ASSUME NEW w \in Workers, Put(w, "stop")
      PROVE  /\ calls' \in [Workers -> Seq(CallNames)]
             /\ \A v \in Workers : \A c :
                  /\ Pending(v, c) => Pending(v, c)'
                  /\ Pending(v, c)' => Pending(v, c) \/ (v = w /\ c = "stop")
  <2>1. "stop" \in CallNames
    BY DEF CallNames
  <2> QED
    BY <1>1, <1>4, <2>1, PutAdds
<1>5. CASE Put("roach2", "abort") \/ Put("dspsr", "abort")
  BY <1>1, <1>3, <1>5
<1>6. CASE StopRoach2
  <2>1. /\ Put("roach2", "stop") /\ spc \in Early("roach2")
        /\ spc' \notin Early("roach2")
    BY <1>6 DEF StopRoach2, At, Early, BeforeRing
  <2> QED
    BY <1>1, <1>4, <2>1
<1>7. CASE At("dspsr_first", "dspsr_second") /\ Calls("dspsr", "stop")
  <2>1. /\ Put("dspsr", "stop") /\ spc \in Early("dspsr")
        /\ spc' \notin Early("dspsr")
    BY <1>7 DEF Calls, At, Early, BeforeRing
  <2> QED
    BY <1>1, <1>4, <2>1
<1>8. \/ calls' = calls \/ StopRoach2
      \/ Put("roach2", "abort") \/ Put("dspsr", "abort")
      \/ At("dspsr_first", "dspsr_second") /\ Calls("dspsr", "stop")
  BY DEF Stop, StopBegins, DestroyNext, StopRingbuffer, StopRingbufferRaises,
     PutRingStop, AbortRoach2, Calls, StopDspsr, StopBackend, JoinAll,
     PublishShutdown, Publishes, MonitorEnds, Queues
<1> QED
  BY <1>2, <1>5, <1>6, <1>7, <1>8

LEMMA StopFrame ==
  ASSUME SInv, Stop
  PROVE  /\ run' = run /\ phase' = phase /\ proc' = proc
         /\ bpc' = bpc \/ bpc \notin {"wait_dspsr", "wait_roach2"}
         /\ spc # "idle" /\ spc # "done"
<1>1. run' = run /\ phase' = phase /\ proc' = proc /\ spc # "idle" /\ spc # "done"
  BY DEF Stop, StopBegins, DestroyNext, StopRingbuffer, StopRingbufferRaises,
     AbortRoach2, StopRoach2, StopDspsr, StopBackend, JoinAll, PublishShutdown,
     Publishes, MonitorEnds, At, workerVars
<1>2. bpc' = bpc \/ by = "SHUTDOWN"
  BY DEF Stop, StopBegins, DestroyNext, StopRingbuffer, StopRingbufferRaises,
     PutRingStop, AbortRoach2, StopRoach2, StopDspsr, Calls, StopBackend,
     JoinAll, PublishShutdown, Publishes, MonitorEnds, Queues
<1>3. by = "SHUTDOWN" => bpc = "stopping"
  BY <1>1 DEF SInv, StopHolds, Stopping
<1> QED
  BY <1>1, <1>2, <1>3

(* The abort of Roach2 finds its thread serving.                           *)
LEMMA Roach2Asked ==
  ASSUME WorkersInv, Control, AbortRoach2, phase' = phase, run' = run
  PROVE  Ending("roach2")'
<1>1. /\ Put("roach2", "abort") /\ "roach2" \in Workers /\ "abort" \in CallNames
      /\ calls \in [Workers -> Seq(CallNames)]
  BY DEF AbortRoach2, Calls, Workers, CallNames, WorkersInv, ThreadsTyped
<1>2. phase["roach2"] \in {"drain", "loop"} /\ run["roach2"]
  BY <1>1 DEF AbortRoach2, At, WorkersInv, WorkerInv, Serving, Early
<1>3. ~Gone("roach2") /\ ~Gone("roach2")'
  BY <1>2 DEF Gone
<1>4. Pending("roach2", "abort")'
  BY <1>1, <1>3, PutAdds
<1> QED
  BY <1>2, <1>3, <1>4 DEF Ending, CleanupComing

(* That of Dspsr may come after its thread has ended.  It stays on the     *)
(* queue then, or another abort or cleanup is there already.               *)
LEMMA DspsrAsked ==
  ASSUME WorkersInv, Control,
         At("dspsr_second", "own_stop"), Calls("dspsr", "abort"), clash => clash'
  PROVE  Ending("dspsr")'
<1>1. /\ Put("dspsr", "abort") /\ "dspsr" \in Workers /\ "abort" \in CallNames
      /\ calls \in [Workers -> Seq(CallNames)]
  BY DEF Calls, Workers, CallNames, WorkersInv, ThreadsTyped
<1>2. \A c : Pending("dspsr", c) => Pending("dspsr", c)'
  BY <1>1, PutAdds
<1>3. CASE ~Gone("dspsr")
  BY <1>1, <1>3, PutAdds DEF Ending, CleanupComing
<1>4. CASE Gone("dspsr") /\ calls["dspsr"] = <<>>
  <2>1. Longer("dspsr", "abort") = Append(<<>>, "abort")
    BY <1>4 DEF Longer
  <2>2. calls'["dspsr"] = Append(<<>>, "abort")
    BY <1>1, <2>1 DEF Put
  <2>3. <<>> \in Seq(CallNames)
    OBVIOUS
  <2>4. InQueue("abort", Append(<<>>, "abort"))
    BY <1>1, <2>3, InAppend
  <2> QED
    BY <2>2, <2>4 DEF Ending, CleanupComing, Pending
<1>5. CASE Gone("dspsr") /\ calls["dspsr"] # <<>> /\ ~clash
  <2> DEFINE c == Head(calls["dspsr"])
  <2>1. c \in CallNames /\ Pending("dspsr", c)
    BY <1>1, <1>5, InTail DEF Pending
  <2> HIDE DEF c
  <2>2. phase["dspsr"] = "exited"
    BY <1>1, <1>5 DEF Gone, WorkersInv, WorkerInv
  <2>3. c # "stop"
    BY <1>1, <2>1, <2>2 DEF WorkersInv, WorkerInv, StopTaken
  <2>4. c # "start"
    <3>1. spc = "dspsr_second"
      BY DEF At
    <3> QED
      BY <1>1, <1>5, <2>1, <3>1
         DEF WorkersInv, WorkerInv, StartAwaited, WaitsFor, Control, InStart, Stopping
  <2> QED
    BY <1>2, <2>1, <2>3, <2>4 DEF CallNames, Ending, CleanupComing
<1>6. CASE clash
  BY <1>6 DEF Ending
<1> QED
  BY <1>3, <1>4, <1>5, <1>6

LEMMA StopWorkers ==
  ASSUME SInv, Control, WorkersInv, Watched(Stop)
  PROVE  WorkersInv'
<1>1. Stop /\ (clash => clash')
  BY DEF Watched
<1>2. /\ run' = run /\ phase' = phase /\ proc' = proc
      /\ bpc' = bpc \/ bpc \notin {"wait_dspsr", "wait_roach2"}
      /\ Path(spc, spc')
  BY <1>1, StopFrame, StopPath
<1>3. /\ calls' \in [Workers -> Seq(CallNames)]
      /\ \A w \in Workers :
           /\ \A c : Pending(w, c) => Pending(w, c)'
           /\ Pending(w, "start")' => Pending(w, "start")
           /\ Pending(w, "stop")' =>
                Pending(w, "stop") \/ (spc \in Early(w) /\ spc' \notin Early(w))
  BY <1>1, StopCalls DEF WorkersInv
<1>4. ThreadsTyped'
  BY <1>2, <1>3 DEF WorkersInv, ThreadsTyped
<1>5. ASSUME NEW w \in Workers PROVE WorkerInv(w)'
  <2>1. WorkerInv(w) /\ Alive(w)' = Alive(w) /\ (Gone(w)' <=> Gone(w))
    BY <1>2 DEF WorkersInv, Alive, Gone
  <2>2. StartAwaited(w)'
    BY <1>2, <1>3, <2>1 DEF WorkerInv, StartAwaited, WaitsFor
  <2>3. spc' \in Early(w) => spc \in Early(w)
    BY <1>2 DEF Path, Early, BeforeRing
  <2>4. Serving(w)'
    BY <1>2, <1>3, <2>1, <2>3 DEF WorkerInv, Serving
  <2>5. StopTaken(w)'
    <3>1. ASSUME phase[w] \in {"loop", "exited"}, ~run[w]
          PROVE  ~Pending(w, "stop")'
      BY <1>3, <2>1, <3>1 DEF WorkerInv, Serving, StopTaken
    <3> QED
      BY <1>2, <2>1, <3>1 DEF WorkerInv, StopTaken
  <2>6. Ending(w)'
    <3>1. CASE spc \notin Unasked(w)
      BY <1>1, <1>2, <1>3, <2>1, <3>1 DEF WorkerInv, Ending, CleanupComing
    <3>2. CASE spc' \in Unasked(w)
      BY <3>2 DEF Ending
    <3>3. CASE spc \in Unasked(w) /\ spc' \notin Unasked(w)
      <4>1. \/ w = "roach2" /\ spc = "roach2_abort"
            \/ w = "dspsr" /\ spc = "dspsr_second"
        BY <1>2, <3>3 DEF Path, Unasked, BeforeRing, Workers
      <4>2. spc = "roach2_abort" => AbortRoach2
        BY <1>1 DEF Stop, StopBegins, DestroyNext, StopRingbuffer,
           StopRingbufferRaises, StopRoach2, StopDspsr, StopBackend, JoinAll,
           PublishShutdown, Publishes, MonitorEnds, At
      <4>3. spc = "dspsr_second" =>
              At("dspsr_second", "own_stop") /\ Calls("dspsr", "abort")
        BY <1>1 DEF Stop, StopBegins, DestroyNext, StopRingbuffer,
           StopRingbufferRaises, AbortRoach2, StopRoach2, StopDspsr, StopBackend,
           JoinAll, PublishShutdown, Publishes, MonitorEnds, At
      <4> QED
        BY <1>1, <1>2, <4>1, <4>2, <4>3, Roach2Asked, DspsrAsked
    <3> QED
      BY <3>1, <3>2, <3>3
  <2>7. spc' \in Joined => Gone(w)
    <3>1. CASE spc \in Joined
      BY <2>1, <3>1 DEF WorkerInv
    <3>2. CASE spc = "join"
      <4>1. JoinAll
        BY <1>1, <3>2 DEF Stop, StopBegins, DestroyNext, StopRingbuffer,
           StopRingbufferRaises, AbortRoach2, StopRoach2, StopDspsr, StopBackend,
           PublishShutdown, Publishes, MonitorEnds, At
      <4>2. w \in Threads \ {"backend"}
        BY DEF Threads, Workers
      <4> QED
        BY <4>1, <4>2 DEF JoinAll
    <3>3. spc' \in Joined => spc \in Joined \cup {"join"}
      BY <1>2 DEF Path, Joined
    <3> QED
      BY <3>1, <3>2, <3>3
  <2> QED
    BY <1>2, <2>1, <2>2, <2>4, <2>5, <2>6, <2>7 DEF WorkerInv
<1> QED
  BY <1>4, <1>5 DEF WorkersInv

-----------------------------------------------------------------------------
(* The steps of a worker.                                                  *)

AroundEnd == spc' = spc /\ clash' = clash /\ bpc' = bpc

(* Whoever serves a start does so while the backend waits for it: stop()   *)
(* has not begun, or it is a clash.                                        *)
LEMMA StartIsClash ==
  ASSUME Control, NEW w \in Workers, WorkerInv(w), phase[w] = "drain",
         Pending(w, "start")
  PROVE  spc \in Unasked(w) \/ clash
<1>1. InStart
  BY DEF WorkerInv, StartAwaited, WaitsFor, InStart
<1>2. spc # "done"
  BY DEF WorkerInv, Joined, Gone
<1>3. spc = "idle" \/ clash
  BY <1>1, <1>2 DEF Control, Stopping
<1> QED
  BY <1>3 DEF Unasked, BeforeRing

LEMMA ServesCall ==
  ASSUME Control, WorkersInv, AroundEnd, NEW w \in Workers,
         NEW call \in CallNames, NEW more \in {<<>>, <<"cleanup">>},
         ServeAll(w, call, more),
         run'[w] = (IF call = "stop" THEN FALSE ELSE run[w]),
         call = "abort" => more = <<"cleanup">>,
         call = "cleanup" => Alive(w)' = {},
         call \in {"abort", "stop"} => Alive(w)' = Alive(w)
  PROVE  WorkerInv(w)' /\ calls' \in [Workers -> Seq(CallNames)]
<1>1. more \in Seq(CallNames) /\ \A c : InQueue(c, more) => c = "cleanup"
  <2>1. CASE more = <<>>
    BY <2>1, InEmpty
  <2>2. CASE more = <<"cleanup">>
    BY <2>2 DEF CallNames, InQueue
  <2> QED
    BY <2>1, <2>2
<1>2. /\ calls' \in [Workers -> Seq(CallNames)]
      /\ phase' = phase /\ phase[w] = "drain"
      /\ Pending(w, call)
      /\ \A c : Pending(w, c) => Pending(w, c)' \/ c = call
      /\ \A c : Pending(w, c)' => Pending(w, c) \/ InQueue(c, more)
      /\ \A c : InQueue(c, more) => Pending(w, c)'
  BY <1>1, ServedCall DEF WorkersInv, ThreadsTyped
<1>3. WorkerInv(w) /\ ~Gone(w) /\ ~Gone(w)'
  BY <1>2 DEF WorkersInv, Gone
<1>4. \A c \in {"start", "stop"} : Pending(w, c)' => Pending(w, c)
  BY <1>1, <1>2
<1>5. StartAwaited(w)' /\ Serving(w)' /\ StopTaken(w)'
  <2>1. call = "stop" => spc \notin Early(w)
    BY <1>2, <1>3 DEF WorkerInv, Serving
  <2> QED
    BY <1>2, <1>3, <1>4, <2>1
       DEF AroundEnd, WorkerInv, StartAwaited, WaitsFor, Serving, StopTaken
<1>6. Ending(w)'
  <2>1. CASE call = "start"
    <3>1. spc \in Unasked(w) \/ clash
      BY <1>2, <1>3, <2>1, StartIsClash
    <3> QED
      BY <3>1 DEF AroundEnd, Ending
  <2>2. CASE call = "abort"
    <3>1. InQueue("cleanup", <<"cleanup">>)
      BY DEF InQueue
    <3>2. Pending(w, "cleanup")'
      BY <1>2, <2>2, <3>1
    <3> QED
      BY <1>2, <1>3, <3>2 DEF Ending, CleanupComing
  <2>3. CASE call = "cleanup"
    BY <2>3 DEF Ending
  <2>4. CASE call = "stop"
    <3>1. CleanupComing(w) => CleanupComing(w)'
      BY <1>2, <2>4 DEF CleanupComing
    <3> QED
      BY <1>2, <1>3, <2>4, <3>1 DEF AroundEnd, WorkerInv, Ending
  <2> QED
    BY <2>1, <2>2, <2>3, <2>4 DEF CallNames
<1> QED
  BY <1>2, <1>3, <1>5, <1>6 DEF AroundEnd, WorkerInv

(* Between the calls: the queue is empty when a thread leaves its drain,   *)
(* and it ends only if it has been told to.                                *)
LEMMA TurnsKeep ==
  ASSUME WorkersInv, AroundEnd, NEW w \in Workers,
         run' = run, proc' = proc, calls' = calls,
         \/ Drained(w)
         \/ /\ phase[w] = "loop"
            /\ phase' = [phase EXCEPT ![w] = IF run[w] THEN "drain" ELSE "exited"]
  PROVE  WorkerInv(w)'
<1>1. /\ WorkerInv(w) /\ phase[w] \in {"drain", "loop"} /\ ~Gone(w)
      /\ phase \in [Threads \ {"backend"} -> Phases] /\ w \in Threads \ {"backend"}
  BY DEF WorkersInv, ThreadsTyped, Drained, Gone, Threads, Workers
<1>2. (\A c : Pending(w, c)' <=> Pending(w, c)) /\ Alive(w)' = Alive(w)
  BY DEF Pending, Alive
<1>3. CASE Drained(w)
  <2>1. phase'[w] = "loop" /\ \A c : ~Pending(w, c)
    BY <1>1, <1>3, NothingPending DEF Drained
  <2> QED
    BY <1>1, <1>2, <2>1
       DEF AroundEnd, WorkerInv, StartAwaited, WaitsFor, Serving, StopTaken, Ending,
           CleanupComing
<1>4. CASE /\ phase[w] = "loop"
           /\ phase' = [phase EXCEPT ![w] = IF run[w] THEN "drain" ELSE "exited"]
  <2>1. phase'[w] = IF run[w] THEN "drain" ELSE "exited"
    BY <1>1, <1>4
  <2>2. StartAwaited(w)' /\ Serving(w)' /\ StopTaken(w)'
    BY <1>1, <1>2, <1>4, <2>1
       DEF AroundEnd, WorkerInv, StartAwaited, WaitsFor, Serving, StopTaken
  <2>3. Ending(w)'
    BY <1>1, <1>2, <1>4, <2>1 DEF AroundEnd, WorkerInv, Ending, CleanupComing, Gone
  <2> QED
    BY <1>1, <2>1, <2>2, <2>3 DEF AroundEnd, WorkerInv
<1> QED
  BY <1>3, <1>4

LEMMA ExitKeeps ==
  ASSUME WorkersInv, AroundEnd, NEW w \in Workers, Alive(w)' \subseteq Alive(w),
         run' = run, phase' = phase, calls' = calls
  PROVE  WorkerInv(w)'
<1>1. WorkerInv(w) /\ (\A c : Pending(w, c)' <=> Pending(w, c))
  BY DEF WorkersInv, Pending
<1>2. Gone(w)' <=> Gone(w)
  BY DEF Gone
<1>3. StartAwaited(w)' /\ Serving(w)' /\ StopTaken(w)'
  BY <1>1 DEF AroundEnd, WorkerInv, StartAwaited, WaitsFor, Serving, StopTaken
<1>4. Ending(w)'
  BY <1>1, <1>2 DEF AroundEnd, WorkerInv, Ending, CleanupComing
<1> QED
  BY <1>1, <1>2, <1>3, <1>4 DEF AroundEnd, WorkerInv

(* A Roach2 that finds its directory gone dies in a start that clashed.    *)
LEMMA StartWipedKeeps ==
  ASSUME Control, WorkersInv, AroundEnd, StartWiped
  PROVE  WorkerInv("roach2")'
<1> DEFINE w == "roach2"
<1>1. /\ w \in Workers /\ w \in Threads \ {"backend"} /\ "start" \in CallNames
      /\ calls \in [Workers -> Seq(CallNames)]
      /\ phase \in [Threads \ {"backend"} -> Phases] /\ WorkerInv(w)
  BY DEF Workers, Threads, CallNames, WorkersInv, ThreadsTyped
<1>2. /\ phase' = [phase EXCEPT ![w] = "dead"] /\ phase[w] = "drain"
      /\ calls' = calls /\ Pending(w, "start") /\ run' = run /\ wiped
  BY <1>1, RaisedCall DEF StartWiped
<1>3. phase'[w] = "dead" /\ (\A c : Pending(w, c)' <=> Pending(w, c))
  BY <1>1, <1>2 DEF Pending
<1>4. spc \in Unasked(w) \/ clash
  BY <1>1, <1>2, StartIsClash
<1>5. spc \notin Early(w)
  BY <1>2 DEF Control
<1> QED
  BY <1>1, <1>2, <1>3, <1>4, <1>5
     DEF AroundEnd, WorkerInv, StartAwaited, WaitsFor, Serving, StopTaken, Ending, Gone

ProcEnded == {"none", "running", "ok", "err"}

LEMMA OneWorker ==
  ASSUME WorkersInv, AroundEnd, NEW w \in Workers, WorkerInv(w)',
         \/ phase' = phase
         \/ \E p \in Phases : phase' = [phase EXCEPT ![w] = p],
         run' = run \/ run' = [run EXCEPT ![w] = FALSE],
         calls' = calls \/ \E q \in Seq(CallNames) : calls' = [calls EXCEPT ![w] = q],
         proc' = proc \/ \E p \in [Bands -> ProcEnded] : proc' = [proc EXCEPT ![w] = p]
  PROVE  WorkersInv'
<1>1. ThreadsTyped
  BY DEF WorkersInv
<1>2. /\ phase' \in [Threads \ {"backend"} -> Phases]
      /\ run' \in [Threads -> BOOLEAN]
      /\ \A v \in Workers \ {w} : phase'[v] = phase[v] /\ run'[v] = run[v]
  BY <1>1, OneThreadsPhase DEF ThreadsTyped
<1>3. /\ calls' \in [Workers -> Seq(CallNames)]
      /\ \A v \in Workers \ {w} : calls'[v] = calls[v]
  <2>1. calls \in [Workers -> Seq(CallNames)]
    BY <1>1 DEF ThreadsTyped
  <2>2. CASE calls' = calls
    BY <2>1, <2>2
  <2>3. CASE \E q \in Seq(CallNames) : calls' = [calls EXCEPT ![w] = q]
    BY <2>1, <2>3
  <2> QED
    BY <2>2, <2>3
<1>4. /\ proc' \in [Workers -> [Bands -> ProcEnded]]
      /\ \A v \in Workers \ {w} : proc'[v] = proc[v]
  <2>1. proc \in [Workers -> [Bands -> ProcEnded]]
    BY <1>1 DEF ThreadsTyped, ProcEnded
  <2> QED
    BY <2>1
<1>5. \A v \in Workers \ {w} : WorkerInv(v)'
  BY <1>2, <1>3, <1>4, SameCalls DEF WorkersInv, AroundEnd
<1>6. ThreadsTyped'
  BY <1>2, <1>3, <1>4 DEF ThreadsTyped, ProcEnded
<1> QED
  BY <1>5, <1>6 DEF WorkersInv

(* A handler that does not raise, with the processes it leaves.            *)
LEMMA HandlerWorkers ==
  ASSUME Control, WorkersInv, AroundEnd, NEW w \in Workers,
         NEW call \in CallNames, NEW more \in {<<>>, <<"cleanup">>},
         ServeAll(w, call, more),
         IF call = "stop" THEN run' = [run EXCEPT ![w] = FALSE] ELSE run' = run,
         call = "abort" => more = <<"cleanup">>,
         call = "cleanup" => proc' = [proc EXCEPT ![w] = All("none")],
         call = "start" => proc' = [proc EXCEPT ![w] = All("running")],
         call \in {"abort", "stop"} => proc' = proc
  PROVE  WorkersInv'
<1>1. /\ ThreadsTyped /\ w \in Threads /\ phase' = phase
      /\ calls' = [calls EXCEPT ![w] = Tail(calls[w]) \o more]
  BY DEF WorkersInv, ServeAll, Workers, Threads
<1>2. run'[w] = (IF call = "stop" THEN FALSE ELSE run[w])
  BY <1>1 DEF ThreadsTyped
<1>3. All("none") \in [Bands -> ProcEnded] /\ All("running") \in [Bands -> ProcEnded]
  BY DEF All, ProcEnded
<1>4. call = "cleanup" => Alive(w)' = {}
  <2> SUFFICES ASSUME call = "cleanup" PROVE Alive(w)' = {}
    OBVIOUS
  <2>1. proc'[w] = All("none")
    BY <1>1 DEF ThreadsTyped
  <2> QED
    BY <2>1 DEF Alive, All
<1>5. call \in {"abort", "stop"} => Alive(w)' = Alive(w)
  BY DEF Alive
<1>6. WorkerInv(w)' /\ calls' \in [Workers -> Seq(CallNames)]
  BY <1>2, <1>4, <1>5, ServesCall
<1>7. \E q \in Seq(CallNames) : calls' = [calls EXCEPT ![w] = q]
  <2>1. calls'[w] = Tail(calls[w]) \o more
    BY <1>1 DEF ThreadsTyped
  <2>2. calls'[w] \in Seq(CallNames)
    BY <1>6
  <2> QED
    BY <1>1, <2>1, <2>2
<1>8. proc' = proc \/ \E p \in [Bands -> ProcEnded] : proc' = [proc EXCEPT ![w] = p]
  BY <1>3 DEF CallNames
<1> QED
  BY <1>1, <1>6, <1>7, <1>8, OneWorker

LEMMA TurnWorkers ==
  ASSUME WorkersInv, AroundEnd, NEW w \in Workers,
         run' = run, proc' = proc, calls' = calls,
         \/ Drained(w)
         \/ /\ phase[w] = "loop"
            /\ phase' = [phase EXCEPT ![w] = IF run[w] THEN "drain" ELSE "exited"]
  PROVE  WorkersInv'
<1>1. WorkerInv(w)'
  BY TurnsKeep
<1>2. \E p \in Phases : phase' = [phase EXCEPT ![w] = p]
  BY DEF Drained, Phases
<1> QED
  BY <1>1, <1>2, OneWorker

LEMMA DspsrWorkers ==
  ASSUME "raise" \notin Faults, Control, WorkersInv, DspsrThread
  PROVE  WorkersInv'
<1>1. AroundEnd /\ "dspsr" \in Workers
  BY WorkerPhase DEF Workers, AroundEnd, stopVars
<1>2. {"start", "abort", "cleanup", "stop"} \subseteq CallNames
  BY DEF CallNames
<1>3. CASE Working(Dspsr)
  <2>1. run' = run
    BY <1>3 DEF Working
  <2>2. CASE DspsrStart
    BY <1>1, <1>2, <2>1, <2>2, HandlerWorkers DEF DspsrStart, Becomes
  <2>3. CASE DspsrAbort
    BY <1>1, <1>2, <2>1, <2>3, HandlerWorkers DEF DspsrAbort, AbortCall
  <2>4. CASE DspsrCleanup
    BY <1>1, <1>2, <2>1, <2>4, HandlerWorkers DEF DspsrCleanup, Becomes
  <2>5. CASE Drained("dspsr") \/ DspsrLoop
    BY <1>1, <2>1, <2>5, TurnWorkers DEF Drained, DspsrLoop, DspsrSays, LoopSays
  <2> QED
    BY <1>3, <2>2, <2>3, <2>4, <2>5 DEF Working, Dspsr, DspsrStartRaises, KillRaises
<1>4. CASE ServeStop("dspsr")
  BY <1>1, <1>2, <1>4, HandlerWorkers DEF ServeStop
<1> QED
  BY <1>3, <1>4 DEF DspsrThread, During

LEMMA Roach2Workers ==
  ASSUME "raise" \notin Faults, Control, WorkersInv, Roach2Thread
  PROVE  WorkersInv'
<1>1. AroundEnd /\ "roach2" \in Workers
  BY WorkerPhase DEF Workers, AroundEnd, stopVars
<1>2. {"start", "abort", "cleanup", "stop"} \subseteq CallNames
  BY DEF CallNames
<1>3. CASE Working(Roach2)
  <2>1. run' = run
    BY <1>3 DEF Working
  <2>2. CASE Roach2Start
    BY <1>1, <1>2, <2>1, <2>2, HandlerWorkers DEF Roach2Start, Becomes
  <2>3. CASE Roach2Abort
    BY <1>1, <1>2, <2>1, <2>3, HandlerWorkers DEF Roach2Abort, AbortCall
  <2>4. CASE Roach2Cleanup
    BY <1>1, <1>2, <2>1, <2>4, HandlerWorkers DEF Roach2Cleanup, Becomes
  <2>5. CASE Drained("roach2") \/ Roach2Loop
    BY <1>1, <2>1, <2>5, TurnWorkers DEF Drained, Roach2Loop, LoopSays
  <2> QED
    BY <1>3, <2>2, <2>3, <2>4, <2>5
       DEF Working, Roach2, Roach2StartRaises, KillRaises
<1>4. CASE ServeStop("roach2")
  BY <1>1, <1>2, <1>4, HandlerWorkers DEF ServeStop
<1>5. CASE StartWiped
  <2>1. WorkerInv("roach2")'
    BY <1>1, <1>5, StartWipedKeeps
  <2> QED
    BY <1>1, <1>5, <2>1, OneWorker DEF StartWiped, HandlerRaises, Phases
<1> QED
  BY <1>3, <1>4, <1>5 DEF Roach2Thread, During

LEMMA ExitsWorkers ==
  ASSUME WorkersInv, NEW w \in Workers, NEW b \in Bands,
         During(Working(Exits(w, b)))
  PROVE  WorkersInv'
<1>1. AroundEnd
  BY WorkerPhase DEF AroundEnd, stopVars
<1>2. PICK e \in ProcEnded : proc' = [proc EXCEPT ![w][b] = e]
  BY DEF During, Working, Exits, ProcEnded
<1>3. b \in Alive(w) /\ calls' = calls /\ phase' = phase /\ run' = run
  BY DEF During, Working, Exits
<1>4. proc \in [Workers -> [Bands -> ProcEnded]]
  BY DEF WorkersInv, ThreadsTyped, ProcEnded
<1> DEFINE p == [proc[w] EXCEPT ![b] = e]
<1>5. p \in [Bands -> ProcEnded] /\ proc' = [proc EXCEPT ![w] = p]
  BY <1>2, <1>4
<1>6. \A c \in Bands : c # b => p[c] = proc[w][c]
  BY <1>4
<1> HIDE DEF p
<1>7. proc'[w] = p
  BY <1>4, <1>5
<1>8. Alive(w)' \subseteq Alive(w)
  BY <1>3, <1>6, <1>7 DEF Alive
<1>9. WorkerInv(w)'
  BY <1>1, <1>3, <1>8, ExitKeeps
<1> QED
  BY <1>1, <1>3, <1>5, <1>9, OneWorker

(* How stop() begins: no start is then pending in the backend's thread.    *)
LEMMA BeginWorkers ==
  ASSUME SInv, WorkersInv,
         Watched(RequestShutdown) \/ Watched(ServeShutdown) \/ Watched(Sigint)
  PROVE  WorkersInv'
<1>1. /\ UNCHANGED <<run, phase, calls, proc>> /\ (clash => clash')
      /\ bpc' = bpc \/ bpc = "drain"
      /\ spc' \in {"idle", "begin"}
  <2>1. CASE Watched(RequestShutdown)
    BY <2>1 DEF Watched, RequestShutdown, workerVars, SInv, StopHolds
  <2>2. CASE Watched(Sigint)
    BY <2>2 DEF Watched, Sigint, vars, backendVars, workerVars
  <2>3. CASE Watched(ServeShutdown)
    BY <2>3 DEF Watched, ServeShutdown, Serve, workerVars
  <2> QED
    BY <2>1, <2>2, <2>3
<1>2. spc = "idle"
  <2>1. CASE Watched(RequestShutdown) \/ Watched(Sigint)
    BY <2>1 DEF Watched, RequestShutdown, Sigint, SInv, StopHolds
  <2>2. CASE Watched(ServeShutdown)
    <3>1. bq # <<>> /\ Head(bq).op = "shutdown"
      BY <2>2 DEF Watched, ServeShutdown, Serve
    <3>2. 1 \in 1..Len(bq) /\ IsShutdown(1)
      BY <3>1, HeadTaken DEF IsShutdown
    <3> QED
      BY <3>2 DEF SInv, OneShutdown
  <2> QED
    BY <2>1, <2>2
<1>3. ThreadsTyped'
  BY <1>1 DEF WorkersInv, ThreadsTyped
<1>4. ASSUME NEW w \in Workers PROVE WorkerInv(w)'
  <2>1. WorkerInv(w) /\ (\A c : Pending(w, c)' <=> Pending(w, c))
    BY <1>1 DEF WorkersInv, Pending
  <2>2. StartAwaited(w)'
    BY <1>1, <2>1 DEF WorkerInv, StartAwaited, WaitsFor
  <2>3. spc \in Early(w) /\ spc' \in Unasked(w) /\ spc' \notin Joined
    BY <1>1, <1>2 DEF Early, Unasked, BeforeRing, Joined
  <2>4. Serving(w)' /\ StopTaken(w)'
    BY <1>1, <2>1, <2>3 DEF WorkerInv, Serving, StopTaken
  <2> QED
    BY <1>1, <2>1, <2>2, <2>3, <2>4 DEF WorkerInv, Ending
<1> QED
  BY <1>3, <1>4 DEF WorkersInv

LEMMA NextWorkers ==
  ASSUME "raise" \notin Faults, SInv, Control, WorkersInv, [StoppingNext]_allVars
  PROVE  WorkersInv'
<1>1. CASE DspsrThread \/ Roach2Thread
  BY <1>1, DspsrWorkers, Roach2Workers
<1>2. CASE \E w \in Workers, b \in Bands : During(Working(Exits(w, b)))
  BY <1>2, ExitsWorkers
<1>3. CASE Watched(Stop)
  BY <1>3, StopWorkers
<1>4. CASE Watched(RequestShutdown) \/ Watched(ServeShutdown) \/ Watched(Sigint)
  BY <1>4, BeginWorkers
<1>5. CASE Watched(Backend /\ UNCHANGED stopVars)
  BY <1>5, BackendWorkers
<1>6. CASE \/ RingThread \/ Watched(BackendServesStop /\ UNCHANGED stopVars)
           \/ \E r \in UserRequests : During(Command(r))
           \/ UNCHANGED allVars
  <2>1. /\ spc' = spc /\ (clash => clash') /\ bpc' = bpc /\ calls' = calls
        /\ proc' = proc
        /\ \/ phase' = phase
           \/ phase' = [phase EXCEPT !["ringbuffer"] = "exited"]
        /\ \/ run' = run
           \/ \E t \in {"backend", "ringbuffer"} : run' = [run EXCEPT ![t] = FALSE]
    <3>1. CASE RingThread
      <4>1. UNCHANGED stopVars /\ clash' = clash
        BY <3>1 DEF RingThread, During
      <4>2. CASE Ringbuffer
        BY <4>1, <4>2 DEF Ringbuffer, backendVars, workerVars, stopVars
      <4>3. CASE RingServesStop
        BY <4>1, <4>3 DEF RingServesStop, backendVars, workerVars, stopVars
      <4>4. CASE RingExits
        BY <4>1, <4>4 DEF RingExits, backendVars, stopVars
      <4> QED
        BY <3>1, <4>2, <4>3, <4>4 DEF RingThread, During
    <3>2. CASE Watched(BackendServesStop /\ UNCHANGED stopVars)
      BY <3>2 DEF Watched, BackendServesStop, Serve, workerVars, stopVars
    <3>3. CASE \E r \in UserRequests : During(Command(r))
      BY <3>3 DEF During, Command, workerVars, stopVars
    <3>4. CASE UNCHANGED allVars
      BY <3>4 DEF allVars, vars, backendVars, workerVars, stopVars
    <3> QED
      BY <1>6, <3>1, <3>2, <3>3, <3>4
  <2>2. /\ phase' \in [Threads \ {"backend"} -> Phases]
        /\ run' \in [Threads -> BOOLEAN]
        /\ \A w \in Workers : phase'[w] = phase[w] /\ run'[w] = run[w]
    BY <2>1 DEF WorkersInv, ThreadsTyped, Phases, Workers, Threads
  <2>3. ThreadsTyped'
    BY <2>1, <2>2 DEF WorkersInv, ThreadsTyped
  <2>4. \A w \in Workers : WorkerInv(w)'
    BY <2>1, <2>2, SameCalls DEF WorkersInv
  <2> QED
    BY <2>3, <2>4 DEF WorkersInv
<1> QED
  BY <1>1, <1>2, <1>3, <1>4, <1>5, <1>6 DEF StoppingNext, BackendThread

(* When stop() is over no roach2_udpdb runs, and no dspsr unless its abort *)
(* was put after the last drain (dspsr.py:47-49), if no handler raised:    *)
(* Roach2's abort is put before its stop, and the cleanup it leads to is   *)
(* served by the same drain.                                               *)
THEOREM ProcessesSafety ==
  "raise" \notin Faults => (StoppingSpec => []ProcessesEnded)
<1> SUFFICES ASSUME "raise" \notin Faults PROVE StoppingSpec => []ProcessesEnded
  OBVIOUS
<1>1. SInv /\ Control /\ WorkersInv => ProcessesEnded
  <2> SUFFICES ASSUME WorkersInv, spc = "done", ~clash
               PROVE  /\ Alive("roach2") = {}
                      /\ Alive("dspsr") = {} \/ calls["dspsr"] # <<>>
    BY DEF ProcessesEnded
  <2>1. /\ spc \in Joined /\ spc \notin Unasked("roach2")
        /\ spc \notin Unasked("dspsr") /\ "roach2" \in Workers /\ "dspsr" \in Workers
    BY DEF Joined, Unasked, BeforeRing, Workers
  <2>2. Alive("roach2") = {}
    BY <2>1 DEF WorkersInv, WorkerInv, Ending
  <2>3. Alive("dspsr") = {} \/ CleanupComing("dspsr")
    BY <2>1 DEF WorkersInv, WorkerInv, Ending
  <2>4. calls["dspsr"] = <<>> => ~CleanupComing("dspsr")
    BY NothingPending DEF CleanupComing
  <2> QED
    BY <2>2, <2>3, <2>4
<1>2. StoppingInit => SInv /\ Control /\ WorkersInv
  BY InitSInv, InitControl, InitWorkers
<1>3. SInv /\ Control /\ WorkersInv /\ [StoppingNext]_allVars
        => (SInv /\ Control /\ WorkersInv)'
  BY NextSInv, NextControl, NextWorkers
<1> QED
  BY <1>1, <1>2, <1>3, PTL DEF StoppingSpec
=============================================================================
