---------------------------- MODULE Observation ----------------------------
(***************************************************************************)
(* An observation, from the STARTOBS or STOPOBS of a user to the processes *)
(* that record it: NunaBackend (nunabe.py) and the three components it     *)
(* drives, Ringbuffer, Dspsr and Roach2, each a thread with a queue.       *)
(*                                                                         *)
(* The queue discipline is that of SubComponent, taken here at its         *)
(* promise: a call is served in one step, in the order of the puts; a call *)
(* a handler puts on its own component goes to the end of the queue;       *)
(* loop() runs after a drain; a call whose handler raises stays unfinished *)
(* and ends the thread, so it is left at the head of the queue; wait()     *)
(* returns when the queue is empty.  An instance of Observation is taken   *)
(* up where NunaBackend.start() has returned and the band is programmed    *)
(* (test.py); Shutdown adds what ends the threads.                         *)
(***************************************************************************)
EXTENDS Naturals, Sequences

CONSTANTS
  BandOrder,    \* the halves of the band, in the order the config lists them
  Sources,      \* what can be observed
  NoSource,     \* 'Unknown'
  Faults,       \* which failures of the outside world are considered
  MaxCommands,  \* bound on the commands of the users
  MaxTicks,     \* how often abort_observation looks for dspsr to finish
  MaxQueue      \* a queue this long gets no further abort or cleanup

Bands == {BandOrder[i] : i \in 1..Len(BandOrder)}

ASSUME BandsAssumption ==
  /\ Len(BandOrder) \in Nat \ {0}
  /\ \A i, j \in 1..Len(BandOrder) : BandOrder[i] = BandOrder[j] => i = j
ASSUME SourcesAssumption == NoSource \notin Sources
ASSUME FaultsAssumption == Faults \subseteq {"buffer", "raise", "exit"}
ASSUME BoundsAssumption ==
  MaxCommands \in Nat /\ MaxTicks \in Nat /\ MaxQueue \in Nat

(* Dspsr and Roach2, which own one process for each half of the band.      *)
Workers == {"dspsr", "roach2"}
Threads == Workers \cup {"backend", "ringbuffer"}

VARIABLES
  commands,     \* how many commands the users have given
  run,          \* self.run of every thread
  status,       \* state['observation_status']
  source,       \* state['source_name']
  bq,           \* the backend's own queue
  bpc,          \* where the backend's thread is
  ticks,        \* how often abort_observation has looked
  gq,           \* Ringbuffer's queue
  rb,           \*   states[label]: absent, ready, or closed (nbufs is 0)
  shm,          \*   whether the shared memory of the buffer exists
  calls,        \* the queue of each worker
  phase,        \* where a thread but the backend's is in mainthread
  state,        \* state['state'] of each worker
  proc,         \* its processes: none, running, or how they exited
  report,       \* the bands for which Dspsr's state['processes'] is 'Running'
  name,         \* the source the dspsr processes were given as -N
  rknown        \* whether the backend's state has a 'roach2'

backendVars == <<status, source, bq, bpc, ticks>>
ringVars    == <<rb, shm>>
workerVars  == <<phase, state, proc, report, name, rknown>>
vars == <<commands, run, backendVars, gq, ringVars, calls, workerVars>>

StartReq(s, by) == [op |-> "start", src |-> s, by |-> by]
AbortReq(by)    == [op |-> "abort", src |-> NoSource, by |-> by]

All(p) == [b \in Bands |-> p]
Alive(w) == {b \in Bands : proc[w][b] = "running"}

Init ==
  /\ commands = 0
  /\ run = [t \in Threads |-> TRUE]
  /\ status = "Initialising"
  /\ source = NoSource
  /\ bq = <<>>
  /\ bpc = "drain"
  /\ ticks = 0
  /\ gq = <<>>
  /\ rb = All("absent")
  /\ shm = All(FALSE)
  /\ calls = [w \in Workers |-> <<>>]
  /\ phase = [t \in Threads \ {"backend"} |-> "drain"]
  /\ state = [w \in Workers |-> "Idle"]
  /\ proc = [w \in Workers |-> All("none")]
  /\ report = {}
  /\ name = NoSource
  /\ rknown = FALSE

-----------------------------------------------------------------------------
(* The users, through UserInterface.parse_message.                         *)

Command(r) ==
  /\ commands < MaxCommands
  /\ commands' = commands + 1
  /\ bq' = Append(bq, r)
  /\ UNCHANGED <<run, status, source, bpc, ticks, gq, ringVars, calls,
                 workerVars>>

-----------------------------------------------------------------------------
(* NunaBackend.  What its steps leave alone is in Backend.                 *)

(* What check_observing_state makes of the states of Dspsr and Roach2: the *)
(* later tests of the code override the earlier ones.                      *)
Detected ==
  LET both == {state[w] : w \in Workers} IN
  CASE ~rknown                             -> "Invalid"
    [] rknown /\ "Error" \in both          -> "Error"
    [] rknown /\ both = {"Idle"}           -> "Ready"
    [] rknown /\ both # {"Idle"} /\ both \subseteq {"Completed", "Idle"}
                                           -> "Completed"
    [] rknown /\ both # {"Completed"} /\ both \subseteq {"Running", "Completed"}
                                           -> "Observing"
    [] OTHER                               -> "Invalid"

Gone(t) == phase[t] \in {"exited", "dead"}

(* Call call of component w.  Nobody takes a call from the queue of a      *)
(* thread that has ended, and more than one left there makes no difference.*)
Longer(w, call) ==
  IF Gone(w) /\ calls[w] # <<>> THEN calls[w] ELSE Append(calls[w], call)
Put(w, call) == calls' = [calls EXCEPT ![w] = Longer(w, call)]
PutBoth(call) == calls' = [w \in Workers |-> Longer(w, call)]
Room == \A w \in Workers : Gone(w) \/ Len(calls[w]) < MaxQueue

Serve(op) ==
  /\ bpc = "drain"
  /\ bq # <<>>
  /\ Head(bq).op = op

(* start_observation returns early, leaving more on its own queue.         *)
StartReturns(more) ==
  /\ Serve("start")
  /\ bq' = Tail(bq) \o more
  /\ status' = Detected
  /\ UNCHANGED <<bpc, ticks, gq, calls>>

StartAlready ==
  /\ Detected = "Observing"
  /\ StartReturns(<<>>)
  /\ source = Head(bq).src
  /\ UNCHANGED source

(* Both calls go through the decorator: they are queued.                   *)
StartChangesSource ==
  /\ Detected = "Observing"
  /\ StartReturns(<<AbortReq("backend"), StartReq(Head(bq).src, "backend")>>)
  /\ source # Head(bq).src
  /\ UNCHANGED source

NotReady == Detected \notin {"Ready", "Observing"}

(* Variant: the source is published before the state is looked at.         *)
StartRefusedRenames ==
  NotReady /\ StartReturns(<<>>) /\ source' = Head(bq).src

StartRefused == NotReady /\ StartReturns(<<>>) /\ UNCHANGED source

(* destroy_buffer and create_buffer for every band.                        *)
Recreate ==
  [i \in 1..2 * Len(BandOrder) |->
     [op   |-> IF i % 2 = 1 THEN "destroy" ELSE "create",
      band |-> BandOrder[(i + 1) \div 2]]]

StartFrom(states) ==
  /\ Serve("start")
  /\ Detected \in states
  /\ bq' = Tail(bq)
  /\ status' = Detected
  /\ source' = Head(bq).src
  /\ gq' = gq \o Recreate
  /\ bpc' = "wait_buffers"
  /\ UNCHANGED <<ticks, calls>>

(* Variant: a start is let through after an error.                         *)
StartAcceptedAfterError == StartFrom({"Ready", "Error"})

StartAccepted == StartFrom({"Ready"})

FirstNotReady(i) ==
  /\ rb[BandOrder[i]] # "ready"
  /\ \A j \in 1..i-1 : rb[BandOrder[j]] = "ready"

BuffersReady ==
  /\ bpc = "wait_buffers"
  /\ gq = <<>>
  /\ \A b \in Bands : rb[b] = "ready"
  /\ Put("dspsr", "start")
  /\ bpc' = "wait_dspsr"
  /\ UNCHANGED <<status, source, bq, ticks, gq>>

BuffersFailed ==
  /\ bpc = "wait_buffers"
  /\ gq = <<>>
  /\ \E i \in 1..Len(BandOrder) :
       /\ FirstNotReady(i)
       \* no entry in state['ringbuffer']: a KeyError, which is re-raised
       /\ bpc' = IF rb[BandOrder[i]] = "absent" THEN "dead" ELSE "drain"
  /\ UNCHANGED <<status, source, bq, ticks, gq, calls>>

DspsrWaitedUntil(done) ==
  /\ bpc = "wait_dspsr"
  /\ done
  /\ Put("roach2", "start")
  /\ bpc' = "wait_roach2"
  /\ UNCHANGED <<status, source, bq, ticks, gq>>

(* Variant: the backend polls for dspsr to say Running.                    *)
DspsrPolled == DspsrWaitedUntil(state["dspsr"] = "Running")

DspsrWaited == DspsrWaitedUntil(calls["dspsr"] = <<>>)

Roach2Waited ==
  /\ bpc = "wait_roach2"
  /\ calls["roach2"] = <<>>
  /\ status' = "Observing"
  /\ bpc' = "drain"
  /\ UNCHANGED <<source, bq, ticks, gq, calls>>

Abort ==
  /\ Serve("abort")
  /\ Room
  /\ bq' = Tail(bq)
  /\ status' = "stopping"
  /\ Put("roach2", "abort")
  /\ ticks' = 0
  /\ bpc' = "aborting"
  /\ UNCHANGED <<source, gq>>

AbortTickBelow(n) ==
  /\ bpc = "aborting"
  /\ report # {}
  /\ ticks < n
  /\ ticks' = ticks + 1
  /\ UNCHANGED <<status, source, bq, bpc, gq, calls>>

(* Variant: it looks once more than it should.                             *)
AbortTickOnceMore == AbortTickBelow(MaxTicks + 1)

AbortTick == AbortTickBelow(MaxTicks)

EnoughTicks ==
  /\ bpc = "aborting"
  /\ report = {} \/ ticks = MaxTicks
  /\ source' = NoSource
  /\ bpc' = "abort_check"
  /\ UNCHANGED <<status, bq, ticks, gq>>

(* Variant: dspsr is left to end by itself.                                *)
AbortLeavesDspsr == EnoughTicks /\ UNCHANGED calls

AbortDspsr == EnoughTicks /\ Put("dspsr", "abort")

AbortCheck ==
  /\ bpc = "abort_check"
  /\ status' = Detected
  /\ bpc' = "drain"
  /\ UNCHANGED <<source, bq, ticks, gq, calls>>

BackendDrained ==
  /\ bpc = "drain"
  /\ bq = <<>>
  /\ bpc' = "loop"
  /\ UNCHANGED <<status, source, bq, ticks, gq, calls>>

Turn ==
  /\ bpc = "loop"
  /\ status' = Detected
  /\ bpc' = IF run["backend"] THEN "drain" ELSE "exited"
  /\ UNCHANGED <<source, bq, ticks, gq>>

BackendLoop == Turn /\ Detected # "Completed" /\ UNCHANGED calls

(* Variant: only the digitiser is cleaned up.                              *)
BackendLoopCleansRoach2 ==
  Turn /\ Detected = "Completed" /\ Room /\ Put("roach2", "cleanup")

BackendLoopCleans ==
  Turn /\ Detected = "Completed" /\ Room /\ PutBoth("cleanup")

Backend ==
  /\ \/ StartAlready \/ StartChangesSource \/ StartRefused \/ StartAccepted
     \/ BuffersReady \/ BuffersFailed \/ DspsrWaited \/ Roach2Waited
     \/ Abort \/ AbortTick \/ AbortDspsr \/ AbortCheck
     \/ BackendDrained \/ BackendLoop \/ BackendLoopCleans
  /\ UNCHANGED <<commands, run, ringVars, workerVars>>

-----------------------------------------------------------------------------
(* Ringbuffer.  Its handle_exception survives.                             *)

ServeBuffer(op, b) ==
  /\ phase["ringbuffer"] = "drain"
  /\ gq # <<>>
  /\ Head(gq) = [op |-> op, band |-> b]
  /\ gq' = Tail(gq)

DestroyIgnored(b) ==
  /\ ServeBuffer("destroy", b)
  /\ rb[b] \in {"absent", "closed"}
  /\ UNCHANGED ringVars

(* dada_db -d may fail or time out, which leaves the memory allocated.     *)
Destroy(b) ==
  /\ ServeBuffer("destroy", b)
  /\ rb[b] = "ready"
  /\ rb' = [rb EXCEPT ![b] = "closed"]
  /\ \E left \in BOOLEAN :
       /\ left => "buffer" \in Faults
       /\ shm' = [shm EXCEPT ![b] = left]

(* The label of a buffer that was destroyed is still in states.            *)
CreateIgnored(b) ==
  /\ ServeBuffer("create", b)
  /\ rb[b] # "absent"
  /\ UNCHANGED ringVars

Create(b) ==
  /\ ServeBuffer("create", b)
  /\ rb[b] = "absent"
  /\ rb' = [rb EXCEPT ![b] = "ready"]
  /\ shm' = [shm EXCEPT ![b] = TRUE]

(* dada_db fails or times out creating the buffer.                         *)
CreateFails(b) ==
  /\ "buffer" \in Faults
  /\ ServeBuffer("create", b)
  /\ rb[b] = "absent"
  /\ rb' = [rb EXCEPT ![b] = "closed"]
  /\ \E made \in BOOLEAN : shm' = [shm EXCEPT ![b] = made]

(* dada_db times out flushing the key: states[label] is a KeyError.        *)
CreateRaises(b) ==
  /\ "buffer" \in Faults
  /\ ServeBuffer("create", b)
  /\ rb[b] = "absent"
  /\ UNCHANGED ringVars

Ringbuffer ==
  /\ \E b \in Bands :
       \/ DestroyIgnored(b) \/ Destroy(b)
       \/ CreateIgnored(b) \/ Create(b) \/ CreateFails(b) \/ CreateRaises(b)
  /\ UNCHANGED <<commands, run, backendVars, calls, workerVars>>

-----------------------------------------------------------------------------
(* What Dspsr and Roach2 have in common.  What is left alone is in Next.   *)

ServeCall(w, call) ==
  /\ phase[w] = "drain"
  /\ calls[w] # <<>>
  /\ Head(calls[w]) = call

ServeAll(w, call, more) ==
  /\ ServeCall(w, call)
  /\ calls' = [calls EXCEPT ![w] = Tail(@) \o more]
  /\ UNCHANGED phase

(* The handler raises: its call stays unfinished and the thread ends.      *)
HandlerRaises(w, call) ==
  /\ ServeCall(w, call)
  /\ phase' = [phase EXCEPT ![w] = "dead"]
  /\ UNCHANGED calls

Becomes(w, p, s) ==
  /\ proc' = [proc EXCEPT ![w] = p]
  /\ state' = [state EXCEPT ![w] = s]

(* A process is still there a second after it was killed.                  *)
KillRaises(w) ==
  /\ "raise" \in Faults
  /\ HandlerRaises(w, "cleanup")
  /\ \E left \in SUBSET Alive(w) \ {{}} :
       Becomes(w, [b \in Bands |-> IF b \in Alive(w) \ left THEN "err"
                                                         ELSE proc[w][b]],
               state[w])
  /\ UNCHANGED <<report, name, rknown>>

(* abort_observation only calls cleanup_observation, which is decorated.   *)
AbortCall(w) ==
  /\ ServeAll(w, "abort", <<"cleanup">>)
  /\ UNCHANGED <<state, proc, report, name, rknown>>

Drained(w) ==
  /\ phase[w] = "drain"
  /\ calls[w] = <<>>
  /\ phase' = [phase EXCEPT ![w] = "loop"]
  /\ UNCHANGED <<calls, state, proc, report, name, rknown>>

(* loop() publishes s as the state of w; mainthread then looks at run.     *)
LoopSays(w, s) ==
  /\ phase[w] = "loop"
  /\ state' = [state EXCEPT ![w] = s]
  /\ phase' = [phase EXCEPT ![w] = IF run[w] THEN "drain" ELSE "exited"]
  /\ UNCHANGED <<calls, proc>>

FirstBands(n) == {BandOrder[i] : i \in 1..n}

-----------------------------------------------------------------------------
(* Dspsr.                                                                  *)

DspsrStart ==
  /\ ServeAll("dspsr", "start", <<>>)
  /\ Becomes("dspsr", All("running"), "Running")
  /\ report' = {}
  /\ name' = source
  /\ UNCHANGED rknown

(* Opening dada.info or Popen raises after the first n processes.          *)
DspsrStartRaises ==
  /\ "raise" \in Faults
  /\ HandlerRaises("dspsr", "start")
  /\ \E n \in 0..Len(BandOrder)-1 :
       /\ Becomes("dspsr",
                  [b \in Bands |-> IF b \in FirstBands(n) THEN "running"
                                                          ELSE "none"],
                  IF n = 0 THEN state["dspsr"] ELSE "Running")
       /\ report' = report \ FirstBands(n)
  /\ name' = source
  /\ UNCHANGED rknown

DspsrAbort == AbortCall("dspsr")

DspsrCleanup ==
  /\ ServeAll("dspsr", "cleanup", <<>>)
  /\ Becomes("dspsr", All("none"), "Idle")
  /\ UNCHANGED <<report, name, rknown>>

(* The bands that have a process, and those whose process ended with e.    *)
Has == {b \in Bands : proc["dspsr"][b] # "none"}
Ended(e) == {b \in Bands : proc["dspsr"][b] = e}

(* The bands without a process keep the report they had.                   *)
DspsrSays(s) ==
  /\ LoopSays("dspsr", s)
  /\ report' = (report \ Has) \cup Alive("dspsr")
  /\ UNCHANGED <<name, rknown>>

(* Variant: completed counts the processes that ended, however they did.   *)
DspsrLoopCountsAll ==
  DspsrSays(IF Has # {} /\ Alive("dspsr") = {} THEN "Completed"
                                               ELSE state["dspsr"])

DspsrLoop ==
  DspsrSays(CASE Has # {} /\ Ended("ok") = Has -> "Completed"
              [] Ended("err") # {}            -> "Error"
              [] OTHER                        -> state["dspsr"])

Dspsr ==
  \/ DspsrStart \/ DspsrStartRaises \/ DspsrAbort \/ DspsrCleanup
  \/ KillRaises("dspsr") \/ Drained("dspsr") \/ DspsrLoop

-----------------------------------------------------------------------------
(* Roach2.  What start_observation does with its pipes is in Launch.       *)

Roach2Start ==
  /\ ServeAll("roach2", "start", <<>>)
  /\ Becomes("roach2", All("running"), "Running")
  /\ rknown' = TRUE
  /\ UNCHANGED <<report, name>>

(* It raises after n processes, or the control pipes never open.           *)
Roach2StartRaises ==
  /\ "raise" \in Faults
  /\ HandlerRaises("roach2", "start")
  /\ \E n \in 0..Len(BandOrder) :
       Becomes("roach2",
               [b \in Bands |-> IF b \in FirstBands(n) THEN "running"
                                                       ELSE proc["roach2"][b]],
               state["roach2"])
  /\ UNCHANGED <<report, name, rknown>>

Roach2Abort == AbortCall("roach2")

Roach2Cleanup ==
  /\ ServeAll("roach2", "cleanup", <<>>)
  /\ Becomes("roach2", All("none"), "Idle")
  /\ rknown' = TRUE
  /\ UNCHANGED <<report, name>>

Roach2Loop ==
  /\ LoopSays("roach2",
       CASE state["roach2"] # "Running"                      -> state["roach2"]
         [] state["roach2"] = "Running" /\ proc["roach2"] = All("ok")
                                                            -> "Completed"
         [] state["roach2"] = "Running"
            /\ \E b \in Bands : proc["roach2"][b] = "err"    -> "Error"
         [] OTHER                                           -> state["roach2"])
  /\ rknown' = TRUE
  /\ UNCHANGED <<report, name>>

Roach2 ==
  \/ Roach2Start \/ Roach2StartRaises \/ Roach2Abort \/ Roach2Cleanup
  \/ KillRaises("roach2") \/ Drained("roach2") \/ Roach2Loop

-----------------------------------------------------------------------------
(* The processes: dspsr and roach2_udpdb end when they like.               *)

Exits(w, b) ==
  /\ b \in Alive(w)
  /\ \E e \in {"ok"} \cup (IF "exit" \in Faults THEN {"err"} ELSE {}) :
       proc' = [proc EXCEPT ![w][b] = e]
  /\ UNCHANGED <<calls, phase, state, report, name, rknown>>

Working(A) == A /\ UNCHANGED <<commands, run, backendVars, gq, ringVars>>

UserRequests == {StartReq(s, "user") : s \in Sources} \cup {AbortReq("user")}

Next ==
  \/ \E r \in UserRequests : Command(r)
  \/ Backend \/ Ringbuffer
  \/ Working(Dspsr) \/ Working(Roach2)
  \/ \E w \in Workers, b \in Bands : Working(Exits(w, b))

Spec == Init /\ [][Next]_vars

(* Every thread runs.  Users need not give commands, and nothing is said   *)
(* of when a process exits.                                                *)
FairSpec ==
  /\ Spec
  /\ WF_vars(Backend) /\ WF_vars(Ringbuffer)
  /\ WF_vars(Working(Dspsr)) /\ WF_vars(Working(Roach2))

-----------------------------------------------------------------------------
(* Properties.                                                             *)

(* Every variable keeps its type.                                          *)
TypeOK ==
  /\ commands \in Nat
  /\ run \in [Threads -> BOOLEAN]
  /\ status \in {"Initialising", "Invalid", "Ready", "Observing", "Completed",
                 "Error", "stopping"}
  /\ source \in Sources \cup {NoSource}
  /\ bq \in Seq([op : {"start", "abort"}, src : Sources \cup {NoSource},
                 by : {"user", "backend"}])
  /\ bpc \in {"drain", "loop", "wait_buffers", "wait_dspsr", "wait_roach2",
              "aborting", "abort_check", "dead"}
  /\ ticks \in 0..MaxTicks
  /\ gq \in Seq([op : {"destroy", "create"}, band : Bands])
  /\ rb \in [Bands -> {"absent", "ready", "closed"}]
  /\ shm \in [Bands -> BOOLEAN]
  /\ calls \in [Workers -> Seq({"start", "abort", "cleanup"})]
  /\ phase \in [Threads \ {"backend"} -> {"drain", "loop", "dead"}]
  /\ state \in [Workers -> {"Idle", "Running", "Completed", "Error"}]
  /\ proc \in [Workers -> [Bands -> {"none", "running", "ok", "err"}]]
  /\ report \subseteq Bands
  /\ name \in Sources \cup {NoSource}
  /\ rknown \in BOOLEAN

(* No ring buffer is taken away under a process that is attached to it:    *)
(* whatever the commands, the failures and the order in which the threads  *)
(* serve their calls, start_observation destroys a buffer (nunabe.py:240)  *)
(* only when the dspsr and the roach2_udpdb of its band are gone.          *)
BuffersUnderCapture ==
  \A w \in Workers : \A b \in Alive(w) : rb[b] = "ready" /\ shm[b]

(* A component that says Idle has no process left, and one that says       *)
(* Completed has none that failed: this is all that check_observing_state  *)
(* goes by when it lets a new observation start.  A Roach2 or a Dspsr      *)
(* thread that died keeps what it last said; it says Idle over a process   *)
(* only if Roach2 died while it was starting.                              *)
StateIsTrue ==
  \A w \in Workers :
    /\ state[w] = "Idle" /\ (w = "dspsr" \/ phase[w] # "dead") => Alive(w) = {}
    /\ state[w] = "Completed" /\ phase[w] # "dead" => proc[w] = All("ok")

(* The name the backend publishes while dspsr records is the one dspsr was *)
(* started with (-N, dspsr.py:82), or Unknown once it is being aborted:    *)
(* a start that is refused may not rename what is being recorded.          *)
SourceNamesCapture ==
  Alive("dspsr") # {} => source \in {name, NoSource}

(* A start that was accepted comes to an end, and so does an abort: no two *)
(* components wait for each other.                                         *)
StartTerminates ==
  (bpc \notin {"drain", "loop"}) ~> (bpc \in {"drain", "loop"})

(* After an abort the backend gets back to Ready, also when a process has  *)
(* failed: this is the only way out of Error.                              *)
AbortRecovers == (bpc = "aborting") ~> (status = "Ready")

(* An observation that ends by itself is cleaned up (nunabe.py:73-75).     *)
CompletedRecovers ==
  (\A w \in Workers : state[w] = "Completed") ~>
    (\A w \in Workers : state[w] = "Idle")

(* nunabe.py:238-242: an accepted start creates the ring buffers, and      *)
(* waits until they are there.                                             *)
BuffersCreated ==
  [][bpc = "wait_buffers" /\ bpc' # bpc => \A b \in Bands : rb[b] = "ready"]_vars

(* nunabe.py:221: a start for another source stops the observation and     *)
(* changes to the new source; it is not dropped on the way.                *)
SourceChangeHonoured ==
  [][Backend /\ StartRefused => Head(bq).by = "user"]_vars
=============================================================================
