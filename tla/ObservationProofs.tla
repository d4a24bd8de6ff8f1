------------------------- MODULE ObservationProofs -------------------------
(***************************************************************************)
(* For any number of bands, sources, commands and failures: what the       *)
(* components publish is true, no buffer is destroyed under a process, and *)
(* the name that is published is that of what is recorded.                 *)
(***************************************************************************)
EXTENDS Observation, DataLemmas

-----------------------------------------------------------------------------
(* The queues of the workers.  S are the calls there are: a component that *)
(* is being shut down has one more.                                        *)

Pending(w, call) == InQueue(call, calls[w])

LEMMA NothingPending ==
  ASSUME NEW w, calls[w] = <<>>
  PROVE  \A c : ~Pending(w, c)
BY InEmpty DEF Pending

LEMMA LongerAdds ==
  ASSUME NEW S, calls \in [Workers -> Seq(S)], NEW w \in Workers, NEW call \in S
  PROVE  /\ Longer(w, call) \in Seq(S)
         /\ \A c : InQueue(c, calls[w]) => InQueue(c, Longer(w, call))
         /\ \A c : InQueue(c, Longer(w, call)) => InQueue(c, calls[w]) \/ c = call
         /\ ~Gone(w) => InQueue(call, Longer(w, call))
<1>1. calls[w] \in Seq(S)
  OBVIOUS
<1>2. CASE Gone(w) /\ calls[w] # <<>>
  <2>1. Longer(w, call) = calls[w]
    BY <1>2 DEF Longer
  <2> QED
    BY <1>1, <1>2, <2>1
<1>3. CASE ~(Gone(w) /\ calls[w] # <<>>)
  <2>1. Longer(w, call) = Append(calls[w], call)
    BY <1>3 DEF Longer
  <2> QED
    BY <1>1, <2>1, InAppend
<1> QED
  BY <1>2, <1>3

(* A call that is put adds itself to the queue and nothing else.           *)
LEMMA PutAdds ==
  ASSUME NEW S, calls \in [Workers -> Seq(S)], NEW w \in Workers, NEW call \in S,
         Put(w, call)
  PROVE  /\ calls' \in [Workers -> Seq(S)]
         /\ \A v \in Workers \ {w} : calls'[v] = calls[v]
         /\ \A v \in Workers : \A c :
              /\ Pending(v, c) => Pending(v, c)'
              /\ Pending(v, c)' => Pending(v, c) \/ (v = w /\ c = call)
         /\ ~Gone(w) => Pending(w, call)'
<1>1. calls' = [calls EXCEPT ![w] = Longer(w, call)]
  BY DEF Put
<1>2. /\ calls'[w] = Longer(w, call)
      /\ \A v \in Workers \ {w} : calls'[v] = calls[v]
  BY <1>1
<1>3. calls' \in [Workers -> Seq(S)]
  BY <1>1, LongerAdds
<1>4. ASSUME NEW v \in Workers, NEW c
      PROVE  /\ Pending(v, c) => Pending(v, c)'
             /\ Pending(v, c)' => Pending(v, c) \/ (v = w /\ c = call)
  <2>1. CASE v = w
    BY <1>2, <2>1, LongerAdds DEF Pending
  <2>2. CASE v # w
    BY <1>2, <2>2 DEF Pending
  <2> QED
    BY <2>1, <2>2
<1>5. ~Gone(w) => Pending(w, call)'
  BY <1>2, LongerAdds DEF Pending
<1> QED
  BY <1>2, <1>3, <1>4, <1>5

LEMMA PutBothAdds ==
  ASSUME NEW S, calls \in [Workers -> Seq(S)], NEW call \in S, PutBoth(call)
  PROVE  /\ calls' \in [Workers -> Seq(S)]
         /\ \A v \in Workers : \A c :
              /\ Pending(v, c) => Pending(v, c)'
              /\ Pending(v, c)' => Pending(v, c) \/ c = call
<1>1. calls' = [w \in Workers |-> Longer(w, call)]
  BY DEF PutBoth
<1>2. calls' \in [Workers -> Seq(S)]
  BY <1>1, LongerAdds
<1>3. ASSUME NEW v \in Workers, NEW c
      PROVE  /\ Pending(v, c) => Pending(v, c)'
             /\ Pending(v, c)' => Pending(v, c) \/ c = call
  <2>1. calls'[v] = Longer(v, call)
    BY <1>1
  <2> QED
    BY <2>1, LongerAdds DEF Pending
<1> QED
  BY <1>2, <1>3

(* A call that is served leaves the queue, and more takes its place at the *)
(* end; one whose handler raises stays.                                    *)
LEMMA ServedCall ==
  ASSUME NEW S, calls \in [Workers -> Seq(S)], NEW w \in Workers,
         NEW call \in S, NEW more \in Seq(S), ServeAll(w, call, more)
  PROVE  /\ calls' \in [Workers -> Seq(S)]
         /\ \A v \in Workers \ {w} : calls'[v] = calls[v]
         /\ phase' = phase /\ phase[w] = "drain"
         /\ Pending(w, call)
         /\ \A c : Pending(w, c) => Pending(w, c)' \/ c = call
         /\ \A c : Pending(w, c)' => Pending(w, c) \/ InQueue(c, more)
         /\ \A c : InQueue(c, more) => Pending(w, c)'
<1>1. /\ calls[w] \in Seq(S) /\ calls[w] # <<>> /\ Head(calls[w]) = call
      /\ calls' = [calls EXCEPT ![w] = Tail(calls[w]) \o more]
      /\ phase' = phase /\ phase[w] = "drain"
  BY DEF ServeAll, ServeCall
<1>2. /\ calls'[w] = Tail(calls[w]) \o more
      /\ \A v \in Workers \ {w} : calls'[v] = calls[v]
  BY <1>1
<1>3. /\ Tail(calls[w]) \o more \in Seq(S)
      /\ \A x : InQueue(x, Tail(calls[w]) \o more) <=>
                  InQueue(x, Tail(calls[w])) \/ InQueue(x, more)
      /\ \A x : InQueue(x, calls[w]) <=> x = call \/ InQueue(x, Tail(calls[w]))
  BY <1>1, InServed
<1>4. calls' \in [Workers -> Seq(S)]
  BY <1>1, <1>3
<1>5. \A c : Pending(w, c) <=> c = call \/ InQueue(c, Tail(calls[w]))
  BY <1>3 DEF Pending
<1>6. \A c : Pending(w, c)' <=> InQueue(c, Tail(calls[w])) \/ InQueue(c, more)
  BY <1>2, <1>3 DEF Pending
<1> QED
  BY <1>1, <1>2, <1>4, <1>5, <1>6

LEMMA RaisedCall ==
  ASSUME NEW S, calls \in [Workers -> Seq(S)], NEW w \in Workers,
         NEW call \in S, HandlerRaises(w, call)
  PROVE  /\ phase' = [phase EXCEPT ![w] = "dead"] /\ phase[w] = "drain"
         /\ calls' = calls /\ Pending(w, call)
<1>1. /\ calls[w] \in Seq(S) /\ calls[w] # <<>> /\ Head(calls[w]) = call
      /\ calls' = calls /\ phase' = [phase EXCEPT ![w] = "dead"]
      /\ phase[w] = "drain"
  BY DEF HandlerRaises, ServeCall
<1>2. Pending(w, call)
  BY <1>1, InTail DEF Pending
<1> QED
  BY <1>1, <1>2

(* The calls of a start_observation on Ringbuffer are about buffers of the *)
(* band.                                                                   *)
LEMMA RecreateCalls ==
  Recreate \in Seq([op : {"destroy", "create"}, band : Bands])
<1> DEFINE C == [op : {"destroy", "create"}, band : Bands]
           f(i) == [op   |-> IF i % 2 = 1 THEN "destroy" ELSE "create",
                    band |-> BandOrder[(i + 1) \div 2]]
           n == 2 * Len(BandOrder)
<1>1. n \in Nat
  BY BandsAssumption
<1>2. ASSUME NEW i \in 1..n
      PROVE  f(i) \in C
  <2>1. (i + 1) \div 2 \in 1..Len(BandOrder)
    BY BandsAssumption
  <2>2. BandOrder[(i + 1) \div 2] \in Bands
    BY <2>1 DEF Bands
  <2> QED
    BY <2>2
<1>3. Recreate = [i \in 1..n |-> f(i)]
  BY DEF Recreate
<1> HIDE DEF C, f, n
<1>4. [i \in 1..n |-> f(i)] \in Seq(C)
  BY <1>1, <1>2, SeqDef
<1> QED
  BY <1>3, <1>4 DEF C

-----------------------------------------------------------------------------
(* The invariant.                                                          *)

(* As long as its thread lives, a worker has a process for each band or    *)
(* none at all.                                                            *)
Uniform ==
  \A w \in Workers : phase[w] # "dead" =>
    proc[w] = All("none") \/ \A b \in Bands : proc[w][b] # "none"

(* Idle over a process is a Roach2 that died in the start it still has at  *)
(* the head of its queue.                                                  *)
IdleTrue ==
  \A w \in Workers : state[w] = "Idle" /\ Alive(w) # {} =>
    w = "roach2" /\ phase[w] = "dead" /\ Pending(w, "start")

CompletedTrue ==
  \A w \in Workers :
    state[w] = "Completed" /\ phase[w] # "dead" => proc[w] = All("ok")

(* A start is pending only while the backend waits for it.                 *)
StartsAwaited ==
  /\ Pending("dspsr", "start") => bpc = "wait_dspsr"
  /\ Pending("roach2", "start") => bpc = "wait_roach2"

(* The buffers are remade only while the backend waits for them, and there *)
(* are no processes then; when it goes on, they are there.                 *)
BuffersAwaited ==
  /\ gq # <<>> => bpc = "wait_buffers"
  /\ bpc = "wait_buffers" => \A w \in Workers : Alive(w) = {}
  /\ bpc \in {"wait_dspsr", "wait_roach2"} => \A b \in Bands : rb[b] = "ready"

ReadyHasMemory == \A b \in Bands : rb[b] = "ready" => shm[b]

Attached == \A w \in Workers : \A b \in Alive(w) : rb[b] = "ready"

AllRun == run = [t \in Threads |-> TRUE]

IInv ==
  /\ TypeOK
  /\ AllRun
  /\ Uniform
  /\ IdleTrue
  /\ CompletedTrue
  /\ StartsAwaited
  /\ BuffersAwaited
  /\ ReadyHasMemory
  /\ Attached
  /\ SourceNamesCapture

-----------------------------------------------------------------------------
(* The initial states, and the helpers of the actions.                     *)

Names == {"start", "abort", "cleanup"}
States == {"Idle", "Running", "Completed", "Error"}
Ends == {"none", "running", "ok", "err"}

LEMMA InitIInv == Init => IInv
<1> SUFFICES ASSUME Init PROVE IInv
  OBVIOUS
<1>1. TypeOK
  <2>1. /\ status \in {"Initialising"} /\ source = NoSource /\ name = NoSource
        /\ commands = 0 /\ ticks = 0 /\ report = {}
        /\ bpc = "drain" /\ bq = <<>> /\ gq = <<>>
    BY DEF Init
  <2>2. /\ run \in [Threads -> BOOLEAN]
        /\ phase \in [Threads \ {"backend"} -> {"drain", "loop", "dead"}]
    BY DEF Init
  <2>3. /\ rb \in [Bands -> {"absent", "ready", "closed"}]
        /\ shm \in [Bands -> BOOLEAN]
    BY DEF Init, All
  <2>4. /\ calls \in [Workers -> Seq({"start", "abort", "cleanup"})]
        /\ state \in [Workers -> {"Idle", "Running", "Completed", "Error"}]
    BY DEF Init
  <2>5. proc \in [Workers -> [Bands -> {"none", "running", "ok", "err"}]]
    BY DEF Init, All
  <2>6. ticks \in 0..MaxTicks
    BY <2>1, BoundsAssumption
  <2>7. rknown \in BOOLEAN
    BY DEF Init
  <2> QED
    BY <2>1, <2>2, <2>3, <2>4, <2>5, <2>6, <2>7 DEF TypeOK
<1>2. /\ proc = [w \in Workers |-> All("none")]
      /\ calls = [w \in Workers |-> <<>>]
      /\ state = [w \in Workers |-> "Idle"]
  BY DEF Init
<1>3. \A w \in Workers : Alive(w) = {} /\ proc[w] = All("none")
  BY <1>2 DEF Alive, All
<1>4. \A w \in Workers : \A c \in Names : ~Pending(w, c)
  BY <1>2, NothingPending
<1>5. AllRun /\ Uniform /\ IdleTrue /\ CompletedTrue /\ Attached
  BY <1>2, <1>3 DEF Init, AllRun, Uniform, IdleTrue, CompletedTrue, Attached
<1>6. StartsAwaited
  BY <1>4 DEF StartsAwaited, Workers, Names
<1>7. BuffersAwaited /\ ReadyHasMemory
  BY DEF Init, BuffersAwaited, ReadyHasMemory, All
<1>8. SourceNamesCapture
  BY <1>3 DEF SourceNamesCapture, Workers
<1> QED
  BY <1>1, <1>5, <1>6, <1>7, <1>8 DEF IInv

(* What check_observing_state finds is one of its words, and Ready only    *)
(* over two components that say Idle.                                      *)
LEMMA DetectedWord ==
  Detected \in {"Invalid", "Ready", "Observing", "Completed", "Error"}
BY DEF Detected

LEMMA DetectedReady ==
  Detected = "Ready" => \A w \in Workers : state[w] = "Idle"
<1> DEFINE both == {state[w] : w \in Workers}
<1>1. \A w \in Workers : state[w] \in both
  OBVIOUS
<1> HIDE DEF both
<1>2. Detected = "Ready" => both = {"Idle"}
  BY DEF Detected, both
<1> QED
  BY <1>1, <1>2

LEMMA CallsTyped == TypeOK => calls \in [Workers -> Seq(Names)]
BY DEF TypeOK, Names

-----------------------------------------------------------------------------
(* The backend.  It changes its own variables, Ringbuffer's queue and adds *)
(* to those of the workers.                                                *)

BackendTyped ==
  /\ status \in {"Initialising", "Invalid", "Ready", "Observing", "Completed",
                 "Error", "stopping"}
  /\ source \in Sources \cup {NoSource}
  /\ bq \in Seq([op : {"start", "abort"}, src : Sources \cup {NoSource},
                 by : {"user", "backend"}])
  /\ bpc \in {"drain", "loop", "wait_buffers", "wait_dspsr", "wait_roach2",
              "aborting", "abort_check", "dead"}
  /\ ticks \in 0..MaxTicks
  /\ gq \in Seq([op : {"destroy", "create"}, band : Bands])

LEMMA TypeBackend == TypeOK => BackendTyped
BY DEF TypeOK, BackendTyped

(* What a step of the backend leaves true of the other threads.            *)
LEMMA BackendKeeps ==
  ASSUME IInv, commands' \in Nat, BackendTyped',
         UNCHANGED <<run, ringVars, workerVars>>,
         calls' \in [Workers -> Seq(Names)],
         \A w \in Workers : Pending(w, "start") => Pending(w, "start")'
  PROVE  /\ TypeOK' /\ AllRun' /\ Uniform' /\ IdleTrue' /\ CompletedTrue'
         /\ ReadyHasMemory' /\ Attached'
         /\ \A w \in Workers : Alive(w)' = Alive(w)
<1>1. /\ run' = run /\ rb' = rb /\ shm' = shm /\ phase' = phase
      /\ state' = state /\ proc' = proc /\ report' = report /\ name' = name
      /\ rknown' = rknown
  BY DEF ringVars, workerVars
<1>2. \A w \in Workers : Alive(w)' = Alive(w)
  BY <1>1 DEF Alive
<1>3. TypeOK'
  BY <1>1 DEF IInv, TypeOK, BackendTyped, Names
<1>4. AllRun' /\ Uniform' /\ CompletedTrue' /\ ReadyHasMemory'
  BY <1>1 DEF IInv, AllRun, Uniform, CompletedTrue, ReadyHasMemory
<1>5. IdleTrue'
  BY <1>1, <1>2 DEF IInv, IdleTrue
<1>6. Attached'
  BY <1>1, <1>2 DEF IInv, Attached
<1> QED
  BY <1>2, <1>3, <1>4, <1>5, <1>6

(* The same, when nothing is put on the queues of the workers.             *)
LEMMA BackendQuiet ==
  ASSUME IInv, commands' \in Nat, BackendTyped',
         UNCHANGED <<run, ringVars, workerVars, calls>>,
         \/ bpc' = bpc
         \/ /\ bpc' \notin {"wait_buffers", "wait_dspsr", "wait_roach2"}
            /\ ~Pending("dspsr", "start") /\ ~Pending("roach2", "start")
            /\ gq = <<>> \/ bpc # "wait_buffers",
         gq' = gq, source' = source \/ source' = NoSource
  PROVE  IInv'
<1>1. calls' = calls /\ UNCHANGED <<run, ringVars, workerVars>>
  OBVIOUS
<1>2. \A w \in Workers : \A c \in Names : Pending(w, c)' <=> Pending(w, c)
  BY <1>1 DEF Pending
<1>3. calls' \in [Workers -> Seq(Names)]
  BY <1>1 DEF IInv, TypeOK, Names
<1>4. /\ TypeOK' /\ AllRun' /\ Uniform' /\ IdleTrue' /\ CompletedTrue'
      /\ ReadyHasMemory' /\ Attached'
      /\ \A w \in Workers : Alive(w)' = Alive(w)
  BY <1>1, <1>2, <1>3, BackendKeeps DEF Names
<1>5. StartsAwaited'
  BY <1>2 DEF IInv, StartsAwaited, Workers, Names
<1>6. BuffersAwaited'
  BY <1>1, <1>4 DEF IInv, BuffersAwaited, ringVars
<1>7. SourceNamesCapture'
  BY <1>1, <1>4 DEF IInv, SourceNamesCapture, workerVars, Workers
<1> QED
  BY <1>4, <1>5, <1>6, <1>7 DEF IInv

Frame == UNCHANGED <<commands, run, ringVars, workerVars>>

LEMMA CommandIInv ==
  ASSUME IInv, NEW r \in UserRequests, Command(r)
  PROVE  IInv'
<1>1. BackendTyped /\ commands \in Nat
  BY TypeBackend DEF IInv, TypeOK
<1>2. r \in [op : {"start", "abort"}, src : Sources \cup {NoSource},
             by : {"user", "backend"}]
  BY DEF UserRequests, StartReq, AbortReq
<1>3. BackendTyped' /\ commands' \in Nat
  BY <1>1, <1>2 DEF Command, BackendTyped
<1> QED
  BY <1>3, BackendQuiet DEF Command

(* The backend's queue holds requests, and those of a start_observation    *)
(* that returns early are requests too.                                    *)
Requests == [op : {"start", "abort"}, src : Sources \cup {NoSource},
             by : {"user", "backend"}]

LEMMA QueueHead ==
  ASSUME NEW S, NEW q \in Seq(S), q # <<>>
  PROVE  Head(q) \in S /\ Tail(q) \in Seq(S)
BY HeadTailProperties

LEMMA RequestsQueue ==
  ASSUME NEW s \in Sources \cup {NoSource}
  PROVE  /\ <<>> \in Seq(Requests)
         /\ <<AbortReq("backend"), StartReq(s, "backend")>> \in Seq(Requests)
<1>1. AbortReq("backend") \in Requests /\ StartReq(s, "backend") \in Requests
  BY DEF AbortReq, StartReq, Requests
<1> DEFINE a == AbortReq("backend")
           b == StartReq(s, "backend")
<1> HIDE DEF a, b
<1>2. ASSUME a \in Requests, b \in Requests
      PROVE  <<a, b>> \in Seq(Requests)
  BY <1>2
<1> QED
  BY <1>1, <1>2 DEF a, b

(* The actions that change only what the backend shows and is asked.       *)
LEMMA StartReturnsIInv ==
  ASSUME IInv, Frame, StartAlready \/ StartChangesSource \/ StartRefused
  PROVE  IInv'
<1>1. BackendTyped /\ commands \in Nat /\ bq \in Seq(Requests)
  BY TypeBackend DEF IInv, TypeOK, Requests
<1>2. PICK more \in {<<>>, <<AbortReq("backend"),
                            StartReq(Head(bq).src, "backend")>>} :
        StartReturns(more) /\ source' = source
  BY DEF StartAlready, StartChangesSource, StartRefused
<1>3. bq # <<>>
  BY <1>2 DEF StartReturns, Serve
<1>4. Head(bq) \in Requests /\ Tail(bq) \in Seq(Requests)
  BY <1>1, <1>3, QueueHead
<1>5. Head(bq).src \in Sources \cup {NoSource}
  BY <1>4 DEF Requests
<1>6. more \in Seq(Requests)
  BY <1>2, <1>5, RequestsQueue
<1>7. bq' = Tail(bq) \o more
  BY <1>2 DEF StartReturns
<1>8. bq' \in Seq(Requests)
  BY <1>4, <1>6, <1>7, ConcatProperties
<1>9. BackendTyped' /\ commands' \in Nat
  BY <1>1, <1>2, <1>8, DetectedWord
     DEF StartReturns, BackendTyped, Frame, Requests
<1> QED
  BY <1>2, <1>9, BackendQuiet DEF StartReturns, Frame

(* When the backend is draining its queue, two components that say Idle    *)
(* have no process.                                                        *)
LEMMA IdleIsFree ==
  ASSUME IInv, bpc = "drain", \A w \in Workers : state[w] = "Idle"
  PROVE  \A w \in Workers : Alive(w) = {}
BY DEF IInv, IdleTrue, StartsAwaited

LEMMA StartAcceptedIInv ==
  ASSUME IInv, Frame, StartAccepted
  PROVE  IInv'
<1>1. /\ BackendTyped /\ commands \in Nat /\ bq \in Seq(Requests)
      /\ calls \in [Workers -> Seq(Names)]
  BY TypeBackend DEF IInv, TypeOK, Requests, Names
<1>2. /\ bpc = "drain" /\ bq # <<>> /\ Detected = "Ready"
      /\ bq' = Tail(bq) /\ status' = Detected /\ source' = Head(bq).src
      /\ gq' = gq \o Recreate /\ bpc' = "wait_buffers"
      /\ ticks' = ticks /\ calls' = calls
  BY DEF StartAccepted, StartFrom, Serve
<1>3. Head(bq) \in Requests /\ Tail(bq) \in Seq(Requests)
  BY <1>1, <1>2, QueueHead
<1>4. gq' \in Seq([op : {"destroy", "create"}, band : Bands])
  BY <1>1, <1>2, RecreateCalls, ConcatProperties DEF BackendTyped
<1>5. BackendTyped' /\ commands' \in Nat
  BY <1>1, <1>2, <1>3, <1>4 DEF BackendTyped, Frame, Requests
<1>6. \A w \in Workers : \A c \in Names : Pending(w, c)' <=> Pending(w, c)
  BY <1>2 DEF Pending
<1>7. /\ TypeOK' /\ AllRun' /\ Uniform' /\ IdleTrue' /\ CompletedTrue'
      /\ ReadyHasMemory' /\ Attached'
      /\ \A w \in Workers : Alive(w)' = Alive(w)
  BY <1>1, <1>2, <1>5, <1>6, BackendKeeps DEF Names, Frame
<1>8. \A w \in Workers : Alive(w) = {}
  BY <1>2, DetectedReady, IdleIsFree
<1>9. StartsAwaited' /\ BuffersAwaited' /\ SourceNamesCapture'
  BY <1>2, <1>6, <1>7, <1>8
     DEF IInv, StartsAwaited, BuffersAwaited, SourceNamesCapture, Workers, Names
<1> QED
  BY <1>7, <1>9 DEF IInv

(* start_observation goes on to the next component: call is put on its     *)
(* queue, and the backend waits for it at next.                            *)
LEMMA StartGoesOn ==
  ASSUME IInv, Frame, NEW w \in Workers,
         Put(w, "start"),
         bpc' = (IF w = "dspsr" THEN "wait_dspsr" ELSE "wait_roach2"),
         w = "roach2" => ~Pending("dspsr", "start"),
         w = "dspsr" => ~Pending("roach2", "start"),
         gq = <<>>, \A b \in Bands : rb[b] = "ready",
         UNCHANGED <<status, source, bq, ticks, gq>>
  PROVE  IInv'
<1>1. BackendTyped /\ commands \in Nat
  BY TypeBackend DEF IInv, TypeOK
<1>2. BackendTyped' /\ commands' \in Nat
  BY <1>1 DEF BackendTyped, Frame, Workers
<1>3. "start" \in Names /\ TypeOK
  BY DEF Names, IInv
<1>4. /\ calls' \in [Workers -> Seq(Names)]
      /\ \A v \in Workers : \A c \in Names :
           /\ Pending(v, c) => Pending(v, c)'
           /\ Pending(v, c)' => Pending(v, c) \/ (v = w /\ c = "start")
  BY <1>3, CallsTyped, PutAdds
<1>5. /\ TypeOK' /\ AllRun' /\ Uniform' /\ IdleTrue' /\ CompletedTrue'
      /\ ReadyHasMemory' /\ Attached'
      /\ \A v \in Workers : Alive(v)' = Alive(v)
  BY <1>2, <1>3, <1>4, BackendKeeps DEF Frame
<1>6. StartsAwaited'
  BY <1>3, <1>4 DEF StartsAwaited, Workers
<1>7. BuffersAwaited' /\ SourceNamesCapture'
  BY <1>5 DEF IInv, BuffersAwaited, SourceNamesCapture, Workers, Frame,
              ringVars, workerVars
<1> QED
  BY <1>5, <1>6, <1>7 DEF IInv

LEMMA BuffersReadyIInv ==
  ASSUME IInv, Frame, BuffersReady
  PROVE  IInv'
<1>1. ~Pending("roach2", "start")
  BY DEF IInv, StartsAwaited, BuffersReady
<1> QED
  BY <1>1, StartGoesOn DEF BuffersReady, Workers

LEMMA DspsrWaitedIInv ==
  ASSUME IInv, Frame, DspsrWaited
  PROVE  IInv'
<1>1. ~Pending("dspsr", "start")
  BY NothingPending DEF DspsrWaited, DspsrWaitedUntil
<1>2. gq = <<>> /\ \A b \in Bands : rb[b] = "ready"
  BY DEF IInv, BuffersAwaited, DspsrWaited, DspsrWaitedUntil
<1> QED
  BY <1>1, <1>2, StartGoesOn DEF DspsrWaited, DspsrWaitedUntil, Workers

(* A wait that gave up, an abort or a turn of the loop has come to its end.*)
LEMMA BackendSettles ==
  ASSUME IInv, commands' \in Nat, BackendTyped',
         UNCHANGED <<run, ringVars, workerVars, calls, gq, source>>,
         \/ bpc \in {"drain", "loop", "abort_check"}
         \/ bpc = "wait_buffers" /\ gq = <<>>,
         bpc' \in {"drain", "loop", "dead"}
  PROVE  IInv'
<1>1. ~Pending("dspsr", "start") /\ ~Pending("roach2", "start")
  BY DEF IInv, StartsAwaited
<1>2. bpc' \notin {"wait_buffers", "wait_dspsr", "wait_roach2"}
  OBVIOUS
<1>3. gq = <<>> \/ bpc # "wait_buffers"
  OBVIOUS
<1> QED
  BY <1>1, <1>2, <1>3, BackendQuiet

(* The actions of the backend that put nothing on the queue of a worker.   *)
LEMMA QuietIInv ==
  ASSUME IInv, Frame,
         \/ BuffersFailed \/ Roach2Waited \/ AbortTick \/ AbortCheck
         \/ BackendDrained \/ BackendLoop
  PROVE  IInv'
<1>1. BackendTyped /\ commands \in Nat /\ run["backend"]
  BY TypeBackend DEF IInv, TypeOK, AllRun, Threads
<1>2. commands' \in Nat
  BY <1>1 DEF Frame
<1>3. CASE BuffersFailed
  <2>1. BackendTyped'
    BY <1>1, <1>3 DEF BuffersFailed, BackendTyped
  <2> QED
    BY <1>2, <1>3, <2>1, BackendSettles DEF BuffersFailed, Frame
<1>4. CASE Roach2Waited
  <2>1. BackendTyped'
    BY <1>1, <1>4 DEF Roach2Waited, BackendTyped
  <2>2. ~Pending("dspsr", "start") /\ ~Pending("roach2", "start")
    BY <1>4, NothingPending DEF Roach2Waited, IInv, StartsAwaited
  <2> QED
    BY <1>2, <1>4, <2>1, <2>2, BackendQuiet DEF Roach2Waited, Frame
<1>5. CASE AbortTick
  <2>1. BackendTyped'
    BY <1>1, <1>5, BoundsAssumption DEF AbortTick, AbortTickBelow, BackendTyped
  <2> QED
    BY <1>2, <1>5, <2>1, BackendQuiet DEF AbortTick, AbortTickBelow, Frame
<1>6. CASE AbortCheck
  <2>1. BackendTyped'
    BY <1>1, <1>6, DetectedWord DEF AbortCheck, BackendTyped
  <2> QED
    BY <1>2, <1>6, <2>1, BackendSettles DEF AbortCheck, Frame
<1>7. CASE BackendDrained
  <2>1. BackendTyped'
    BY <1>1, <1>7 DEF BackendDrained, BackendTyped
  <2> QED
    BY <1>2, <1>7, <2>1, BackendSettles DEF BackendDrained, Frame
<1>8. CASE BackendLoop
  <2>1. BackendTyped'
    BY <1>1, <1>8, DetectedWord DEF BackendLoop, Turn, BackendTyped
  <2> QED
    BY <1>1, <1>2, <1>8, <2>1, BackendSettles DEF BackendLoop, Turn, Frame
<1> QED
  BY <1>3, <1>4, <1>5, <1>6, <1>7, <1>8

(* Outside start_observation the backend puts calls other than start.      *)
LEMMA BackendPuts ==
  ASSUME IInv, commands' \in Nat, BackendTyped',
         UNCHANGED <<run, ringVars, workerVars, gq>>,
         calls' \in [Workers -> Seq(Names)],
         \A w \in Workers : Pending(w, "start")' <=> Pending(w, "start"),
         bpc \in {"drain", "loop", "aborting"},
         bpc' \notin {"wait_buffers", "wait_dspsr", "wait_roach2"},
         source' = source \/ source' = NoSource
  PROVE  IInv'
<1>1. /\ TypeOK' /\ AllRun' /\ Uniform' /\ IdleTrue' /\ CompletedTrue'
      /\ ReadyHasMemory' /\ Attached'
      /\ \A w \in Workers : Alive(w)' = Alive(w)
  BY BackendKeeps
<1>2. StartsAwaited'
  BY DEF IInv, StartsAwaited, Workers
<1>3. BuffersAwaited'
  BY DEF IInv, BuffersAwaited
<1>4. SourceNamesCapture'
  BY <1>1 DEF IInv, SourceNamesCapture, workerVars, Workers
<1> QED
  BY <1>1, <1>2, <1>3, <1>4 DEF IInv

LEMMA AbortIInv ==
  ASSUME IInv, Frame, Abort
  PROVE  IInv'
<1>1. /\ BackendTyped /\ commands \in Nat /\ bq \in Seq(Requests) /\ TypeOK
  BY TypeBackend DEF IInv, TypeOK, Requests
<1>2. bpc = "drain" /\ bq # <<>> /\ bq' = Tail(bq)
  BY DEF Abort, Serve
<1>3. bq' \in Seq(Requests)
  BY <1>1, <1>2, QueueHead
<1>4. BackendTyped' /\ commands' \in Nat
  BY <1>1, <1>3, BoundsAssumption DEF Abort, BackendTyped, Frame, Requests
<1>5. "abort" \in Names /\ "start" \in Names /\ "roach2" \in Workers
  BY DEF Names, Workers
<1>6. Put("roach2", "abort")
  BY DEF Abort
<1>7. /\ calls' \in [Workers -> Seq(Names)]
      /\ \A v \in Workers : Pending(v, "start")' <=> Pending(v, "start")
  BY <1>1, <1>5, <1>6, CallsTyped, PutAdds
<1> QED
  BY <1>2, <1>4, <1>7, BackendPuts DEF Abort, Frame

LEMMA AbortDspsrIInv ==
  ASSUME IInv, Frame, AbortDspsr
  PROVE  IInv'
<1>1. /\ BackendTyped /\ commands \in Nat /\ TypeOK
  BY TypeBackend DEF IInv, TypeOK
<1>2. BackendTyped' /\ commands' \in Nat
  BY <1>1 DEF AbortDspsr, EnoughTicks, BackendTyped, Frame
<1>3. "abort" \in Names /\ "start" \in Names /\ "dspsr" \in Workers
  BY DEF Names, Workers
<1>4. Put("dspsr", "abort")
  BY DEF AbortDspsr
<1>5. /\ calls' \in [Workers -> Seq(Names)]
      /\ \A v \in Workers : Pending(v, "start")' <=> Pending(v, "start")
  BY <1>1, <1>3, <1>4, CallsTyped, PutAdds
<1> QED
  BY <1>2, <1>5, BackendPuts DEF AbortDspsr, EnoughTicks, Frame

LEMMA BackendLoopCleansIInv ==
  ASSUME IInv, Frame, BackendLoopCleans
  PROVE  IInv'
<1>1. /\ BackendTyped /\ commands \in Nat /\ TypeOK /\ run["backend"]
  BY TypeBackend DEF IInv, TypeOK, AllRun, Threads
<1>2. BackendTyped' /\ commands' \in Nat
  BY <1>1, DetectedWord DEF BackendLoopCleans, Turn, BackendTyped, Frame
<1>3. /\ calls' \in [Workers -> Seq(Names)]
      /\ \A w \in Workers : Pending(w, "start")' <=> Pending(w, "start")
  BY <1>1, CallsTyped, PutBothAdds DEF BackendLoopCleans, Names
<1> QED
  BY <1>1, <1>2, <1>3, BackendPuts DEF BackendLoopCleans, Turn, Frame

LEMMA BackendIInv ==
  ASSUME IInv, Backend
  PROVE  IInv'
<1>1. Frame
  BY DEF Backend, Frame
<1> QED
  BY <1>1, StartReturnsIInv, StartAcceptedIInv, BuffersReadyIInv,
     DspsrWaitedIInv, QuietIInv, AbortIInv, AbortDspsrIInv,
     BackendLoopCleansIInv DEF Backend

-----------------------------------------------------------------------------
(* Ringbuffer.  While it has calls to serve there are no processes.        *)
LEMMA RingbufferIInv ==
  ASSUME IInv, Ringbuffer
  PROVE  IInv'
<1> DEFINE C == [op : {"destroy", "create"}, band : Bands]
           R == [Bands -> {"absent", "ready", "closed"}]
<1>1. /\ gq # <<>> /\ gq' = Tail(gq)
      /\ UNCHANGED <<commands, run, backendVars, calls, workerVars>>
  BY DEF Ringbuffer, DestroyIgnored, Destroy, CreateIgnored, Create,
         CreateFails, CreateRaises, ServeBuffer
<1>2. /\ gq \in Seq(C) /\ rb \in R /\ shm \in [Bands -> BOOLEAN]
  BY DEF IInv, TypeOK
<1>3. gq' \in Seq(C)
  BY <1>1, <1>2, QueueHead
<1>4. /\ rb' \in R /\ shm' \in [Bands -> BOOLEAN]
      /\ ReadyHasMemory'
  <2>1. PICK b \in Bands :
          \/ UNCHANGED ringVars
          \/ Destroy(b) \/ Create(b) \/ CreateFails(b)
    BY DEF Ringbuffer, DestroyIgnored, CreateIgnored, CreateRaises
  <2>2. CASE UNCHANGED ringVars
    BY <1>2, <2>2 DEF ringVars, IInv, ReadyHasMemory
  <2>3. CASE Destroy(b)
    BY <1>2, <2>3 DEF Destroy, IInv, ReadyHasMemory
  <2>4. CASE Create(b)
    BY <1>2, <2>4 DEF Create, IInv, ReadyHasMemory
  <2>5. CASE CreateFails(b)
    BY <1>2, <2>5 DEF CreateFails, IInv, ReadyHasMemory
  <2> QED
    BY <2>1, <2>2, <2>3, <2>4, <2>5
<1>5. /\ commands' = commands /\ run' = run /\ status' = status
      /\ source' = source /\ bq' = bq /\ bpc' = bpc /\ ticks' = ticks
      /\ calls' = calls /\ phase' = phase /\ state' = state /\ proc' = proc
      /\ report' = report /\ name' = name /\ rknown' = rknown
  BY <1>1 DEF backendVars, workerVars
<1>6. TypeOK'
  BY <1>3, <1>4, <1>5 DEF IInv, TypeOK
<1>7. \A w \in Workers : Alive(w)' = Alive(w) /\ Alive(w) = {}
  BY <1>1, <1>5 DEF IInv, BuffersAwaited, Alive
<1>8. \A w \in Workers : Pending(w, "start")' <=> Pending(w, "start")
  BY <1>5 DEF Pending
<1>9. AllRun' /\ Uniform' /\ CompletedTrue'
  BY <1>5 DEF IInv, AllRun, Uniform, CompletedTrue
<1>10. IdleTrue' /\ Attached' /\ SourceNamesCapture'
  BY <1>7 DEF IdleTrue, Attached, SourceNamesCapture, Workers
<1>11. StartsAwaited'
  BY <1>5, <1>8 DEF IInv, StartsAwaited, Workers
<1>12. BuffersAwaited'
  BY <1>1, <1>5, <1>7 DEF IInv, BuffersAwaited
<1> QED
  BY <1>4, <1>6, <1>9, <1>10, <1>11, <1>12 DEF IInv

-----------------------------------------------------------------------------
(* A worker: what one of its steps has to establish.                       *)
WorkerTyped ==
  /\ calls \in [Workers -> Seq(Names)]
  /\ phase \in [Threads \ {"backend"} -> {"drain", "loop", "dead"}]
  /\ state \in [Workers -> States]
  /\ proc \in [Workers -> [Bands -> Ends]]
  /\ report \subseteq Bands
  /\ name \in Sources \cup {NoSource}
  /\ rknown \in BOOLEAN

Local(w) ==
  /\ phase[w] # "dead" =>
       proc[w] = All("none") \/ \A b \in Bands : proc[w][b] # "none"
  /\ state[w] = "Idle" /\ Alive(w) # {} =>
       w = "roach2" /\ phase[w] = "dead" /\ Pending(w, "start")
  /\ state[w] = "Completed" /\ phase[w] # "dead" => proc[w] = All("ok")

Others(w) ==
  \A v \in Workers \ {w} :
    /\ calls'[v] = calls[v] /\ phase'[v] = phase[v]
    /\ state'[v] = state[v] /\ proc'[v] = proc[v]

Around == UNCHANGED <<commands, run, backendVars, gq, ringVars>>

LEMMA WorkerFacts ==
  ASSUME IInv
  PROVE  WorkerTyped /\ \A w \in Workers : Local(w)
<1>1. WorkerTyped
  BY DEF IInv, TypeOK, WorkerTyped, Names, States, Ends
<1>2. \A w \in Workers : Local(w)
  BY DEF IInv, Uniform, IdleTrue, CompletedTrue, Local
<1> QED
  BY <1>1, <1>2

LEMMA WorkerKeeps ==
  ASSUME IInv, Around, NEW w \in Workers,
         WorkerTyped', Others(w), Local(w)',
         Pending(w, "start")' => Pending(w, "start"),
         Alive(w)' \subseteq Alive(w) \/ Pending(w, "start"),
         SourceNamesCapture'
  PROVE  IInv'
<1>1. /\ commands' = commands /\ run' = run /\ status' = status
      /\ source' = source /\ bq' = bq /\ bpc' = bpc /\ ticks' = ticks
      /\ gq' = gq /\ rb' = rb /\ shm' = shm
  BY DEF Around, backendVars, ringVars
<1>2. TypeOK'
  BY <1>1 DEF IInv, TypeOK, WorkerTyped, Names, States, Ends
<1>3. \A v \in Workers \ {w} : /\ Alive(v)' = Alive(v)
                               /\ Pending(v, "start")' <=> Pending(v, "start")
  BY DEF Others, Alive, Pending
<1>4. \A v \in Workers : Local(v)'
  <2> SUFFICES ASSUME NEW v \in Workers \ {w}
               PROVE  Local(v)'
    OBVIOUS
  <2>1. Local(v)
    BY WorkerFacts
  <2> QED
    BY <1>3, <2>1 DEF Local, Others
<1>5. Uniform' /\ IdleTrue' /\ CompletedTrue'
  BY <1>4 DEF Local, Uniform, IdleTrue, CompletedTrue
<1>6. StartsAwaited'
  BY <1>1, <1>3 DEF IInv, StartsAwaited, Workers
<1>7. Pending(w, "start") => /\ bpc # "wait_buffers"
                             /\ \A b \in Bands : rb[b] = "ready"
  BY DEF IInv, StartsAwaited, BuffersAwaited, Workers
<1>8. BuffersAwaited'
  BY <1>1, <1>3, <1>7 DEF IInv, BuffersAwaited
<1>9. Attached'
  <2> SUFFICES ASSUME NEW v \in Workers, NEW b \in Bands, b \in Alive(v)'
               PROVE  rb[b] = "ready"
    BY <1>1 DEF Attached, Alive
  <2> QED
    BY <1>3, <1>7 DEF IInv, Attached
<1>10. AllRun' /\ ReadyHasMemory'
  BY <1>1 DEF IInv, AllRun, ReadyHasMemory
<1> QED
  BY <1>2, <1>5, <1>6, <1>8, <1>9, <1>10 DEF IInv

(* A call that is served leaves no start behind that was not there.        *)
LEMMA WorkerServes ==
  ASSUME IInv, NEW w \in Workers, NEW call \in Names,
         NEW more \in {<<>>, <<"cleanup">>}, ServeAll(w, call, more)
  PROVE  /\ calls' \in [Workers -> Seq(Names)]
         /\ \A v \in Workers \ {w} : calls'[v] = calls[v]
         /\ phase' = phase /\ phase[w] = "drain"
         /\ Pending(w, call)
         /\ Pending(w, "start")' => Pending(w, "start")
<1>1. calls \in [Workers -> Seq(Names)]
  BY CallsTyped DEF IInv
<1>2. more \in Seq(Names) /\ ~InQueue("start", more)
  <2>1. CASE more = <<>>
    BY <2>1, InEmpty
  <2>2. CASE more = <<"cleanup">>
    BY <2>2 DEF Names, InQueue
  <2> QED
    BY <2>1, <2>2
<1> QED
  BY <1>1, <1>2, ServedCall

LEMMA WorkerRaises ==
  ASSUME IInv, NEW w \in Workers, NEW call \in Names, HandlerRaises(w, call)
  PROVE  /\ phase' \in [Threads \ {"backend"} -> {"drain", "loop", "dead"}]
         /\ \A v \in Workers \ {w} : phase'[v] = phase[v]
         /\ phase'[w] = "dead" /\ phase[w] = "drain"
         /\ calls' = calls /\ Pending(w, call)
         /\ Pending(w, "start")' <=> Pending(w, "start")
<1>1. /\ phase' = [phase EXCEPT ![w] = "dead"] /\ phase[w] = "drain"
      /\ calls' = calls /\ Pending(w, call)
  BY CallsTyped, RaisedCall DEF IInv
<1>2. phase \in [Threads \ {"backend"} -> {"drain", "loop", "dead"}]
  BY WorkerFacts DEF WorkerTyped
<1>3. \A v \in Workers : v \in Threads \ {"backend"}
  BY DEF Threads, Workers
<1>4. Pending(w, "start")' <=> Pending(w, "start")
  BY <1>1 DEF Pending
<1> QED
  BY <1>1, <1>2, <1>3, <1>4

-----------------------------------------------------------------------------
(* Dspsr and Roach2, action by action.                                     *)

LEMMA AliveAll ==
  ASSUME NEW w \in Workers, proc[w] = All("none")
  PROVE  Alive(w) = {}
BY DEF Alive, All

LEMMA BecomesFacts ==
  ASSUME IInv, NEW w \in Workers, NEW p \in [Bands -> Ends], NEW s \in States,
         Becomes(w, p, s)
  PROVE  /\ proc' \in [Workers -> [Bands -> Ends]]
         /\ state' \in [Workers -> States]
         /\ proc'[w] = p /\ state'[w] = s
         /\ \A v \in Workers \ {w} : proc'[v] = proc[v] /\ state'[v] = state[v]
         /\ Alive(w)' = {b \in Bands : p[b] = "running"}
BY WorkerFacts DEF WorkerTyped, Becomes, Alive

LEMMA AllTyped ==
  ASSUME NEW e \in Ends
  PROVE  All(e) \in [Bands -> Ends] /\ \A b \in Bands : All(e)[b] = e
BY DEF All

(* A start, and a cleanup, that do not raise.                              *)
LEMMA RestartIInv ==
  ASSUME IInv, Around, NEW w \in Workers,
         \/ ServeAll(w, "start", <<>>) /\ Becomes(w, All("running"), "Running")
         \/ ServeAll(w, "cleanup", <<>>) /\ Becomes(w, All("none"), "Idle"),
         report' \subseteq Bands, rknown' \in BOOLEAN,
         name' \in Sources \cup {NoSource}, SourceNamesCapture'
  PROVE  IInv'
<1>1. "start" \in Names /\ "cleanup" \in Names
      /\ <<>> \in {<<>>, <<"cleanup">>}
      /\ "running" \in Ends /\ "none" \in Ends
      /\ "Running" \in States /\ "Idle" \in States
  BY DEF Names, Ends, States
<1>2. WorkerTyped
  BY WorkerFacts
<1>3. CASE ServeAll(w, "start", <<>>) /\ Becomes(w, All("running"), "Running")
  <2>1. /\ calls' \in [Workers -> Seq(Names)] /\ phase' = phase
        /\ \A v \in Workers \ {w} : calls'[v] = calls[v]
        /\ Pending(w, "start")
    BY <1>1, <1>3, WorkerServes
  <2>2. /\ proc' \in [Workers -> [Bands -> Ends]]
        /\ state' \in [Workers -> States]
        /\ proc'[w] = All("running") /\ state'[w] = "Running"
        /\ \A v \in Workers \ {w} : proc'[v] = proc[v] /\ state'[v] = state[v]
    BY <1>1, <1>3, BecomesFacts, AllTyped
  <2>3. WorkerTyped'
    BY <1>2, <2>1, <2>2 DEF WorkerTyped
  <2>4. Others(w)
    BY <2>1, <2>2 DEF Others
  <2>5. Local(w)'
    BY <1>1, <2>2, AllTyped DEF Local
  <2> QED
    BY <2>1, <2>3, <2>4, <2>5, WorkerKeeps
<1>4. CASE ServeAll(w, "cleanup", <<>>) /\ Becomes(w, All("none"), "Idle")
  <2>1. /\ calls' \in [Workers -> Seq(Names)] /\ phase' = phase
        /\ \A v \in Workers \ {w} : calls'[v] = calls[v]
        /\ Pending(w, "start")' => Pending(w, "start")
    BY <1>1, <1>4, WorkerServes
  <2>2. /\ proc' \in [Workers -> [Bands -> Ends]]
        /\ state' \in [Workers -> States]
        /\ proc'[w] = All("none") /\ state'[w] = "Idle"
        /\ \A v \in Workers \ {w} : proc'[v] = proc[v] /\ state'[v] = state[v]
    BY <1>1, <1>4, BecomesFacts, AllTyped
  <2>3. WorkerTyped'
    BY <1>2, <2>1, <2>2 DEF WorkerTyped
  <2>4. Others(w)
    BY <2>1, <2>2 DEF Others
  <2>5. Alive(w)' = {}
    BY <2>2 DEF Alive, All
  <2>6. Local(w)'
    BY <2>2, <2>5 DEF Local, All
  <2> QED
    BY <2>1, <2>3, <2>4, <2>5, <2>6, WorkerKeeps
<1> QED
  BY <1>3, <1>4

LEMMA DspsrStartIInv ==
  ASSUME IInv, Around, DspsrStart
  PROVE  IInv'
<1>1. source' = source /\ source \in Sources \cup {NoSource}
  BY DEF Around, backendVars, IInv, TypeOK
<1>2. SourceNamesCapture' /\ name' \in Sources \cup {NoSource}
  BY <1>1 DEF DspsrStart, SourceNamesCapture
<1>3. report' \subseteq Bands /\ rknown' \in BOOLEAN
  BY DEF DspsrStart, IInv, TypeOK
<1> QED
  BY <1>2, <1>3, RestartIInv DEF DspsrStart, Workers

LEMMA DspsrCleanupIInv ==
  ASSUME IInv, Around, DspsrCleanup
  PROVE  IInv'
<1>1. source' = source
  BY DEF Around, backendVars
<1>2. "dspsr" \in Workers /\ "none" \in Ends /\ "Idle" \in States
  BY DEF Workers, Ends, States
<1>3. Alive("dspsr")' = {}
  BY <1>2, BecomesFacts, AllTyped DEF DspsrCleanup, Alive, All
<1>4. SourceNamesCapture'
  BY <1>3 DEF SourceNamesCapture
<1>5. /\ report' \subseteq Bands /\ rknown' \in BOOLEAN
      /\ name' \in Sources \cup {NoSource}
  BY DEF DspsrCleanup, IInv, TypeOK
<1> QED
  BY <1>2, <1>4, <1>5, RestartIInv DEF DspsrCleanup

(* The steps of Roach2 leave what is said of dspsr alone.                  *)
LEMMA Roach2Names ==
  ASSUME IInv, Around, name' = name, proc'["dspsr"] = proc["dspsr"]
  PROVE  SourceNamesCapture'
<1>1. source' = source
  BY DEF Around, backendVars
<1>2. Alive("dspsr")' = Alive("dspsr")
  BY DEF Alive
<1> QED
  BY <1>1, <1>2 DEF IInv, SourceNamesCapture

LEMMA Roach2RestartIInv ==
  ASSUME IInv, Around, Roach2Start \/ Roach2Cleanup
  PROVE  IInv'
<1>1. /\ "roach2" \in Workers /\ "dspsr" \in Workers \ {"roach2"}
      /\ report' = report /\ name' = name /\ rknown' = TRUE
  BY DEF Workers, Roach2Start, Roach2Cleanup
<1>2. proc'["dspsr"] = proc["dspsr"]
  BY <1>1, WorkerFacts DEF WorkerTyped, Roach2Start, Roach2Cleanup, Becomes
<1>3. SourceNamesCapture'
  BY <1>1, <1>2, Roach2Names
<1>4. /\ report' \subseteq Bands /\ rknown' \in BOOLEAN
      /\ name' \in Sources \cup {NoSource}
  BY <1>1 DEF IInv, TypeOK
<1> QED
  BY <1>1, <1>3, <1>4, RestartIInv DEF Roach2Start, Roach2Cleanup

(* A start that raises leaves the processes it has started.                *)
LEMMA DspsrStartRaisesIInv ==
  ASSUME IInv, Around, DspsrStartRaises
  PROVE  IInv'
<1> DEFINE w == "dspsr"
<1>1. w \in Workers /\ "start" \in Names /\ {"none", "running"} \subseteq Ends
      /\ "Running" \in States
  BY DEF Workers, Names, Ends, States
<1>2. WorkerTyped
  BY WorkerFacts
<1>3. /\ phase' \in [Threads \ {"backend"} -> {"drain", "loop", "dead"}]
      /\ \A v \in Workers \ {w} : phase'[v] = phase[v]
      /\ phase'[w] = "dead" /\ phase[w] = "drain" /\ calls' = calls
      /\ Pending(w, "start") /\ (Pending(w, "start")' <=> Pending(w, "start"))
  BY <1>1, WorkerRaises DEF DspsrStartRaises
<1>4. PICK n \in 0..Len(BandOrder)-1 :
        /\ Becomes(w, [b \in Bands |-> IF b \in FirstBands(n) THEN "running"
                                                              ELSE "none"],
                   IF n = 0 THEN state[w] ELSE "Running")
        /\ report' = report \ FirstBands(n)
  BY DEF DspsrStartRaises
<1> DEFINE p == [b \in Bands |-> IF b \in FirstBands(n) THEN "running"
                                                       ELSE "none"]
           s == IF n = 0 THEN state[w] ELSE "Running"
<1>5. p \in [Bands -> Ends] /\ s \in States
  BY <1>1, <1>2 DEF WorkerTyped
<1> HIDE DEF p, s
<1>6. /\ proc' \in [Workers -> [Bands -> Ends]]
      /\ state' \in [Workers -> States]
      /\ proc'[w] = p /\ state'[w] = s
      /\ \A v \in Workers \ {w} : proc'[v] = proc[v] /\ state'[v] = state[v]
      /\ Alive(w)' = {b \in Bands : p[b] = "running"}
  BY <1>1, <1>4, <1>5, BecomesFacts DEF p, s
<1>7. source' = source /\ name' = source /\ rknown' = rknown
      /\ source \in Sources \cup {NoSource} /\ report \subseteq Bands
  BY DEF Around, backendVars, IInv, TypeOK, DspsrStartRaises
<1>8. WorkerTyped'
  BY <1>2, <1>3, <1>4, <1>6, <1>7 DEF WorkerTyped
<1>9. Others(w)
  BY <1>3, <1>6 DEF Others
<1>10. SourceNamesCapture'
  BY <1>7 DEF SourceNamesCapture
<1>11. s = "Idle" => n = 0
  BY DEF s
<1>12. n = 0 => FirstBands(n) = {}
  BY DEF FirstBands
<1>13. s = "Idle" => Alive(w)' = {}
  BY <1>6, <1>11, <1>12 DEF p
<1>14. Local(w)'
  BY <1>3, <1>6, <1>13 DEF Local
<1> QED
  BY <1>1, <1>3, <1>8, <1>9, <1>10, <1>14, WorkerKeeps

LEMMA Roach2StartRaisesIInv ==
  ASSUME IInv, Around, Roach2StartRaises
  PROVE  IInv'
<1> DEFINE w == "roach2"
<1>1. w \in Workers /\ "start" \in Names /\ {"none", "running"} \subseteq Ends
      /\ "dspsr" \in Workers \ {w}
  BY DEF Workers, Names, Ends
<1>2. WorkerTyped
  BY WorkerFacts
<1>3. /\ phase' \in [Threads \ {"backend"} -> {"drain", "loop", "dead"}]
      /\ \A v \in Workers \ {w} : phase'[v] = phase[v]
      /\ phase'[w] = "dead" /\ phase[w] = "drain" /\ calls' = calls
      /\ Pending(w, "start") /\ (Pending(w, "start")' <=> Pending(w, "start"))
  BY <1>1, WorkerRaises DEF Roach2StartRaises
<1>4. PICK n \in 0..Len(BandOrder) :
        Becomes(w, [b \in Bands |-> IF b \in FirstBands(n) THEN "running"
                                                           ELSE proc[w][b]],
                state[w])
  BY DEF Roach2StartRaises
<1> DEFINE p == [b \in Bands |-> IF b \in FirstBands(n) THEN "running"
                                                        ELSE proc[w][b]]
<1>5. p \in [Bands -> Ends] /\ state[w] \in States
  BY <1>1, <1>2 DEF WorkerTyped
<1> HIDE DEF p
<1>6. /\ proc' \in [Workers -> [Bands -> Ends]]
      /\ state' \in [Workers -> States]
      /\ \A v \in Workers \ {w} : proc'[v] = proc[v] /\ state'[v] = state[v]
  BY <1>1, <1>4, <1>5, BecomesFacts DEF p
<1>7. report' = report /\ name' = name /\ rknown' = rknown
  BY DEF Roach2StartRaises
<1>8. WorkerTyped'
  BY <1>2, <1>3, <1>6, <1>7 DEF WorkerTyped
<1>9. Others(w)
  BY <1>3, <1>6 DEF Others
<1>10. SourceNamesCapture'
  BY <1>1, <1>6, <1>7, Roach2Names
<1>11. Local(w)'
  BY <1>3 DEF Local
<1> QED
  BY <1>1, <1>3, <1>8, <1>9, <1>10, <1>11, WorkerKeeps

(* The steps that change no process keep the name true.                    *)
LEMMA SameProcesses ==
  ASSUME IInv, Around, name' = name, Alive("dspsr")' \subseteq Alive("dspsr")
  PROVE  SourceNamesCapture'
<1>1. source' = source
  BY DEF Around, backendVars
<1> QED
  BY <1>1 DEF IInv, SourceNamesCapture

LEMMA AbortCallIInv ==
  ASSUME IInv, Around, NEW w \in Workers, AbortCall(w)
  PROVE  IInv'
<1>1. "abort" \in Names /\ <<"cleanup">> \in {<<>>, <<"cleanup">>}
  BY DEF Names
<1>2. /\ calls' \in [Workers -> Seq(Names)] /\ phase' = phase
      /\ \A v \in Workers \ {w} : calls'[v] = calls[v]
      /\ phase[w] = "drain"
      /\ Pending(w, "start")' => Pending(w, "start")
  BY <1>1, WorkerServes DEF AbortCall
<1>3. /\ state' = state /\ proc' = proc /\ report' = report /\ name' = name
      /\ rknown' = rknown
  BY DEF AbortCall
<1>4. \A v \in Workers : Alive(v)' = Alive(v)
  BY <1>3 DEF Alive
<1>5. WorkerTyped'
  BY <1>2, <1>3, WorkerFacts DEF WorkerTyped
<1>6. Others(w)
  BY <1>2, <1>3 DEF Others
<1>7. Local(w)'
  BY <1>2, <1>3, <1>4, WorkerFacts DEF Local
<1>8. SourceNamesCapture'
  BY <1>3, <1>4, SameProcesses DEF Workers
<1> QED
  BY <1>2, <1>4, <1>5, <1>6, <1>7, <1>8, WorkerKeeps

LEMMA KillRaisesIInv ==
  ASSUME IInv, Around, NEW w \in Workers, KillRaises(w)
  PROVE  IInv'
<1>1. "cleanup" \in Names /\ "err" \in Ends
  BY DEF Names, Ends
<1>2. WorkerTyped /\ Local(w)
  BY WorkerFacts
<1>3. /\ phase' \in [Threads \ {"backend"} -> {"drain", "loop", "dead"}]
      /\ \A v \in Workers \ {w} : phase'[v] = phase[v]
      /\ phase'[w] = "dead" /\ phase[w] = "drain" /\ calls' = calls
      /\ (Pending(w, "start")' <=> Pending(w, "start"))
  BY <1>1, WorkerRaises DEF KillRaises
<1>4. PICK left \in SUBSET Alive(w) \ {{}} :
        Becomes(w, [b \in Bands |-> IF b \in Alive(w) \ left THEN "err"
                                                           ELSE proc[w][b]],
                state[w])
  BY DEF KillRaises
<1> DEFINE p == [b \in Bands |-> IF b \in Alive(w) \ left THEN "err"
                                                        ELSE proc[w][b]]
<1>5. p \in [Bands -> Ends] /\ state[w] \in States
  BY <1>1, <1>2 DEF WorkerTyped
<1> HIDE DEF p
<1>6. /\ proc' \in [Workers -> [Bands -> Ends]]
      /\ state' \in [Workers -> States]
      /\ state'[w] = state[w]
      /\ \A v \in Workers \ {w} : proc'[v] = proc[v] /\ state'[v] = state[v]
      /\ Alive(w)' = {b \in Bands : p[b] = "running"}
  BY <1>4, <1>5, BecomesFacts DEF p
<1>7. report' = report /\ name' = name /\ rknown' = rknown
  BY DEF KillRaises
<1>8. Alive(w)' \subseteq Alive(w)
  <2> SUFFICES ASSUME NEW b \in Bands, p[b] = "running", b \notin Alive(w)
               PROVE  FALSE
    BY <1>6 DEF Alive
  <2>1. p[b] = proc[w][b]
    BY DEF p
  <2> QED
    BY <2>1 DEF Alive
<1>9. WorkerTyped'
  BY <1>2, <1>3, <1>6, <1>7 DEF WorkerTyped
<1>10. Others(w)
  BY <1>3, <1>6 DEF Others
<1>11. Local(w)'
  BY <1>2, <1>3, <1>6, <1>8 DEF Local
<1>12. Alive("dspsr")' \subseteq Alive("dspsr")
  BY <1>6, <1>8 DEF Workers, Alive
<1>13. SourceNamesCapture'
  BY <1>7, <1>12, SameProcesses
<1> QED
  BY <1>3, <1>8, <1>9, <1>10, <1>11, <1>13, WorkerKeeps

(* The steps of a worker between the calls: it changes neither its queue   *)
(* nor its processes.                                                      *)
LEMMA TurnIInv ==
  ASSUME IInv, Around, NEW w \in Workers, NEW ph \in {"drain", "loop"},
         NEW s \in States,
         phase[w] # "dead", phase' = [phase EXCEPT ![w] = ph],
         state' = [state EXCEPT ![w] = s],
         s \in {"Idle", "Completed"} =>
           s = state[w] \/ (proc[w] = All("ok") /\ s = "Completed"),
         UNCHANGED <<calls, proc, name>>,
         report' \subseteq Bands, rknown' \in BOOLEAN
  PROVE  IInv'
<1>1. WorkerTyped /\ Local(w)
  BY WorkerFacts
<1>2. \A v \in Workers : v \in Threads \ {"backend"}
  BY DEF Threads, Workers
<1>3. /\ phase' \in [Threads \ {"backend"} -> {"drain", "loop", "dead"}]
      /\ phase'[w] = ph /\ \A v \in Workers \ {w} : phase'[v] = phase[v]
  BY <1>1, <1>2 DEF WorkerTyped
<1>4. /\ state' \in [Workers -> States]
      /\ state'[w] = s /\ \A v \in Workers \ {w} : state'[v] = state[v]
  BY <1>1 DEF WorkerTyped
<1>5. WorkerTyped'
  BY <1>1, <1>3, <1>4 DEF WorkerTyped
<1>6. Others(w)
  BY <1>3, <1>4 DEF Others
<1>7. \A v \in Workers : /\ Alive(v)' = Alive(v)
                         /\ Pending(v, "start")' <=> Pending(v, "start")
  BY DEF Alive, Pending
<1>8. Local(w)'
  BY <1>1, <1>3, <1>4, <1>7 DEF Local
<1>9. SourceNamesCapture'
  BY <1>7, SameProcesses DEF Workers
<1> QED
  BY <1>5, <1>6, <1>7, <1>8, <1>9, WorkerKeeps

LEMMA DrainedIInv ==
  ASSUME IInv, Around, NEW w \in Workers, Drained(w)
  PROVE  IInv'
<1>1. WorkerTyped
  BY WorkerFacts
<1>2. state[w] \in States /\ state' = [state EXCEPT ![w] = state[w]]
  BY <1>1 DEF WorkerTyped, Drained
<1>3. report' \subseteq Bands /\ rknown' \in BOOLEAN
  BY <1>1 DEF WorkerTyped, Drained
<1>4. /\ phase[w] # "dead" /\ phase' = [phase EXCEPT ![w] = "loop"]
      /\ UNCHANGED <<calls, proc, name>>
  BY DEF Drained
<1> DEFINE s == state[w]
<1>5. s \in {"Idle", "Completed"} =>
        s = state[w] \/ (proc[w] = All("ok") /\ s = "Completed")
  OBVIOUS
<1> QED
  BY <1>2, <1>3, <1>4, <1>5, TurnIInv

LEMMA LoopIInv ==
  ASSUME IInv, Around, NEW w \in Workers, NEW s \in States,
         LoopSays(w, s),
         s \in {"Idle", "Completed"} =>
           s = state[w] \/ (proc[w] = All("ok") /\ s = "Completed"),
         name' = name, report' \subseteq Bands, rknown' \in BOOLEAN
  PROVE  IInv'
<1>1. run[w]
  BY DEF IInv, AllRun, Workers, Threads
<1>2. phase[w] # "dead" /\ phase' = [phase EXCEPT ![w] = "drain"]
  BY <1>1 DEF LoopSays
<1>3. state' = [state EXCEPT ![w] = s] /\ UNCHANGED <<calls, proc, name>>
  BY DEF LoopSays
<1> QED
  BY <1>2, <1>3, TurnIInv

LEMMA DspsrLoopIInv ==
  ASSUME IInv, Around, DspsrLoop
  PROVE  IInv'
<1> DEFINE w == "dspsr"
           s == CASE Has # {} /\ Ended("ok") = Has -> "Completed"
                  [] Ended("err") # {}            -> "Error"
                  [] OTHER                        -> state[w]
<1>1. w \in Workers /\ WorkerTyped /\ Local(w)
  BY WorkerFacts DEF Workers
<1>2. phase[w] = "loop"
  BY DEF DspsrLoop, DspsrSays, LoopSays
<1>3. s \in States
  BY <1>1 DEF WorkerTyped, States
<1>4. ASSUME Has # {}, Ended("ok") = Has
      PROVE  proc[w] = All("ok")
  <2>1. PICK b \in Bands : proc[w][b] # "none"
    BY <1>4 DEF Has
  <2>2. proc[w] # All("none")
    BY <2>1 DEF All
  <2>3. \A c \in Bands : proc[w][c] # "none"
    BY <1>1, <1>2, <2>2 DEF Local
  <2>4. \A c \in Bands : proc[w][c] = "ok"
    BY <1>4, <2>3 DEF Has, Ended
  <2>5. proc[w] \in [Bands -> Ends]
    BY <1>1 DEF WorkerTyped
  <2> QED
    BY <2>4, <2>5 DEF All
<1>5. s \in {"Idle", "Completed"} =>
        s = state[w] \/ (proc[w] = All("ok") /\ s = "Completed")
  <2>1. CASE Has # {} /\ Ended("ok") = Has
    <3>1. Ended("err") = {}
      BY <2>1 DEF Has, Ended
    <3> QED
      BY <1>4, <2>1, <3>1
  <2>2. CASE ~(Has # {} /\ Ended("ok") = Has)
    BY <2>2
  <2> QED
    BY <2>1, <2>2
<1>6. LoopSays(w, s) /\ name' = name /\ rknown' = rknown
  BY DEF DspsrLoop, DspsrSays
<1>7. report' \subseteq Bands /\ rknown' \in BOOLEAN
  BY <1>1, <1>6 DEF DspsrLoop, DspsrSays, WorkerTyped, Alive
<1> HIDE DEF s
<1> QED
  BY <1>1, <1>3, <1>5, <1>6, <1>7, LoopIInv

LEMMA Roach2LoopIInv ==
  ASSUME IInv, Around, Roach2Loop
  PROVE  IInv'
<1> DEFINE w == "roach2"
<1>1. w \in Workers /\ WorkerTyped
  BY WorkerFacts DEF Workers
<1> DEFINE s == CASE state[w] # "Running" -> state[w]
                  [] state[w] = "Running" /\ proc[w] = All("ok") -> "Completed"
                  [] state[w] = "Running" /\ \E b \in Bands : proc[w][b] = "err"
                       -> "Error"
                  [] OTHER -> state[w]
<1>2. LoopSays(w, s)
  BY DEF Roach2Loop
<1>3. \A b \in Bands : proc[w] = All("ok") => proc[w][b] # "err"
  BY DEF All
<1>4. s = state[w] \/ s = "Error" \/ (proc[w] = All("ok") /\ s = "Completed")
  BY <1>3
<1>5. s \in States
  BY <1>1, <1>4 DEF WorkerTyped, States
<1> HIDE DEF s
<1>6. s \in {"Idle", "Completed"} =>
        s = state[w] \/ (proc[w] = All("ok") /\ s = "Completed")
  BY <1>4
<1>7. name' = name /\ report' \subseteq Bands /\ rknown' \in BOOLEAN
  BY <1>1 DEF Roach2Loop, WorkerTyped
<1> QED
  BY <1>1, <1>2, <1>6, <1>7, <1>5, LoopIInv

LEMMA ExitsIInv ==
  ASSUME IInv, Around, NEW w \in Workers, NEW b \in Bands, Exits(w, b)
  PROVE  IInv'
<1>1. WorkerTyped /\ Local(w)
  BY WorkerFacts
<1>2. PICK e \in {"ok", "err"} : proc' = [proc EXCEPT ![w][b] = e]
  BY DEF Exits
<1>3. proc[w][b] = "running"
  BY DEF Exits, Alive
<1>4. /\ calls' = calls /\ phase' = phase /\ state' = state
      /\ report' = report /\ name' = name /\ rknown' = rknown
  BY DEF Exits
<1>5. /\ proc' \in [Workers -> [Bands -> Ends]]
      /\ \A c \in Bands : proc'[w][c] = IF c = b THEN e ELSE proc[w][c]
      /\ \A v \in Workers \ {w} : proc'[v] = proc[v]
  BY <1>1, <1>2 DEF WorkerTyped, Ends
<1>6. Alive(w)' \subseteq Alive(w)
  BY <1>5 DEF Alive
<1>7. Pending(w, "start")' <=> Pending(w, "start")
  BY <1>4 DEF Pending
<1>8. WorkerTyped'
  BY <1>1, <1>4, <1>5 DEF WorkerTyped
<1>9. Others(w)
  BY <1>4, <1>5 DEF Others
<1>10. proc[w] # All("none") /\ proc[w] # All("ok")
  BY <1>3 DEF All
<1>11. Local(w)'
  BY <1>1, <1>4, <1>5, <1>6, <1>7, <1>10 DEF Local
<1>12. Alive("dspsr")' \subseteq Alive("dspsr")
  BY <1>5, <1>6 DEF Workers, Alive
<1>13. SourceNamesCapture'
  BY <1>4, <1>12, SameProcesses
<1> QED
  BY <1>6, <1>7, <1>8, <1>9, <1>11, <1>13, WorkerKeeps

-----------------------------------------------------------------------------
(* The invariant, and what follows from it.                                *)

(* Every step of the program keeps it.                                     *)
LEMMA NextIInv == IInv /\ [Next]_vars => IInv'
<1> SUFFICES ASSUME IInv, [Next]_vars PROVE IInv'
  OBVIOUS
<1>1. CASE \E r \in UserRequests : Command(r)
  BY <1>1, CommandIInv
<1>2. CASE Backend
  BY <1>2, BackendIInv
<1>3. CASE Ringbuffer
  BY <1>3, RingbufferIInv
<1>4. CASE Working(Dspsr)
  <2>1. Around /\ "dspsr" \in Workers
    BY <1>4 DEF Working, Around, Workers
  <2> QED
    BY <1>4, <2>1, DspsrStartIInv, DspsrStartRaisesIInv, DspsrCleanupIInv,
       AbortCallIInv, KillRaisesIInv, DrainedIInv, DspsrLoopIInv
       DEF Working, Dspsr, DspsrAbort
<1>5. CASE Working(Roach2)
  <2>1. Around /\ "roach2" \in Workers
    BY <1>5 DEF Working, Around, Workers
  <2> QED
    BY <1>5, <2>1, Roach2RestartIInv, Roach2StartRaisesIInv, AbortCallIInv,
       KillRaisesIInv, DrainedIInv, Roach2LoopIInv
       DEF Working, Roach2, Roach2Abort
<1>6. CASE \E w \in Workers, b \in Bands : Working(Exits(w, b))
  BY <1>6, ExitsIInv DEF Working, Around
<1>7. CASE UNCHANGED vars
  <2>1. Around /\ UNCHANGED <<commands, calls, workerVars>>
    BY <1>7 DEF vars, Around
  <2>2. BackendTyped' /\ commands' \in Nat
    BY <1>7, TypeBackend DEF IInv, TypeOK, vars, backendVars, BackendTyped
  <2> QED
    BY <2>1, <2>2, BackendQuiet DEF Around, backendVars
<1> QED
  BY <1>1, <1>2, <1>3, <1>4, <1>5, <1>6, <1>7 DEF Next

(* The invariant holds in every reachable state.                           *)
THEOREM Invariance == Spec => []IInv
BY InitIInv, NextIInv, PTL DEF Spec

(* Every variable keeps its type.                                          *)
THEOREM TypeCorrectness == Spec => []TypeOK
<1>1. IInv => TypeOK
  BY DEF IInv
<1> QED
  BY <1>1, Invariance, PTL

(* A component that says Idle has no process left, and one that says       *)
(* Completed has none that failed: check_observing_state (nunabe.py:156)   *)
(* may go by what the components publish.                                  *)
THEOREM StateSafety == Spec => []StateIsTrue
<1>1. IInv => StateIsTrue
  BY DEF IInv, IdleTrue, CompletedTrue, StateIsTrue
<1> QED
  BY <1>1, Invariance, PTL

(* No ring buffer is destroyed under a process that is attached to it.     *)
THEOREM BufferSafety == Spec => []BuffersUnderCapture
<1>1. IInv => BuffersUnderCapture
  <2> SUFFICES ASSUME IInv, NEW w \in Workers, NEW b \in Alive(w)
               PROVE  rb[b] = "ready" /\ shm[b]
    BY DEF BuffersUnderCapture
  <2>1. b \in Bands /\ rb[b] = "ready"
    BY DEF IInv, Attached, Alive
  <2> QED
    BY <2>1 DEF IInv, ReadyHasMemory
<1> QED
  BY <1>1, Invariance, PTL

(* What the backend publishes as the source is what dspsr records.         *)
THEOREM NameSafety == Spec => []SourceNamesCapture
<1>1. IInv => SourceNamesCapture
  BY DEF IInv
<1> QED
  BY <1>1, Invariance, PTL
=============================================================================
