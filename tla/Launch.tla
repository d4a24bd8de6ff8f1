------------------------------- MODULE Launch -------------------------------
(***************************************************************************)
(* Roach2.start_observation (roach2.py) in detail: it finds the cores of   *)
(* its processes in the map, makes a control and a monitor pipe for each   *)
(* half of the band, starts a roach2_udpdb for each, and opens its ends of *)
(* the pipes while the processes open theirs.  Then Roach2.loop reads what *)
(* they report and looks whether they have ended, until an abort or the    *)
(* clean-up.  Opening a pipe is:                                           *)
(*   the monitor for reading, O_NONBLOCK: returns at once;                 *)
(*   the monitor for writing, O_NONBLOCK: fails if nobody has it open for  *)
(*     reading, and the process goes on without it (roach2_udpdb.c:222);   *)
(*   the control for reading, O_NONBLOCK: returns at once;                 *)
(*   the control for writing: waits until somebody opens it for reading.   *)
(***************************************************************************)
EXTENDS CpuMap, SequencesExt

CONSTANTS
  BandOrder,     \* the halves of the band: low, high
  Masks,         \* the sets of cores a device can be local to
  Busy,          \* the cores the interrupts can be taken by
  Followed,      \* bound: the machines on which a launch is followed further
  MaxLaunches,   \* bound on the observations
  MaxLines       \* bound on the lines in a monitor pipe

Bands == {BandOrder[i] : i \in 1..Len(BandOrder)}

(* An interface and a pipeline for halves of the band.                     *)
ASSUME DevicesAssumption ==
  Interfaces \in Seq(Bands) /\ Pipelines \in Seq(Bands)

NoCores == [c \in {} |-> <<>>]

VARIABLES
  launches,      \* how many observations have been started
  machine,       \* what get_cpu_map read of the machine
  cpu_map,
  rpc,           \* where Roach2's thread is
  state,         \* its state['state']
  shows,         \* its state['udpdb_*']
  opened,        \* the control pipes it has open
  mon,           \* the monitor pipes it has open
  upc,           \* where each roach2_udpdb is
  writes,        \* those that have their monitor pipe open
  woken,         \* those that opened the control pipe it was waiting for
  lines          \* what is in each monitor pipe

roachVars == <<launches, machine, cpu_map, rpc, state, shows, opened, mon>>
procVars  == <<upc, writes, woken, lines>>
vars == <<roachVars, procVars>>

All(x) == [b \in Bands |-> x]
First == BandOrder[1]
Index(b) == CHOOSE i \in 1..Len(BandOrder) : BandOrder[i] = b

Init ==
  /\ launches = 0
  /\ machine = [busiest |-> All(0), local |-> All({}), gpu |-> All({})]
  /\ cpu_map = NoCores
  /\ rpc = <<"drain", First>>
  /\ state = "Idle"
  /\ shows = All("Stopped")
  /\ opened = {}
  /\ mon = {}
  /\ upc = All("none")
  /\ writes = {}
  /\ woken = {}
  /\ lines = All(<<>>)

-----------------------------------------------------------------------------
(* Roach2.  A step done for one half of the band is done for the next, and *)
(* after the last one comes next.                                          *)

Does(what, b, next) ==
  /\ rpc = <<what, b>>
  /\ rpc' = IF Index(b) < Len(BandOrder)
              THEN <<what, BandOrder[Index(b) + 1]>> ELSE <<next, First>>
  /\ UNCHANGED <<launches, machine, cpu_map>>

Found(map) ==
  \A i \in Bands : \A n \in 1..2 : CoresOf(map, Threads(i)[n]) # {}

(* The backend has made the map before.  A name that is not in it is a     *)
(* KeyError, which ends the thread.  If all are found, which map it was    *)
(* makes no difference to what follows.                                    *)
BeginWith(step) ==
  /\ rpc = <<"drain", First>>
  /\ state = "Idle"
  /\ launches < MaxLaunches
  /\ launches' = launches + 1
  /\ machine' \in [busiest : [Bands -> Busy], local : [Bands -> Masks],
                   gpu : [Bands -> Masks]]
  /\ cpu_map' = DspsrMap(Roach2Map(NoCores, Interfaces, machine'.busiest,
                                   machine'.local), Pipelines, machine'.gpu)
  /\ rpc' = <<CASE ~Found(cpu_map') -> "dead"
                [] Found(cpu_map') /\ machine' \in Followed -> step
                [] OTHER -> "mapped", First>>
  /\ UNCHANGED <<state, shows, opened, mon, procVars>>

(* Variant: the pipes are opened before the processes are started.         *)
BeginWithPipes == BeginWith("mon")

Begin == BeginWith("popen")

Popen(b) ==
  /\ Does("popen", b, "mon")
  /\ upc' = [upc EXCEPT ![b] = "exec"]
  /\ UNCHANGED <<state, shows, opened, mon, writes, woken, lines>>

OpenMonitor(b) ==
  /\ Does("mon", b, "ctl")
  /\ mon' = mon \cup {b}
  /\ UNCHANGED <<state, shows, opened, procVars>>

HasControl(b) == upc[b] \in {"connect", "WAITING", "RUNNING"}

(* With the last of them start_observation is done.                        *)
OpenControl(b) ==
  /\ Does("ctl", b, "drain")
  /\ HasControl(b) \/ b \in woken
  /\ opened' = opened \cup {b}
  /\ IF opened' = Bands THEN state' = "Running" /\ shows' = All("Launched")
                        ELSE UNCHANGED <<state, shows>>
  /\ UNCHANGED <<mon, procVars>>

Loop ==
  /\ rpc = <<"drain", First>>
  /\ state = "Running"
  /\ rpc' = <<"read", First>>
  /\ UNCHANGED <<launches, machine, cpu_map, state, shows, opened, mon,
                 procVars>>

ReadFrom(b, pipes) ==
  /\ Does("read", b, "poll")
  /\ shows' = IF b \in pipes /\ lines[b] # <<>>
                THEN [shows EXCEPT ![b] = Last(lines[b])] ELSE shows
  /\ lines' = IF b \in pipes THEN [lines EXCEPT ![b] = <<>>] ELSE lines
  /\ UNCHANGED <<state, opened, mon, upc, writes, woken>>

(* Variant: only the first pipe is read.                                   *)
ReadFirst(b) == ReadFrom(b, {First})

Read(b) == ReadFrom(b, mon)

PollAll(procs) ==
  /\ rpc = <<"poll", First>>
  /\ rpc' = <<"drain", First>>
  /\ state' = CASE \E b \in procs : upc[b] = "err" -> "Error"
                [] \A b \in Bands : upc[b] = "ok"  -> "Completed"
                [] OTHER                           -> state
  /\ UNCHANGED <<launches, machine, cpu_map, shows, opened, mon, procVars>>

(* Variant: the second process is not looked at.                           *)
PollFirst == PollAll({First})

Poll == PollAll(Bands)

(* cleanup_observation, after an abort or a completed observation: the     *)
(* processes are killed and the pipes closed.                              *)
Cleanup ==
  /\ rpc = <<"drain", First>>
  /\ state # "Idle"
  /\ state' = "Idle"
  /\ shows' = All("Stopped")
  /\ opened' = {}
  /\ mon' = {}
  /\ upc' = All("none")
  /\ writes' = {}
  /\ woken' = {}
  /\ lines' = All(<<>>)
  /\ UNCHANGED <<launches, machine, cpu_map, rpc>>

Starting ==
  \E b \in Bands : Popen(b) \/ OpenMonitor(b) \/ OpenControl(b)
Looping == Loop \/ Poll \/ \E b \in Bands : Read(b)

-----------------------------------------------------------------------------
(* A roach2_udpdb.                                                         *)

Proceeds(b, from, to) ==
  /\ upc[b] = from
  /\ upc' = [upc EXCEPT ![b] = to]
  /\ UNCHANGED <<roachVars, lines>>

ProcOpensMonitor(b) ==
  /\ Proceeds(b, "exec", "control")
  /\ writes' = writes \cup (mon \cap {b})
  /\ UNCHANGED woken

(* Roach2 may be in its open() by now, and returns even if the process     *)
(* ends before it does.                                                    *)
ProcOpensControl(b) ==
  /\ Proceeds(b, "control", "connect")
  /\ \/ UNCHANGED woken
     \/ rpc = <<"ctl", b>> /\ woken' = woken \cup {b}
  /\ UNCHANGED writes

ProcConnects(b) ==
  Proceeds(b, "connect", "WAITING") /\ UNCHANGED <<writes, woken>>

ProcCaptures(b) ==
  Proceeds(b, "WAITING", "RUNNING") /\ UNCHANGED <<writes, woken>>

ProcReports(b) ==
  /\ upc[b] \in {"WAITING", "RUNNING"}
  /\ b \in writes
  /\ Len(lines[b]) < MaxLines
  /\ lines' = [lines EXCEPT ![b] = Append(@, upc[b])]
  /\ UNCHANGED <<roachVars, upc, writes, woken>>

(* It may fail anywhere: nice, taskset or exec, a buffer that is not there,*)
(* a header that is too small, a packet of another size.                   *)
ProcEnds(b) ==
  /\ \/ Proceeds(b, "RUNNING", "ok")
     \/ \E at \in {"exec", "control", "connect", "WAITING", "RUNNING"} :
          Proceeds(b, at, "err")
  /\ writes' = writes \ {b}
  /\ UNCHANGED woken

ProcSetsUp(b) == ProcOpensMonitor(b) \/ ProcOpensControl(b) \/ ProcConnects(b)

Next ==
  \/ Begin \/ Starting \/ Looping \/ Cleanup
  \/ \E b \in Bands : \/ ProcSetsUp(b) \/ ProcCaptures(b)
                      \/ ProcReports(b) \/ ProcEnds(b)

(* Roach2's thread and the processes run; nothing is said of when packets  *)
(* arrive or users give commands.                                          *)
Spec ==
  /\ Init /\ [][Next]_vars
  /\ WF_vars(Starting) /\ WF_vars(Looping)
  /\ \A b \in Bands : WF_vars(ProcSetsUp(b))

-----------------------------------------------------------------------------
(* Properties.                                                             *)

(* Every thread of a roach2_udpdb gets a core, so that start_observation   *)
(* finds it, if there are enough; but the core of a later interface's      *)
(* interrupts is taken away from the thread it was given to.               *)
ThreadsPlaced ==
  launches > 0 /\ NCpu >= 3 * Len(Interfaces) =>
    \A k \in 1..Len(Interfaces), n \in 1..2 :
      LET t == Threads(Interfaces[k])[n]
          given == CoresOf(AfterInterfaces(NoCores, Interfaces, machine.busiest,
                                           machine.local)[k], t)
      IN \/ CoresOf(cpu_map, t) # {}
         \/ \E m \in k+1..Len(Interfaces) :
              machine.busiest[Interfaces[m]] \in given

(* A thread is on a core that is not local to its device only if all the   *)
(* local ones are in use.                                                  *)
LocalFirst ==
  \A c \in DOMAIN cpu_map :
    LET t == cpu_map[c]
        near(mask) == c \in mask \/ mask \cap Cores \subseteq DOMAIN cpu_map
    IN /\ t[1] \in {"socket", "dada"} => near(machine.local[t[2]])
       /\ t[1] = "dspsr" => near(machine.gpu[t[2]])

(* start_observation returns: whatever the order in which the two sides    *)
(* open the four pipes, they do not wait for each other.  Only a process   *)
(* that ended before Roach2 opened its control pipe keeps it for ever.     *)
LaunchReturns ==
  (rpc[1] \in {"popen", "mon", "ctl"}) ~>
    \/ rpc[1] = "drain"
    \/ \E b \in Bands : upc[b] \in {"ok", "err"} /\ b \notin opened

(* A process that fails once both are launched is reported as an Error.    *)
FailureReported ==
  \A b \in Bands :
    (state = "Running" /\ upc[b] = "err") ~> (state \in {"Error", "Idle"})

(* What a process writes to its monitor pipe replaces 'Launched' in the    *)
(* state, unless the observation ends first.                               *)
ReportsShown ==
  \A b \in Bands :
    (state = "Running" /\ lines[b] # <<>>) ~>
      (shows[b] \in {"WAITING", "RUNNING"} \/ state # "Running")
=============================================================================
