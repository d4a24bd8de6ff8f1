------------------------------ MODULE Shutdown ------------------------------
(***************************************************************************)
(* The end of the program: NunaBackend.stop() (nunabe.py) over the         *)
(* components of Observation, called by SHUTDOWN in the backend's own      *)
(* thread or by the SIGINT handler in the main thread, while every other   *)
(* thread goes on with what it was doing.  stop() calls the stop() of each *)
(* component, which mostly puts calls on its queue, and joins the threads. *)
(* UserInterface and TelescopeInterface are left out but for the commands  *)
(* that can still arrive until UserInterface has been joined.              *)
(***************************************************************************)
EXTENDS Observation

VARIABLES
  by,        \* who asked for the end: nobody, SHUTDOWN or SIGINT
  spc,       \* where stop() is
  iter,      \* Ringbuffer.stop: the keys it goes over, and those left
  wiped,     \* whether Roach2's directory has been removed
  overall,   \* state['status']
  shown,     \* what Monitor last wrote of observation_status and status
  clash      \* history: start_observation was under way during stop()

stopVars == <<by, spc, iter, wiped, overall, shown>>
allVars == <<vars, stopVars, clash>>

StoppingInit ==
  /\ Init
  /\ by = "nobody"
  /\ spc = "idle"
  /\ iter = [all |-> {}, left |-> {}]
  /\ wiped = FALSE
  /\ overall = "Ready"
  /\ shown = <<>>
  /\ clash = FALSE

ShutdownReq == [op |-> "shutdown", src |-> NoSource, by |-> "user"]
StopReq     == [op |-> "stop", src |-> NoSource, by |-> "backend"]

-----------------------------------------------------------------------------
(* How it begins.  Only one of the two is considered, and only once.       *)

RequestShutdown ==
  /\ by = "nobody"
  /\ by' = "SHUTDOWN"
  /\ bq' = Append(bq, ShutdownReq)
  /\ UNCHANGED <<spc, iter, wiped, overall, shown, commands, run, status,
                 source, bpc, ticks, gq, ringVars, calls, workerVars>>

ServeShutdown ==
  /\ Serve("shutdown")
  /\ bq' = Tail(bq)
  /\ bpc' = "stopping"
  /\ spc' = "begin"
  /\ UNCHANGED <<by, iter, wiped, overall, shown, commands, run, status,
                 source, ticks, gq, ringVars, calls, workerVars>>

(* The main thread is in be.join(), with the lock free.                    *)
Sigint ==
  /\ by = "nobody"
  /\ by' = "SIGINT"
  /\ spc' = "begin"
  /\ UNCHANGED <<iter, wiped, overall, shown, vars>>

-----------------------------------------------------------------------------
(* The steps of stop().  Each changes one of: what is published, a queue,  *)
(* or nothing.                                                             *)

At(step, next) ==
  /\ spc = step
  /\ spc' = next
  /\ UNCHANGED <<by, commands, run, source, ticks, ringVars, workerVars>>

Queues == UNCHANGED <<status, bpc, iter, wiped, overall, shown>>
Calls(w, call) == Put(w, call) /\ Queues /\ UNCHANGED <<bq, gq>>

(* Ringbuffer.stop goes over keys in the caller's thread: a key that is    *)
(* added meanwhile is a RuntimeError, which the backend's stop() logs.     *)
Keys == {b \in Bands : rb[b] # "absent"}

StopBegins ==
  /\ At("begin", "destroy")
  /\ status' = "Shutdown"
  /\ overall' = "Stopping"
  /\ iter' = [all |-> Keys, left |-> Keys]
  /\ UNCHANGED <<bq, bpc, gq, calls, wiped, shown>>

DestroyNext ==
  /\ At("destroy", "destroy")
  /\ iter.all = Keys
  /\ \E i \in 1..Len(BandOrder) :
       /\ BandOrder[i] \in iter.left
       /\ \A j \in 1..i-1 : BandOrder[j] \notin iter.left
       /\ gq' = Append(gq, [op |-> "destroy", band |-> BandOrder[i]])
       /\ iter' = [iter EXCEPT !.left = @ \ {BandOrder[i]}]
  /\ UNCHANGED <<status, bq, bpc, calls, wiped, overall, shown>>

PutRingStop ==
  /\ gq' = Append(gq, [op |-> "stop"])
  /\ Queues
  /\ UNCHANGED <<bq, calls>>

(* Variant: the thread is stopped and the buffers are forgotten.           *)
StopRingbufferEarly ==
  /\ At("destroy", "roach2_abort")
  /\ iter.all = Keys
  /\ PutRingStop

StopRingbuffer ==
  /\ At("destroy", "roach2_abort")
  /\ iter = [all |-> Keys, left |-> {}]
  /\ PutRingStop

(* The stop of SubComponent is not reached.                                *)
StopRingbufferRaises ==
  /\ At("destroy", "roach2_abort")
  /\ iter.all # Keys
  /\ Queues
  /\ UNCHANGED <<bq, gq, calls>>

(* Variant: the processes are left to the end of the thread.               *)
AbortRoach2Forgotten ==
  At("roach2_abort", "roach2_stop") /\ Queues /\ UNCHANGED <<bq, gq, calls>>

AbortRoach2 == At("roach2_abort", "roach2_stop") /\ Calls("roach2", "abort")

(* Once Roach2's directory is removed.                                     *)
StopRoach2 ==
  /\ At("roach2_stop", "dspsr_first")
  /\ wiped' = TRUE
  /\ Put("roach2", "stop")
  /\ UNCHANGED <<status, bq, bpc, gq, iter, overall, shown>>

(* Dspsr.stop: the stop before the abort.                                  *)
StopDspsr ==
  \/ At("dspsr_first", "dspsr_second") /\ Calls("dspsr", "stop")
  \/ At("dspsr_second", "own_stop") /\ Calls("dspsr", "abort")

StopBackend ==
  /\ At("own_stop", "join")
  /\ bq' = Append(bq, StopReq)
  /\ Queues
  /\ UNCHANGED <<gq, calls>>

(* The joins, one after the other, change nothing.                         *)
JoinAll ==
  /\ At("join", "publish")
  /\ \A t \in Threads \ {"backend"} : Gone(t)
  /\ Queues
  /\ UNCHANGED <<bq, gq, calls>>

Publishes(obs, s) ==
  /\ At("publish", "monitor")
  /\ status' = obs
  /\ overall' = s
  /\ UNCHANGED <<bq, bpc, gq, calls, iter, wiped, shown>>

(* Variant: it is published after Monitor has ended.                       *)
PublishLate == Publishes(status, overall)

PublishShutdown == Publishes("Shutdown", "Shutdown")

(* Monitor serves its stop, writes the state once more and is joined.      *)
MonitorEnds ==
  /\ At("monitor", "done")
  /\ shown' = <<status, overall>>
  /\ bpc' = IF by = "SHUTDOWN" THEN "drain" ELSE bpc
  /\ UNCHANGED <<status, bq, gq, calls, iter, wiped, overall>>

Stop ==
  \/ StopBegins \/ DestroyNext \/ StopRingbuffer \/ StopRingbufferRaises
  \/ AbortRoach2 \/ StopRoach2 \/ StopDspsr \/ StopBackend
  \/ JoinAll \/ PublishShutdown \/ MonitorEnds

-----------------------------------------------------------------------------
(* What the threads do about it.                                           *)

(* Variant: the flag is not reset.                                         *)
ServeStopForgets(w) ==
  /\ ServeAll(w, "stop", <<>>)
  /\ UNCHANGED <<commands, run, backendVars, gq, ringVars, state, proc, report,
                 name, rknown>>

ServeStop(w) ==
  /\ ServeAll(w, "stop", <<>>)
  /\ run' = [run EXCEPT ![w] = FALSE]
  /\ UNCHANGED <<commands, backendVars, gq, ringVars, state, proc, report,
                 name, rknown>>

BackendServesStop ==
  /\ Serve("stop")
  /\ bq' = Tail(bq)
  /\ run' = [run EXCEPT !["backend"] = FALSE]
  /\ UNCHANGED <<commands, status, source, bpc, ticks, gq, ringVars, calls,
                 workerVars>>

RingServesStop ==
  /\ phase["ringbuffer"] = "drain"
  /\ gq # <<>>
  /\ Head(gq) = [op |-> "stop"]
  /\ gq' = Tail(gq)
  /\ run' = [run EXCEPT !["ringbuffer"] = FALSE]
  /\ UNCHANGED <<commands, backendVars, ringVars, calls, workerVars>>

(* After the last drain: what is put from here on is not served.           *)
RingExits ==
  /\ phase["ringbuffer"] = "drain"
  /\ gq = <<>>
  /\ ~run["ringbuffer"]
  /\ phase' = [phase EXCEPT !["ringbuffer"] = "exited"]
  /\ UNCHANGED <<commands, run, backendVars, gq, ringVars, calls, state, proc,
                 report, name, rknown>>

(* mkfifo in a directory that is gone.                                     *)
StartWiped ==
  /\ wiped
  /\ HandlerRaises("roach2", "start")
  /\ UNCHANGED <<commands, run, backendVars, gq, ringVars, state, proc, report,
                 name, rknown>>

UserInterfaceJoined ==
  spc \in {"publish", "monitor", "done"}

During(A) ==
  /\ A
  /\ UNCHANGED stopVars
  /\ clash' = clash

InStart == bpc \in {"wait_buffers", "wait_dspsr", "wait_roach2"}
Stopping == spc \notin {"idle", "done"}
Watched(A) == A /\ clash' = (clash \/ (InStart /\ Stopping)')

BackendThread ==
  \/ Watched(Backend /\ UNCHANGED stopVars)
  \/ Watched(BackendServesStop /\ UNCHANGED stopVars)
  \/ Watched(ServeShutdown)
RingThread == During(Ringbuffer \/ RingServesStop \/ RingExits)
DspsrThread == During(Working(Dspsr) \/ ServeStop("dspsr"))
Roach2Thread ==
  During(\/ Working(Roach2) /\ ~(wiped /\ Roach2Start)
         \/ ServeStop("roach2") \/ StartWiped)

StoppingNext ==
  \/ ~UserInterfaceJoined /\ \E r \in UserRequests : During(Command(r))
  \/ Watched(RequestShutdown) \/ Watched(Sigint) \/ Watched(Stop)
  \/ BackendThread \/ RingThread \/ DspsrThread \/ Roach2Thread
  \/ \E w \in Workers, b \in Bands : During(Working(Exits(w, b)))

StoppingSpec == StoppingInit /\ [][StoppingNext]_allVars

(* Every thread runs, the main thread in stop() too.                       *)
FairStoppingSpec ==
  /\ StoppingSpec
  /\ WF_allVars(Watched(Stop)) /\ WF_allVars(BackendThread)
  /\ WF_allVars(RingThread) /\ WF_allVars(DspsrThread)
  /\ WF_allVars(Roach2Thread)

-----------------------------------------------------------------------------
(* Properties.  They except a start_observation that was under way while   *)
(* stop() ran in the main thread: it can put a start or a create behind    *)
(* the calls that stop() puts.                                             *)

(* "Clean up memory!" (ringbuffer.py:131): when stop() is over no shared   *)
(* memory is left, though the destroys are only queued on a thread that is *)
(* itself being stopped.                                                   *)
MemoryCleaned ==
  spc = "done" /\ ~clash => \A b \in Bands : ~shm[b]

(* No roach2_udpdb is left running, and no dspsr unless the abort that     *)
(* Dspsr.stop put after its stop came too late for the last drain.         *)
ProcessesEnded ==
  spc = "done" /\ ~clash =>
    /\ Alive("roach2") = {}
    /\ Alive("dspsr") = {} \/ calls["dspsr"] # <<>>

(* "stop the monitor last so the user can see the shutdown state"          *)
(* (nunabe.py:119).  After a SIGINT the backend's own loop may still       *)
(* overwrite observation_status, but not status.                           *)
ShutdownShown ==
  spc = "done" => /\ shown[2] = "Shutdown"
                  /\ by = "SHUTDOWN" => shown[1] = "Shutdown"

(* stop() comes to its end and the backend's thread with it, or this       *)
(* thread has served a start that was queued behind the end and waits for  *)
(* a Ringbuffer that has ended.                                            *)
ShutdownEnds ==
  (spc = "begin") ~>
    \/ clash
    \/ spc = "done" /\ bpc = "exited"
    \/ bpc = "wait_buffers" /\ gq # <<>> /\ Gone("ringbuffer")
=============================================================================
