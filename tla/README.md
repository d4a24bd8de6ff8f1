# Verification of the JUMPS pulsar backend

TLA+ modules, TLC runs and TLAPS proofs for the code in `src/`: the control
system NunaBackend (`nunabe_control_system`, Python, one thread per component)
and `roach2_udpdb` (C), which takes the packets of a ROACH2 digitiser into a
psrdada ring buffer that dspsr reads. Line numbers are those of the source.
`N/` stands for `src/nunabe_control_system/src/nunabe/` and `U/` for
`src/roach2_software/roach2_udpdb/`.

## 1. Inventory

An observation goes through all parts: a user sends `STARTOBS` over TCP,
UserInterface calls the decorated `start_observation` of NunaBackend, which has
Ringbuffer create the shared memory of both half bands, Dspsr start one dspsr
per half band, and Roach2 start one roach2_udpdb per half band. These end by
themselves or by `STOPOBS`.

| component | state | operations | interacts with |
|---|---|---|---|
| SubComponent (`N/subcomponent.py`) | function_queue, event, run, thread | decorated calls, start, stop, wait, join, mainthread, execute_queue | base class of every part below; any thread puts calls |
| NunaBackend (`N/nunabe.py`) | state dictionary and lock, config, cpu_map | start_observation, abort_observation, check_observing_state, loop, stop | queues calls on Ringbuffer, Dspsr, Roach2 and waits on their queues; reads what they publish |
| Ringbuffer (`N/subcomponents/ringbuffer.py`) | keys, states per label | create_buffer, destroy_buffer, loop, stop | runs dada_db; publishes states |
| Dspsr (`N/subcomponents/dspsr.py`) | processes, state | start_observation, abort_observation, cleanup_observation, loop, stop, get_cpu_map | starts and kills dspsr; reads source_name; publishes state |
| Roach2 (`N/subcomponents/roach2.py`) | low_proc, high_proc, pipes, state | reprogram, start_observation, abort_observation, cleanup_observation, loop, stop, get_cpu_map | starts and kills roach2_udpdb; reads its monitor pipe |
| roach2_udpdb, main (`U/roach2_udpdb.c`) | expected_frame_counter, packet_count, dropped_packets, the DADA stream | wait for the reset, forced start, capture, end of data | reads packets from the ring, writes the stream dspsr reads |
| roach2_udpdb, packet ring | write and read position, slots | socket_receive_thread, get_next_packet_buffer, get_random_packet_buffer | the socket thread writes while main reads, without a lock |
| decode_spead (`U/decode_spead.c`) | none | decode_roach2_spead_packet | called by main for packets and fillers |
| UserInterface (`N/subcomponents/userinterface.py`) | selector, connections, read buffers, its own queue | loop, process, parse_message, get_state, write, close, stop | clients over TCP; calls NunaBackend; is stopped by the backend's or the main thread |
| Shutdown | run flags, published status | NunaBackend.stop, shutdown, SIGINT handler, stop of every part | all components |
| Launch of roach2_udpdb | two named pipes per half band | the opens on either side, monitor, poll | Roach2's thread and two processes |
| Monitor, TelescopeInterface | log queue, none | loop | read the state, write `test.json`; an empty shell |
| CPU maps | the map from cores to names | get_cpu_map of Roach2, then of Dspsr | read /proc and /sys; Roach2 and Dspsr look their cores up |
| roach2_udpstats, ROACH2 scripts | none that lasts | straight-line tools | - |

What is hard about each of them, and what makes it correct:

* **SubComponent.** A put and the setting of the event are two steps; the
  worker may be draining, sleeping, clearing or gone in between. A handler may
  call a decorated method of its own component (abort calls cleanup), so the
  queue grows while it is drained. Correct means: no call is slept on, calls
  are served in the order of the puts, a stop serves what came before it,
  wait() covers follow-ups, and each of these holds for any number of callers.
* **Observation (NunaBackend, Ringbuffer, Dspsr, Roach2).** Four threads with
  queues; the backend decides on what the others last published, aborts are
  asynchronous and queue themselves again, handlers may raise half way, and
  processes exit when they like. Correct means: no buffer is destroyed under a
  process, the published states are true, the published source is the one that
  is recorded, starts and aborts end, and an abort leads back to Ready.
* **Capture (roach2_udpdb, main).** Packets are lost, doubled, late or foreign,
  the frame counter is reset, and what fills a gap is whatever lies in a slot of
  the ring. Correct means: every heap is in the slot its counter gives it, gaps
  are filled, the counts are true, the stream never changes what the reader may
  have read. The code does this as far as every filler is a packet, and it is to
  be shown that nothing else breaks it.
* **Packet ring.** One writer and one reader without a lock: a slot may be
  overwritten while it is in use, and an overrun is seen only when the next
  packet is taken. Correct means: what was overwritten shows in the lag that is
  reported, the overruns account for every packet passed over, and a filler is
  a packet.
* **Shutdown.** stop() walks over the components in either of two threads while
  all of them go on; what it does to each is mostly to put calls on a queue that
  is itself being stopped, buffers before captures. Correct means: no memory and
  no process is left, the user is shown the end, the program ends.
* **Launch.** Both sides open two pipes, one open of the four blocks; a process
  may end at any point; its reports and its end are polled. Correct means: a
  start comes back, every thread has its core, reports and failures get through.
* **UserInterface.** One thread for all clients, chunks cut anywhere, a queue
  the handlers extend, and a stop() that closes sockets under the loop. Correct
  means: lines stay whole, commands in order, everybody is answered, it ends.

`PROJECT.json` lists every hazard at its line, with the property that covers it
or the reason why none does.

## 2. Modules

| module | models | state and actions |
|---|---|---|
| `Mailbox` | what a component's queue promises | posted, taken, open |
| `SubComponent` | `N/subcomponent.py` | one action per step of mainthread, execute_queue and the decorator; `ledger` and `handled` are history |
| `MCSubComponent` | values for TLC | abort with its follow-up cleanup |
| `SubComponentProofs` | the proofs about it | |
| `Observation` | start, abort and loop of NunaBackend, and Ringbuffer, Dspsr and Roach2 under them | one action per handler, split where the backend waits (`bpc`); `bq`, `gq` and `calls` are the queues, `state`, `report`, `rb` what is published, `proc`, `shm` the world; what Dspsr and Roach2 share is written once |
| `MCObservation` | values for TLC | two half bands or one, two sources |
| `ObservationProofs` | the proofs about it | |
| `Shutdown` (extends `Observation`) | NunaBackend.stop() and the stop() of every component | one action per step of stop() (`spc`); the threads of Observation with what serves a stop; `clash` is history |
| `ShutdownProofs` | the proofs that the end is shown, and that no memory and no process is left | |
| `CpuMap` | get_cpu_map of Roach2 and Dspsr | operators: cores given out in order, local ones first; the maps after each interface and each pipeline, as recursive functions |
| `Launch` (extends `CpuMap`) | Roach2.start_observation and loop, and the set-up of roach2_udpdb, over the pipes | one action per open, read and poll of either side |
| `UserInterface` | `N/subcomponents/userinterface.py` | one action per handler, per turn of the loop and per step of stop(); `sent`, `parsed`, `replies`, `commands` are history; `Split` is Python's split("\n") |
| `UserInterfaceProofs` | the proofs about it | |
| `LaunchProofs` | the proofs about the maps of `CpuMap` and their use in `Launch` | |
| `DataLemmas` | induction, recursion, sizes of sets and contents of queues, for the proofs of the other modules | |
| `MCShutdown`, `MCLaunch`, `MCUserInterface` | values for TLC | |
| `DadaStream` | what the reader of a DADA buffer may rely on, and where that ends | stream, eod, broken, fillable |
| `Capture` | the two loops of main in `U/roach2_udpdb.c`, the digitiser and the network | one action per packet and branch |
| `CaptureProofs` | the proofs about it | |
| `PacketRing` | `U/roach2_udpdb.c`: socket_receive_thread, get_next_packet_buffer and what main does with a slot | the two parts of a slot are written one after the other (`Recv`), then published; main takes, decodes, copies or leaves it in steps of their own |
| `PacketRingProofs` | the proofs about it | |

`PacketRing` and `Capture` are two views of one process. `PacketRing` numbers
packets in the order they are received and asks whether what main reads is the
packet it took; `Capture` starts from frame counters and asks where a heap is
written. What the ring may do to the order (a lap skipped, a packet read twice
because its slot was overwritten) is among what the network of `Capture` may do:
it loses, doubles and reorders. That the data belong to the header is the part
that `LagTells` adds. What lies in the slots that a filler is picked from is
known to `Capture` by one number: `clean` counts the packets main took in a row
since the last slot that held none. When it has reached the size of the ring, and
no stray is under way, every slot holds a packet (`Fit`): main has been at each of
them, and what was received into one since is under way or lost, which sets
`clean` back if it was a stray. While the ring is not `Fit` a filler may be a
packet, a write from a null pointer with a size that is not set (`Junk`), or the
end of the program (`FillerCrashes`). Some ring that is not `Fit` holds packets
only; there the model has more behaviours than the code, never fewer.

`Observation` takes the queue discipline of `SubComponent` at its promise: a
handler is one step, except where it blocks. This is what `Mailbox` and the
properties of `SubComponent` justify. A call whose handler raises stays at the
head of the queue, since task_done is skipped and wait() does not return.

`Shutdown` composes stop() with all of `Observation`: its next-state relation is
that of the threads there, the commands that arrive until UserInterface has been
joined, and the steps of stop(). UserInterface itself is left out of it, because
what matters there (sockets closed under the loop) is in `UserInterface`, and
because nothing else reads its state. `Launch` refines in the same sense what is
one step in `Observation` (Roach2Start, Roach2StartRaises, Roach2Loop), with two
processes and four pipes; it starts from the maps of `CpuMap`.

Definitions whose comment begins with "Variant:" are faulty forms of the
definition that follows. No specification uses them; they are there to show
that each property can fail: with the variant put in, TLC finds the property
violated (`mutants` in PROJECT.json).

The observing time and the contents of the configuration make no
difference to any property and are left out. A frame counter is counted in
heaps, since every packet of one band_select advances it by the same
frames_per_heap; integers are not near their width (64-bit counters that start
at 0 and advance 250000 times a second at most).

## 3. Runs

| run | checks | shows |
|---|---|---|
| `subcomponent_safety` | TypeOK, NoLostWakeup, StopDrains, FollowUpsDrained, WaitCoversCalls, ImplementsMailbox | two callers, four calls, handlers and loop that may raise and end the thread |
| `subcomponent_live` | EveryCallServed, StopEndsThread, WaitReturns | three calls, handlers that raise and are survived |
| `observation_safety` | TypeOK, BuffersUnderCapture, StateIsTrue, SourceNamesCapture | both bands, two sources, three commands, every failure |
| `observation_live` | StartTerminates, AbortRecovers, CompletedRecovers | one band, three commands, processes may fail |
| `capture_stream` | TypeOK, Aligned, CountsAreTrue, ImplementsStream | four packets to read, counters up to 5, two resets, a network that does everything |
| `ring_lag` | TypeOK, LagTells, OverrunsCountLosses, FillerReceived | four slots, ten packets, each of two parts; main takes its time at every step |
| `shutdown` | MemoryCleaned, ProcessesEnded, ShutdownShown, ShutdownEnds | one band, one command, SHUTDOWN or SIGINT at any moment |
| `launch` | ThreadsPlaced, LocalFirst, LaunchReturns, FailureReported, ReportsShown | two sockets of six cores, two half bands, two observations |
| `userinterface` | LinesWhole, CommandsInOrder, EveryLineAnswered, StopEndsUI | two clients, two messages, chunks cut anywhere, a stop() at any moment |
| `observation_buffers`, `observation_source`, `capture_loss` | one property each | violated: section 6 |

Bounds and why they are enough:

* Calls (`MaxPuts` 3 and 4): a wake-up is lost between two puts, a stop has
  calls before and after it, and a follow-up is queued behind a third call.
  Follow-ups are not bounded by it. The proofs hold for all values.
* Commands (`MaxCommands` 3): start, abort, start, or three starts with two
  sources: all pairs of commands that overlap, and one before them.
* `MaxTicks` 1 stands for the 20 looks of abort_observation: it may find dspsr
  finished at the first, the last, or not.
* `MaxQueue` 2 keeps the backend from queueing cleanups and aborts while its
  workers are busy; the workers' own follow-ups may exceed it. Longer queues
  hold more of the same cleanup.
* Two bands are needed where a band may fail alone, one where only the order of
  calls matters. Sources are symmetric in the safety run.
* Capture: `PacketsToRead` 4 with `MaxFrame` 5 has gaps of up to three heaps at
  the start, in the middle and across the end of the capture; three packets
  under way can arrive in any order; `ForcePeriod` 1 stands for 100000. A ring of
  two slots (`RingSize`) is reached clean before the capture, during it, lost by a
  stray and reached again, with a gap in each of these.
* Shutdown: one band is enough, since the stops treat the bands alike and no
  property compares two; one start or abort is under way, before or behind the
  stop, in every state the backend can have it in; only one stop is considered
  (a second SIGINT has Python's own handler).
* Launch: `NCpu` 12 with eight cores as candidates for the interrupts and three
  masks (one socket, the other, and all there are, which is what a dspsr without a
  GPU gets) lets the interrupts of the second interface fall on every kind of core:
  free, a kernel core, a thread's. The last mask has more cores than `ncpu` says,
  and one of the candidates lies beyond it: /proc and /sys speak of the machine,
  `ncpu` comes from the configuration. What
  follows a map does not depend on it, so that it is followed for one machine
  only (`Followed`). Two launches follow each other; a pipe holds two lines.
* UserInterface: one client sends commands and STATE, the other a STARTOBS or a
  wrong one. A STARTOBS is in two pieces so that it may be cut in the middle;
  with two messages in one chunk, in two, or in five, every case of process()
  occurs.
* Ring: `N` 4 (16000 in the code) with `MaxPackets` 10 is two laps and a half: a
  packet is overwritten while in use, a lag is of one lap, of N - 1, and of two
  laps, which must count as two overruns. The bound of LagTells is sharp: with N
  in place of N - 1 TLC finds a counterexample. The proofs hold for every N.

Deadlock is not checked where the program really stops: a worker that has ended
with callers waiting on it, a backend waiting on a component that died, a
capture that is over, a program that has been shut down, a launch that fails, a
user interface whose thread died.

## 4. Fairness

Each thread is weakly fair: it is runnable and the scheduler runs it. In
`SubComponent` a caller finishes the call it is in (SetEvent, WaitReturn,
JoinReturn) but need not make one, and the timeout of `event.wait` is left out
of the fairness on purpose: what is served must be served because of the event.
In `Observation` users need not give commands and processes need not exit; that
abort_observation gives up waiting for dspsr is the tick count, not fairness.
In `Shutdown` the thread that runs stop() is fair as well, and nothing obliges
anybody to call it. In `Launch` Roach2's thread and each process are fair while
they set up and read; when packets arrive, a process reports or ends, and when
users abort is left open. In `UserInterface` the thread and stop() are fair and
clients may do nothing for ever.
`Capture` has no liveness: main may wait for packets for ever.

## 5. Proofs

All theorems are of the form `Spec => ...` for every value of the constants
under the named assumptions.

**SubComponent.** The invariant of `SubComponentProofs` says, besides the types:
the tickets in `handled` followed by those in `queue` are exactly 1, 2, 3, ...
up to the length of the ledger, which is the order of the puts; `unfinished` is
the length of the queue plus one while a call is in hand (this is what makes
`unfinished' = unfinished - 1` stay in Nat and wait() mean that nothing is
left); the hand is the last ticket handled; where the worker is past a drain no
follow-up is in the queue; in the states in which the event is about to be
waited for, a non-empty queue implies that it is set or that a caller is between
put and set. None of the properties is inductive without the first two. From it
follow TypeCorrectness, WakeupSafety, StopSafety, FollowUpSafety, WaitSafety
(an action property) and Refinement: each action is a Post, TakeUp or Close of
the mailbox or a stutter.

**Observation.** That no buffer is destroyed under a process (BufferSafety)
depends on all four threads. The invariant that carries it says where calls can
be pending: a `start` on Dspsr's queue only while the backend waits for Dspsr, a
`start` on Roach2's only while it waits for Roach2 (`StartsAwaited`), and calls
on Ringbuffer's only while it waits for the buffers (`BuffersAwaited`). A start is
accepted over two components that say Idle (`DetectedReady`); what they say is
true (`IdleTrue`), but for a Roach2 that died in a start, which is still at the
head of its queue, so that the backend is still waiting for it and accepts
nothing (`IdleIsFree`). Hence there is no process while buffers are remade, and
when the processes are started the buffers are there (`Attached`,
`ReadyHasMemory`). `CompletedTrue`, and with it StateSafety, needs that a living
worker has a process for every band or for none (`Uniform`): Dspsr compares only
the bands that have one. NameSafety uses that Dspsr takes over the name when it
starts and the backend changes it only where nothing is recorded. The invariant
has been model-checked on the instance of `observation_safety` too. The proofs
are split as the actions are: what a step of the backend leaves true of the
workers (`BackendKeeps`), and what a step of one worker has to establish
(`WorkerKeeps`). No fairness and no bound is used; which faults are considered
makes no difference.

**Shutdown.** ShownSafety needs that stop() is not run a second time, nor the
backend's loop beside it: after a SHUTDOWN the request is the only one of its
kind in the backend's queue and is gone when it is served (`OneShutdown`), and
the backend's thread stays in stop() (`StopHolds`), so that what is published
before Monitor is stopped is what Monitor writes (`Published`).

MemorySafety and ProcessesSafety are about a program that has
ended, and follow the steps of stop(). `Control` relates where stop() is to what
called it, and says that a SHUTDOWN meets no start, since the backend's one thread
serves both (ShutdownMeetsNoStart): `clash` is for SIGINT only. The memory: a
create is on Ringbuffer's queue only while the backend waits for the buffers
(`CreatesAwaited`), so none is made while stop() walks over the keys; each buffer
that is ready has its destroy on the queue or is still to get one (`Remaining`),
and once all have it Ringbuffer, whose stop comes later, does not end before they
are served (`Destroyed`); memory is only where Ringbuffer says ready
(`MemoryOfReady`). The processes: a start is on a worker's queue only while the
backend waits for it (`StartAwaited`); a worker serves until stop() has put its
stop (`Serving`) and ends only after it has served it (`StopTaken`); once it was
asked, what is left of its processes has an abort or a cleanup on the queue, and
for Roach2, whose abort is put before its stop, that one is served before the
thread ends (`Ending`). Dspsr's abort is put behind its stop: that is the exception
in ProcessesEnded. The invariants were model-checked before they were proved, with
two commands and each kind of failure for one band, and for two bands. Each of the
two theorems leaves out the kind of failure with which its property is false: a
dada_db that fails leaves the memory it should have destroyed (MemorySafety assumes
`"buffer" \notin Faults`), and a handler that raises may leave a process
(ProcessesSafety assumes `"raise" \notin Faults`). The run `shutdown` has no
failures at all, the theorems all the others.

**Capture.** The invariant says that while waiting nothing is written, that
during the capture `expected = first + Len(out)`, and that each write is a filler
or the heap `first + i - 1` as far as no `Junk` is before it (`Whole`): after that
main goes on as if it knew the slot, and does not. Alignment follows. Refinement
to `DadaStream` shows in addition that a write only extends the stream, that
every gap ends in the heap that showed it, and that the stream breaks nowhere but
in a gap that is met while the ring is not `Fit`: a write is a Put, a Break or
goes on with a broken stream (Scatter) (`WriteSteps`), and a death in a gap is a
Break (`CrashSteps`). So a ring that holds packets only gives the reader all it
relies on, and the other case is named in section 6.

Counting (`CountsAreTrue`) follows from how each write extends the set of slots
that hold a filler, by the library's theorems on Cardinality. It is claimed while
every filler was a packet: line 512 counts the others just the same.

**PacketRing.** Two packets that share a slot are at least N apart
(`ApartInRing`), so that the last N - 1 packets published are whole (`Held`) and
receiving the next one disturbs only the one before them. Hence, if the slot
main uses no longer holds its packet, either it was taken with a lag of N - 1 or
more, or the socket thread is by now N ahead of it (`Decoded`, `SlotHolds`). In
the latter case main's next position is one further, so that its next lag is at
least N - 1 (`TornShown`): LagSafety. For the first packet written the lag it
was taken with is needed besides, because the counters are reset between (line
382). OverrunSafety goes by the positions between the first that was taken and
the last (`Counted`): since main goes on right behind the last, what the next
lag makes it skip is an interval of whole laps. FillerSafety needs one thing
more (`Lap`): the header in a slot that has been received into is of a packet of
that slot and of the last lap, because the slot that would be two laps old is
the one being received into, and a packet and the one N before it share a slot
(`SameSlot`).

**UserInterface.** The first invariant, `Streams`, is LinesWhole with its types:
for each client, the text of its lines, its buffer and its wire are the text of
what it sent. It is kept because `Split` takes a text apart without loss
(`SplitWhole`) and because the text of two sequences of lines is the text of the
one after the other (`TextConcat`): LinesSafety. For CommandsInOrder it is not
enough that nothing is lost: a line has to be the message that was sent. No piece
of a message is a newline, hence a text can be cut into lines in one way only
(`SameLines`), and the k-th line is the k-th message (`ParsedSaid`). The second
invariant, `Orders`, says for each client that for some n the parse calls in the
queue are its lines after the n-th, in their order among whatever else is queued
(`Holds`), and that what was called are the commands among its first n messages
(`Called`). It was checked with three messages before it was proved.

These are statements about recursive functions (FlattenSeq, Split), for which the
library's induction theorems cannot be used, since they take an operator. Their
place is taken by `SetInduction` of `DataLemmas`, in which the predicate is a set:
if 0 is in it and it is closed under successor it contains all natural numbers, or
adding 1 would map the part of it that is below a missing number one to one into a
smaller set, against the pigeonhole theorem. `Recursion` shows in the same way that
a recursive definition has a solution.

**Launch.** The state says little: the map is that of the machine that was read
(`MapOfMachine`). The rest is about the maps, for any devices and any number of
cores. Numbering the free cores in ascending order is one to one onto 1, 2, 3, ...
(`Ranks`), so that Give gives out as many of them as there are names or as there
are cores, and each of the last names of the list has one of them (`GiveGives`).
Two Gives in a row, the second on all cores, make a Place (`PlacePlaces`): what was
in the map stays; what is new is on a local core, or the local ones have all been
given out; it adds no more cores than names, and if there are enough each name has
one. Over the interfaces it follows by induction that the map after k of them has
3k cores at most, so that both threads of each get a core (`InterfaceSize`), and
that a core which was given out changes hands only as the busiest of a later
interface (`InterfaceKeeps`): ThreadsSafety. LocalSafety is kept by each interface
and each pipeline (`LocalTaken`, `LocalPlaced`), because the set of cores in use
never shrinks. The one assumption is that the interfaces and pipelines are
sequences of bands (`DevicesAssumption`); one may be listed twice.

Model-checked only: all liveness, since ENABLED is beyond the prover. Every safety
property of a passing run is a theorem.

## 6. What the code does otherwise

* `observation_buffers`: `destroy_buffer` keeps the label that `create_buffer`
  looks at (`N/subcomponents/ringbuffer.py:26`), so a second observation never
  gets its buffers, with nothing failing.
* `observation_source`: `N/nunabe.py:221` announces to "stop and change to a new
  source", but abort and start are queued (222-223) and the start is served
  before the components are Idle again: it is refused and the new source is not
  observed.
* `capture_loss`: the wait loop of `U/roach2_udpdb.c` does not move
  expected_frame_counter past a gap (353, 377), so every later packet adds the
  gap to dropped_packets again. The capture loop does it right (513).

What else the models show, without a run of its own, because no text of the
repository says otherwise or because a passing property states it as the
exception it makes:

* An abort still queued on Dspsr puts its cleanup behind a start
  (`N/subcomponents/dspsr.py:109`), which ends the dspsr just started; the
  digitiser is started all the same. It needs a Dspsr thread that is not
  scheduled for as long as the buffers take to be created.
* A gap is to be filled with "a random packet from the buffer"
  (`U/roach2_udpdb.c:503`), but any slot is taken. Until the socket thread has
  gone round the ring once it may be one that no packet was ever received into,
  and at any time one that holds a datagram of another kind, which stays there for
  a lap. Either does not decode (`U/decode_spead.c:44-46`), and a null pointer and
  an unset size go to ipcio_write unchecked (509; the assert before it looks at
  the size of the packet at hand). The program dies, or writes a length that is not
  that of a heap, 0 included, and every later heap is shifted for the reader; line
  512 counts the heap as written all the same. Aligned and CountsAreTrue speak of
  what comes before that, and ImplementsStream says that nothing else breaks the
  stream.
* With a lag of exactly N the read position is moved onto the write position,
  and main reads the slot that is being received into (667); the reset of
  max_buffer_lag hides how the first packet was taken (382).
* SIGINT during a start (`N/nunabe.py:52-56`): the creates and starts go behind
  what stop() puts, so memory, a roach2_udpdb or a dspsr may be left. MemoryCleaned
  and ProcessesEnded except this (`clash`), ShutdownEnds too.
* Dspsr.stop puts its abort behind its stop (`dspsr.py:48`): if the thread has
  made its last drain by then, dspsr is left (the exception in ProcessesEnded).
* After SIGINT the backend's own loop may replace the Shutdown that was published
  in observation_status (`nunabe.py:118`); status keeps it.
* A start queued behind a SHUTDOWN waits for ever on a Ringbuffer that has ended
  (the last case of ShutdownEnds).
* stop() has the buffers destroyed before the captures are ended, so
  BuffersUnderCapture is true of starting and aborting, not of the shutdown.
* Roach2.get_cpu_map gives the core of an interface's interrupts to the kernel
  even if a thread of an earlier interface has it (`roach2.py:318-321`, with a
  warning): that thread has no core any more and the next start ends in a
  KeyError (103-104). ThreadsPlaced says that this is the only way.
* Opening a control pipe blocks (`roach2.py:148`): a process that fails before it
  opened its end keeps Roach2, and the backend that waits for it.
* A process that opens its monitor pipe before Roach2 does runs unmonitored
  (`U/roach2_udpdb.c:222`): its state stays 'Launched'.
* One client can end the thread of UserInterface for all: by leaving before it
  has read its answer, by not reading until its socket is full, or with a tobs
  that is not a number (`userinterface.py:90,150`).

## 7. Not modelled, and the plan

Order of work: SubComponent and its proofs first, since everything runs on it;
Observation, the program's purpose; Capture and PacketRing, where the data could
be wrong; then what surrounds an observation: Shutdown, Launch with the CPU maps,
UserInterface. All of this is modelled and every safety property of a passing run
is proved. What is left, in this order:

1. LaunchReturns and StopEndsUI as safety properties (no cycle of waits), which
   could be proved, beside the liveness that cannot;
2. start() and reprogram, if their scripts are to be part of the system.

Simplifications to know of: in `UserInterface` the acceptance of a connection is
one step, so a stop() between the append and the register (lines 36-37) is not
seen, and the bytes are ASCII (a byte that decode('utf-8') refuses would end the
thread, line 126); in `Observation` a handler is one step where it does not block,
and a get_cpu_map that raises in the backend's thread once source_name is
published (`nunabe.py:232-233`, `dspsr.py:124-142`) is left out; in `Capture` every
packet is of one band_select, so the asserts of lines 487-488 never fail; Ringbuffer's loop is taken as publishing at once what the
handlers leave; in `CpuMap` every dspsr has the two threads it has if its
configuration names no other number.

Left out: start() and reprogram, which run before the first observation and
configure network and FPGA through scripts; restart_monitor, which nothing
calls; Monitor's file; header fields, options and log texts; roach2_udpstats, a
sequential tool of its own; and the ROACH2 scripts, lists of writes to registers
whose meaning is in gateware that is not in the repository.
