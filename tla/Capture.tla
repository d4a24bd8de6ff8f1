------------------------------ MODULE Capture ------------------------------
(***************************************************************************)
(* roach2_udpdb: from the packets of the digitiser to the DADA stream.     *)
(*                                                                         *)
(* The digitiser numbers its heaps and starts again from 0 on a 1PPS.  Its *)
(* packets come over UDP, and through a ring of packet slots that may be   *)
(* overrun: they may be lost, doubled or late, and packets that are not of *)
(* this protocol may be among them.  main() reads until the counter resets *)
(* and from then on gives every heap its slot in the stream, writes what   *)
(* lies in a slot of the ring picked at random for every lost heap, and    *)
(* drops what comes late.  A slot of the ring that was never written, or   *)
(* that holds a stray, does not decode: the write in its stead has a null  *)
(* pointer and a size nobody set, and it ends the program or shifts all    *)
(* that follows.                                                           *)
(*                                                                         *)
(* Frame counters are counted in heaps (units of frames_per_heap, which    *)
(* every packet of one band_select advances by); which packet a filler is  *)
(* is left out.                                                            *)
(***************************************************************************)
EXTENDS Integers, Sequences, FiniteSets

CONSTANTS
  PacketsToRead,  \* blocks_to_read * packets_per_block
  ForceStart,     \* -F: force_start_without_1pps
  ForcePeriod,    \* 100000: how often the wait loop looks at ForceStart
  RingSize,       \* NUM_PACKET_BUFFERS: the slots of the ring
  Network,        \* what the network does besides delivering in order
  MaxFrame,       \* bound on the frame counter
  MaxResets,      \* bound on the resets of the frame counter
  MaxInFlight     \* bound on the packets under way

ASSUME LengthAssumption == PacketsToRead \in Nat /\ PacketsToRead > 1
ASSUME ForceAssumption ==
  /\ ForceStart \in BOOLEAN
  /\ ForcePeriod \in Nat \ {0}
ASSUME RingAssumption == RingSize \in Nat \ {0}
ASSUME NetworkAssumption ==
  Network \subseteq {"lose", "duplicate", "reorder", "stray"}
ASSUME BoundsAssumption ==
  /\ MaxFrame \in Nat
  /\ MaxResets \in Nat
  /\ MaxInFlight \in Nat

Stray  == -1      \* a packet without the magic of SPEAD
Filler == -2      \* a slot of the stream filled with some other packet
Junk   == -3      \* a write from a null pointer, of a size that is not set

VARIABLES
  next,             \* the counter of the next heap of the digitiser
  resets,           \* how often it has been reset
  net,              \* the packets under way, by frame counter
  clean,            \* packets main() took from the ring in a row since the
                    \* last slot that held none, counted up to RingSize
  phase,            \* which loop of main() is running
  expected,         \* expected_frame_counter
  packet_count,
  dropped_packets,
  first,            \* the counter of the heap in the first slot
  out               \* what was written with ipcio_write

digitiserVars == <<next, resets>>
vars == <<digitiserVars, net, clean, phase, expected, packet_count,
          dropped_packets, first, out>>

(* The digitiser has been running for a while; the ring is empty.          *)
Init ==
  /\ next = 1
  /\ resets = 0
  /\ net = <<>>
  /\ clean = 0
  /\ phase = "waiting"
  /\ expected = 0
  /\ packet_count = 0
  /\ dropped_packets = 0
  /\ first = 0
  /\ out = <<>>

-----------------------------------------------------------------------------
(* The digitiser and the network.                                          *)

captureVars == <<phase, expected, packet_count, dropped_packets, first, out>>

Send ==
  /\ next <= MaxFrame
  /\ Len(net) < MaxInFlight
  /\ net' = Append(net, next)
  /\ next' = next + 1
  /\ UNCHANGED <<resets, clean, captureVars>>

Reset ==
  /\ resets < MaxResets
  /\ next' = 0
  /\ resets' = resets + 1
  /\ UNCHANGED <<net, clean, captureVars>>

(* A packet is lost on its way, or skipped by an overrun: then it may      *)
(* still lie in the ring.                                                  *)
Lose ==
  /\ "lose" \in Network
  /\ net # <<>>
  /\ net' = Tail(net)
  /\ clean' = IF Head(net) = Stray THEN 0 ELSE clean
  /\ UNCHANGED <<digitiserVars, captureVars>>

AddStray ==
  /\ "stray" \in Network
  /\ Len(net) < MaxInFlight
  /\ net' = Append(net, Stray)
  /\ UNCHANGED <<digitiserVars, clean, captureVars>>

Without(s, i) == SubSeq(s, 1, i - 1) \o SubSeq(s, i + 1, Len(s))

(* main() gets packet i, which may be under way a second time, from the    *)
(* next slot of the ring.                                                  *)
Receive(p) ==
  \E i \in 1..Len(net) :
    /\ i > 1 => "reorder" \in Network
    /\ p = net[i]
    /\ \/ net' = Without(net, i)
       \/ "duplicate" \in Network /\ UNCHANGED net
    /\ clean' = IF p = Stray THEN 0
                ELSE IF clean < RingSize THEN clean + 1 ELSE clean

(* Every slot of the ring holds a packet: main() has been round it since   *)
(* the last that did not, and none is on its way.                          *)
Fit ==
  /\ clean = RingSize
  /\ \A i \in 1..Len(net) : net[i] # Stray

-----------------------------------------------------------------------------
(* main(), waiting for the frame counter to reset.                         *)

WaitStray ==
  /\ phase = "waiting"
  /\ Receive(Stray)
  /\ UNCHANGED <<digitiserVars, captureVars>>

Forced ==
  /\ ForceStart
  /\ packet_count % ForcePeriod = 0
  /\ packet_count > ForcePeriod

(* Variant: a packet that comes late makes the loss smaller.               *)
WaitOnSigned(p) ==
  LET exp == IF expected = 0 THEN p ELSE expected IN
  /\ phase = "waiting"
  /\ p > 0
  /\ ~Forced
  /\ Receive(p)
  /\ dropped_packets' = dropped_packets + (p - exp)
  /\ packet_count' = packet_count + 1
  /\ expected' = exp + 1
  /\ UNCHANGED <<digitiserVars, phase, first, out>>

(* A packet before the reset: the loop only counts what it misses.         *)
WaitOn(p) ==
  LET exp == IF expected = 0 THEN p ELSE expected IN
  /\ phase = "waiting"
  /\ p > 0
  /\ ~Forced
  /\ Receive(p)
  /\ dropped_packets' = IF p > exp THEN dropped_packets + (p - exp)
                                   ELSE dropped_packets
  /\ packet_count' = packet_count + 1
  /\ expected' = exp + 1
  /\ UNCHANGED <<digitiserVars, phase, first, out>>

(* The reset, or a start that is forced; the packet opens the stream.      *)
StartWith(p) ==
  /\ phase = "waiting"
  /\ p = 0 \/ (p > 0 /\ Forced)
  /\ Receive(p)
  /\ phase' = "capture"
  /\ first' = p
  /\ out' = <<p>>
  /\ expected' = p + 1
  /\ packet_count' = 1
  /\ dropped_packets' = 0
  /\ UNCHANGED digitiserVars

(* The header, or the sizes of the blocks and of the packet, are not what  *)
(* they should be: the program exits.                                      *)
StartFails(p) ==
  /\ phase = "waiting"
  /\ p = 0 \/ (p > 0 /\ Forced)
  /\ Receive(p)
  /\ phase' = "failed"
  /\ packet_count' = 0
  /\ dropped_packets' = 0
  /\ UNCHANGED <<digitiserVars, expected, first, out>>

-----------------------------------------------------------------------------
(* main(), capturing.                                                      *)

CaptureStray ==
  /\ phase = "capture"
  /\ Receive(Stray)
  /\ UNCHANGED <<digitiserVars, captureVars>>

(* What may be written for n lost heaps.  The slots of the ring are picked *)
(* at random, and only the packet at hand has its size looked at.          *)
Fillers(n) == [1..n -> IF Fit THEN {Filler} ELSE {Filler, Junk}]

(* Variant: the gap is filled and still expected.                          *)
WriteBehind(p) ==
  LET ndropped == p - expected IN
  /\ phase = "capture"
  /\ p >= expected
  /\ Receive(p)
  /\ \E gap \in Fillers(ndropped) : out' = out \o gap \o <<p>>
  /\ dropped_packets' = dropped_packets + ndropped
  /\ packet_count' = packet_count + ndropped + 1
  /\ expected' = expected + 1
  /\ phase' = IF packet_count' < PacketsToRead THEN "capture" ELSE "done"
  /\ UNCHANGED <<digitiserVars, first>>

(* Variant: the fillers are not counted as written.                        *)
WriteUncounted(p) ==
  LET ndropped == p - expected IN
  /\ phase = "capture"
  /\ p >= expected
  /\ Receive(p)
  /\ \E gap \in Fillers(ndropped) : out' = out \o gap \o <<p>>
  /\ dropped_packets' = dropped_packets + ndropped
  /\ packet_count' = packet_count + 1
  /\ expected' = p + 1
  /\ phase' = IF packet_count' < PacketsToRead THEN "capture" ELSE "done"
  /\ UNCHANGED <<digitiserVars, first>>

(* The packet that was expected, or a later one: the gap is filled, and    *)
(* counted whatever it was filled with.                                    *)
Write(p) ==
  LET ndropped == p - expected IN
  /\ phase = "capture"
  /\ p >= expected
  /\ Receive(p)
  /\ \E gap \in Fillers(ndropped) : out' = out \o gap \o <<p>>
  /\ dropped_packets' = dropped_packets + ndropped
  /\ packet_count' = packet_count + ndropped + 1
  /\ expected' = p + 1
  /\ phase' = IF packet_count' < PacketsToRead THEN "capture" ELSE "done"
  /\ UNCHANGED <<digitiserVars, first>>

(* The null pointer is read: the program dies in the middle of the gap.    *)
FillerCrashes(p) ==
  LET ndropped == p - expected IN
  /\ phase = "capture"
  /\ p > expected
  /\ ~Fit
  /\ Receive(p)
  /\ \E n \in 0..ndropped - 1 : \E gap \in Fillers(n) : out' = out \o gap
  /\ dropped_packets' = dropped_packets + ndropped
  /\ phase' = "failed"
  /\ UNCHANGED <<digitiserVars, expected, packet_count, first>>

(* Variant: a late packet is written all the same.                         *)
DiscardWrites(p) ==
  /\ phase = "capture"
  /\ 0 < p /\ p < expected
  /\ Receive(p)
  /\ out' = Append(out, p)
  /\ packet_count' = packet_count + 1
  /\ UNCHANGED <<digitiserVars, phase, expected, dropped_packets, first>>

Discard(p) ==
  /\ phase = "capture"
  /\ 0 < p /\ p < expected
  /\ Receive(p)
  /\ UNCHANGED <<digitiserVars, captureVars>>

(* Frame counter 0 out of sequence: the observation is given up.           *)
GiveUp ==
  /\ phase = "capture"
  /\ 0 < expected
  /\ Receive(0)
  /\ phase' = "done"
  /\ UNCHANGED <<digitiserVars, expected, packet_count, dropped_packets,
                 first, out>>

Reader ==
  \/ WaitStray \/ CaptureStray \/ GiveUp
  \/ \E i \in 1..Len(net) :
       LET p == net[i] IN
         \/ WaitOn(p) \/ StartWith(p) \/ StartFails(p)
         \/ Write(p) \/ FillerCrashes(p) \/ Discard(p)

Next == Send \/ Reset \/ Lose \/ AddStray \/ Reader

Spec == Init /\ [][Next]_vars

-----------------------------------------------------------------------------
(* Properties.                                                             *)

(* Every variable keeps its type.                                          *)
TypeOK ==
  /\ next \in Nat
  /\ resets \in Nat
  /\ net \in Seq(Nat \cup {Stray})
  /\ clean \in 0..RingSize
  /\ phase \in {"waiting", "capture", "done", "failed"}
  /\ expected \in Nat
  /\ packet_count \in Nat
  /\ dropped_packets \in Nat
  /\ first \in Nat
  /\ out \in Seq(Nat \cup {Filler, Junk})

(* The first i writes had the size of a heap each, so they are i slots of  *)
(* the stream.                                                             *)
Whole(i) == \A j \in 1..i : out[j] # Junk

(* Whatever the network does, every heap is written to the slot its frame  *)
(* counter gives it, counted from the one the start time in the header is  *)
(* for (roach2_udpdb.c:13-14), as far as every filler before it was a      *)
(* packet; what main() expects is the slot it believes to be at.           *)
Aligned ==
  /\ \A i \in 1..Len(out) : Whole(i) => out[i] \in {Filler, first + i - 1}
  /\ phase \in {"capture", "done"} => expected = first + Len(out)

FillerSlots == {i \in 1..Len(out) : out[i] = Filler}

(* Where every filler was a packet, the monitor shows what was written: so *)
(* many slots, of which so many are fillers (lines 499-512).  Where one    *)
(* was not, the writes are counted and the slots are not known.            *)
CountsAreTrue ==
  phase \in {"capture", "done"} /\ Whole(Len(out)) =>
    /\ packet_count = Len(out)
    /\ dropped_packets = Cardinality(FillerSlots)

(* The capture is a DADA stream that is well-formed for its reader until a *)
(* gap is met while a slot of the ring holds no packet.                    *)
Slot(i) == IF ~Whole(i) THEN "misplaced"
           ELSE IF out[i] = Filler THEN "filler"
           ELSE IF out[i] = first + i - 1 THEN "data"
           ELSE "misplaced"
Broken == ~Whole(Len(out)) \/ (phase = "failed" /\ out # <<>>)
Stream == INSTANCE DadaStream WITH
            stream   <- [i \in 1..Len(out) |-> Slot(i)],
            eod      <- phase = "done",
            broken   <- Broken,
            fillable <- Fit
ImplementsStream == Stream!Spec

(* While main() waits for the reset it does not count more packets as      *)
(* dropped or read than the digitiser has sent (line 331: "this helps      *)
(* track lost packets...").                                                *)
LossIsReal ==
  phase = "waiting" /\ resets = 0 => dropped_packets + packet_count < next
=============================================================================
