----------------------------- MODULE PacketRing -----------------------------
(***************************************************************************)
(* roach2_udpdb: the ring of packet slots between socket_receive_thread    *)
(* and main().                                                             *)
(*                                                                         *)
(* The socket thread receives packet number n into slot n % N and then     *)
(* publishes it in buffer_write_position, whether or not main() has done   *)
(* with that slot.  main() takes the slot of its read position, decodes    *)
(* the header where it lies and later copies the data from there.  The     *)
(* slots themselves are not protected: a slot is two parts, written one    *)
(* after the other in either order, and main() reads each as it finds it.  *)
(*                                                                         *)
(* Packets are numbered as they are received.  taken, torn and first_lag   *)
(* are history variables: no action reads them.                            *)
(***************************************************************************)
EXTENDS Integers, FiniteSets

CONSTANTS
  N,            \* NUM_PACKET_BUFFERS
  MaxPackets    \* bound on the packets received

ASSUME SizeAssumption == N \in Nat \ {0}
ASSUME PacketsAssumption == MaxPackets \in Nat

VARIABLES
  slots,                  \* buffer: which packet each part of a slot is of
  buffer_write_position,
  arrived,                \* the parts recv has written of the next packet
  buffer_read_position,
  buffer_lag,
  max_buffer_lag,
  number_of_overruns,
  phase,                  \* what main() does with the packet it took
  capturing,              \* TRUE once main() has started to write
  at,                     \* the position it took it at
  header,                 \* the packet whose header it decoded
  filler,                 \* the packet it last filled a gap with
  taken,                  \* the positions taken since the counters were reset
  torn,                   \* those whose slot held another packet in the end
  first_lag               \* the lag the first packet written was taken with

socketVars  == <<slots, buffer_write_position, arrived>>
monitorVars == <<buffer_lag, max_buffer_lag, number_of_overruns>>
historyVars == <<taken, torn, first_lag>>
vars == <<socketVars, buffer_read_position, monitorVars, phase, capturing, at,
          header, filler, historyVars>>

Parts == {"header", "data"}
Unwritten == -1
Ignored == -2       \* one of the 100000 packets received before the first
Nothing == -3       \* no filler yet

(* The socket thread has ignored its first packets, all put into slot 0.   *)
Init ==
  /\ slots = [i \in 0..N-1 |->
                [q \in Parts |-> IF i = 0 THEN Ignored ELSE Unwritten]]
  /\ buffer_write_position = 0
  /\ arrived = {}
  /\ buffer_read_position = 0
  /\ buffer_lag = 0
  /\ max_buffer_lag = 0
  /\ number_of_overruns = 0
  /\ phase = "get"
  /\ capturing = FALSE
  /\ at = 0
  /\ header = Unwritten
  /\ filler = Nothing
  /\ taken = {}
  /\ torn = {}
  /\ first_lag = 0

-----------------------------------------------------------------------------
(* The socket thread.  A recv that fails or times out changes nothing.     *)

(* Variant: the last slot of the ring is not used.                         *)
RecvShort(q) ==
  /\ buffer_write_position < MaxPackets
  /\ q \in Parts \ arrived
  /\ slots' = [slots EXCEPT ![buffer_write_position % (N - 1)][q] =
                              buffer_write_position]
  /\ arrived' = arrived \cup {q}
  /\ UNCHANGED <<buffer_write_position, buffer_read_position, monitorVars,
                 phase, capturing, at, header, filler, historyVars>>

Recv(q) ==
  /\ buffer_write_position < MaxPackets
  /\ q \in Parts \ arrived
  /\ slots' = [slots EXCEPT ![buffer_write_position % N][q] =
                              buffer_write_position]
  /\ arrived' = arrived \cup {q}
  /\ UNCHANGED <<buffer_write_position, buffer_read_position, monitorVars,
                 phase, capturing, at, header, filler, historyVars>>

(* Variant: the position is published before recv has returned.            *)
PublishEarly ==
  /\ arrived # {}
  /\ buffer_write_position' = buffer_write_position + 1
  /\ arrived' = {}
  /\ UNCHANGED <<slots, buffer_read_position, monitorVars, phase, capturing,
                 at, header, filler, historyVars>>

Publish ==
  /\ arrived = Parts
  /\ buffer_write_position' = buffer_write_position + 1
  /\ arrived' = {}
  /\ UNCHANGED <<slots, buffer_read_position, monitorVars, phase, capturing,
                 at, header, filler, historyVars>>

-----------------------------------------------------------------------------
(* main().                                                                 *)

(* Variant: it does not wait for a packet.                                 *)
GetNextAtOnce ==
  LET lag     == buffer_write_position - buffer_read_position
      overrun == lag \div N IN
  /\ phase = "get"
  /\ buffer_lag' = lag
  /\ max_buffer_lag' = IF lag > max_buffer_lag THEN lag ELSE max_buffer_lag
  /\ number_of_overruns' = number_of_overruns + overrun
  /\ at' = buffer_read_position + overrun * N
  /\ buffer_read_position' = at' + 1
  /\ taken' = taken \cup {at'}
  /\ phase' = "decode"
  /\ UNCHANGED <<socketVars, capturing, header, filler, torn, first_lag>>

(* Variant: an overrun by several laps counts as one.                      *)
GetNextCountsOne ==
  LET lag     == buffer_write_position - buffer_read_position
      overrun == lag \div N IN
  /\ phase = "get"
  /\ lag > 0
  /\ buffer_lag' = lag
  /\ max_buffer_lag' = IF lag > max_buffer_lag THEN lag ELSE max_buffer_lag
  /\ number_of_overruns' = number_of_overruns + (IF overrun > 0 THEN 1 ELSE 0)
  /\ at' = buffer_read_position + overrun * N
  /\ buffer_read_position' = at' + 1
  /\ taken' = taken \cup {at'}
  /\ phase' = "decode"
  /\ UNCHANGED <<socketVars, capturing, header, filler, torn, first_lag>>

(* get_next_packet_buffer, which waits for a packet.  The write position   *)
(* only grows, so that its several reads in there are as good as the last. *)
GetNext ==
  LET lag     == buffer_write_position - buffer_read_position
      overrun == lag \div N IN
  /\ phase = "get"
  /\ lag > 0
  /\ buffer_lag' = lag
  /\ max_buffer_lag' = IF lag > max_buffer_lag THEN lag ELSE max_buffer_lag
  /\ number_of_overruns' = number_of_overruns + overrun
  /\ at' = buffer_read_position + overrun * N
  /\ buffer_read_position' = at' + 1
  /\ taken' = taken \cup {at'}
  /\ phase' = "decode"
  /\ UNCHANGED <<socketVars, capturing, header, filler, torn, first_lag>>

(* decode_roach2_spead_packet reads the header and points to the data.     *)
Decode ==
  /\ phase = "decode"
  /\ header' = slots[at % N]["header"]
  /\ phase' = "use"
  /\ UNCHANGED <<socketVars, buffer_read_position, monitorVars, capturing, at,
                 filler, historyVars>>

(* The packet is not written: it is waited on, foreign or late.            *)
Leave ==
  /\ phase = "use"
  /\ phase' = "get"
  /\ UNCHANGED <<socketVars, buffer_read_position, monitorVars, capturing, at,
                 header, filler, historyVars>>

(* The wait is over: the counters are reset, that of the lag this packet   *)
(* was taken with too, and the header of the stream is written.            *)
StartCapture ==
  /\ phase = "use"
  /\ ~capturing
  /\ capturing' = TRUE
  /\ max_buffer_lag' = 0
  /\ number_of_overruns' = 0
  /\ taken' = {at}
  /\ torn' = {}
  /\ first_lag' = buffer_lag
  /\ phase' = "first"
  /\ UNCHANGED <<socketVars, buffer_read_position, buffer_lag, at, header,
                 filler>>

(* A gap before this packet is filled from some slot of the ring.          *)
Fill(i) ==
  /\ phase = "use"
  /\ capturing
  /\ filler' = slots[i]["header"]
  /\ UNCHANGED <<socketVars, buffer_read_position, monitorVars, phase,
                 capturing, at, header, historyVars>>

(* The data of the packet are copied to the stream.                        *)
Copy ==
  /\ phase = "first" \/ (phase = "use" /\ capturing)
  /\ torn' = IF header = at /\ slots[at % N]["data"] = at
             THEN torn ELSE torn \cup {at}
  /\ phase' = "get"
  /\ UNCHANGED <<socketVars, buffer_read_position, monitorVars, capturing, at,
                 header, filler, taken, first_lag>>

Next ==
  \/ \E q \in Parts : Recv(q)
  \/ Publish
  \/ GetNext \/ Decode \/ Leave \/ StartCapture \/ Copy
  \/ \E i \in 0..N-1 : Fill(i)

Spec == Init /\ [][Next]_vars

-----------------------------------------------------------------------------
(* Properties.                                                             *)

(* Every variable keeps its type.                                          *)
TypeOK ==
  /\ slots \in [0..N-1 -> [Parts -> Nat \cup {Unwritten, Ignored}]]
  /\ buffer_write_position \in Nat
  /\ arrived \subseteq Parts
  /\ buffer_read_position \in Nat
  /\ buffer_lag \in Nat
  /\ max_buffer_lag \in Nat
  /\ number_of_overruns \in Nat
  /\ phase \in {"get", "decode", "use", "first"}
  /\ capturing \in BOOLEAN
  /\ at \in Nat
  /\ header \in Nat \cup {Unwritten, Ignored}
  /\ filler \in Nat \cup {Unwritten, Ignored, Nothing}
  /\ taken \subseteq Nat
  /\ torn \subseteq taken
  /\ first_lag \in Nat

(* What main() copied without a lock can be trusted as long as the lag it  *)
(* reports stays below the size of the ring less one (lines 656-661): a    *)
(* slot that was overwritten between its decoding and its copying shows in *)
(* max_buffer_lag when the next packet is taken, also when it was not      *)
(* counted as an overrun.  The lag with which the first packet was taken   *)
(* is not reported (line 382) and has to be known besides.                 *)
LagTells ==
  (max_buffer_lag < N - 1 /\ first_lag < N - 1) =>
    \A p \in torn : p = at /\ phase = "get"

(* The overruns account for every packet that main() passed over since it  *)
(* started to capture: N packets for each (lines 661-668), which is what   *)
(* the monitor shows next to the size of the ring.                         *)
OverrunsCountLosses ==
  capturing =>
    LET first == CHOOSE p \in taken : \A q \in taken : p <= q IN
    Cardinality((first..at) \ taken) = N * number_of_overruns

(* A gap is filled with "a random packet from the buffer" (lines 503-504): *)
(* once the ring has gone round, that is a packet received not more than a *)
(* lap ago, whether or not one of the protocol (Capture says what follows  *)
(* if not).  Until then it may be a slot nothing was received into.        *)
FillerReceived ==
  [][filler' # filler /\ buffer_write_position >= N =>
       filler' \in buffer_write_position - N .. buffer_write_position]_vars
=============================================================================
