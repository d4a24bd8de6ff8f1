-------------------------- MODULE PacketRingProofs --------------------------
(***************************************************************************)
(* For a ring of any size, and a socket thread of any speed: what main()   *)
(* copies without a lock is whole as long as the lag it reports stays      *)
(* below the size of the ring less one.                                    *)
(***************************************************************************)
EXTENDS PacketRing, FiniteSetTheorems, TLAPS

W == buffer_write_position

(* The parts that have arrived of the next packet are in its slot.         *)
Arriving == \A q \in arrived : slots[W % N][q] = W

(* The last N - 1 packets are whole; the slot of the one before them is    *)
(* the one that is being received into.                                    *)
Held == \A p \in 0..W-1 : W < p + N => \A q \in Parts : slots[p % N][q] = p

(* main() goes on behind the packet it took last.                          *)
Position == phase # "get" \/ torn # {} => buffer_read_position = at + 1

LagShown == max_buffer_lag >= N - 1 \/ first_lag >= N - 1

(* The lag of the packet taken last is reported, or was that of the first. *)
LagKept == buffer_lag <= max_buffer_lag \/ buffer_lag <= first_lag

(* The packet in use is one of those taken.                                *)
InUse == phase # "get" => at \in taken

(* main() is ahead of the socket thread only after a lag of whole laps.    *)
Took == phase # "get" => buffer_lag >= N - 1 \/ at < W

(* A header that is not the expected one means that main() was overtaken.  *)
Decoded ==
  phase \in {"use", "first"} =>
    buffer_lag >= N - 1 \/ at + N <= W \/ header = at

(* So does a torn packet, which the next lag will show.                    *)
TornShown ==
  LagShown \/ \A p \in torn : p = at /\ phase = "get" /\ at + N <= W

IInv ==
  /\ TypeOK
  /\ Arriving
  /\ Held
  /\ Position
  /\ LagKept
  /\ InUse
  /\ Took
  /\ Decoded
  /\ TornShown

LEMMA Size == N \in Nat /\ N > 0
BY SizeAssumption

LEMMA DivMod ==
  ASSUME NEW a \in Nat
  PROVE  /\ a = N * (a \div N) + (a % N)
         /\ a % N \in 0..N-1
         /\ a \div N \in Nat
BY Size, SMTT(30)

(* Two packets that share a slot are at least a lap apart.                 *)
LEMMA ApartInRing ==
  ASSUME NEW a \in Nat, NEW b \in Nat, a < b, b < a + N
  PROVE  a % N # b % N
<1> SUFFICES ASSUME a % N = b % N PROVE FALSE
  OBVIOUS
<1> DEFINE laps == (b \div N) - (a \div N)
<1>1. laps \in Int /\ b - a = N * laps
  BY DivMod, Size
<1>2. b - a \in Nat /\ 0 < b - a /\ b - a < N
  BY Size
<1> HIDE DEF laps
<1>3. laps > 0
  BY <1>1, <1>2, Size
<1>4. N * laps >= N
  BY <1>1, <1>3, Size
<1> QED
  BY <1>1, <1>2, <1>4, Size

(* A lap later it is the same slot again.                                  *)
LEMMA SameSlot ==
  ASSUME NEW a \in Nat
  PROVE  (a + N) % N = a % N
<1> DEFINE b == a + N
           laps == (b \div N) - (a \div N) - 1
<1>1. b \in Nat
  BY Size
<1>2. /\ laps \in Int
      /\ (a % N) - (b % N) = N * laps
      /\ a % N \in 0..N-1 /\ b % N \in 0..N-1
  BY <1>1, DivMod, Size
<1> HIDE DEF laps, b
<1>3. laps >= 1 => N * laps >= N
  BY <1>2, Size
<1>4. laps <= -1 => N * laps <= -N
  BY <1>2, Size
<1>5. N * 0 = 0
  BY Size
<1>6. laps = 0
  BY <1>2, <1>3, <1>4, Size
<1> QED
  BY <1>2, <1>5, <1>6, Size DEF b

LEMMA InitIInv == Init => IInv
<1> SUFFICES ASSUME Init PROVE IInv
  OBVIOUS
<1>1. TypeOK
  BY DEF Init, TypeOK, Parts, Unwritten, Ignored, Nothing
<1>2. Arriving /\ Held /\ Position /\ LagKept /\ InUse /\ Took /\ Decoded /\ TornShown
  BY DEF Init, Arriving, Held, Position, LagKept, InUse, Took, Decoded, TornShown, W
<1> QED
  BY <1>1, <1>2 DEF IInv

LEMMA RecvIInv ==
  ASSUME IInv, NEW q \in Parts, Recv(q)
  PROVE  IInv'
<1>1. /\ W \in Nat /\ W % N \in 0..N-1
      /\ slots \in [0..N-1 -> [Parts -> Nat \cup {Unwritten, Ignored}]]
      /\ arrived \subseteq Parts
  BY DivMod DEF IInv, TypeOK, W
<1>2. /\ slots' = [slots EXCEPT ![W % N][q] = W]
      /\ arrived' = arrived \cup {q} /\ q \in Parts
      /\ W' = W
      /\ UNCHANGED <<buffer_read_position, monitorVars, phase, capturing, at,
                     header, filler, historyVars>>
  BY DEF Recv, W
<1>3. slots' \in [0..N-1 -> [Parts -> Nat \cup {Unwritten, Ignored}]]
  BY <1>1, <1>2
<1>4. /\ slots'[W % N][q] = W
      /\ \A r \in Parts : r # q => slots'[W % N][r] = slots[W % N][r]
      /\ \A i \in 0..N-1 : i # W % N => slots'[i] = slots[i]
  BY <1>1, <1>2
<1>5. TypeOK'
  <2>1. UNCHANGED buffer_write_position
    BY <1>2 DEF W
  <2> QED
    BY <1>1, <1>2, <1>3, <2>1 DEF IInv, TypeOK, monitorVars, historyVars
<1>6. Arriving'
  BY <1>1, <1>2, <1>4 DEF IInv, Arriving
<1>7. Held'
  <2>1. ASSUME NEW p \in 0..W-1, W < p + N
        PROVE  slots'[p % N] = slots[p % N]
    <3>1. p \in Nat /\ p < W
      BY <1>1
    <3>2. p % N # W % N
      BY <1>1, <2>1, <3>1, ApartInRing
    <3>3. p % N \in 0..N-1
      BY <3>1, DivMod
    <3> QED
      BY <1>4, <3>2, <3>3
  <2> QED
    BY <1>2, <2>1 DEF IInv, Held
<1>8. Position' /\ LagKept' /\ InUse' /\ Took' /\ Decoded' /\ TornShown'
  BY <1>2 DEF IInv, Position, LagKept, InUse, Took, Decoded, TornShown, LagShown, monitorVars,
              historyVars
<1> QED
  BY <1>5, <1>6, <1>7, <1>8 DEF IInv

LEMMA PublishIInv ==
  ASSUME IInv, Publish
  PROVE  IInv'
<1>1. W \in Nat /\ W' = W + 1 /\ at \in Nat /\ N \in Nat
  BY Size DEF IInv, TypeOK, Publish, W
<1>2. TypeOK'
  BY DEF IInv, TypeOK, Publish, monitorVars, historyVars
<1>3. Arriving'
  BY DEF Publish, Arriving
<1>4. Held'
  <2>1. ASSUME NEW p \in 0..W'-1, W' < p + N, NEW q \in Parts
        PROVE  slots'[p % N][q] = p
    <3>1. CASE p = W
      BY <3>1 DEF Publish, IInv, Arriving
    <3>2. CASE p # W
      <4>1. p \in 0..W-1 /\ W < p + N
        BY <1>1, <2>1, <3>2
      <4> QED
        BY <4>1 DEF Publish, IInv, Held
    <3> QED
      BY <3>1, <3>2
  <2> QED
    BY <2>1 DEF Held
<1>5. Position' /\ LagKept' /\ InUse' /\ Took' /\ Decoded' /\ TornShown'
  BY <1>1 DEF IInv, Publish, Position, LagKept, InUse, Took, Decoded, TornShown, LagShown,
              monitorVars, historyVars
<1> QED
  BY <1>2, <1>3, <1>4, <1>5 DEF IInv

LEMMA GetNextIInv ==
  ASSUME IInv, GetNext
  PROVE  IInv'
<1> DEFINE lag == W - buffer_read_position
<1>1. /\ W \in Nat /\ buffer_read_position \in Nat /\ max_buffer_lag \in Nat
      /\ number_of_overruns \in Nat /\ at \in Nat /\ lag \in Nat /\ lag > 0
      /\ first_lag \in Nat
  BY DEF IInv, TypeOK, GetNext, W
<1>2. /\ phase = "get" /\ phase' = "decode"
      /\ buffer_lag' = lag
      /\ max_buffer_lag' = IF lag > max_buffer_lag THEN lag ELSE max_buffer_lag
      /\ number_of_overruns' = number_of_overruns + lag \div N
      /\ at' = buffer_read_position + (lag \div N) * N
      /\ buffer_read_position' = at' + 1
      /\ taken' = taken \cup {at'}
      /\ UNCHANGED <<socketVars, capturing, header, filler, torn, first_lag>>
  BY DEF GetNext, W
<1> HIDE DEF lag
<1>3. /\ lag \div N \in Nat
      /\ lag = N * (lag \div N) + (lag % N)
      /\ lag % N \in 0..N-1
  BY <1>1, DivMod
<1>4. at' \in Nat /\ max_buffer_lag' \in Nat
      /\ max_buffer_lag' >= max_buffer_lag /\ max_buffer_lag' >= lag
  BY <1>1, <1>2, <1>3, Size
<1>5. W' = W /\ slots' = slots /\ arrived' = arrived
  BY <1>2 DEF socketVars, W
<1>6. TypeOK'
  <2>1. number_of_overruns' \in Nat /\ buffer_lag' \in Nat
        /\ buffer_read_position' \in Nat
    BY <1>1, <1>2, <1>3, <1>4
  <2>2. taken' \subseteq Nat /\ torn' \subseteq taken'
    BY <1>2, <1>4 DEF IInv, TypeOK
  <2>3. UNCHANGED <<buffer_write_position, capturing, header, filler,
                    first_lag>> /\ phase' = "decode"
    BY <1>2 DEF socketVars
  <2> QED
    BY <1>4, <1>5, <2>1, <2>2, <2>3 DEF IInv, TypeOK
<1>7. Arriving' /\ Held'
  BY <1>5 DEF IInv, Arriving, Held
<1>8. Position' /\ LagKept' /\ InUse' /\ Decoded'
  BY <1>2, <1>4 DEF Position, LagKept, InUse, Decoded
<1>9. Took'
  <2>1. CASE lag < N
    <3>1. lag \div N = 0
      BY <1>1, <1>3, <2>1, Size
    <3>2. at' = buffer_read_position
      BY <1>1, <1>2, <3>1, Size
    <3> QED
      BY <1>1, <1>5, <3>2 DEF Took, lag
  <2>2. CASE lag >= N
    BY <1>1, <1>2, <2>2, Size DEF Took
  <2> QED
    BY <1>1, <2>1, <2>2, Size
<1>10. TornShown'
  <2>1. CASE LagShown
    BY <1>1, <1>2, <1>4, <2>1, Size DEF TornShown, LagShown
  <2>2. CASE ~LagShown /\ torn = {}
    BY <1>2, <2>2 DEF TornShown
  <2>3. CASE ~LagShown /\ torn # {}
    <3>1. at + N <= W /\ buffer_read_position = at + 1
      BY <2>3 DEF IInv, TornShown, Position
    <3>2. lag >= N - 1
      BY <1>1, <3>1, Size DEF lag
    <3> QED
      BY <1>1, <1>4, <3>2, Size DEF TornShown, LagShown
  <2> QED
    BY <2>1, <2>2, <2>3
<1> QED
  BY <1>6, <1>7, <1>8, <1>9, <1>10 DEF IInv

(* While main() is behind by less than a lap its slot holds its packet.    *)
LEMMA SlotHolds ==
  ASSUME IInv, phase # "get", NEW q \in Parts
  PROVE  buffer_lag >= N - 1 \/ at + N <= W \/ slots[at % N][q] = at
<1>1. at \in Nat /\ W \in Nat /\ N \in Nat
  BY Size DEF IInv, TypeOK, W
<1> SUFFICES ASSUME at < W, W < at + N
             PROVE  slots[at % N][q] = at
  BY <1>1 DEF IInv, Took
<1>2. at \in 0..W-1
  BY <1>1
<1> QED
  BY <1>2 DEF IInv, Held

LEMMA DecodeIInv ==
  ASSUME IInv, Decode
  PROVE  IInv'
<1>1. /\ at \in Nat /\ at % N \in 0..N-1
      /\ slots[at % N]["header"] \in Nat \cup {Unwritten, Ignored}
      /\ "header" \in Parts
  BY DivMod DEF IInv, TypeOK, Parts
<1>2. /\ phase = "decode" /\ phase' = "use"
      /\ header' = slots[at % N]["header"]
      /\ UNCHANGED <<socketVars, buffer_read_position, monitorVars, capturing,
                     at, filler, historyVars>>
  BY DEF Decode
<1>3. W' = W /\ slots' = slots /\ arrived' = arrived
  BY <1>2 DEF socketVars, W
<1>4. TypeOK'
  BY <1>1, <1>2 DEF IInv, TypeOK, socketVars, monitorVars, historyVars
<1>5. Arriving' /\ Held'
  BY <1>3 DEF IInv, Arriving, Held
<1>6. Position' /\ LagKept' /\ InUse' /\ Took' /\ TornShown'
  BY <1>2, <1>3 DEF IInv, Position, LagKept, InUse, Took, TornShown, LagShown, monitorVars,
                    historyVars
<1>7. Decoded'
  <2>1. buffer_lag >= N - 1 \/ at + N <= W \/ slots[at % N]["header"] = at
    BY <1>1, <1>2, SlotHolds
  <2> QED
    BY <1>2, <1>3, <2>1 DEF Decoded, monitorVars
<1> QED
  BY <1>4, <1>5, <1>6, <1>7 DEF IInv

LEMMA StartCaptureIInv ==
  ASSUME IInv, StartCapture
  PROVE  IInv'
<1>1. /\ phase = "use" /\ phase' = "first"
      /\ max_buffer_lag' = 0 /\ number_of_overruns' = 0
      /\ capturing' = TRUE /\ taken' = {at} /\ torn' = {}
      /\ first_lag' = buffer_lag
      /\ UNCHANGED <<socketVars, buffer_read_position, buffer_lag, at, header,
                     filler>>
  BY DEF StartCapture
<1>2. TypeOK'
  BY <1>1 DEF IInv, TypeOK, socketVars
<1>3. W' = W /\ slots' = slots /\ arrived' = arrived
  BY <1>1 DEF socketVars, W
<1>4. Arriving' /\ Held'
  BY <1>3 DEF IInv, Arriving, Held
<1>5. Position' /\ InUse' /\ Took' /\ Decoded' /\ TornShown'
  BY <1>1, <1>3 DEF IInv, Position, InUse, Took, Decoded, TornShown
<1>6. LagKept'
  <2>1. buffer_lag' \in Nat /\ buffer_lag' = first_lag'
    BY <1>1, <1>2 DEF TypeOK
  <2> QED
    BY <2>1 DEF LagKept
<1> QED
  BY <1>2, <1>4, <1>5, <1>6 DEF IInv

LEMMA LeaveIInv ==
  ASSUME IInv, Leave
  PROVE  IInv'
<1>1. /\ phase = "use" /\ phase' = "get"
      /\ UNCHANGED <<socketVars, buffer_read_position, monitorVars, capturing,
                     at, header, filler, historyVars>>
  BY DEF Leave
<1>2. W' = W /\ slots' = slots /\ arrived' = arrived
  BY <1>1 DEF socketVars, W
<1>3. TypeOK'
  BY <1>1 DEF IInv, TypeOK, socketVars, monitorVars, historyVars
<1>4. Arriving' /\ Held'
  BY <1>2 DEF IInv, Arriving, Held
<1>5. Position' /\ LagKept' /\ InUse' /\ Took' /\ Decoded'
  BY <1>1, <1>2 DEF IInv, Position, LagKept, InUse, Took, Decoded, monitorVars,
                    historyVars
<1>6. TornShown'
  BY <1>1, <1>2 DEF IInv, TornShown, LagShown, monitorVars, historyVars
<1> QED
  BY <1>3, <1>4, <1>5, <1>6 DEF IInv

LEMMA FillIInv ==
  ASSUME IInv, NEW i \in 0..N-1, Fill(i)
  PROVE  IInv'
<1>1. /\ filler' = slots[i]["header"] /\ "header" \in Parts
      /\ UNCHANGED <<socketVars, buffer_read_position, monitorVars, phase,
                     capturing, at, header, historyVars>>
  BY DEF Fill, Parts
<1>2. W' = W /\ slots' = slots /\ arrived' = arrived
  BY <1>1 DEF socketVars, W
<1>3. slots[i]["header"] \in Nat \cup {Unwritten, Ignored}
  BY <1>1 DEF IInv, TypeOK
<1>4. TypeOK'
  BY <1>1, <1>3 DEF IInv, TypeOK, socketVars, monitorVars, historyVars
<1>5. Arriving' /\ Held'
  BY <1>2 DEF IInv, Arriving, Held
<1>6. Position' /\ LagKept' /\ InUse' /\ Took' /\ Decoded' /\ TornShown'
  BY <1>1, <1>2 DEF IInv, Position, LagKept, InUse, Took, Decoded, TornShown, LagShown,
                    monitorVars, historyVars
<1> QED
  BY <1>4, <1>5, <1>6 DEF IInv

LEMMA CopyIInv ==
  ASSUME IInv, Copy
  PROVE  IInv'
<1>1. /\ phase \in {"use", "first"} /\ phase' = "get"
      /\ \/ torn' = torn /\ header = at /\ slots[at % N]["data"] = at
         \/ /\ torn' = torn \cup {at}
            /\ header # at \/ slots[at % N]["data"] # at
      /\ UNCHANGED <<socketVars, buffer_read_position, monitorVars, capturing,
                     at, header, filler, taken, first_lag>>
  BY DEF Copy
<1>2. W' = W /\ slots' = slots /\ arrived' = arrived
  BY <1>1 DEF socketVars, W
<1>3. TypeOK'
  <2>1. torn' \subseteq taken'
    BY <1>1 DEF IInv, TypeOK, InUse
  <2> QED
    BY <1>1, <2>1 DEF IInv, TypeOK, socketVars, monitorVars
<1>4. Arriving' /\ Held'
  BY <1>2 DEF IInv, Arriving, Held
<1>5. Position' /\ LagKept' /\ InUse' /\ Took' /\ Decoded'
  BY <1>1 DEF IInv, Position, LagKept, InUse, Took, Decoded, monitorVars
<1>6. TornShown'
  <2>1. CASE LagShown
    BY <1>1, <2>1 DEF TornShown, LagShown, monitorVars
  <2>2. CASE ~LagShown
    <3>1. torn = {}
      BY <1>1, <2>2 DEF IInv, TornShown
    <3>2. buffer_lag < N - 1
      BY <2>2, Size DEF IInv, TypeOK, LagKept, LagShown
    <3>3. buffer_lag \in Nat
      BY DEF IInv, TypeOK
    <3>4. at + N <= W \/ (header = at /\ slots[at % N]["data"] = at)
      <4>1. at + N <= W \/ slots[at % N]["data"] = at
        BY <1>1, <3>2, <3>3, Size, SlotHolds DEF Parts
      <4> QED
        BY <1>1, <3>2, <3>3, <4>1, Size DEF IInv, Decoded
    <3> QED
      BY <1>1, <1>2, <3>1, <3>4 DEF TornShown
  <2> QED
    BY <2>1, <2>2
<1> QED
  BY <1>3, <1>4, <1>5, <1>6 DEF IInv

LEMMA NextIInv ==
  ASSUME IInv, [Next]_vars
  PROVE  IInv'
<1>1. CASE UNCHANGED vars
  BY <1>1 DEF IInv, TypeOK, Arriving, Held, Position, LagKept, InUse, Took,
              Decoded, TornShown, LagShown, W, vars, socketVars, monitorVars,
              historyVars
<1>2. CASE \E q \in Parts : Recv(q)
  BY <1>2, RecvIInv
<1>3. CASE \E i \in 0..N-1 : Fill(i)
  BY <1>3, FillIInv
<1> QED
  BY <1>1, <1>2, <1>3, PublishIInv, GetNextIInv, DecodeIInv, LeaveIInv,
     StartCaptureIInv, CopyIInv DEF Next

(* The invariant of the ring.                                              *)
THEOREM Invariance == Spec => []IInv
<1>1. Init => IInv
  BY InitIInv
<1>2. IInv /\ [Next]_vars => IInv'
  BY NextIInv
<1> QED
  BY <1>1, <1>2, PTL DEF Spec

(* Every variable keeps its type; the positions and the count of overruns  *)
(* never leave Nat.                                                        *)
THEOREM TypeCorrectness == Spec => []TypeOK
<1>1. IInv => TypeOK
  BY DEF IInv
<1> QED
  BY <1>1, Invariance, PTL

(* For every size of the ring: a packet that was overwritten while main()  *)
(* used it shows in max_buffer_lag as soon as the next one is taken.       *)
THEOREM LagSafety == Spec => []LagTells
<1>1. IInv => LagTells
  BY Size DEF IInv, TypeOK, TornShown, LagShown, LagTells
<1> QED
  BY <1>1, Invariance, PTL

(* The header in a slot that has been received into is of a packet of that *)
(* slot, and of the last lap.                                              *)
OfSlot(i) ==
  LET p == slots[i]["header"]
  IN p \in Nat /\ p % N = i /\ p <= W /\ W <= p + N
Lap == \A i \in 0..N-1 : i < W => OfSlot(i)

LEMMA RecvLap ==
  ASSUME IInv, Lap, NEW q \in Parts, Recv(q)
  PROVE  Lap'
<1>1. W \in Nat /\ W % N \in 0..N-1 /\ W' = W
  BY DivMod DEF IInv, TypeOK, Recv, W
<1>2. slots' = [slots EXCEPT ![W % N][q] = W]
  BY DEF Recv, W
<1> SUFFICES ASSUME NEW i \in 0..N-1, i < W PROVE OfSlot(i)'
  BY <1>1 DEF Lap
<1>3. slots[i] \in [Parts -> Nat \cup {Unwritten, Ignored}] /\ "header" \in Parts
  BY DEF IInv, TypeOK, Parts
<1>4. CASE i = W % N /\ q = "header"
  <2>1. slots'[i]["header"] = W
    BY <1>1, <1>2, <1>3, <1>4 DEF IInv, TypeOK
  <2> QED
    BY <1>1, <1>4, <2>1, Size DEF OfSlot
<1>5. CASE ~(i = W % N /\ q = "header")
  <2>1. slots'[i]["header"] = slots[i]["header"]
    BY <1>1, <1>2, <1>3, <1>5 DEF IInv, TypeOK
  <2> QED
    BY <1>1, <2>1 DEF Lap, OfSlot
<1> QED
  BY <1>4, <1>5

LEMMA PublishLap ==
  ASSUME IInv, Lap, Publish
  PROVE  Lap'
<1>1. W \in Nat /\ W' = W + 1 /\ slots' = slots /\ slots[W % N]["header"] = W
  BY DEF IInv, TypeOK, Arriving, Publish, W, Parts
<1> SUFFICES ASSUME NEW i \in 0..N-1, i < W + 1 PROVE OfSlot(i)'
  BY <1>1 DEF Lap
<1> DEFINE p == slots[i]["header"]
<1>2. i = W => i = W % N
  BY <1>1, Size, SMTT(30)
<1>3. CASE i = W % N
  BY <1>1, <1>3, Size DEF OfSlot
<1>4. CASE i # W % N
  <2>1. p \in Nat /\ p % N = i /\ p <= W /\ W <= p + N
    BY <1>1, <1>2, <1>4, Size DEF Lap, OfSlot
  <2>2. p + N # W
    <3>1. (p + N) % N = p % N
      BY <2>1, SameSlot
    <3> QED
      BY <2>1, <3>1, <1>4
  <2>3. W + 1 <= p + N /\ p <= W + 1
    BY <1>1, <2>1, <2>2, Size
  <2> HIDE DEF p
  <2>4. p \in Nat /\ p % N = i /\ p <= W + 1 /\ W + 1 <= p + N
    BY <2>1, <2>3
  <2> QED
    BY <1>1, <2>4 DEF OfSlot, p
<1> QED
  BY <1>3, <1>4

LEMMA NextLap ==
  ASSUME IInv, Lap, [Next]_vars
  PROVE  Lap'
<1>1. CASE \E q \in Parts : Recv(q)
  BY <1>1, RecvLap
<1>2. CASE UNCHANGED socketVars
  BY <1>2 DEF Lap, OfSlot, W, socketVars
<1> QED
  BY <1>1, <1>2, PublishLap
     DEF Next, vars, GetNext, Decode, Leave, StartCapture, Copy, Fill

(* For every size of the ring: once it has gone round, a gap is filled     *)
(* with a packet of the last lap.                                          *)
THEOREM FillerSafety == Spec => FillerReceived
<1> DEFINE LInv == IInv /\ Lap
    FillerStep == filler' # filler /\ buffer_write_position >= N =>
       filler' \in buffer_write_position - N .. buffer_write_position
<1>1. Init => LInv
  BY InitIInv, Size DEF Init, Lap, W
<1>2. LInv /\ [Next]_vars => LInv'
  BY NextIInv, NextLap
<1>3. LInv /\ [Next]_vars => [FillerStep]_vars
  <2> SUFFICES ASSUME LInv, Next, filler' # filler, W >= N
               PROVE  filler' \in W - N .. W
    BY DEF W
  <2>1. PICK i \in 0..N-1 : filler' = slots[i]["header"]
    BY DEF Next, Recv, Publish, GetNext, Decode, Leave, StartCapture, Copy,
           Fill
  <2>2. W \in Nat /\ i < W
    BY Size DEF IInv, TypeOK, W
  <2> QED
    BY <2>1, <2>2, Size DEF Lap, OfSlot
<1> QED
  BY <1>1, <1>2, <1>3, PTL DEF Spec, FillerReceived

-----------------------------------------------------------------------------
(* The positions passed over since the first that was taken: main() goes   *)
(* on behind the one it took last, and what it skips is whole laps.        *)
Missed(f) == (f..at) \ taken

CountedFrom(f) ==
  /\ taken \subseteq f..at
  /\ IsFiniteSet(Missed(f))
  /\ Cardinality(Missed(f)) = N * number_of_overruns

Counted ==
  capturing =>
    /\ buffer_read_position = at + 1
    /\ \E f \in taken : CountedFrom(f)

LEMMA StartCounted ==
  ASSUME IInv, StartCapture
  PROVE  Counted'
<1>1. /\ at' = at /\ taken' = {at} /\ number_of_overruns' = 0
      /\ buffer_read_position' = buffer_read_position
      /\ buffer_read_position = at + 1 /\ at \in Nat
  BY DEF StartCapture, IInv, TypeOK, Position
<1>2. at..at = {at}
  BY <1>1
<1>3. Missed(at)' = {} /\ taken' \subseteq at..at'
  BY <1>1, <1>2 DEF Missed
<1>4. CountedFrom(at)'
  BY <1>1, <1>3, FS_EmptySet, Size DEF CountedFrom
<1> QED
  BY <1>1, <1>4 DEF Counted

LEMMA GetNextCounted ==
  ASSUME IInv, Counted, GetNext
  PROVE  Counted'
<1> DEFINE laps == (W - buffer_read_position) \div N
<1>1. /\ at \in Nat /\ W - buffer_read_position \in Nat
      /\ number_of_overruns \in Nat /\ taken \subseteq Nat
  BY DEF IInv, TypeOK, GetNext, W
<1>2. laps \in Nat /\ N * laps \in Nat /\ laps * N = N * laps
  BY <1>1, DivMod, Size
<1>3. /\ at' = buffer_read_position + laps * N
      /\ buffer_read_position' = at' + 1
      /\ number_of_overruns' = number_of_overruns + laps
      /\ taken' = taken \cup {at'} /\ capturing' = capturing
  BY DEF GetNext, W
<1> HIDE DEF laps
<1> SUFFICES ASSUME capturing PROVE \E f \in taken' : CountedFrom(f)'
  BY <1>3 DEF Counted
<1>4. PICK f \in taken : CountedFrom(f)
  BY DEF Counted
<1> DEFINE skipped == at + 1 .. at + N * laps
<1>5. at' = at + 1 + N * laps
  BY <1>1, <1>2, <1>3 DEF Counted
<1>6. f \in Nat /\ f <= at /\ taken \subseteq f..at
  BY <1>1, <1>4 DEF CountedFrom
<1>7. /\ IsFiniteSet(skipped)
      /\ Cardinality(skipped) = N * laps
  <2> DEFINE k == N * laps
             a == at + 1
             b == at + k
  <2>1. a \in Int /\ b \in Int /\ k \in Nat /\ b - a + 1 = k /\ (a > b => k = 0)
    BY <1>1, <1>2
  <2> HIDE DEF a, b, k
  <2>2. IsFiniteSet(a..b) /\ Cardinality(a..b) = k
    BY <2>1, FS_Interval
  <2> QED
    BY <2>2 DEF a, b, k
<1>8. Missed(f)' = Missed(f) \cup skipped
  BY <1>1, <1>2, <1>3, <1>5, <1>6 DEF Missed
<1>9. Missed(f) \cap skipped = {}
  BY <1>1, <1>2, <1>6 DEF Missed
<1> HIDE DEF skipped
<1>10. /\ IsFiniteSet(Missed(f)')
       /\ Cardinality(Missed(f)') = N * number_of_overruns + N * laps
  BY <1>1, <1>2, <1>4, <1>7, <1>8, <1>9, FS_Union, FS_EmptySet, Size
     DEF CountedFrom
<1>11. N * number_of_overruns + N * laps = N * number_of_overruns'
  BY <1>1, <1>2, <1>3, Size
<1>12. taken' \subseteq f..at'
  <2>1. at' \in Nat /\ at < at'
    BY <1>1, <1>2, <1>5
  <2>2. \A q \in taken : q \in f..at'
    BY <1>1, <1>6, <2>1
  <2>3. at' \in f..at'
    BY <1>1, <1>6, <2>1
  <2> QED
    BY <1>3, <2>2, <2>3
<1> QED
  BY <1>3, <1>10, <1>11, <1>12 DEF CountedFrom, Missed

LEMMA NextCounted ==
  ASSUME IInv, Counted, [Next]_vars
  PROVE  Counted'
<1>1. CASE UNCHANGED <<buffer_read_position, capturing, at, taken,
                       number_of_overruns>>
  BY <1>1 DEF Counted, CountedFrom, Missed
<1> QED
  BY <1>1, StartCounted, GetNextCounted
     DEF Next, vars, socketVars, monitorVars, historyVars, Recv, Publish,
         Decode, Leave, Copy, Fill

(* For every size of the ring and any speed of the socket thread: each     *)
(* overrun counted stands for N packets that main() passed over, and no    *)
(* packet is passed over without one.                                      *)
THEOREM OverrunSafety == Spec => []OverrunsCountLosses
<1> DEFINE CInv == IInv /\ Counted
<1>1. Init => CInv
  BY InitIInv DEF Init, Counted
<1>2. CInv /\ [Next]_vars => CInv'
  BY NextIInv, NextCounted
<1>3. CInv => OverrunsCountLosses
  <2> SUFFICES ASSUME CInv, capturing
               PROVE  LET first == CHOOSE p \in taken : \A q \in taken : p <= q
                      IN Cardinality((first..at) \ taken) = N * number_of_overruns
    BY DEF OverrunsCountLosses
  <2>1. PICK f \in taken : CountedFrom(f)
    BY DEF Counted
  <2> DEFINE first == CHOOSE p \in taken : \A q \in taken : p <= q
  <2>2. taken \subseteq Nat /\ at \in Nat /\ \A q \in taken : f <= q
    BY <2>1 DEF CountedFrom, IInv, TypeOK
  <2>3. first \in taken /\ \A q \in taken : first <= q
    BY <2>2
  <2> HIDE DEF first
  <2>4. first = f
    BY <2>2, <2>3
  <2> QED
    BY <2>1, <2>4 DEF CountedFrom, Missed, first
<1> QED
  BY <1>1, <1>2, <1>3, PTL DEF Spec
=============================================================================
