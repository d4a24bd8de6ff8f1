--------------------------- MODULE CaptureProofs ---------------------------
(***************************************************************************)
(* Whatever the network does to the packets, and however long the capture, *)
(* the slot of every heap is the one its frame counter gives it, until a   *)
(* gap is met while the ring holds a slot that is no packet.  What the     *)
(* capture writes is the stream that the reader of the buffer relies on,   *)
(* and it breaks nowhere else.                                             *)
(***************************************************************************)
EXTENDS Capture, SequenceTheorems, FiniteSetTheorems, TLAPS

Written == Nat \cup {Filler, Junk}

(* The stream is empty until the capture begins, and has a slot from then. *)
Begun ==
  /\ phase = "waiting" => out = <<>>
  /\ phase \in {"capture", "done"} => out # <<>>

IInv == TypeOK /\ Aligned /\ Begun

LEMMA InitIInv == Init => IInv
<1> SUFFICES ASSUME Init PROVE IInv
  OBVIOUS
<1>1. TypeOK
  BY EmptySeq, RingAssumption DEF Init, TypeOK
<1>2. Aligned /\ Begun
  BY EmptySeq DEF Init, Aligned, Begun
<1> QED
  BY <1>1, <1>2 DEF IInv

(* A packet that is received is one that was sent or a stray, and those    *)
(* still under way are among those that were.                              *)
LEMMA ReceiveFacts ==
  ASSUME net \in Seq(Nat \cup {Stray}), clean \in 0..RingSize,
         NEW p, Receive(p)
  PROVE  /\ p \in Nat \cup {Stray}
         /\ net' \in Seq(Nat \cup {Stray})
         /\ clean' \in 0..RingSize
<1> DEFINE P == Nat \cup {Stray}
<1> PICK i \in 1..Len(net) :
      /\ p = net[i]
      /\ net' = Without(net, i) \/ UNCHANGED net
  BY DEF Receive
<1>1. Len(net) \in Nat
  BY LenProperties
<1>2. p \in P
  BY ElementOfSeq
<1>3. Without(net, i) \in Seq(P)
  <2>1. \A j \in 1..(i - 1) : net[j] \in P
    BY <1>1, ElementOfSeq
  <2>2. \A j \in (i + 1)..Len(net) : net[j] \in P
    BY <1>1, ElementOfSeq
  <2>3. SubSeq(net, 1, i - 1) \in Seq(P)
    BY <2>1, SubSeqProperties
  <2>4. SubSeq(net, i + 1, Len(net)) \in Seq(P)
    BY <1>1, <2>2, SubSeqProperties
  <2> QED
    BY <2>3, <2>4, ConcatProperties DEF Without
<1>4. clean' \in 0..RingSize
  BY RingAssumption DEF Receive
<1> QED
  BY <1>2, <1>3, <1>4

(* What is written for n lost heaps: n writes, and n slots if the ring is  *)
(* Fit.                                                                    *)
LEMMA GapFacts ==
  ASSUME out \in Seq(Written), NEW n \in Nat, NEW gap \in Fillers(n)
  PROVE  /\ out \o gap \in Seq(Written)
         /\ Len(out) \in Nat
         /\ Len(out \o gap) = Len(out) + n
         /\ \A i \in 1..Len(out) : (out \o gap)[i] = out[i]
         /\ \A i \in Len(out)+1..Len(out)+n :
              /\ (out \o gap)[i] \in {Filler, Junk}
              /\ Fit => (out \o gap)[i] = Filler
<1>1. Len(out) \in Nat
  BY LenProperties
<1>2. /\ gap \in [1..n -> {Filler, Junk}]
      /\ Fit => gap \in [1..n -> {Filler}]
  BY DEF Fillers
<1>3. gap \in Seq(Written) /\ Len(gap) = n
  <2>1. gap \in [1..n -> Written]
    BY <1>2 DEF Written
  <2>2. gap \in Seq(Written)
    BY <2>1, SeqDef
  <2> QED
    BY <2>1, <2>2, LenProperties
<1>4. /\ out \o gap \in Seq(Written)
      /\ Len(out \o gap) = Len(out) + n
      /\ \A i \in 1..Len(out) + n :
           (out \o gap)[i] = IF i <= Len(out) THEN out[i]
                             ELSE gap[i - Len(out)]
  BY <1>3, ConcatProperties
<1>5. ASSUME NEW i \in 1..Len(out)
      PROVE  (out \o gap)[i] = out[i]
  <2>1. i \in 1..Len(out) + n /\ i <= Len(out)
    BY <1>1
  <2> QED
    BY <1>4, <2>1
<1>6. ASSUME NEW i \in Len(out)+1..Len(out)+n
      PROVE  /\ (out \o gap)[i] \in {Filler, Junk}
             /\ Fit => (out \o gap)[i] = Filler
  <2>1. /\ i \in 1..Len(out) + n
        /\ ~(i <= Len(out))
        /\ i - Len(out) \in 1..n
    BY <1>1
  <2>2. (out \o gap)[i] = gap[i - Len(out)]
    BY <1>4, <2>1
  <2> QED
    BY <1>2, <2>1, <2>2
<1> QED
  BY <1>1, <1>4, <1>5, <1>6

(* What Write(p) appends: what stands for the lost heaps, and p where      *)
(* main() takes its slot to be.                                            *)
LEMMA WriteFacts ==
  ASSUME IInv, NEW p \in Nat, Write(p)
  PROVE  /\ out' \in Seq(Written)
         /\ Len(out) \in Nat
         /\ Len(out') = Len(out) + (p - expected) + 1
         /\ \A i \in 1..Len(out) : out'[i] = out[i]
         /\ \A i \in Len(out)+1..Len(out')-1 :
              /\ out'[i] \in {Filler, Junk}
              /\ Fit => out'[i] = Filler
         /\ out'[Len(out')] = p
         /\ p - first + 1 = Len(out')
         /\ p - expected \in Nat
<1> DEFINE n == p - expected
<1>1. /\ out \in Seq(Written) /\ expected \in Nat /\ first \in Nat
      /\ phase = "capture"
  BY DEF IInv, TypeOK, Write, Written
<1>2. n \in Nat
  BY <1>1 DEF Write
<1>3. PICK gap \in Fillers(n) : out' = out \o gap \o <<p>>
  BY DEF Write, n
<1> HIDE DEF n
<1> DEFINE filled == out \o gap
<1>4. /\ filled \in Seq(Written)
      /\ Len(out) \in Nat
      /\ Len(filled) = Len(out) + n
      /\ \A i \in 1..Len(out) : filled[i] = out[i]
      /\ \A i \in Len(out)+1..Len(out)+n :
           filled[i] \in {Filler, Junk} /\ (Fit => filled[i] = Filler)
  BY <1>1, <1>2, GapFacts
<1>5. out' = filled \o <<p>>
  BY <1>3
<1> HIDE DEF filled
<1>6. <<p>> \in Seq(Written) /\ Len(<<p>>) = 1 /\ <<p>>[1] = p
  BY DEF Written
<1>7. /\ out' \in Seq(Written)
      /\ Len(out') = Len(out) + n + 1
      /\ \A i \in 1..Len(out) + n : out'[i] = filled[i]
      /\ out'[Len(out) + n + 1] = p
  <2>1. /\ filled \o <<p>> \in Seq(Written)
        /\ Len(filled \o <<p>>) = Len(filled) + 1
        /\ \A i \in 1..Len(filled) + 1 : (filled \o <<p>>)[i] =
             IF i <= Len(filled) THEN filled[i] ELSE <<p>>[i - Len(filled)]
    BY <1>4, <1>6, ConcatProperties
  <2>2. Len(filled) \in Nat
    BY <1>2, <1>4
  <2> QED
    BY <1>2, <1>4, <1>5, <1>6, <2>1, <2>2
<1>8. ASSUME NEW i \in Len(out)+1..Len(out')-1
      PROVE  out'[i] \in {Filler, Junk} /\ (Fit => out'[i] = Filler)
  <2>1. i \in 1..Len(out)+n /\ i \in Len(out)+1..Len(out)+n
    BY <1>2, <1>4, <1>7
  <2>2. out'[i] = filled[i]
    BY <1>7, <2>1
  <2> QED
    BY <1>4, <2>1, <2>2
<1>9. ASSUME NEW i \in 1..Len(out)
      PROVE  out'[i] = out[i]
  <2>1. i \in 1..Len(out) + n
    BY <1>2, <1>4
  <2> QED
    BY <1>4, <1>7, <2>1
<1>10. expected = first + Len(out)
  BY <1>1 DEF IInv, Aligned
<1> QED
  BY <1>1, <1>2, <1>4, <1>7, <1>8, <1>9, <1>10 DEF n

(* What the program leaves that dies of a filler.                          *)
LEMMA CrashFacts ==
  ASSUME IInv, NEW p \in Nat, FillerCrashes(p)
  PROVE  /\ out' \in Seq(Written)
         /\ Len(out) \in Nat
         /\ Len(out') \in Nat
         /\ Len(out') >= Len(out)
         /\ \A i \in 1..Len(out) : out'[i] = out[i]
         /\ \A i \in Len(out)+1..Len(out') : out'[i] \in {Filler, Junk}
         /\ p - expected \in Nat
<1>1. out \in Seq(Written) /\ expected \in Nat
  BY DEF IInv, TypeOK, Written
<1>2. PICK n \in 0..(p - expected) - 1 :
        \E gap \in Fillers(n) : out' = out \o gap
  BY DEF FillerCrashes
<1>3. PICK gap \in Fillers(n) : out' = out \o gap
  BY <1>2
<1>4. n \in Nat /\ p - expected \in Nat
  BY <1>1 DEF FillerCrashes
<1> QED
  BY <1>1, <1>3, <1>4, GapFacts

(* What was written is not written again.                                  *)
LEMMA WholeKept ==
  ASSUME Len(out) \in Nat, \A i \in 1..Len(out) : out'[i] = out[i],
         NEW k \in 0..Len(out)
  PROVE  Whole(k)' <=> Whole(k)
<1>1. \A i \in 1..k : out'[i] = out[i]
  OBVIOUS
<1> QED
  BY <1>1 DEF Whole

LEMMA WriteIInv ==
  ASSUME IInv, NEW p \in Nat, Write(p)
  PROVE  IInv'
<1>1. /\ out' \in Seq(Written)
      /\ Len(out) \in Nat
      /\ Len(out') = Len(out) + (p - expected) + 1
      /\ \A i \in 1..Len(out) : out'[i] = out[i]
      /\ \A i \in Len(out)+1..Len(out')-1 : out'[i] \in {Filler, Junk}
      /\ out'[Len(out')] = p
      /\ p - first + 1 = Len(out')
      /\ p - expected \in Nat
  BY WriteFacts
<1>2. /\ phase = "capture" /\ phase' \in {"capture", "done"}
      /\ first' = first /\ expected' = p + 1
      /\ UNCHANGED digitiserVars
  BY DEF Write
<1>3. first \in Nat /\ packet_count \in Nat /\ dropped_packets \in Nat
  BY DEF IInv, TypeOK
<1>4. net' \in Seq(Nat \cup {Stray}) /\ clean' \in 0..RingSize
  BY ReceiveFacts DEF Write, IInv, TypeOK
<1>5. packet_count' \in Nat /\ dropped_packets' \in Nat
  BY <1>1, <1>3 DEF Write
<1>6. TypeOK'
  BY <1>1, <1>2, <1>3, <1>4, <1>5 DEF TypeOK, Written, digitiserVars, IInv
<1>7. Aligned'
  <2>1. expected' = first' + Len(out')
    BY <1>1, <1>2, <1>3
  <2>2. ASSUME NEW i \in 1..Len(out'), Whole(i)'
        PROVE  out'[i] \in {Filler, first' + i - 1}
    <3>1. \/ i \in 1..Len(out)
          \/ i \in Len(out)+1..Len(out')-1
          \/ i = Len(out')
      BY <1>1
    <3>2. CASE i \in 1..Len(out)
      <4>1. Whole(i)
        BY <1>1, <2>2, <3>2, WholeKept
      <4> QED
        BY <1>1, <1>2, <3>2, <4>1 DEF IInv, Aligned
    <3>3. CASE i \in Len(out)+1..Len(out')-1
      <4>1. out'[i] # Junk
        BY <1>1, <2>2, <3>3 DEF Whole
      <4> QED
        BY <1>1, <3>3, <4>1
    <3>4. CASE i = Len(out')
      <4>1. p = first + i - 1
        BY <1>1, <1>3, <3>4
      <4> QED
        BY <1>1, <1>2, <3>4, <4>1
    <3> QED
      BY <3>1, <3>2, <3>3, <3>4
  <2> QED
    BY <2>1, <2>2 DEF Aligned
<1>8. Begun'
  <2>1. Len(out') # 0
    BY <1>1
  <2> QED
    BY <1>2, <2>1, EmptySeq DEF Begun
<1> QED
  BY <1>6, <1>7, <1>8 DEF IInv

LEMMA CrashIInv ==
  ASSUME IInv, NEW p \in Nat, FillerCrashes(p)
  PROVE  IInv'
<1>1. /\ out' \in Seq(Written)
      /\ Len(out) \in Nat
      /\ Len(out') \in Nat
      /\ \A i \in 1..Len(out) : out'[i] = out[i]
      /\ \A i \in Len(out)+1..Len(out') : out'[i] \in {Filler, Junk}
      /\ p - expected \in Nat
  BY CrashFacts
<1>2. /\ phase' = "failed"
      /\ UNCHANGED <<digitiserVars, expected, packet_count, first>>
  BY DEF FillerCrashes
<1>3. net' \in Seq(Nat \cup {Stray}) /\ clean' \in 0..RingSize
  BY ReceiveFacts DEF FillerCrashes, IInv, TypeOK
<1>4. dropped_packets' \in Nat
  BY <1>1 DEF FillerCrashes, IInv, TypeOK
<1>5. TypeOK'
  BY <1>1, <1>2, <1>3, <1>4 DEF TypeOK, Written, digitiserVars, IInv
<1>6. ASSUME NEW i \in 1..Len(out'), Whole(i)'
      PROVE  out'[i] \in {Filler, first' + i - 1}
  <2>1. CASE i \in 1..Len(out)
    <3>1. Whole(i)
      BY <1>1, <1>6, <2>1, WholeKept
    <3> QED
      BY <1>1, <1>2, <2>1, <3>1 DEF IInv, Aligned
  <2>2. CASE i \in Len(out)+1..Len(out')
    <3>1. out'[i] # Junk
      BY <1>6 DEF Whole
    <3> QED
      BY <1>1, <2>2, <3>1
  <2> QED
    BY <1>1, <2>1, <2>2
<1>7. Aligned' /\ Begun'
  BY <1>2, <1>6 DEF Aligned, Begun
<1> QED
  BY <1>5, <1>7 DEF IInv

LEMMA StartWithIInv ==
  ASSUME IInv, NEW p \in Nat, StartWith(p)
  PROVE  IInv'
<1>1. net' \in Seq(Nat \cup {Stray}) /\ clean' \in 0..RingSize
  BY ReceiveFacts DEF StartWith, IInv, TypeOK
<1>2. TypeOK'
  BY <1>1 DEF StartWith, TypeOK, IInv, digitiserVars
<1>3. /\ out' = <<p>> /\ first' = p /\ expected' = p + 1
      /\ phase' = "capture"
  BY DEF StartWith
<1>4. Aligned' /\ Begun'
  BY <1>3 DEF Aligned, Begun
<1> QED
  BY <1>2, <1>4 DEF IInv

LEMMA StartFailsIInv ==
  ASSUME IInv, NEW p \in Nat, StartFails(p)
  PROVE  IInv'
<1>1. net' \in Seq(Nat \cup {Stray}) /\ clean' \in 0..RingSize
  BY ReceiveFacts DEF StartFails, IInv, TypeOK
<1>2. TypeOK'
  BY <1>1 DEF StartFails, TypeOK, IInv, digitiserVars
<1>3. UNCHANGED <<out, first>> /\ phase' = "failed"
  BY DEF StartFails
<1>4. Aligned' /\ Begun'
  BY <1>3 DEF Aligned, Begun, IInv, Whole
<1> QED
  BY <1>2, <1>4 DEF IInv

LEMMA WaitOnIInv ==
  ASSUME IInv, NEW p \in Nat, WaitOn(p)
  PROVE  IInv'
<1>1. net' \in Seq(Nat \cup {Stray}) /\ clean' \in 0..RingSize
  BY ReceiveFacts DEF WaitOn, IInv, TypeOK
<1>2. TypeOK'
  BY <1>1 DEF WaitOn, TypeOK, IInv, digitiserVars
<1>3. Aligned' /\ Begun'
  BY DEF WaitOn, Aligned, Begun, IInv, Whole
<1> QED
  BY <1>2, <1>3 DEF IInv

(* The other steps leave what was written, and where main() is in it.      *)
LEMMA AsideIInv ==
  ASSUME IInv,
         \/ Send \/ Reset \/ Lose \/ AddStray \/ WaitStray \/ CaptureStray
         \/ GiveUp \/ \E p \in Nat : Discard(p)
  PROVE  IInv'
<1>1. /\ UNCHANGED <<expected, packet_count, dropped_packets, first, out>>
      /\ phase' = phase \/ (phase = "capture" /\ phase' = "done")
  BY DEF Send, Reset, Lose, AddStray, WaitStray, CaptureStray, GiveUp, Discard,
         captureVars
<1>2. net' \in Seq(Nat \cup {Stray}) /\ clean' \in 0..RingSize
  <2>1. CASE WaitStray \/ CaptureStray \/ GiveUp \/ \E p \in Nat : Discard(p)
    BY <2>1, ReceiveFacts DEF WaitStray, CaptureStray, GiveUp, Discard, IInv,
                              TypeOK
  <2>2. CASE Send \/ Reset \/ Lose \/ AddStray
    <3>1. /\ net \in Seq(Nat \cup {Stray}) /\ next \in Nat
          /\ clean \in 0..RingSize /\ 0 \in 0..RingSize
      BY RingAssumption DEF IInv, TypeOK
    <3>2. CASE Send
      BY <3>1, <3>2 DEF Send
    <3>3. CASE AddStray
      BY <3>1, <3>3 DEF AddStray
    <3>4. CASE Reset
      BY <3>1, <3>4 DEF Reset
    <3>5. CASE Lose
      BY <3>1, <3>5, HeadTailProperties DEF Lose
    <3> QED
      BY <2>2, <3>2, <3>3, <3>4, <3>5
  <2> QED
    BY <2>1, <2>2
<1>3. next' \in Nat /\ resets' \in Nat
  BY DEF Send, Reset, Lose, AddStray, WaitStray, CaptureStray, GiveUp, Discard,
         digitiserVars, IInv, TypeOK
<1>4. TypeOK'
  BY <1>1, <1>2, <1>3 DEF IInv, TypeOK
<1>5. Aligned' /\ Begun'
  BY <1>1 DEF IInv, Aligned, Begun, Whole
<1> QED
  BY <1>4, <1>5 DEF IInv

(* A packet that main() handles by its frame counter has one.              *)
LEMMA ReaderCases ==
  ASSUME IInv, Reader
  PROVE  \/ WaitStray \/ CaptureStray \/ GiveUp
         \/ \E p \in Nat :
              \/ WaitOn(p) \/ StartWith(p) \/ StartFails(p)
              \/ Write(p) \/ FillerCrashes(p) \/ Discard(p)
<1> SUFFICES ASSUME NEW i \in 1..Len(net), NEW p, p = net[i],
                    \/ WaitOn(p) \/ StartWith(p) \/ StartFails(p)
                    \/ Write(p) \/ FillerCrashes(p) \/ Discard(p)
             PROVE  p \in Nat
  BY DEF Reader
<1>1. p \in Nat \cup {Stray}
  BY ElementOfSeq DEF IInv, TypeOK
<1>2. p # Stray
  BY DEF WaitOn, StartWith, StartFails, Write, FillerCrashes, Discard, Stray,
         IInv, TypeOK
<1> QED
  BY <1>1, <1>2

LEMMA NextIInv == IInv /\ [Next]_vars => IInv'
<1> SUFFICES ASSUME IInv, [Next]_vars PROVE IInv'
  OBVIOUS
<1>1. CASE Reader
  BY <1>1, ReaderCases, WriteIInv, CrashIInv, StartWithIInv, StartFailsIInv,
     WaitOnIInv, AsideIInv
<1>2. CASE Send \/ Reset \/ Lose \/ AddStray
  BY <1>2, AsideIInv
<1>3. CASE UNCHANGED vars
  BY <1>3 DEF vars, digitiserVars, IInv, TypeOK, Aligned, Begun, Whole
<1> QED
  BY <1>1, <1>2, <1>3 DEF Next

(* The inductive invariant holds of every capture.                         *)
THEOREM Invariance == Spec => []IInv
BY InitIInv, NextIInv, PTL DEF Spec

(* Every variable keeps its type.                                          *)
THEOREM TypeCorrectness == Spec => []TypeOK
<1>1. IInv => TypeOK
  BY DEF IInv
<1> QED
  BY <1>1, Invariance, PTL

(* As far as every filler was a packet, every heap is written to the slot  *)
(* its frame counter gives it.                                             *)
THEOREM Alignment == Spec => []Aligned
<1>1. IInv => Aligned
  BY DEF IInv
<1> QED
  BY <1>1, Invariance, PTL

(* A write whose fillers are packets adds the slots of its gap to those of *)
(* the fillers, and no other.                                              *)
LEMMA WriteCounts ==
  ASSUME IInv, CountsAreTrue, NEW p \in Nat, Write(p)
  PROVE  CountsAreTrue'
<1> SUFFICES ASSUME Whole(Len(out))'
             PROVE  /\ packet_count' = Len(out')
                    /\ dropped_packets' = Cardinality(FillerSlots')
  BY DEF CountsAreTrue
<1>1. /\ Len(out) \in Nat
      /\ Len(out') = Len(out) + (p - expected) + 1
      /\ \A i \in 1..Len(out) : out'[i] = out[i]
      /\ \A i \in Len(out)+1..Len(out')-1 : out'[i] \in {Filler, Junk}
      /\ out'[Len(out')] = p
      /\ p - expected \in Nat
  BY WriteFacts
<1>2. \A i \in 1..Len(out') : out'[i] # Junk
  BY DEF Whole
<1>3. Whole(Len(out))
  <2>1. \A i \in 1..Len(out) : i \in 1..Len(out')
    BY <1>1
  <2> QED
    BY <1>1, <1>2, <2>1 DEF Whole
<1> DEFINE gap == Len(out)+1..Len(out')-1
<1>4. \A i \in gap : out'[i] = Filler
  <2>1. gap \subseteq 1..Len(out')
    BY <1>1
  <2> QED
    BY <1>1, <1>2, <2>1
<1>5. /\ packet_count = Len(out)
      /\ dropped_packets = Cardinality(FillerSlots)
      /\ packet_count' = packet_count + (p - expected) + 1
      /\ dropped_packets' = dropped_packets + (p - expected)
  BY <1>3 DEF Write, CountsAreTrue
<1>6. FillerSlots' = FillerSlots \cup gap
  <2>1. p # Filler
    BY DEF Filler
  <2>2. ASSUME NEW i \in 1..Len(out')
        PROVE  \/ i \in 1..Len(out) /\ i \notin gap
               \/ i \in gap /\ i \notin 1..Len(out)
               \/ i = Len(out') /\ i \notin gap /\ i \notin 1..Len(out)
    BY <1>1
  <2>3. 1..Len(out) \subseteq 1..Len(out') /\ gap \subseteq 1..Len(out')
    BY <1>1
  <2> QED
    BY <1>1, <1>4, <2>1, <2>2, <2>3 DEF FillerSlots
<1>7. IsFiniteSet(gap) /\ Cardinality(gap) = p - expected
  <2> DEFINE a == Len(out) + 1
             b == Len(out') - 1
  <2>1. a \in Int /\ b \in Int /\ b - a + 1 = p - expected
    BY <1>1
  <2>2. a > b => p - expected = 0
    BY <1>1
  <2> HIDE DEF a, b
  <2>3. IsFiniteSet(a..b)
        /\ Cardinality(a..b) = IF a > b THEN 0 ELSE b - a + 1
    BY <2>1, FS_Interval
  <2>4. Cardinality(a..b) = p - expected
    BY <2>1, <2>2, <2>3
  <2> QED
    BY <2>3, <2>4 DEF a, b
<1>8. IsFiniteSet(FillerSlots) /\ Cardinality(FillerSlots) \in Nat
  <2>1. IsFiniteSet(1..Len(out))
    BY <1>1, FS_Interval
  <2>2. FillerSlots \in SUBSET (1..Len(out))
    BY DEF FillerSlots
  <2> QED
    BY <2>1, <2>2, FS_Subset, FS_CardinalityType
<1>9. FillerSlots \cap gap = {}
  BY <1>1 DEF FillerSlots
<1> HIDE DEF gap
<1>10. Cardinality(FillerSlots') = Cardinality(FillerSlots) + (p - expected)
  <2>1. Cardinality(FillerSlots \cup gap) =
          Cardinality(FillerSlots) + Cardinality(gap)
            - Cardinality(FillerSlots \cap gap)
    BY <1>7, <1>8, FS_Union
  <2>2. Cardinality(FillerSlots \cap gap) = 0
    BY <1>9, FS_EmptySet
  <2>3. Cardinality(FillerSlots \cup gap) =
          Cardinality(FillerSlots) + (p - expected)
    BY <1>1, <1>7, <1>8, <2>1, <2>2
  <2> QED
    BY <1>6, <2>3
<1> QED
  BY <1>1, <1>5, <1>10

LEMMA StartWithCounts ==
  ASSUME NEW p \in Nat, StartWith(p)
  PROVE  CountsAreTrue'
<1>1. out' = <<p>> /\ packet_count' = 1 /\ dropped_packets' = 0
  BY DEF StartWith
<1>2. FillerSlots' = {}
  <2>1. p # Filler
    BY DEF Filler
  <2>2. Len(out') = 1 /\ out'[1] = p
    BY <1>1
  <2> QED
    BY <2>1, <2>2 DEF FillerSlots
<1> QED
  BY <1>1, <1>2, FS_EmptySet DEF CountsAreTrue

(* While every filler was a packet, packet_count and dropped_packets are   *)
(* the slots written and the fillers among them.                           *)
THEOREM Counting == Spec => []CountsAreTrue
<1>1. Init => CountsAreTrue
  BY DEF Init, CountsAreTrue
<1>2. IInv /\ CountsAreTrue /\ [Next]_vars => CountsAreTrue'
  <2> SUFFICES ASSUME IInv, CountsAreTrue, [Next]_vars
               PROVE  CountsAreTrue'
    OBVIOUS
  <2>1. ASSUME UNCHANGED <<packet_count, dropped_packets, out>>,
               phase' \in {"capture", "done"} => phase \in {"capture", "done"}
        PROVE  CountsAreTrue'
    BY <2>1 DEF CountsAreTrue, FillerSlots, Whole
  <2>2. CASE Send \/ Reset \/ Lose \/ AddStray \/ WaitStray \/ CaptureStray
             \/ GiveUp \/ \E p \in Nat : Discard(p)
    BY <2>1, <2>2 DEF Send, Reset, Lose, AddStray, WaitStray, CaptureStray,
                      GiveUp, Discard, captureVars
  <2>3. CASE \E p \in Nat : WaitOn(p) \/ StartFails(p) \/ FillerCrashes(p)
    BY <2>3 DEF WaitOn, StartFails, FillerCrashes, CountsAreTrue
  <2>4. CASE UNCHANGED vars
    BY <2>1, <2>4 DEF vars
  <2>5. CASE Reader
    BY <2>2, <2>3, <2>5, ReaderCases, WriteCounts, StartWithCounts
  <2> QED
    BY <2>2, <2>4, <2>5 DEF Next
<1> QED
  BY <1>1, <1>2, Invariance, PTL DEF Spec

Slots == [i \in 1..Len(out) |-> Slot(i)]
Marks == {"data", "filler", "misplaced"}

LEMMA SlotsFacts ==
  ASSUME Len(out) \in Nat
  PROVE  Slots \in Seq(Marks) /\ Len(Slots) = Len(out)
<1>1. Slots \in [1..Len(out) -> Marks]
  BY DEF Slots, Slot, Marks
<1>2. Slots \in Seq(Marks)
  BY <1>1, SeqDef
<1> QED
  BY <1>1, <1>2, LenProperties

LEMMA SlotsFactsNext ==
  ASSUME Len(out') \in Nat
  PROVE  Slots' \in Seq(Marks) /\ Len(Slots') = Len(out')
<1>1. Slots' \in [1..Len(out') -> Marks]
  BY DEF Slots, Slot, Marks
<1>2. Slots' \in Seq(Marks)
  BY <1>1, SeqDef
<1> QED
  BY <1>1, <1>2, LenProperties

(* Whatever is appended, the slots that were written stay what they were,  *)
(* and after a write that was no slot there are only misplaced ones.       *)
LEMMA SlotsKept ==
  ASSUME Len(out) \in Nat, Len(out') \in Nat, Len(out') >= Len(out),
         first' = first, \A i \in 1..Len(out) : out'[i] = out[i]
  PROVE  /\ Len(Slots) = Len(out) /\ Len(Slots') = Len(out')
         /\ \A i \in 1..Len(Slots) : Slots'[i] = Slots[i]
         /\ ~Whole(Len(out)) =>
              /\ \A i \in Len(Slots)+1..Len(Slots') : Slots'[i] = "misplaced"
              /\ ~Whole(Len(out))'
<1>1. Len(Slots) = Len(out) /\ Len(Slots') = Len(out')
  BY SlotsFacts, SlotsFactsNext
<1>2. ASSUME NEW i \in 1..Len(out)
      PROVE  Slots'[i] = Slots[i]
  <2>1. i \in 1..Len(out') /\ i \in 0..Len(out)
    OBVIOUS
  <2>2. Whole(i)' <=> Whole(i)
    BY <2>1, WholeKept
  <2>3. Slot(i)' = Slot(i)
    BY <2>2 DEF Slot
  <2> QED
    BY <2>1, <2>3 DEF Slots
<1>3. ASSUME ~Whole(Len(out)), NEW i \in Len(out)..Len(out')
      PROVE  ~Whole(i)'
  <2>1. PICK j \in 1..Len(out) : out[j] = Junk
    BY <1>3 DEF Whole
  <2>2. j \in 1..i /\ out'[j] = Junk
    BY <2>1
  <2> QED
    BY <2>2 DEF Whole
<1>4. ASSUME ~Whole(Len(out)), NEW i \in Len(out)+1..Len(out')
      PROVE  Slots'[i] = "misplaced"
  <2>1. i \in Len(out)..Len(out') /\ i \in 1..Len(out')
    OBVIOUS
  <2> QED
    BY <1>3, <1>4, <2>1 DEF Slots, Slot
<1>5. ~Whole(Len(out)) => ~Whole(Len(out))'
  <2>1. Len(out') \in Len(out)..Len(out')
    OBVIOUS
  <2>2. ASSUME ~Whole(Len(out)), \A j \in 1..Len(out') : out'[j] # Junk
        PROVE  FALSE
    <3>1. PICK j \in 1..Len(out) : out[j] = Junk
      BY <2>2 DEF Whole
    <3>2. j \in 1..Len(out') /\ out'[j] = Junk
      BY <3>1
    <3> QED
      BY <2>2, <3>2
  <2> QED
    BY <2>2 DEF Whole
<1> QED
  BY <1>1, <1>2, <1>4, <1>5

(* The abstract step of a concrete one that writes: Stream!Grow, unfolded. *)
LEMMA Grown ==
  ASSUME Len(out) \in Nat, Len(out') \in Nat, Len(out') >= Len(out),
         first' = first, \A i \in 1..Len(out) : out'[i] = out[i],
         phase # "done"
  PROVE  Stream!Grow /\ Stream!New = Len(out)+1..Len(out')
<1>1. /\ Len(Slots) = Len(out) /\ Len(Slots') = Len(out')
      /\ \A i \in 1..Len(Slots) : Slots'[i] = Slots[i]
  BY SlotsKept
<1> QED
  BY <1>1 DEF Stream!Grow, Stream!New, Slots

LEMMA Types == Fit' \in BOOLEAN /\ Broken \in BOOLEAN /\ Broken' \in BOOLEAN
BY DEF Fit, Broken

(* A write goes on with the stream, breaks it in a gap that cannot be      *)
(* filled, or goes on with a broken one.                                   *)
LEMMA WriteSteps ==
  ASSUME IInv, NEW p \in Nat, Write(p)
  PROVE  Stream!Put \/ Stream!Break \/ Stream!Scatter
<1>1. /\ Len(out) \in Nat
      /\ Len(out') = Len(out) + (p - expected) + 1
      /\ \A i \in 1..Len(out) : out'[i] = out[i]
      /\ \A i \in Len(out)+1..Len(out')-1 :
           out'[i] \in {Filler, Junk} /\ (Fit => out'[i] = Filler)
      /\ out'[Len(out')] = p
      /\ p - first + 1 = Len(out')
      /\ p - expected \in Nat
  BY WriteFacts
<1>2. /\ phase = "capture" /\ phase' \in {"capture", "done"}
      /\ first' = first /\ (phase' = "done") \in BOOLEAN
  BY DEF Write
<1>3. /\ Len(out') \in Nat /\ Len(out') > Len(out) /\ Len(out') >= Len(out)
      /\ first \in Nat /\ p # Filler /\ p # Junk
  BY <1>1 DEF IInv, TypeOK, Filler, Junk
<1>4. Stream!Grow /\ Stream!New = Len(out)+1..Len(out')
  BY <1>1, <1>2, <1>3, Grown
<1>5. /\ Len(Slots) = Len(out) /\ Len(Slots') = Len(out')
      /\ ~Whole(Len(out)) =>
           /\ \A i \in Len(out)+1..Len(out') : Slots'[i] = "misplaced"
           /\ ~Whole(Len(out))'
  BY <1>1, <1>2, <1>3, SlotsKept
<1>6. /\ Broken <=> ~Whole(Len(out))
      /\ Broken' <=> ~Whole(Len(out))'
  BY <1>2 DEF Broken
<1>7. CASE ~Whole(Len(out))
  <2>1. Broken /\ Broken' = TRUE
    BY <1>5, <1>6, <1>7, Types
  <2> QED
    BY <1>2, <1>4, <1>5, <1>7, <2>1 DEF Stream!Scatter, Slots
<1>8. CASE Whole(Len(out)) /\ Whole(Len(out))'
  <2>1. ~Broken /\ Broken' = FALSE
    BY <1>6, <1>8, Types
  <2>2. \A i \in 1..Len(out') : Whole(i)' /\ out'[i] # Junk
    BY <1>3, <1>8 DEF Whole
  <2>3. ASSUME NEW i \in Len(out)+1..Len(out'), i # Len(out')
        PROVE  Slots'[i] = "filler"
    <3>1. i \in 1..Len(out') /\ i \in Len(out)+1..Len(out')-1
      BY <1>1, <1>3, <2>3
    <3>2. out'[i] = Filler
      BY <1>1, <2>2, <3>1
    <3> QED
      BY <2>2, <3>1, <3>2 DEF Slots, Slot
  <2>4. Slots'[Len(out')] = "data"
    <3>1. Len(out') \in 1..Len(out')
      BY <1>3
    <3>2. p = first' + Len(out') - 1
      BY <1>1, <1>2, <1>3
    <3> QED
      BY <1>1, <1>3, <2>2, <3>1, <3>2 DEF Slots, Slot
  <2> QED
    BY <1>2, <1>3, <1>4, <1>5, <2>1, <2>3, <2>4 DEF Stream!Put, Slots
<1>9. CASE Whole(Len(out)) /\ ~Whole(Len(out))'
  <2>1. ~Broken /\ Broken' = TRUE
    BY <1>6, <1>9, Types
  <2>2. PICK j \in 1..Len(out') : out'[j] = Junk
    BY <1>9 DEF Whole
  <2>3. j \in Len(out)+1..Len(out')-1
    <3>1. j \notin 1..Len(out)
      BY <1>1, <1>9, <2>2 DEF Whole
    <3> QED
      BY <1>1, <1>3, <2>2, <3>1
  <2>4. ~Fit
    BY <1>1, <2>2, <2>3 DEF Filler, Junk
  <2>5. ASSUME NEW i \in Len(out)+1..Len(out')
        PROVE  Slots'[i] \in {"filler", "misplaced"}
    <3>1. i \in 1..Len(out')
      BY <1>1
    <3>2. CASE i = Len(out')
      <4>1. ~Whole(i)'
        BY <2>2, <3>2 DEF Whole
      <4> QED
        BY <3>1, <4>1 DEF Slots, Slot
    <3>3. CASE i # Len(out')
      <4>1. i \in Len(out)+1..Len(out')-1
        BY <1>1, <1>3, <3>3
      <4>2. out'[i] = Junk \/ out'[i] = Filler
        BY <1>1, <4>1
      <4>3. out'[i] = Junk => ~Whole(i)'
        BY <3>1 DEF Whole
      <4> QED
        BY <3>1, <4>2, <4>3 DEF Slots, Slot
    <3> QED
      BY <3>2, <3>3
  <2>6. Slots # <<>>
    <3>1. Len(out) # 0
      BY <1>2, EmptySeq DEF IInv, TypeOK, Begun
    <3> QED
      BY <1>5, <3>1, EmptySeq
  <2> QED
    BY <1>2, <1>4, <2>1, <2>4, <2>5, <2>6 DEF Stream!Break, Slots
<1> QED
  BY <1>7, <1>8, <1>9

(* The program that dies of a filler breaks the stream, if it was not.     *)
LEMMA CrashSteps ==
  ASSUME IInv, NEW p \in Nat, FillerCrashes(p)
  PROVE  Stream!Break \/ Stream!Scatter
<1>1. /\ Len(out) \in Nat
      /\ Len(out') \in Nat
      /\ Len(out') >= Len(out)
      /\ \A i \in 1..Len(out) : out'[i] = out[i]
      /\ \A i \in Len(out)+1..Len(out') : out'[i] \in {Filler, Junk}
  BY CrashFacts
<1>2. /\ phase = "capture" /\ phase' = "failed" /\ ~Fit
      /\ first' = first /\ (phase' = "done") \in BOOLEAN
  BY DEF FillerCrashes
<1>3. Stream!Grow /\ Stream!New = Len(out)+1..Len(out')
  BY <1>1, <1>2, Grown
<1>4. /\ Len(Slots) = Len(out) /\ Len(Slots') = Len(out')
      /\ ~Whole(Len(out)) =>
           \A i \in Len(out)+1..Len(out') : Slots'[i] = "misplaced"
  BY <1>1, <1>2, SlotsKept
<1>5. Len(out) # 0
  BY <1>2, EmptySeq DEF IInv, TypeOK, Begun
<1>6. out' # <<>>
  BY <1>1, <1>5, EmptySeq
<1>7. (Broken <=> ~Whole(Len(out))) /\ Broken' = TRUE
  BY <1>2, <1>6 DEF Broken
<1>8. CASE ~Whole(Len(out))
  BY <1>2, <1>3, <1>4, <1>7, <1>8 DEF Stream!Scatter, Slots
<1>9. CASE Whole(Len(out))
  <2>1. Slots # <<>>
    BY <1>4, <1>5, EmptySeq
  <2>2. ASSUME NEW i \in Len(out)+1..Len(out')
        PROVE  Slots'[i] \in {"filler", "misplaced"}
    <3>1. i \in 1..Len(out')
      BY <1>1
    <3>2. out'[i] = Junk => ~Whole(i)'
      BY <3>1 DEF Whole
    <3> QED
      BY <1>1, <3>1, <3>2 DEF Slots, Slot
  <2> QED
    BY <1>2, <1>3, <1>7, <1>9, <2>1, <2>2 DEF Stream!Break, Slots
<1> QED
  BY <1>8, <1>9

LEMMA StartWithSteps ==
  ASSUME IInv, NEW p \in Nat, StartWith(p)
  PROVE  Stream!Put
<1>1. out = <<>> /\ phase = "waiting"
  BY DEF StartWith, IInv, Begun
<1>2. /\ out' = <<p>> /\ first' = p /\ phase' = "capture"
      /\ p # Filler /\ p # Junk
  BY DEF StartWith, Filler, Junk
<1>3. Len(out) = 0 /\ Len(out') = 1 /\ out'[1] = p
  BY <1>1, <1>2, EmptySeq
<1>4. Len(Slots) = 0 /\ Len(Slots') = 1
  BY <1>3, SlotsFacts, SlotsFactsNext
<1>5. Whole(1)' /\ Whole(Len(out))' /\ Whole(Len(out))
  BY <1>2, <1>3 DEF Whole
<1>6. ~Broken /\ Broken' = FALSE
  BY <1>1, <1>2, <1>5 DEF Broken
<1>7. Slots'[1] = "data"
  <2>1. p = first' + 1 - 1
    BY <1>2
  <2> QED
    BY <1>2, <1>3, <1>5, <2>1 DEF Slots, Slot
<1> QED
  BY <1>1, <1>2, <1>4, <1>6, <1>7
     DEF Stream!Put, Stream!Grow, Stream!New, Slots

(* The capture writes the stream that its reader relies on: a packet that  *)
(* is written is a Put until a gap is met that the ring cannot fill, which *)
(* is a Break; giving up is a Close; nothing else shows.                   *)
THEOREM Refinement == Spec => ImplementsStream
<1>1. Init => Stream!Init
  <2> SUFFICES ASSUME Init PROVE Stream!Init
    OBVIOUS
  <2>1. out = <<>> /\ Len(out) = 0 /\ phase = "waiting" /\ clean = 0
    BY EmptySeq DEF Init
  <2>2. [i \in 1..Len(out) |-> Slot(i)] = <<>>
    BY <2>1
  <2>3. Broken = FALSE /\ Fit = FALSE
    BY <2>1, RingAssumption DEF Broken, Whole, Fit
  <2> QED
    BY <2>1, <2>2, <2>3 DEF Stream!Init
<1>2. IInv /\ [Next]_vars => [Stream!Next]_(Stream!vars)
  <2> SUFFICES ASSUME IInv, [Next]_vars
               PROVE  Stream!Next
    BY DEF Stream!vars
  <2>1. Len(out) \in Nat
    BY LenProperties DEF IInv, TypeOK
  <2>2. ASSUME Stream!Put \/ Stream!Break \/ Stream!Scatter \/ Stream!Close
               \/ Stream!Refill
        PROVE  Stream!Next
    BY <2>2, Types DEF Stream!Next
  <2>3. ASSUME UNCHANGED <<first, out>>,
               (phase' = "done") = (phase = "done"),
               (phase' = "failed") = (phase = "failed")
        PROVE  Stream!Refill
    BY <2>3 DEF Stream!Refill, Slot, Whole, Broken
  <2>4. ASSUME NEW p \in Nat, StartFails(p)
        PROVE  Stream!Refill
    <3>1. /\ out = <<>> /\ UNCHANGED <<first, out>>
          /\ phase # "done" /\ phase' # "done"
      BY <2>4 DEF StartFails, IInv, Begun
    <3>2. Broken = FALSE /\ Broken' = FALSE
      BY <3>1, EmptySeq DEF Broken, Whole
    <3> QED
      BY <3>1, <3>2 DEF Stream!Refill, Slot, Whole
  <2>5. CASE GiveUp
    <3>1. /\ phase = "capture" /\ phase' = "done"
          /\ UNCHANGED <<first, out>>
      BY <2>5 DEF GiveUp
    <3>2. Len(out) # 0
      BY <3>1, EmptySeq DEF IInv, TypeOK, Begun
    <3>3. Slots # <<>>
      BY <2>1, <3>2, SlotsFacts, EmptySeq
    <3>4. Broken' = Broken
      BY <3>1 DEF Broken, Whole
    <3> QED
      BY <2>2, <3>1, <3>3, <3>4 DEF Stream!Close, Slots, Slot, Whole
  <2>6. CASE Send \/ Reset \/ Lose \/ AddStray \/ WaitStray \/ CaptureStray
    BY <2>2, <2>3, <2>6 DEF Send, Reset, Lose, AddStray, WaitStray,
                            CaptureStray, captureVars
  <2>7. CASE \E p \in Nat : WaitOn(p) \/ Discard(p)
    BY <2>2, <2>3, <2>7 DEF WaitOn, Discard, captureVars
  <2>8. CASE UNCHANGED vars
    BY <2>2, <2>3, <2>8 DEF vars
  <2>9. CASE Reader
    BY <2>2, <2>4, <2>5, <2>6, <2>7, <2>9, ReaderCases, WriteSteps, CrashSteps,
       StartWithSteps
  <2> QED
    BY <2>6, <2>8, <2>9 DEF Next
<1> QED
  BY <1>1, <1>2, Invariance, PTL DEF Spec, ImplementsStream, Stream!Spec
=============================================================================
