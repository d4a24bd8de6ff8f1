----------------------------- MODULE DadaStream -----------------------------
(***************************************************************************)
(* What the reader of a DADA buffer (dspsr) may rely on.  The stream has   *)
(* one slot for every heap of the digitiser since the start time in the    *)
(* header; a slot holds the heap that belongs there or a filler, nothing   *)
(* that was written changes, and nothing follows the end of data.  The     *)
(* fillers stand in for heaps that were lost, so one is always followed    *)
(* by the heap that showed the loss.                                       *)
(*                                                                         *)
(* All of this ends when the stream breaks: what is written from then on   *)
(* is not where it belongs, and there may be no end of data.  It breaks in *)
(* a gap only, and only while the writer has not a packet in every place   *)
(* where it looks for a filler.  Capture implements this.                  *)
(***************************************************************************)
EXTENDS Naturals, Sequences

VARIABLES
  stream,     \* "data", "filler" or "misplaced", slot by slot
  eod,        \* TRUE once the writer has closed the stream
  broken,     \* TRUE once slots and heaps no longer agree
  fillable    \* the writer can fill any gap

vars == <<stream, eod, broken, fillable>>

Init ==
  /\ stream = <<>>
  /\ eod = FALSE
  /\ broken = FALSE
  /\ fillable = FALSE

New == Len(stream)+1..Len(stream')

Grow ==
  /\ ~eod
  /\ Len(stream') >= Len(stream)
  /\ \A i \in 1..Len(stream) : stream'[i] = stream[i]

Put ==
  /\ Grow
  /\ ~broken
  /\ Len(stream') > Len(stream)
  /\ \A i \in New \ {Len(stream')} : stream'[i] = "filler"
  /\ stream'[Len(stream')] = "data"
  /\ eod' \in BOOLEAN
  /\ broken' = FALSE

Break ==
  /\ Grow
  /\ ~broken
  /\ ~fillable
  /\ stream # <<>>
  /\ \A i \in New : stream'[i] \in {"filler", "misplaced"}
  /\ eod' \in BOOLEAN
  /\ broken' = TRUE

Scatter ==
  /\ Grow
  /\ broken
  /\ \A i \in New : stream'[i] = "misplaced"
  /\ eod' \in BOOLEAN
  /\ broken' = TRUE

Close ==
  /\ ~eod
  /\ stream # <<>>
  /\ eod' = TRUE
  /\ UNCHANGED <<stream, broken>>

Refill == UNCHANGED <<stream, eod, broken>>

Next ==
  /\ Put \/ Break \/ Scatter \/ Close \/ Refill
  /\ fillable' \in BOOLEAN

Spec == Init /\ [][Next]_vars
=============================================================================
