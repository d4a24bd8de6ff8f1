------------------------------ MODULE Mailbox ------------------------------
(***************************************************************************)
(* What the queue of a component promises to the threads that use it.      *)
(* Requests get consecutive tickets as they are posted; the worker takes   *)
(* them up in the order of their tickets, one at a time, whoever posted    *)
(* them; the box is closed for good once a stop has been taken up, or, if  *)
(* MayDie, by an exception at any time.  SubComponent implements this.     *)
(***************************************************************************)
EXTENDS Naturals, Sequences

CONSTANTS
  Requests,   \* what can be posted, Stop included
  Stop,       \* the request that closes the box
  MayDie      \* TRUE iff an exception may close the box

VARIABLES
  posted,     \* posted[t] is the request with ticket t
  taken,      \* the tickets taken up so far, in the order they were taken
  open        \* FALSE once the worker is gone

vars == <<posted, taken, open>>

Init ==
  /\ posted = <<>>
  /\ taken = <<>>
  /\ open = TRUE

Post(r) ==
  /\ posted' = Append(posted, r)
  /\ UNCHANGED <<taken, open>>

TakeUp ==
  /\ open
  /\ Len(taken) < Len(posted)
  /\ taken' = Append(taken, Len(taken) + 1)
  /\ UNCHANGED <<posted, open>>

Close ==
  /\ open
  /\ MayDie \/ \E i \in 1..Len(taken) : posted[taken[i]] = Stop
  /\ open' = FALSE
  /\ UNCHANGED <<posted, taken>>

Next == TakeUp \/ Close \/ \E r \in Requests : Post(r)

Spec == Init /\ [][Next]_vars
=============================================================================
