--------------------------- MODULE UserInterface ---------------------------
(***************************************************************************)
(* UserInterface (userinterface.py): commands over TCP.  Its loop accepts  *)
(* connections and reads what has arrived; process() cuts it into lines    *)
(* and queues a parse_message for each on the component's own queue, which *)
(* is drained before the next loop.  An exception ends the thread.  stop() *)
(* closes the connections in the thread of its caller.                     *)
(*                                                                         *)
(* A line is one or two pieces and a newline: a chunk that is read may end *)
(* anywhere, in the middle of a STARTOBS too.                              *)
(***************************************************************************)
EXTENDS Naturals, Sequences, FiniteSets, SequencesExt, FiniteSetsExt

CONSTANTS
  Clients,
  Messages,     \* Messages[c]: what client c may send
  MaxSent       \* bound on the messages sent

(* STATE stands for JSON too; BADARGS is a STARTOBS without two arguments, *)
(* BADTOBS one whose second argument is not a number.                      *)
ASSUME MessagesAssumption ==
  Messages \in [Clients -> SUBSET {"STATE", "SHUTDOWN", "STARTOBS", "BADARGS",
                                   "BADTOBS", "STOPOBS", "OTHER"}]

VARIABLES
  peer,       \* the client's end: absent, open, unread or closed
  wire,       \* what is under way from the client
  conn,       \* our end: none, open or closed
  buffer,     \* read_buffer
  selector,   \* none, open or gone
  queue,      \* function_queue: parse_message, get_state and stop
  run,        \* self.run
  phase,      \* drain, select, loop; exited or dead
  ready,      \* what select has returned and is still to be handled
  stop,       \* where stop() is
  closing,    \* the connections it has still to close
  sent,       \* history: what each client has sent,
  parsed,     \*   the lines that were read from it,
  replies,    \*   how many replies were written to it,
  commands    \*   and what was called on the backend for it

clientVars == <<peer, wire, sent>>
threadVars == <<queue, run, phase, ready>>
inputVars  == <<buffer, parsed>>
resultVars == <<replies, commands>>
stopVars   == <<selector, stop, closing>>
vars == <<clientVars, threadVars, inputVars, resultVars, stopVars, conn>>

Newline == <<"newline", 0>>
Pieces(m) ==
  IF m = "STARTOBS" THEN <<<<m, 1>>, <<m, 2>>>> ELSE <<<<m, 1>>>>
IsCommand(m) == m \in {"SHUTDOWN", "STARTOBS", "STOPOBS"}
Listener == "listener"

Init ==
  /\ peer = [c \in Clients |-> "absent"]
  /\ wire = [c \in Clients |-> <<>>]
  /\ conn = [c \in Clients |-> "none"]
  /\ buffer = [c \in Clients |-> <<>>]
  /\ selector = "none"
  /\ queue = <<>>
  /\ run = TRUE
  /\ phase = "drain"
  /\ ready = {}
  /\ stop = "no"
  /\ closing = {}
  /\ sent = [c \in Clients |-> <<>>]
  /\ parsed = [c \in Clients |-> <<>>]
  /\ replies = [c \in Clients |-> 0]
  /\ commands = [c \in Clients |-> <<>>]

(* start() makes the sockets when the thread already runs.                 *)
Start ==
  /\ selector = "none"
  /\ selector' = "open"
  /\ UNCHANGED <<clientVars, threadVars, inputVars, resultVars, conn, stop,
                 closing>>

-----------------------------------------------------------------------------
(* The clients.                                                            *)

Client == UNCHANGED <<threadVars, inputVars, resultVars, stopVars, conn>>

Connect(c) ==
  /\ peer[c] = "absent"
  /\ selector = "open"
  /\ peer' = [peer EXCEPT ![c] = "open"]
  /\ UNCHANGED <<wire, sent>> /\ Client

Send(c, m) ==
  /\ peer[c] \in {"open", "unread"}
  /\ MapThenSumSet(LAMBDA d : Len(sent[d]), Clients) < MaxSent
  /\ sent' = [sent EXCEPT ![c] = Append(@, m)]
  /\ wire' = [wire EXCEPT ![c] = @ \o Pieces(m) \o <<Newline>>]
  /\ UNCHANGED peer /\ Client

(* It stops reading the answers, or closes its end; what it has sent still *)
(* arrives.                                                                *)
Turns(c) ==
  /\ \/ peer[c] = "open" /\ peer' = [peer EXCEPT ![c] = "unread"]
     \/ peer[c] \in {"open", "unread"} /\ peer' = [peer EXCEPT ![c] = "closed"]
  /\ UNCHANGED <<wire, sent>> /\ Client

ClientStep(c) ==
  \/ Connect(c) \/ Turns(c)
  \/ \E m \in Messages[c] : Send(c, m)

-----------------------------------------------------------------------------
(* The drain.                                                              *)

Drops == UNCHANGED <<clientVars, inputVars, stopVars, conn>>

Head1 == IF phase = "drain" /\ queue # <<>> THEN Head(queue) ELSE <<"none">>

(* Writing to a socket that is closed raises; to a client that is gone, or *)
(* that has let its socket fill up, it may.                                *)
MayNotWrite(c) == conn[c] = "closed" \/ peer[c] # "open"

Written(c) ==
  /\ conn[c] = "open"
  /\ replies' = [replies EXCEPT ![c] = @ + 1]

MessageOf(line) ==
  IF \E m \in UNION {Messages[c] : c \in Clients} : line = Pieces(m) THEN line[1][1] ELSE "OTHER"

(* The answer to STATE is queued behind what was read with it.             *)
ParseState(c) ==
  /\ queue' = Append(Tail(queue), <<"get_state", c>>)
  /\ UNCHANGED resultVars

ParseAndAnswer(c, m) ==
  /\ m \notin {"STATE", "BADTOBS"}
  /\ Written(c)
  /\ commands' = IF IsCommand(m)
                   THEN [commands EXCEPT ![c] = Append(@, m)] ELSE commands
  /\ queue' = Tail(queue)

ParseMessage(c) ==
  /\ Head1[1] = "parse" /\ Head1[2] = c
  /\ \/ MessageOf(Head1[3]) = "STATE" /\ ParseState(c)
     \/ ParseAndAnswer(c, MessageOf(Head1[3]))
  /\ UNCHANGED <<run, phase, ready>> /\ Drops

GetState(c) ==
  /\ Head1 = <<"get_state", c>>
  /\ Written(c)
  /\ queue' = Tail(queue)
  /\ UNCHANGED <<run, phase, ready, commands>> /\ Drops

Dies ==
  /\ phase' = "dead"
  /\ UNCHANGED <<clientVars, queue, run, ready, inputVars, resultVars,
                 stopVars, conn>>

HandlerFails(c) ==
  /\ \/ /\ Head1[1] = "parse" /\ Head1[2] = c
        /\ \/ MessageOf(Head1[3]) = "BADTOBS"
           \/ MessageOf(Head1[3]) # "STATE" /\ MayNotWrite(c)
     \/ Head1 = <<"get_state", c>> /\ MayNotWrite(c)
  /\ Dies

(* Variant: the flag is left.                                              *)
ServeStopForgets ==
  /\ Head1 = <<"stop">>
  /\ queue' = Tail(queue)
  /\ UNCHANGED <<run, phase, ready, resultVars>> /\ Drops

ServeStop ==
  /\ Head1 = <<"stop">>
  /\ run' = FALSE
  /\ queue' = Tail(queue)
  /\ UNCHANGED <<phase, ready, resultVars>> /\ Drops

-----------------------------------------------------------------------------
(* The loop.  stop() may take the selector away at any point of it.        *)

Loop(from, to, found) ==
  /\ phase = from
  /\ phase' = to
  /\ ready' = found
  /\ UNCHANGED <<clientVars, queue, run, inputVars, resultVars, stopVars,
                 conn>>

LookForSelector ==
  /\ queue = <<>>
  /\ Loop("drain", IF selector = "open" THEN "select" ELSE "loop", {})

Readable ==
  {c \in Clients : conn[c] = "open" /\ (wire[c] # <<>> \/ peer[c] = "closed")}
Pending == {c \in Clients : conn[c] = "none" /\ peer[c] # "absent"}

Select ==
  Loop("select", "loop",
       Readable \cup (IF Pending = {} THEN {} ELSE {Listener}))

SelectFails == phase = "select" /\ selector = "gone" /\ Dies

(* accept, the new ui_connection and its registration are one step.        *)
Accept(c) ==
  /\ phase = "loop" /\ Listener \in ready /\ c \in Pending
  /\ selector = "open"
  /\ conn' = [conn EXCEPT ![c] = "open"]
  /\ ready' = ready \ {Listener}
  /\ UNCHANGED <<clientVars, queue, run, phase, inputVars, resultVars,
                 stopVars>>

AcceptFails ==
  phase = "loop" /\ Listener \in ready /\ selector = "gone" /\ Dies

Chosen(c) == phase = "loop" /\ c \in ready /\ conn[c] = "open"

(* split("\n"): the lines in text, and what comes after the last newline.  *)
(* read_buffer has no newline in it: it is the beginning of the first line.*)
Split(text) ==
  LET split[i \in 0..Len(text)] ==
        IF i = 0 THEN [lines |-> <<>>, rest |-> <<>>]
        ELSE IF text[i] = Newline
          THEN [lines |-> Append(split[i-1].lines, split[i-1].rest),
                rest  |-> <<>>]
          ELSE [lines |-> split[i-1].lines,
                rest  |-> Append(split[i-1].rest, text[i])]
  IN split[Len(text)]

Lines(text) == Split(text).lines
LeftOver(text) == Split(text).rest

Takes(c, n, lines, rest) ==
  /\ wire' = [wire EXCEPT ![c] = SubSeq(@, n + 1, Len(@))]
  /\ parsed' = [parsed EXCEPT ![c] = @ \o lines]
  /\ queue' = queue \o [k \in DOMAIN lines |-> <<"parse", c, lines[k]>>]
  /\ buffer' = [buffer EXCEPT ![c] = rest]
  /\ ready' = ready \ {c}
  /\ UNCHANGED <<peer, sent, run, phase, resultVars, stopVars, conn>>

(* Variant: the fragment after the last newline is forgotten.              *)
ProcessDropsRest(c) ==
  /\ Chosen(c)
  /\ \E n \in 1..Len(wire[c]) :
       LET text == buffer[c] \o SubSeq(wire[c], 1, n)
       IN Takes(c, n, Lines(text),
                IF Lines(text) = <<>> THEN text ELSE <<>>)

(* Variant: the lines of a chunk are taken from the last to the first.     *)
ProcessBackwards(c) ==
  /\ Chosen(c)
  /\ \E n \in 1..Len(wire[c]) :
       LET text == buffer[c] \o SubSeq(wire[c], 1, n)
       IN Takes(c, n, Reverse(Lines(text)), LeftOver(text))

(* Variant: only the first line of a chunk is taken.                       *)
ProcessFirst(c) ==
  /\ Chosen(c)
  /\ \E n \in 1..Len(wire[c]) :
       LET text == buffer[c] \o SubSeq(wire[c], 1, n)
       IN Takes(c, n, IF Lines(text) = <<>> THEN <<>> ELSE <<Lines(text)[1]>>,
                LeftOver(text))

Process(c) ==
  /\ Chosen(c)
  /\ \E n \in 1..Len(wire[c]) :
       LET text == buffer[c] \o SubSeq(wire[c], 1, n)
       IN Takes(c, n, Lines(text), LeftOver(text))

(* close(), called by process().                                           *)
HangUp(c) ==
  /\ Chosen(c)
  /\ wire[c] = <<>> /\ peer[c] = "closed"
  /\ selector = "open"
  /\ conn' = [conn EXCEPT ![c] = "closed"]
  /\ ready' = ready \ {c}
  /\ UNCHANGED <<clientVars, queue, run, phase, inputVars, resultVars,
                 stopVars>>

(* Our end was closed by stop(), the selector is gone, or the client left  *)
(* with answers unread and its connection is reset.                        *)
ProcessFails(c) ==
  /\ phase = "loop" /\ c \in ready
  /\ \/ conn[c] = "closed"
     \/ peer[c] = "closed" /\ replies[c] > 0
     \/ peer[c] = "closed" /\ wire[c] = <<>> /\ selector = "gone"
  /\ Dies

EndLoop == ready = {} /\ Loop("loop", IF run THEN "drain" ELSE "exited", {})

Thread ==
  \/ ServeStop \/ LookForSelector \/ Select \/ SelectFails \/ AcceptFails
  \/ EndLoop
  \/ \E c \in Clients : \/ ParseMessage(c) \/ GetState(c) \/ HandlerFails(c)
                        \/ Accept(c) \/ Process(c) \/ HangUp(c)
                        \/ ProcessFails(c)

-----------------------------------------------------------------------------
(* stop(): the component's own stop is queued, the connections there are   *)
(* then are closed one by one, and the selector is taken away.             *)

Stopping(from, to) ==
  /\ stop = from
  /\ stop' = to
  /\ UNCHANGED <<clientVars, run, phase, ready, inputVars, resultVars>>

StopBegins ==
  /\ selector = "open"
  /\ Stopping("no", "copy")
  /\ queue' = Append(queue, <<"stop">>)
  /\ UNCHANGED <<selector, closing, conn>>

StopCopies ==
  /\ Stopping("copy", "closing")
  /\ closing' = {c \in Clients : conn[c] = "open"}
  /\ UNCHANGED <<selector, queue, conn>>

StopCloses(c) ==
  /\ c \in closing /\ conn[c] = "open"
  /\ Stopping("closing", "closing")
  /\ conn' = [conn EXCEPT ![c] = "closed"]
  /\ closing' = closing \ {c}
  /\ UNCHANGED <<selector, queue>>

(* The loop has closed it meanwhile: ValueError, the sockets stay.         *)
StopRaises(c) ==
  /\ c \in closing /\ conn[c] = "closed"
  /\ Stopping("closing", "raised")
  /\ UNCHANGED <<selector, closing, queue, conn>>

StopSelector ==
  /\ closing = {}
  /\ Stopping("closing", "done")
  /\ selector' = "gone"
  /\ UNCHANGED <<closing, queue, conn>>

Stop ==
  \/ StopCopies \/ StopSelector
  \/ \E c \in Clients : StopCloses(c) \/ StopRaises(c)

Next ==
  \/ Start \/ StopBegins \/ Stop \/ Thread
  \/ \E c \in Clients : ClientStep(c)

(* The thread runs and so does stop() once it is called; clients and users *)
(* do as they like.                                                        *)
Spec ==
  /\ Init /\ [][Next]_vars
  /\ WF_vars(Start) /\ WF_vars(Thread) /\ WF_vars(Stop)

-----------------------------------------------------------------------------
(* Properties.                                                             *)

(* However the bytes are cut into chunks, no piece of a line is lost,      *)
(* doubled or given to another line or another client (lines 123-146).     *)
LinesWhole ==
  \A c \in Clients :
    LET line(p) == p \o <<Newline>>
        whole(m) == Pieces(m) \o <<Newline>>
    IN FlattenSeq([k \in DOMAIN parsed[c] |-> line(parsed[c][k])])
         \o buffer[c] \o wire[c]
       = FlattenSeq([k \in DOMAIN sent[c] |-> whole(sent[c][k])])

(* The backend is called for a client in the order the client wrote its    *)
(* commands in, each once at most, and not past one that was not called:   *)
(* the k-th call is the k-th command it sent.                              *)
CommandsInOrder ==
  \A c \in Clients : \A k \in DOMAIN commands[c] :
    \E i \in DOMAIN sent[c] :
      /\ IsCommand(sent[c][i])
      /\ commands[c][k] = sent[c][i]
      /\ k = Cardinality({j \in 1..i : IsCommand(sent[c][j])})

(* Some client has done what may end the thread for all of them: it has    *)
(* left, does not read its answers, or has sent a tobs that is no number.  *)
Disturbed ==
  \E c \in Clients :
    \/ peer[c] \in {"unread", "closed"}
    \/ \E k \in DOMAIN sent[c] : sent[c][k] = "BADTOBS"

(* A client gets as many answers as it sends messages, unless stop() has   *)
(* begun or a client, not necessarily this one, has disturbed the thread   *)
(* (lines 75-106).                                                         *)
EveryLineAnswered ==
  \A c \in Clients :
    (sent[c] # <<>>) ~> (replies[c] = Len(sent[c]) \/ Disturbed \/ stop # "no")

(* stop() comes to an end and so does the thread, whichever of the two     *)
(* closes a connection first (lines 41-54, 119-122).                       *)
StopEndsUI ==
  (stop # "no") ~> (stop \in {"done", "raised"} /\ phase \in {"exited", "dead"})
=============================================================================
