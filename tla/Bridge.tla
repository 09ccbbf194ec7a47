-------------------------------- MODULE Bridge --------------------------------
(***************************************************************************)
(* The capture bridge (network/ids_bridge.py): where the pipeline's events   *)
(* come from.                                                                *)
(*                                                                           *)
(* A listener thread serves one client at a time (the C++ capture or an      *)
(* attacker), puts the lines of its stream together again and emits one      *)
(* event per line.  A capture thread sniffs the interface, or makes up       *)
(* traffic while nothing is connected.  The two share the flag connected,    *)
(* which the dashboard shows as LIVE, and no lock.                           *)
(*                                                                           *)
(* A line travels in two halves, so that a chunk may end inside it; where     *)
(* the line holds a character of several bytes, it ends inside that.  Every    *)
(* chunk is decoded by itself, and of a character that is cut nothing is left. *)
(* A text between two line ends is an event when it is the two halves of one   *)
(* line, with all its characters or without; json.loads raises on anything     *)
(* else, and the line is dropped.                                             *)
(* The sockets are external: a client is queued by the kernel while the      *)
(* server socket listens, and reset when that socket is closed before the     *)
(* client was accepted.                                                      *)
(***************************************************************************)
EXTENDS Integers, Sequences, FiniteSets

CONSTANTS
    Clients,
    None,       \* nobody
    Modes,      \* how the bridge may be started: "synthetic", "live"
    Wide,       \* the lines with a character of several bytes
    Lines       \* bound: lines a client sends

ASSUME BridgeAssumption ==
    /\ None \notin Clients /\ Modes \subseteq {"synthetic", "live"} /\ Lines \in Nat
    /\ Wide \subseteq Nat

VARIABLES
    running, connected,
    lpc,        \* the listener: closed, accept, expired, serve, split, leave, error, done
    peer,       \* the client it serves
    cut,        \* stop() has closed the socket of that client
    waiting,    \* the backlog of the server socket: nobody or one client
    buf,        \* what has been received and is not yet a line
    cpc,        \* the capture thread: start, sniff, look, make, done
    client,     \* a client's end: new, open, shut, reset
    sent,       \* how many halves it has sent
    wire,       \* what of it has not been received
    handled,    \* history: the lines handed to the bus, per client, whole or not
    dropped,    \* history: how many lines raised
    made        \* history: synthetic events since the client in service was accepted

listener == <<lpc, peer, cut, waiting, buf>>
ends == <<client, sent, wire>>
history == <<handled, dropped, made>>
vars == <<running, connected, listener, cpc, ends, history>>

Init ==
    /\ running = TRUE /\ connected = FALSE
    /\ lpc = "closed" /\ peer = None /\ cut = FALSE /\ waiting = {} /\ buf = <<>>
    /\ \E mode \in Modes : cpc = IF mode = "live" THEN "start" ELSE "look"
    /\ client = [c \in Clients |-> "new"]
    /\ sent = [c \in Clients |-> 0]
    /\ wire = [c \in Clients |-> <<>>]
    /\ handled = [c \in Clients |-> <<>>]
    /\ dropped = 0 /\ made = 0

-----------------------------------------------------------------------------
(* The clients.                                                              *)

Half(c, n) == [from |-> c, line |-> (n + 1) \div 2, end |-> n % 2 = 0, whole |-> TRUE]

Dial(c) ==
    /\ client[c] = "new" /\ lpc \notin {"closed", "done"} /\ waiting = {}
    /\ client' = [client EXCEPT ![c] = "open"]
    /\ waiting' = {c}
    /\ UNCHANGED <<running, connected, lpc, peer, cut, buf, cpc, sent, wire, history>>

Send(c) ==
    /\ client[c] = "open" /\ sent[c] < 2 * Lines
    /\ sent' = [sent EXCEPT ![c] = @ + 1]
    /\ wire' = [wire EXCEPT ![c] = Append(@, Half(c, sent'[c]))]
    /\ UNCHANGED <<running, connected, listener, cpc, client, history>>

\* A client leaves in the middle of a line too; what it has sent is delivered.
Leave(c) ==
    /\ client[c] = "open"
    /\ client' = [client EXCEPT ![c] = "shut"]
    /\ UNCHANGED <<running, connected, listener, cpc, sent, wire, history>>

\* Or its connection breaks, and what has not been received is gone.
Break(c) ==
    /\ client[c] = "open"
    /\ client' = [client EXCEPT ![c] = "reset"]
    /\ wire' = [wire EXCEPT ![c] = <<>>]
    /\ UNCHANGED <<running, connected, listener, cpc, sent, history>>

-----------------------------------------------------------------------------
(* The listener: _listen_loop and _handle_event                              *)

\* The clients of a server socket that is closed are told so by the kernel.
TurnedAway ==
    /\ waiting' = {}
    /\ client' = [c \in Clients |-> IF c \in waiting THEN "reset" ELSE client[c]]
    /\ wire' = [c \in Clients |-> IF c \in waiting THEN <<>> ELSE wire[c]]

\* The loop's test, and a new server socket.  After a timeout the old one is
\* closed only now, when its variable is used again.
Listen ==
    /\ lpc \in {"closed", "expired"} /\ running
    /\ lpc' = "accept"
    /\ TurnedAway
    /\ UNCHANGED <<running, connected, peer, cut, buf, cpc, sent, history>>

\* The address is taken, or the status callback raises.
ListenFails ==
    /\ lpc \in {"closed", "expired"} /\ running
    /\ lpc' = "error"
    /\ connected' = FALSE
    /\ TurnedAway
    /\ UNCHANGED <<running, peer, cut, buf, cpc, sent, history>>

Quit ==
    /\ lpc \in {"closed", "expired"} /\ ~running
    /\ lpc' = "done"
    /\ TurnedAway
    /\ UNCHANGED <<running, connected, peer, cut, buf, cpc, sent, history>>

AcceptTimesOut ==
    /\ lpc = "accept" /\ waiting = {}
    /\ lpc' = "expired"
    /\ UNCHANGED <<running, connected, peer, cut, waiting, buf, cpc, ends, history>>

\* Slip (see the README): the buffer outlives the connection.
Kept == buf
NewBuffer == <<>>

Accept == \E c \in waiting :
    /\ lpc = "accept"
    /\ lpc' = "serve"
    /\ peer' = c /\ cut' = FALSE
    /\ waiting' = {}
    /\ connected' = TRUE
    /\ buf' = NewBuffer
    /\ made' = 0
    /\ UNCHANGED <<running, cpc, ends, handled, dropped>>

\* decode("utf-8", errors="ignore") of one chunk: the half character a chunk begins or
\* ends with is left out.
CutAt(chunk, i) == /\ chunk[i].line \in Wide
                   /\ IF chunk[i].end THEN i = 1 ELSE i = Len(chunk)
Decoded(chunk) == [i \in DOMAIN chunk |->
                      [chunk[i] EXCEPT !.whole = ~CutAt(chunk, i)]]

\* Slip (see the README): the loop reads on.
ReadsOn == lpc' = "serve"
LoopEnds == lpc' = "leave"

\* recv returns some of what has arrived.  When it is only a part of a character (the
\* text before it came earlier), nothing of it is left, as if the client had gone.
Receive ==
    /\ lpc = "serve" /\ client[peer] # "reset"
    /\ \E n \in 1..Len(wire[peer]) :
         LET chunk == SubSeq(wire[peer], 1, n)
         IN  /\ buf' = buf \o Decoded(chunk)
             /\ wire' = [wire EXCEPT ![peer] = SubSeq(@, n + 1, Len(@))]
             /\ lpc' = "split" \/ (n = 1 /\ ~chunk[1].end /\ CutAt(chunk, 1) /\ LoopEnds)
    /\ UNCHANGED <<running, connected, peer, cut, waiting, cpc, client, sent, history>>

LineEndsAt(text, i) == text[i].end /\ \A j \in 1..(i - 1) : ~text[j].end
Valid(line) == Len(line) = 2 /\ line[1].line = line[2].line

\* _handle_event: json.loads raises on what is not one line, and that is dropped; a
\* string that has lost a character is still one.
Handed(line) == [line |-> line[1].line, whole |-> line[1].whole /\ line[2].whole]

HandleEvent(line) ==
    /\ handled' = IF Valid(line) THEN [handled EXCEPT ![peer] = Append(@, Handed(line))]
                                 ELSE handled
    /\ dropped' = IF Valid(line) THEN dropped ELSE dropped + 1

\* As long as there is a line end in the buffer, ...
TakeLine ==
    /\ lpc = "split"
    /\ \E i \in 1..Len(buf) :
        /\ LineEndsAt(buf, i)
        /\ HandleEvent(SubSeq(buf, 1, i))
        /\ buf' = SubSeq(buf, i + 1, Len(buf))
    /\ UNCHANGED <<running, connected, lpc, peer, cut, waiting, cpc, ends, made>>

\* ... and then the loop's test.
NoMoreLines ==
    /\ lpc = "split"
    /\ \A i \in 1..Len(buf) : ~buf[i].end
    /\ lpc' = IF running THEN "serve" ELSE "leave"
    /\ UNCHANGED <<running, connected, peer, cut, waiting, buf, cpc, ends, history>>

\* An empty chunk: the client has left.
ReceiveNothing ==
    /\ lpc = "serve" /\ client[peer] = "shut" /\ wire[peer] = <<>>
    /\ LoopEnds
    /\ UNCHANGED <<running, connected, peer, cut, waiting, buf, cpc, ends, history>>

\* Both sockets are closed.
EndService ==
    /\ lpc = "leave"
    /\ lpc' = "closed"
    /\ peer' = None
    /\ connected' = FALSE
    /\ TurnedAway
    /\ UNCHANGED <<running, cut, buf, cpc, sent, history>>

\* recv raises: the connection is broken, or stop() has closed the socket.  The
\* server socket stays open until the next one replaces it.
ReceiveRaises ==
    /\ lpc = "serve" /\ (client[peer] = "reset" \/ cut)
    /\ lpc' = "error"
    /\ peer' = None
    /\ connected' = FALSE
    /\ UNCHANGED <<running, cut, waiting, buf, cpc, ends, history>>

\* A second later.
GoOn ==
    /\ lpc = "error"
    /\ lpc' = "expired"
    /\ UNCHANGED <<running, connected, peer, cut, waiting, buf, cpc, ends, history>>

Listener ==
    \/ Listen \/ ListenFails \/ Quit \/ AcceptTimesOut \/ Accept
    \/ Receive \/ TakeLine \/ NoMoreLines \/ ReceiveNothing
    \/ EndService \/ ReceiveRaises \/ GoOn

-----------------------------------------------------------------------------
(* The capture thread: _direct_capture and _synthetic_fallback               *)

Capture(here, there, flag) ==
    /\ cpc = here /\ cpc' = there
    /\ connected' = flag
    /\ UNCHANGED <<running, listener, ends, history>>

\* scapy or its driver is missing.
Unable == Capture("start", "look", connected)
StartSniffing == Capture("start", "sniff", TRUE)
SniffFails == Capture("sniff", "look", FALSE)

\* sniff() returns: stop_filter says so after stop(), or scapy gives its socket up.
SniffEnds == Capture("sniff", "done", connected)

\* Slip (see the README): made up whether or not somebody is connected.
Always == TRUE
Alone == ~connected

Look ==
    /\ running /\ Alone
    /\ Capture("look", "make", connected)
LookEnds == ~running /\ Capture("look", "done", connected)

\* made is not counted beyond two: more is wrong already.
MakeUp ==
    /\ cpc = "make" /\ cpc' = "look"
    /\ made' = IF peer = None \/ made = 2 THEN made ELSE made + 1
    /\ UNCHANGED <<running, connected, listener, ends, handled, dropped>>

CaptureThread ==
    Unable \/ StartSniffing \/ SniffFails \/ SniffEnds \/ Look \/ LookEnds \/ MakeUp

Stop ==
    /\ running
    /\ running' = FALSE
    /\ cut' = (peer # None)
    /\ UNCHANGED <<connected, lpc, peer, waiting, buf, cpc, ends, history>>

Next ==
    \/ Listener \/ CaptureThread \/ Stop
    \/ \E c \in Clients : Dial(c) \/ Send(c) \/ Leave(c) \/ Break(c)

\* Both threads go on; nothing obliges a client, or anybody to stop the bridge.
\* A client that has left is told apart from a silent one by the socket.
Spec == Init /\ [][Next]_vars
FairSpec == Spec /\ WF_vars(Listener) /\ WF_vars(Look \/ LookEnds \/ MakeUp)

-----------------------------------------------------------------------------
(* However a stream is cut into chunks, its lines are handed over once each,   *)
(* in their order, none joined with what another connection left behind; and    *)
(* those of single-byte characters whole.                                       *)
LinesArriveWhole ==
    /\ dropped = 0
    /\ \A c \in Clients : \A n \in DOMAIN handled[c] :
         handled[c][n].line = n /\ (handled[c][n].whole \/ n \in Wide)

(* The same of every line.  A chunk that ends inside a character loses it.      *)
NothingIsLost == \A c \in Clients : \A n \in DOMAIN handled[c] : handled[c][n].whole

(* A client is served until it leaves or its connection breaks, or the bridge    *)
(* is stopped.  A chunk that holds only a part of a character ends the service.  *)
ServedUntilItLeaves == lpc = "leave" => ~running \/ client[peer] # "open"

(* While a client is served, and the flag says so, at most one made-up event   *)
(* joins its events: the one begun before it was accepted.                     *)
MadeUpAlone == peer # None /\ connected => made <= 1

(* The same whatever the flag says ("Synthetic fallback when IDS not           *)
(* connected").  A capture that fails clears the flag of the client's           *)
(* connection, and events are made up beside the client's.                      *)
SyntheticWhenNotConnected == peer # None => made <= 1

(* A client that has left is noticed, and what had paused for it goes on: an    *)
(* event is made up, or another client is served, or the bridge is stopped.     *)
TrafficResumes ==
    \A c \in Clients :
        (peer = c /\ client[c] = "shut" /\ cpc = "look") ~>
            (cpc = "make" \/ peer \notin {None, c} \/ ~running)

(* The same in live mode.  Once sniff() has returned, nothing goes on.          *)
CaptureResumes ==
    \A c \in Clients :
        (peer = c /\ client[c] = "shut") ~>
            (cpc \in {"start", "sniff", "make"} \/ peer \notin {None, c} \/ ~running)
=============================================================================
