------------------------------- MODULE RunProofs -------------------------------
(***************************************************************************)
(* What run.py promises of what it takes in and of what it learns from it.  *)
(*                                                                         *)
(* The capture bridge, for any number of clients that send any number of    *)
(* lines: a client's events are not mixed with made-up ones, and its lines  *)
(* arrive once and in order, those of single-byte characters whole.         *)
(*                                                                         *)
(* The lessons, for any packets, any number of side threads and any length  *)
(* of the run: a mistake leaves a correction, what was corrected last       *)
(* decides the next packet of its kind, and a campaign is one run of        *)
(* similar packets.                                                         *)
(***************************************************************************)
EXTENDS Bridge, Learning, Integers, SequenceTheorems, FiniteSetTheorems,
        WellFoundedInduction, TLAPS

-----------------------------------------------------------------------------
(* Bridge.                                                                   *)
\* Nothing has been made up before the capture has failed.  From when a client is
\* accepted, the flag lets through one event at most, the one that was begun.
MadeInv ==
    /\ made \in 0..2
    /\ cpc \in {"start", "sniff"} => made = 0
    /\ peer # None /\ connected => made <= 1
    /\ peer # None /\ connected /\ cpc = "make" => made = 0

LEMMA MadeInitial == Init => MadeInv
BY DEF Init, MadeInv

LEMMA ListenerKeeps == MadeInv /\ Listener => MadeInv'
<1> SUFFICES ASSUME MadeInv, Listener PROVE MadeInv'
  OBVIOUS
<1>1. CASE Accept
  BY <1>1 DEF Accept, MadeInv
<1>2. ASSUME made' = made, cpc' = cpc, peer' = peer, connected' = connected PROVE MadeInv'
  BY <1>2 DEF MadeInv
<1>3. ASSUME made' = made, cpc' = cpc, connected' = FALSE PROVE MadeInv'
  BY <1>3 DEF MadeInv
<1>4. CASE Listen \/ Quit \/ AcceptTimesOut \/ ReceiveNothing \/ GoOn
  BY <1>2, <1>4 DEF Listen, Quit, AcceptTimesOut, ReceiveNothing, GoOn, history
<1>5. CASE Receive \/ TakeLine \/ NoMoreLines
  BY <1>2, <1>5 DEF Receive, TakeLine, NoMoreLines, history
<1>6. CASE ListenFails \/ EndService \/ ReceiveRaises
  BY <1>3, <1>6 DEF ListenFails, EndService, ReceiveRaises, history
<1> QED BY <1>1, <1>4, <1>5, <1>6 DEF Listener

LEMMA CaptureKeeps == MadeInv /\ CaptureThread => MadeInv'
<1> SUFFICES ASSUME MadeInv, CaptureThread PROVE MadeInv'
  OBVIOUS
<1>1. ASSUME NEW here, NEW there, NEW flag, Capture(here, there, flag)
      PROVE  /\ cpc = here /\ cpc' = there /\ connected' = flag
             /\ made' = made /\ peer' = peer
  BY <1>1 DEF Capture, listener, history
<1>2. CASE Unable
  <2>1. cpc = "start" /\ cpc' = "look" /\ connected' = connected /\ made' = made /\ peer' = peer
    BY <1>1, <1>2 DEF Unable
  <2> QED BY <2>1 DEF MadeInv
<1>3. CASE StartSniffing
  <2>1. cpc = "start" /\ cpc' = "sniff" /\ made' = made
    BY <1>1, <1>3 DEF StartSniffing
  <2> QED BY <2>1 DEF MadeInv
<1>4. CASE SniffFails
  <2>1. cpc = "sniff" /\ cpc' = "look" /\ made' = made
    BY <1>1, <1>4 DEF SniffFails
  <2> QED BY <2>1 DEF MadeInv
<1>5. CASE SniffEnds
  <2>1. cpc = "sniff" /\ cpc' = "done" /\ made' = made
    BY <1>1, <1>5 DEF SniffEnds
  <2> QED BY <2>1 DEF MadeInv
<1>6. CASE Look
  <2>1. ~connected /\ cpc' = "make" /\ connected' = connected /\ made' = made /\ peer' = peer
    BY <1>1, <1>6 DEF Look, Alone
  <2> QED BY <2>1 DEF MadeInv
<1>7. CASE LookEnds
  <2>1. cpc' = "done" /\ connected' = connected /\ made' = made /\ peer' = peer
    BY <1>1, <1>7 DEF LookEnds
  <2> QED BY <2>1 DEF MadeInv
<1>8. CASE MakeUp
  <2>1. /\ cpc = "make" /\ cpc' = "look" /\ connected' = connected /\ peer' = peer
        /\ made' = IF peer = None \/ made = 2 THEN made ELSE made + 1
    BY <1>8 DEF MakeUp, listener
  <2> QED BY <2>1 DEF MadeInv
<1> QED BY <1>2, <1>3, <1>4, <1>5, <1>6, <1>7, <1>8 DEF CaptureThread

LEMMA MadeInductive == MadeInv /\ [Next]_vars => MadeInv'
<1> SUFFICES ASSUME MadeInv, [Next]_vars PROVE MadeInv'
  OBVIOUS
<1>1. ASSUME UNCHANGED <<made, cpc, peer, connected>> PROVE MadeInv'
  BY <1>1 DEF MadeInv
<1>2. CASE Stop
  BY <1>1, <1>2 DEF Stop, history
<1>3. ASSUME NEW c \in Clients, Dial(c) \/ Send(c) \/ Leave(c) \/ Break(c) PROVE MadeInv'
  BY <1>1, <1>3 DEF Dial, Send, Leave, Break, listener, history
<1>4. CASE UNCHANGED vars
  BY <1>1, <1>4 DEF vars, listener, history
<1> QED BY <1>2, <1>3, <1>4, ListenerKeeps, CaptureKeeps DEF Next

\* Whoever connects and whenever the capture fails, a client that is served
\* under the flag meets one made-up event at most.
THEOREM ServedClientsAreAlone == Spec => []MadeUpAlone
<1>1. MadeInv => MadeUpAlone
  BY DEF MadeInv, MadeUpAlone
<1> QED BY <1>1, MadeInitial, MadeInductive, PTL DEF Spec
-----------------------------------------------------------------------------
(* Lines arrive in their places.                                              *)

Ends == {"new", "open", "shut", "reset"}
Halves == [from : Clients, line : Nat, end : BOOLEAN, whole : BOOLEAN]
Events == [line : Nat, whole : BOOLEAN]

\* The text is what a client sent after its n-th half.
Follows(text, c, n) == \A i \in 1..Len(text) : text[i] = Half(c, n + i)

\* The same, but for characters that were cut.
Same(h, g) == h.line = g.line /\ h.end = g.end /\ (h.whole \/ h.line \in Wide)
Heard(text, c, n) == \A i \in 1..Len(text) : Same(text[i], Half(c, n + i))

\* Two halves of every line that was handed over are gone; the others are in the
\* buffer and on the wire, in their order.
InService(c) ==
    LET n == 2 * Len(handled[c]) IN
    /\ client[c] # "new"
    /\ Heard(buf, c, n)
    /\ Follows(wire[c], c, n + Len(buf))
    /\ client[c] # "reset" => n + Len(buf) + Len(wire[c]) = sent[c]

BeforeService(c) ==
    /\ handled[c] = <<>>
    /\ Follows(wire[c], c, 0)
    /\ client[c] # "reset" => Len(wire[c]) = sent[c]

TypeInv ==
    /\ client \in [Clients -> Ends]
    /\ sent \in [Clients -> Nat]
    /\ wire \in [Clients -> Seq(Halves)]
    /\ buf \in Seq(Halves)
    /\ handled \in [Clients -> Seq(Events)]
    /\ waiting \subseteq Clients
    /\ peer \in Clients \cup {None}

StreamInv ==
    /\ TypeInv
    /\ lpc \in {"serve", "split"} => peer # None
    /\ \A c \in waiting : client[c] # "new" /\ c # peer
    /\ \A c \in Clients : client[c] = "new" \/ c \in waiting => BeforeService(c)
    /\ \A c \in Clients : c = peer => InService(c)
    /\ LinesArriveWhole

LEMMA HalfFacts ==
    ASSUME NEW c \in Clients, NEW n \in Nat
    PROVE  /\ Half(c, n) \in Halves
           /\ Half(c, 2 * n + 1).line = n + 1 /\ ~Half(c, 2 * n + 1).end
           /\ Half(c, 2 * n + 2).line = n + 1 /\ Half(c, 2 * n + 2).end
           /\ Half(c, n).whole
<1>1. (n + 1) \div 2 \in Nat
  OBVIOUS
<1>2. (2 * n + 1 + 1) \div 2 = n + 1 /\ (2 * n + 2 + 1) \div 2 = n + 1
  OBVIOUS
<1>3. (2 * n + 1) % 2 = 1 /\ (2 * n + 2) % 2 = 0
  OBVIOUS
<1>4. Half(c, n) \in Halves
  <2>1. CASE n % 2 = 0
    <3>1. Half(c, n) = [from |-> c, line |-> (n + 1) \div 2, end |-> TRUE, whole |-> TRUE]
      BY <2>1 DEF Half
    <3> QED BY <1>1, <3>1 DEF Halves
  <2>2. CASE ~(n % 2 = 0)
    <3>1. Half(c, n) = [from |-> c, line |-> (n + 1) \div 2, end |-> FALSE, whole |-> TRUE]
      BY <2>2 DEF Half
    <3> QED BY <1>1, <3>1 DEF Halves
  <2> QED BY <2>1, <2>2
<1>5. Half(c, 2 * n + 1) = [from |-> c, line |-> n + 1, end |-> FALSE, whole |-> TRUE]
  <2>1. ~((2 * n + 1) % 2 = 0)
    BY <1>3
  <2> QED BY <1>2, <2>1 DEF Half
<1>6. Half(c, 2 * n + 2) = [from |-> c, line |-> n + 1, end |-> TRUE, whole |-> TRUE]
  BY <1>2, <1>3 DEF Half
<1>7. Half(c, n).whole
  BY DEF Half
<1> QED BY <1>4, <1>5, <1>6, <1>7

LEMMA StreamInitial == Init => StreamInv
<1> SUFFICES ASSUME Init PROVE StreamInv
  OBVIOUS
<1>1. <<>> \in Seq(Halves) /\ <<>> \in Seq(Events) /\ Len(<<>>) = 0
  BY EmptySeq
<1>2. TypeInv
  BY <1>1 DEF Init, TypeInv, Ends
<1>3. \A c \in Clients : BeforeService(c)
  BY <1>1 DEF Init, BeforeService, Follows
<1>4. LinesArriveWhole
  <2>1. \A c \in Clients : DOMAIN handled[c] = {}
    BY DEF Init
  <2> QED BY <2>1 DEF Init, LinesArriveWhole
<1>5. peer = None /\ waiting = {} /\ lpc = "closed"
  BY DEF Init
<1> QED BY <1>2, <1>3, <1>4, <1>5, BridgeAssumption DEF StreamInv, BridgeAssumption

\* The listener goes on, or gives its client up.
LEMMA StreamKept ==
    ASSUME StreamInv, UNCHANGED <<waiting, buf, ends, handled, dropped>>,
           peer' = peer \/ peer' = None,
           lpc' \in {"serve", "split"} => peer' # None
    PROVE  StreamInv'
<1>1. TypeInv'
  BY DEF StreamInv, TypeInv, ends
<1>2. \A c \in waiting' : client'[c] # "new" /\ c # peer'
  BY BridgeAssumption DEF StreamInv, TypeInv, ends, BridgeAssumption
<1>3. \A c \in Clients : (BeforeService(c)' <=> BeforeService(c)) /\ (InService(c)' <=> InService(c))
  BY DEF BeforeService, InService, Follows, Heard, ends
<1>4. LinesArriveWhole'
  BY DEF StreamInv, LinesArriveWhole
<1>5. \A c \in Clients : c = peer' => c = peer
  BY BridgeAssumption DEF BridgeAssumption
<1> QED BY <1>1, <1>2, <1>3, <1>4, <1>5 DEF StreamInv, ends

\* What one client does to its end and its wire.
LEMMA ClientKeeps ==
    ASSUME StreamInv, NEW c \in Clients, Dial(c) \/ Send(c) \/ Leave(c) \/ Break(c)
    PROVE  StreamInv'
<1> DEFINE Told(n) == /\ Follows(wire[c], c, n)
                      /\ client[c] # "reset" => n + Len(wire[c]) = sent[c]
<1>1. /\ client' = [client EXCEPT ![c] = client'[c]] /\ client'[c] \in Ends \ {"new"}
      /\ sent' = [sent EXCEPT ![c] = sent'[c]] /\ sent'[c] \in Nat
      /\ wire' = [wire EXCEPT ![c] = wire'[c]] /\ wire'[c] \in Seq(Halves)
      /\ UNCHANGED <<lpc, peer, buf, handled, dropped>>
      /\ waiting' = waiting \/ (waiting' = {c} /\ client[c] = "new")
      /\ client[c] # "new" \/ waiting' = {c}
      /\ client[c] # "reset"
      /\ \A n \in Nat : Told(n) => Told(n)'
  <2>1. /\ client \in [Clients -> Ends] /\ sent \in [Clients -> Nat]
        /\ wire \in [Clients -> Seq(Halves)]
    BY DEF StreamInv, TypeInv
  <2>2. CASE Dial(c)
    <3>1. /\ client' = [client EXCEPT ![c] = "open"] /\ UNCHANGED <<sent, wire>>
          /\ UNCHANGED <<lpc, peer, buf, handled, dropped>>
          /\ waiting' = {c} /\ client[c] = "new"
      BY <2>2 DEF Dial, history
    <3>2. client'[c] # "reset" /\ \A n \in Nat : Told(n) => Told(n)'
      BY <2>1, <3>1
    <3> HIDE DEF Told
    <3> QED BY <2>1, <3>1, <3>2 DEF Ends
  <2>3. CASE Leave(c)
    <3>1. /\ client' = [client EXCEPT ![c] = "shut"] /\ UNCHANGED <<sent, wire>>
          /\ UNCHANGED <<lpc, peer, buf, handled, dropped, waiting>> /\ client[c] = "open"
      BY <2>3 DEF Leave, history, listener
    <3>2. client'[c] # "reset" /\ \A n \in Nat : Told(n) => Told(n)'
      BY <2>1, <3>1
    <3> HIDE DEF Told
    <3> QED BY <2>1, <3>1, <3>2 DEF Ends
  <2>4. CASE Break(c)
    <3>1. /\ client' = [client EXCEPT ![c] = "reset"] /\ wire' = [wire EXCEPT ![c] = <<>>]
          /\ UNCHANGED <<lpc, peer, buf, handled, dropped, waiting, sent>> /\ client[c] = "open"
      BY <2>4 DEF Break, history, listener
    <3>2. wire'[c] = <<>> /\ <<>> \in Seq(Halves) /\ Len(<<>>) = 0
      BY <2>1, <3>1, EmptySeq
    <3>3. \A n \in Nat : Follows(wire'[c], c, n)
      BY <3>2 DEF Follows
    <3>4. \A n \in Nat : Told(n)'
      BY <2>1, <3>1, <3>3
    <3> HIDE DEF Told
    <3> QED BY <2>1, <3>1, <3>2, <3>4 DEF Ends
  <2>5. CASE Send(c)
    <3>1. /\ sent'[c] = sent[c] + 1 /\ wire'[c] = Append(wire[c], Half(c, sent[c] + 1))
          /\ sent' = [sent EXCEPT ![c] = sent'[c]] /\ wire' = [wire EXCEPT ![c] = wire'[c]]
      <4>1. /\ sent' = [sent EXCEPT ![c] = sent[c] + 1]
            /\ wire' = [wire EXCEPT ![c] = Append(wire[c], Half(c, sent'[c]))]
        BY <2>5 DEF Send
      <4> QED BY <2>1, <4>1
    <3>2. Half(c, sent[c] + 1) \in Halves
      <4>1. sent[c] + 1 \in Nat
        BY <2>1
      <4> QED BY <4>1, HalfFacts
    <3>3. /\ wire'[c] \in Seq(Halves) /\ Len(wire'[c]) = Len(wire[c]) + 1
          /\ \A i \in 1..Len(wire[c]) : wire'[c][i] = wire[c][i]
          /\ wire'[c][Len(wire[c]) + 1] = Half(c, sent[c] + 1)
          /\ Len(wire[c]) \in Nat
      BY <2>1, <3>1, <3>2, AppendProperties, LenProperties
    <3>4. client[c] = "open" /\ client'[c] = "open" /\ UNCHANGED <<client, listener, history>>
      BY <2>5 DEF Send
    <3>5. ASSUME NEW n \in Nat, Follows(wire[c], c, n), n + Len(wire[c]) = sent[c]
          PROVE  Follows(wire'[c], c, n) /\ n + Len(wire'[c]) = sent'[c]
      <4>1. n + (Len(wire[c]) + 1) = sent[c] + 1 /\ 1..Len(wire'[c]) = 1..Len(wire[c]) \cup {Len(wire[c]) + 1}
        BY <2>1, <3>3, <3>5
      <4>2. \A i \in 1..Len(wire'[c]) : wire'[c][i] = Half(c, n + i)
        BY <3>3, <3>5, <4>1 DEF Follows
      <4> QED BY <3>1, <3>3, <3>5, <4>1, <4>2 DEF Follows
    <3>6. UNCHANGED <<lpc, peer, buf, handled, dropped, waiting>>
      BY <3>4 DEF history, listener
    <3>7. \A n \in Nat : Told(n) => Told(n)'
      BY <3>4, <3>5
    <3> HIDE DEF Told
    <3> QED BY <2>1, <3>1, <3>3, <3>4, <3>6, <3>7 DEF Ends
  <2> QED BY <2>2, <2>3, <2>4, <2>5
<1>2. TypeInv'
  BY <1>1 DEF StreamInv, TypeInv
<1>3. \A d \in Clients \ {c} : /\ client'[d] = client[d] /\ wire'[d] = wire[d] /\ sent'[d] = sent[d]
                               /\ handled'[d] = handled[d]
  BY <1>1 DEF StreamInv, TypeInv
<1>4. \A d \in Clients : (BeforeService(d) => BeforeService(d)') /\ (InService(d) => InService(d)')
  <2>1. \A d \in Clients \ {c} : (BeforeService(d) => BeforeService(d)') /\ (InService(d) => InService(d)')
    BY <1>1, <1>3 DEF BeforeService, InService, Follows, Heard
  <2>2. BeforeService(c) => BeforeService(c)'
    BY <1>1 DEF BeforeService, StreamInv, TypeInv
  <2>3. InService(c) => InService(c)'
    <3>1. Len(handled[c]) \in Nat /\ Len(buf) \in Nat /\ 2 * Len(handled[c]) + Len(buf) \in Nat
      BY LenProperties DEF StreamInv, TypeInv
    <3> QED BY <1>1, <3>1 DEF InService, Follows, Heard
  <2> QED BY <2>1, <2>2, <2>3
<1>5. \A d \in waiting' : client'[d] # "new" /\ d # peer'
  BY <1>1, <1>3 DEF StreamInv, TypeInv, InService
<1>6. \A d \in Clients : client'[d] = "new" \/ d \in waiting' => client[d] = "new" \/ d \in waiting
  BY <1>1, <1>3
<1>7. LinesArriveWhole'
  BY <1>1 DEF StreamInv, LinesArriveWhole
<1> QED BY <1>1, <1>2, <1>4, <1>5, <1>6, <1>7 DEF StreamInv

\* A server socket that is closed takes its clients with it.
LEMMA TurningAwayKeeps ==
    ASSUME StreamInv, TurnedAway, UNCHANGED <<sent, buf, handled, dropped>>,
           peer' = peer \/ peer' = None,
           lpc' \notin {"serve", "split"}
    PROVE  StreamInv'
<1>1. /\ waiting' = {} /\ client' = [c \in Clients |-> IF c \in waiting THEN "reset" ELSE client[c]]
      /\ wire' = [c \in Clients |-> IF c \in waiting THEN <<>> ELSE wire[c]]
  BY DEF TurnedAway
<1>2. TypeInv'
  <2>1. <<>> \in Seq(Halves)
    BY EmptySeq
  <2> QED BY <1>1, <2>1 DEF StreamInv, TypeInv, Ends
<1>3. ASSUME NEW c \in Clients, client'[c] = "new" PROVE BeforeService(c)'
  <2>1. c \notin waiting /\ client[c] = "new" /\ client'[c] = client[c] /\ wire'[c] = wire[c]
    BY <1>1, <1>3
  <2> QED BY <2>1 DEF StreamInv, BeforeService, Follows
<1>4. ASSUME NEW c \in Clients, c = peer' PROVE InService(c)'
  <2>1. c = peer
    BY <1>4, BridgeAssumption DEF BridgeAssumption
  <2>2. c \notin waiting
    BY <2>1 DEF StreamInv
  <2>3. client'[c] = client[c] /\ wire'[c] = wire[c]
    BY <1>1, <2>2
  <2> QED BY <2>1, <2>3 DEF StreamInv, InService, Follows, Heard
<1>5. LinesArriveWhole'
  BY DEF StreamInv, LinesArriveWhole
<1> QED BY <1>1, <1>2, <1>3, <1>4, <1>5 DEF StreamInv

LEMMA AcceptKeeps == ASSUME StreamInv, Accept PROVE StreamInv'
<1>1. PICK c \in waiting : /\ peer' = c /\ waiting' = {} /\ buf' = <<>>
                           /\ UNCHANGED <<client, sent, wire, handled, dropped>>
  BY DEF Accept, NewBuffer, ends
<1>2. c \in Clients /\ client[c] # "new" /\ BeforeService(c)
  BY DEF StreamInv, TypeInv
<1>3. Len(<<>>) = 0 /\ <<>> \in Seq(Halves) /\ Len(wire[c]) \in Nat
  BY <1>2, EmptySeq, LenProperties DEF StreamInv, TypeInv
<1>4. TypeInv'
  BY <1>1, <1>2, <1>3 DEF StreamInv, TypeInv
<1>5. InService(c)'
  BY <1>1, <1>2, <1>3 DEF BeforeService, InService, Follows, Heard
<1>6. \A d \in Clients : BeforeService(d) => BeforeService(d)'
  BY <1>1 DEF BeforeService, Follows
<1>7. c # None
  BY <1>2, BridgeAssumption DEF BridgeAssumption
<1>8. LinesArriveWhole'
  BY <1>1 DEF StreamInv, LinesArriveWhole
<1> QED BY <1>1, <1>4, <1>5, <1>6, <1>7, <1>8 DEF StreamInv

\* What a chunk decodes to: itself, but for characters that are cut.
LEMMA ChunkFacts ==
    ASSUME NEW chunk \in Seq(Halves)
    PROVE  /\ Decoded(chunk) \in Seq(Halves) /\ Len(Decoded(chunk)) = Len(chunk)
           /\ \A i \in 1..Len(chunk) : Same(Decoded(chunk)[i], chunk[i])
<1>1. DOMAIN chunk = 1..Len(chunk) /\ Len(chunk) \in Nat /\ \A i \in 1..Len(chunk) : chunk[i] \in Halves
  BY LenProperties, ElementOfSeq
<1>2. ASSUME NEW i \in 1..Len(chunk)
      PROVE  Decoded(chunk)[i] \in Halves /\ Same(Decoded(chunk)[i], chunk[i])
  <2> DEFINE lost == CutAt(chunk, i)
  <2>1. lost \in BOOLEAN /\ (lost => chunk[i].line \in Wide)
    BY DEF CutAt
  <2>2. Decoded(chunk)[i] = [chunk[i] EXCEPT !.whole = ~lost]
    BY <1>1 DEF Decoded
  <2> HIDE DEF lost
  <2>3. chunk[i] \in Halves
    BY <1>1
  <2>4. CASE lost
    <3>1. Decoded(chunk)[i] = [chunk[i] EXCEPT !.whole = FALSE]
      BY <2>2, <2>4
    <3> QED BY <2>1, <2>3, <2>4, <3>1 DEF Halves, Same
  <2>5. CASE ~lost
    <3>1. Decoded(chunk)[i] = [chunk[i] EXCEPT !.whole = TRUE]
      BY <2>2, <2>5
    <3> QED BY <2>3, <3>1 DEF Halves, Same
  <2> QED BY <2>1, <2>4, <2>5
<1>3. Decoded(chunk) = [i \in 1..Len(chunk) |-> Decoded(chunk)[i]]
  BY <1>1 DEF Decoded
<1>4. Decoded(chunk) \in [1..Len(chunk) -> Halves]
  BY <1>2, <1>3
<1>5. Decoded(chunk) \in Seq(Halves)
  BY <1>1, <1>4, SeqDef
<1>6. Len(Decoded(chunk)) = Len(chunk)
  BY <1>1, <1>4, <1>5, LenProperties
<1> QED BY <1>2, <1>5, <1>6

\* What moves from the wire to the end of the buffer stays in its order.
LEMMA ReceiveKeeps == ASSUME StreamInv, Receive PROVE StreamInv'
<1>1. PICK c \in Clients : c = peer /\ InService(c)
  BY DEF StreamInv, TypeInv, Receive
<1> DEFINE w == wire[c]
<1>2. PICK n \in 1..Len(w) : /\ buf' = buf \o Decoded(SubSeq(w, 1, n))
                             /\ wire' = [wire EXCEPT ![c] = SubSeq(w, n + 1, Len(w))]
  BY <1>1 DEF Receive
<1>3. /\ client[c] # "reset" /\ peer # None
      /\ UNCHANGED <<peer, waiting, client, sent, handled, dropped>>
  BY <1>1, BridgeAssumption DEF Receive, history, BridgeAssumption
<1>4. w \in Seq(Halves) /\ buf \in Seq(Halves) /\ Len(w) \in Nat /\ Len(buf) \in Nat
      /\ Len(handled[c]) \in Nat /\ wire \in [Clients -> Seq(Halves)]
  BY LenProperties DEF StreamInv, TypeInv
<1>5. \A i \in 1..Len(w) : w[i] \in Halves
  BY <1>4, ElementOfSeq
<1>6. /\ SubSeq(w, 1, n) \in Seq(Halves) /\ Len(SubSeq(w, 1, n)) = n
      /\ \A i \in 1..n : SubSeq(w, 1, n)[i] = w[i]
  <2>1. \A i \in 1..n : w[i] \in Halves
    BY <1>4, <1>5
  <2> QED BY <1>4, <2>1, SubSeqProperties
<1>7. /\ SubSeq(w, n + 1, Len(w)) \in Seq(Halves) /\ Len(SubSeq(w, n + 1, Len(w))) = Len(w) - n
      /\ \A i \in 1..(Len(w) - n) : SubSeq(w, n + 1, Len(w))[i] = w[n + i]
  <2>1. \A i \in (n + 1)..Len(w) : w[i] \in Halves
    BY <1>4, <1>5
  <2> QED BY <1>4, <2>1, SubSeqProperties
<1>a. PICK heard \in Seq(Halves) :
          /\ heard = Decoded(SubSeq(w, 1, n)) /\ Len(heard) = n
          /\ \A i \in 1..n : Same(heard[i], w[i])
  <2> DEFINE chunk == SubSeq(w, 1, n)
  <2>1. chunk \in Seq(Halves) /\ Len(chunk) = n /\ \A i \in 1..n : chunk[i] = w[i]
    BY <1>6
  <2> HIDE DEF chunk
  <2>2. /\ Decoded(chunk) \in Seq(Halves) /\ Len(Decoded(chunk)) = n
        /\ \A i \in 1..n : Same(Decoded(chunk)[i], chunk[i])
    BY <2>1, ChunkFacts
  <2> QED BY <2>1, <2>2 DEF chunk
<1>8. /\ buf' \in Seq(Halves) /\ Len(buf') = Len(buf) + n
      /\ \A i \in 1..(Len(buf) + n) : buf'[i] = IF i <= Len(buf) THEN buf[i] ELSE heard[i - Len(buf)]
  BY <1>2, <1>4, <1>a, ConcatProperties
<1>9. wire'[c] = SubSeq(w, n + 1, Len(w)) /\ wire' \in [Clients -> Seq(Halves)]
      /\ \A d \in Clients \ {c} : wire'[d] = wire[d]
  BY <1>2, <1>4, <1>7
<1> HIDE DEF w
<1>10. InService(c)'
  <2> DEFINE h == 2 * Len(handled[c])
  <2>0. h \in Nat
    BY <1>4
  <2>1. Heard(buf, c, h) /\ Follows(w, c, h + Len(buf)) /\ h + Len(buf) + Len(w) = sent[c]
    BY <1>1, <1>3 DEF InService, w
  <2> HIDE DEF h
  <2>2. Heard(buf', c, h)
    <3>1. ASSUME NEW i \in 1..(Len(buf) + n) PROVE Same(buf'[i], Half(c, h + i))
      <4>1. CASE i \in 1..Len(buf)
        <5>1. i <= Len(buf) /\ Same(buf[i], Half(c, h + i))
          BY <1>4, <2>1, <4>1 DEF Heard
        <5> QED BY <1>8, <5>1
      <4>2. CASE i \notin 1..Len(buf)
        <5>1. /\ buf'[i] = heard[i - Len(buf)] /\ i - Len(buf) \in 1..Len(w)
              /\ Same(heard[i - Len(buf)], w[i - Len(buf)])
          BY <1>4, <1>8, <1>a, <4>2
        <5>2. w[i - Len(buf)] = Half(c, h + Len(buf) + (i - Len(buf)))
          BY <2>1, <5>1 DEF Follows
        <5>3. h + Len(buf) + (i - Len(buf)) = h + i
          BY <1>4, <2>0
        <5> QED BY <5>1, <5>2, <5>3
      <4> QED BY <4>1, <4>2
    <3> QED BY <1>8, <3>1 DEF Heard
  <2>3. Follows(wire'[c], c, h + Len(buf'))
    <3>1. ASSUME NEW i \in 1..(Len(w) - n) PROVE wire'[c][i] = Half(c, h + Len(buf') + i)
      <4>1. wire'[c][i] = w[n + i] /\ n + i \in 1..Len(w)
        BY <1>4, <1>7, <1>9
      <4>2. w[n + i] = Half(c, h + Len(buf) + (n + i))
        BY <2>1, <4>1 DEF Follows
      <4>3. h + Len(buf) + (n + i) = h + Len(buf') + i
        BY <1>4, <1>8, <2>0
      <4> QED BY <4>1, <4>2, <4>3
    <3> QED BY <1>7, <1>9, <3>1 DEF Follows
  <2>4. h + Len(buf') + Len(wire'[c]) = sent'[c]
    <3>1. Len(wire'[c]) = Len(w) - n /\ sent'[c] = sent[c]
      BY <1>3, <1>7, <1>9
    <3> QED BY <1>4, <1>8, <2>0, <2>1, <3>1
  <2> QED BY <1>1, <1>3, <2>2, <2>3, <2>4 DEF InService, h
<1>11. TypeInv'
  <2>1. /\ client \in [Clients -> Ends] /\ sent \in [Clients -> Nat]
        /\ handled \in [Clients -> Seq(Events)]
        /\ waiting \subseteq Clients /\ peer \in Clients \cup {None}
    BY DEF StreamInv, TypeInv
  <2> QED BY <1>3, <1>8, <1>9, <2>1 DEF TypeInv
<1>12. \A d \in Clients : client[d] = "new" \/ d \in waiting => BeforeService(d)'
  <2> SUFFICES ASSUME NEW d \in Clients, client[d] = "new" \/ d \in waiting
               PROVE  BeforeService(d)'
    OBVIOUS
  <2>1. d # c
    BY <1>1 DEF StreamInv, InService
  <2>2. wire'[d] = wire[d] /\ BeforeService(d)
    BY <1>9, <2>1 DEF StreamInv
  <2> QED BY <1>3, <2>2 DEF BeforeService, Follows
<1>13. LinesArriveWhole'
  BY <1>3 DEF StreamInv, LinesArriveWhole
<1> QED BY <1>1, <1>3, <1>10, <1>11, <1>12, <1>13 DEF StreamInv, Receive

\* The first line end closes two halves, and they are the two of the next line.
LEMMA AnEvent == ASSUME NEW n \in Nat, NEW w \in BOOLEAN
                 PROVE  /\ [line |-> n, whole |-> w] \in Events
                        /\ [line |-> n, whole |-> w].line = n
                        /\ [line |-> n, whole |-> w].whole = w
  BY DEF Events

LEMMA NextLine ==
    ASSUME NEW c \in Clients, NEW h \in Nat, NEW text \in Seq(Halves), Heard(text, c, 2 * h),
           NEW i \in 1..Len(text), LineEndsAt(text, i)
    PROVE  /\ i = 2
           /\ Valid(SubSeq(text, 1, 2)) /\ Handed(SubSeq(text, 1, 2)) \in Events
           /\ Handed(SubSeq(text, 1, 2)).line = h + 1
           /\ Handed(SubSeq(text, 1, 2)).whole \/ h + 1 \in Wide
           /\ SubSeq(text, 3, Len(text)) \in Seq(Halves)
           /\ Len(SubSeq(text, 3, Len(text))) = Len(text) - 2
           /\ \A j \in 1..(Len(text) - 2) : SubSeq(text, 3, Len(text))[j] = text[j + 2]
<1>1. Len(text) \in Nat /\ \A j \in 1..Len(text) : text[j] \in Halves
  BY LenProperties, ElementOfSeq
<1>2. ~text[1].end /\ text[1].line = h + 1 /\ (text[1].whole \/ h + 1 \in Wide)
  <2>1. 1 \in 1..Len(text)
    BY <1>1
  <2>2. Same(text[1], Half(c, 2 * h + 1))
    BY <2>1 DEF Heard
  <2> QED BY <2>2, HalfFacts DEF Same
<1>3. i # 1
  BY <1>2 DEF LineEndsAt
<1>4. /\ 2 \in 1..Len(text) /\ text[2].end /\ text[2].line = h + 1
      /\ text[2].whole \/ h + 1 \in Wide
  <2>1. 2 \in 1..Len(text)
    BY <1>1, <1>3
  <2>2. Same(text[2], Half(c, 2 * h + 2))
    BY <2>1 DEF Heard
  <2> QED BY <2>1, <2>2, HalfFacts DEF Same
<1>5. i = 2
  <2>1. ~(2 \in 1..(i - 1))
    BY <1>4 DEF LineEndsAt
  <2> QED BY <1>1, <1>3, <2>1
<1>6. /\ Len(SubSeq(text, 1, 2)) = 2
      /\ SubSeq(text, 1, 2)[1] = text[1] /\ SubSeq(text, 1, 2)[2] = text[2]
  <2>1. \A j \in 1..2 : text[j] \in Halves
    BY <1>1, <1>4
  <2>2. /\ Len(SubSeq(text, 1, 2)) = 2
        /\ \A j \in 1..2 : SubSeq(text, 1, 2)[j] = text[j]
    BY <2>1, SubSeqProperties
  <2> QED BY <2>2
<1>7. /\ SubSeq(text, 3, Len(text)) \in Seq(Halves)
      /\ Len(SubSeq(text, 3, Len(text))) = Len(text) - 2
      /\ \A j \in 1..(Len(text) - 2) : SubSeq(text, 3, Len(text))[j] = text[j + 2]
  <2>1. \A j \in 3..Len(text) : text[j] \in Halves
    BY <1>1
  <2>2. /\ SubSeq(text, 3, Len(text)) \in Seq(Halves)
        /\ Len(SubSeq(text, 3, Len(text))) = IF 3 <= Len(text) THEN Len(text) - 3 + 1 ELSE 0
        /\ \A j \in 1..(Len(text) - 3 + 1) : SubSeq(text, 3, Len(text))[j] = text[3 + j - 1]
    BY <1>1, <2>1, SubSeqProperties
  <2>3. Len(text) >= 2 /\ Len(text) - 3 + 1 = Len(text) - 2
    BY <1>1, <1>4
  <2>4. \A j \in 1..(Len(text) - 2) : 3 + j - 1 = j + 2
    OBVIOUS
  <2> QED BY <1>1, <2>2, <2>3, <2>4
<1>8. /\ Handed(SubSeq(text, 1, 2)) \in Events /\ Handed(SubSeq(text, 1, 2)).line = h + 1
      /\ Handed(SubSeq(text, 1, 2)).whole \/ h + 1 \in Wide
  <2> DEFINE w == text[1].whole /\ text[2].whole
  <2>1. Handed(SubSeq(text, 1, 2)) = [line |-> h + 1, whole |-> w]
    BY <1>2, <1>6 DEF Handed
  <2>2. w \in BOOLEAN /\ (w \/ h + 1 \in Wide)
    <3>1. w \in BOOLEAN
      OBVIOUS
    <3> QED BY <1>2, <1>4, <3>1
  <2> HIDE DEF w
  <2>3. h + 1 \in Nat
    OBVIOUS
  <2>4. /\ [line |-> h + 1, whole |-> w] \in Events
        /\ [line |-> h + 1, whole |-> w].line = h + 1
        /\ [line |-> h + 1, whole |-> w].whole = w
    BY <2>2, <2>3, AnEvent
  <2> QED BY <2>1, <2>2, <2>4
<1> QED BY <1>2, <1>4, <1>5, <1>6, <1>7, <1>8 DEF Valid

LEMMA TakeLineKeeps == ASSUME StreamInv, TakeLine PROVE StreamInv'
<1>1. PICK c \in Clients : c = peer /\ InService(c)
  BY DEF StreamInv, TypeInv, TakeLine
<1> DEFINE h == Len(handled[c])
<1>2. h \in Nat /\ buf \in Seq(Halves) /\ Len(buf) \in Nat /\ handled[c] \in Seq(Events)
      /\ handled \in [Clients -> Seq(Events)]
  BY LenProperties DEF StreamInv, TypeInv
<1>3. PICK i \in 1..Len(buf) : /\ LineEndsAt(buf, i) /\ HandleEvent(SubSeq(buf, 1, i))
                               /\ buf' = SubSeq(buf, i + 1, Len(buf))
  BY DEF TakeLine
<1>4. Heard(buf, c, 2 * h) /\ Follows(wire[c], c, 2 * h + Len(buf))
  BY <1>1 DEF InService
<1> HIDE DEF h
<1> DEFINE e == Handed(SubSeq(buf, 1, 2))
<1>5. /\ i = 2 /\ Valid(SubSeq(buf, 1, 2))
      /\ e \in Events /\ e.line = h + 1 /\ (e.whole \/ h + 1 \in Wide)
      /\ buf' \in Seq(Halves) /\ Len(buf') = Len(buf) - 2
      /\ \A j \in 1..(Len(buf) - 2) : buf'[j] = buf[j + 2]
  BY <1>2, <1>3, <1>4, NextLine
<1>6. handled' = [handled EXCEPT ![c] = Append(handled[c], e)] /\ dropped' = dropped
  BY <1>1, <1>3, <1>5 DEF HandleEvent
<1> HIDE DEF e
<1>7. UNCHANGED <<lpc, peer, waiting, client, sent, wire>>
  BY DEF TakeLine, ends
<1>8. /\ handled'[c] \in Seq(Events) /\ Len(handled'[c]) = h + 1
      /\ \A n \in 1..h : handled'[c][n] = handled[c][n]
      /\ handled'[c][h + 1] = e
      /\ handled' \in [Clients -> Seq(Events)]
      /\ \A d \in Clients \ {c} : handled'[d] = handled[d]
  <2>1. handled'[c] = Append(handled[c], e)
    BY <1>2, <1>6
  <2>2. /\ Append(handled[c], e) \in Seq(Events) /\ Len(Append(handled[c], e)) = h + 1
        /\ \A n \in 1..h : Append(handled[c], e)[n] = handled[c][n]
        /\ Append(handled[c], e)[h + 1] = e
    BY <1>2, <1>5, AppendProperties DEF h
  <2> QED BY <1>2, <1>6, <2>1, <2>2
<1>9. TypeInv'
  BY <1>5, <1>7, <1>8 DEF StreamInv, TypeInv
<1>10. InService(c)'
  <2>1. Heard(buf', c, 2 * (h + 1))
    <3>1. ASSUME NEW j \in 1..Len(buf') PROVE Same(buf'[j], Half(c, 2 * (h + 1) + j))
      <4>1. buf'[j] = buf[j + 2] /\ j + 2 \in 1..Len(buf)
        BY <1>2, <1>5
      <4>2. Same(buf[j + 2], Half(c, 2 * h + (j + 2)))
        BY <1>4, <4>1 DEF Heard
      <4>3. 2 * h + (j + 2) = 2 * (h + 1) + j
        BY <1>2
      <4> QED BY <4>1, <4>2, <4>3
    <3> QED BY <3>1 DEF Heard
  <2>2. 2 * (h + 1) + Len(buf') = 2 * h + Len(buf)
    BY <1>2, <1>5
  <2>3. client[c] # "reset" => 2 * h + Len(buf) + Len(wire[c]) = sent[c]
    BY <1>1 DEF InService, h
  <2> QED BY <1>1, <1>4, <1>7, <1>8, <2>1, <2>2, <2>3 DEF InService
<1>11. \A d \in Clients : client[d] = "new" \/ d \in waiting => BeforeService(d)'
  BY <1>1, <1>7, <1>8 DEF StreamInv, InService, BeforeService, Follows
<1>12. LinesArriveWhole'
  <2>1. ASSUME NEW d \in Clients \ {c}, NEW n \in DOMAIN handled'[d]
        PROVE  handled'[d][n].line = n /\ (handled'[d][n].whole \/ n \in Wide)
    BY <1>8, <2>1 DEF StreamInv, LinesArriveWhole
  <2>2. ASSUME NEW n \in DOMAIN handled'[c]
        PROVE  handled'[c][n].line = n /\ (handled'[c][n].whole \/ n \in Wide)
    <3>1. DOMAIN handled'[c] = 1..(h + 1) /\ DOMAIN handled[c] = 1..h
      BY <1>2, <1>8, LenProperties DEF h
    <3>2. CASE n = h + 1
      BY <1>5, <1>8, <3>2
    <3>3. CASE n # h + 1
      <4>1. n \in 1..h /\ n \in DOMAIN handled[c]
        BY <1>2, <2>2, <3>1, <3>3
      <4>2. handled[c][n].line = n /\ (handled[c][n].whole \/ n \in Wide)
        BY <4>1 DEF StreamInv, LinesArriveWhole
      <4> QED BY <1>8, <4>1, <4>2
    <3> QED BY <3>2, <3>3
  <2> QED BY <1>6, <2>1, <2>2 DEF StreamInv, LinesArriveWhole
<1> QED BY <1>1, <1>7, <1>9, <1>10, <1>11, <1>12 DEF StreamInv

LEMMA StreamInductive == StreamInv /\ [Next]_vars => StreamInv'
<1> SUFFICES ASSUME StreamInv, [Next]_vars PROVE StreamInv'
  OBVIOUS
<1>1. CASE UNCHANGED vars
  BY <1>1, StreamKept DEF vars, listener, ends, history, StreamInv
<1>2. CASE AcceptTimesOut \/ ReceiveNothing \/ GoOn
  BY <1>2, StreamKept DEF AcceptTimesOut, ReceiveNothing, GoOn, LoopEnds, ends, history
<1>3. CASE NoMoreLines
  BY <1>3, StreamKept DEF NoMoreLines, history, StreamInv
<1>4. CASE ReceiveRaises
  BY <1>4, StreamKept DEF ReceiveRaises, history
<1>5. CASE Listen \/ ListenFails \/ Quit \/ EndService
  <2>1. lpc' = "accept" => peer' = peer
    BY <1>5 DEF Listen, ListenFails, Quit, EndService
  <2> QED BY <1>5, <2>1, TurningAwayKeeps DEF Listen, ListenFails, Quit, EndService, history
<1>6. CASE Stop
  BY <1>6, StreamKept DEF Stop, history, StreamInv
<1>7. CASE CaptureThread
  <2>1. UNCHANGED <<listener, ends, handled, dropped>>
    BY <1>7 DEF CaptureThread, Unable, StartSniffing, SniffFails, SniffEnds, Look, LookEnds, MakeUp,
                Capture, history
  <2> QED BY <2>1, StreamKept DEF listener, StreamInv
<1> QED BY <1>1, <1>2, <1>3, <1>4, <1>5, <1>6, <1>7, AcceptKeeps, ReceiveKeeps, TakeLineKeeps,
           ClientKeeps DEF Next, Listener

\* However a stream is cut into chunks, and whoever leaves or breaks off in the middle of
\* a line: every line handed to the bus (ids_bridge.py:107-112) is one line of the client
\* in service, the next one, and none is dropped; it is whole, unless it holds a
\* character of several bytes, which a chunk may have ended inside.
THEOREM NoLineIsTorn == Spec => []LinesArriveWhole
<1>1. StreamInv => LinesArriveWhole
  BY DEF StreamInv
<1> QED BY <1>1, StreamInitial, StreamInductive, PTL DEF Spec
-----------------------------------------------------------------------------
(* Learning.                                                                 *)

\* A logged decision, or a correction: 0.95 and a block or nothing.
MemoryType ==
    {r \in [id : Nat, source : Sources, host : Hosts \cup {Nowhere}, port : Nat,
            shape : Shapes \cup {DefaultShape}, decision : TI!Verdicts, conf : Int, time : Nat,
            lesson : BOOLEAN] :
        r.lesson => r.conf = 95 /\ r.decision \in {"Block", "Ignore"}}

JobType == [number : Nat, packet : Packets, conf : Int, decision : TI!Verdicts,
            cooled : BOOLEAN, filled : BOOLEAN, seen : Nat, at : Nat]

\* A packet whose scopes are being searched, and what the first has given.
Searching ==
    /\ job.number \in Nat /\ job.packet \in Packets /\ job.seen \in Nat
    /\ job.seen <= Len(records)
    /\ \A h \in job.hits : /\ h.at \in 1..job.seen /\ h.scope = 1
                           /\ h = [at |-> h.at, scope |-> 1]
                           /\ records[h.at].source = job.packet.source

LearnTypes ==
    /\ clock \in Nat /\ taken \in Nat /\ record_id \in Nat
    /\ records \in Seq(MemoryType)
    /\ last \in [Sources -> [decision : TI!Verdicts, time : Nat]]
    /\ pc \in {"idle", "search", "fill", "number", "log", "validate", "correct"}
    /\ pc = "search" => Searching
    /\ pc \notin {"idle", "search"} => job \in JobType
    /\ jobs \in Seq(JobType)
    /\ spc \in [Side -> {"idle", "validate", "correct"}]
    /\ DOMAIN sjob = Side
    /\ \A t \in Side : spc[t] # "idle" => sjob[t] \in JobType
    /\ mistakes \subseteq Packets
    /\ faults \in 0..MaxFaults

LEMMA PacketFacts ==
    ASSUME NEW p \in Packets
    PROVE  /\ p.source \in Sources /\ p.host \in Hosts /\ p.port \in Nat /\ p.shape \in Shapes
           /\ p.label \in {"attack", "benign", "none"} /\ p.earned \in TI!Verdicts
           /\ p.conf \in Int /\ p.odd \in SUBSET TI!Statistics /\ p.severe \in BOOLEAN
<1>1. Packets \subseteq PacketType
  BY LearningAssumption
<1> QED BY <1>1 DEF PacketType

\* One scope searched: its hits are records, and what was found before stays.
IsMerged(merged, hits, n, p) ==
    \E hidden : merged = Merged(hits, Top(Wanted[n], Scopes(p)[n] \ hidden, p), n, p)

Adds(merged, hits, n, p) ==
    /\ hits \subseteq merged
    /\ \A h \in merged :
         \/ h \in hits
         \/ /\ h.at \in DOMAIN records /\ h.scope = n /\ h = [at |-> h.at, scope |-> n]
            /\ n = 1 => records[h.at].source = p.source

LEMMA SearchedFacts ==
    ASSUME NEW p, NEW n \in 1..4, NEW hits, NEW merged, IsMerged(merged, hits, n, p)
    PROVE  Adds(merged, hits, n, p)
<1>0. PICK hidden : merged = Merged(hits, Top(Wanted[n], Scopes(p)[n] \ hidden, p), n, p)
  BY DEF IsMerged
<1> DEFINE found == Top(Wanted[n], Scopes(p)[n] \ hidden, p)
<1>1. Scopes(p)[n] \subseteq DOMAIN records
  <2>1. CASE n = 1
    BY <2>1 DEF Scopes
  <2>2. CASE n = 2
    BY <2>2 DEF Scopes
  <2>3. CASE n = 3
    BY <2>3 DEF Scopes
  <2>4. CASE n = 4
    BY <2>4 DEF Scopes
  <2> QED BY <2>1, <2>2, <2>3, <2>4
<1>2. n = 1 => \A i \in Scopes(p)[n] : records[i].source = p.source
  BY DEF Scopes
<1>3. found \subseteq Scopes(p)[n]
  BY DEF Top
<1> HIDE DEF found
<1>4. hits \subseteq merged
  BY <1>0 DEF Merged, found
<1>5. ASSUME NEW h \in merged, h \notin hits
      PROVE  /\ h.at \in found /\ h.scope = n /\ h = [at |-> h.at, scope |-> n]
  <2>1. merged = Merged(hits, found, n, p)
    BY <1>0 DEF found
  <2>2. \E i \in found : h = [at |-> i, scope |-> n]
    BY <1>5, <2>1 DEF Merged
  <2> QED BY <2>2
<1> QED BY <1>1, <1>2, <1>3, <1>4, <1>5 DEF Adds

\* All of them searched: the hits of the first scope are among what is found.
LEMMA FoundFacts ==
    ASSUME NEW hits \in Found
    PROVE  /\ job.hits \subseteq hits
           /\ \A h \in hits : h \in job.hits \/ (h.at \in DOMAIN records /\ h.scope \in 2..4)
<1> DEFINE p == job.packet
<1>1. \E session \in Searched(job.hits, 2) :
          hits \in UNION {Searched(host, 4) : host \in Searched(session, 3)}
  BY DEF Found
<1>2. PICK session \in Searched(job.hits, 2) :
          \E host \in Searched(session, 3) : hits \in Searched(host, 4)
  BY <1>1
<1>3. PICK host \in Searched(session, 3) : hits \in Searched(host, 4)
  BY <1>2
<1>4. IsMerged(session, job.hits, 2, p)
  BY <1>2 DEF Searched, IsMerged
<1>5. IsMerged(host, session, 3, p)
  BY <1>3 DEF Searched, IsMerged
<1>6. IsMerged(hits, host, 4, p)
  BY <1>3 DEF Searched, IsMerged
<1> HIDE DEF p
<1>7. /\ job.hits \subseteq session
      /\ \A h \in session : h \in job.hits \/ (h.at \in DOMAIN records /\ h.scope = 2)
  <2>1. 2 \in 1..4
    OBVIOUS
  <2>2. Adds(session, job.hits, 2, p)
    BY <1>4, <2>1, SearchedFacts
  <2> QED BY <2>2 DEF Adds
<1>8. /\ session \subseteq host
      /\ \A h \in host : h \in session \/ (h.at \in DOMAIN records /\ h.scope = 3)
  <2>1. 3 \in 1..4
    OBVIOUS
  <2>2. Adds(host, session, 3, p)
    BY <1>5, <2>1, SearchedFacts
  <2> QED BY <2>2 DEF Adds
<1>9. /\ host \subseteq hits
      /\ \A h \in hits : h \in host \/ (h.at \in DOMAIN records /\ h.scope = 4)
  <2>1. 4 \in 1..4
    OBVIOUS
  <2>2. Adds(hits, host, 4, p)
    BY <1>6, <2>1, SearchedFacts
  <2> QED BY <2>2 DEF Adds
<1> QED BY <1>7, <1>8, <1>9

LEMMA FoundAreRecords ==
    ASSUME LearnTypes, pc = "search", NEW hits \in Found
    PROVE  \A h \in hits : h.at \in DOMAIN records
<1>1. DOMAIN records = 1..Len(records) /\ Len(records) \in Nat
  BY LenProperties DEF LearnTypes
<1>2. \A h \in job.hits : h.at \in DOMAIN records
  BY <1>1 DEF LearnTypes, Searching
<1> QED BY <1>2, FoundFacts

\* The record the decoder takes for a correction is in memory.
LEMMA BestIsRecord ==
    ASSUME NEW p, NEW hits, \A h \in hits : h.at \in DOMAIN records, BestCorrected(hits, p) # 0
    PROVE  BestCorrected(hits, p) \in DOMAIN records
<1> DEFINE sure == {h \in hits : records[h.at].conf > 85}
           nearest == {h \in sure : \A g \in sure \ {h} : Nearer(h, g, p)}
<1>1. BestCorrected(hits, p) = IF nearest = {} THEN 0 ELSE (CHOOSE h \in nearest : TRUE).at
  BY DEF BestCorrected
<1>2. \A h \in nearest : h.at \in DOMAIN records
  OBVIOUS
<1> HIDE DEF nearest
<1> QED BY <1>1, <1>2

\* One packet decoded: what the decoder makes of it.
LEMMA DecodedFacts ==
    ASSUME LearnTypes, pc = "search", NEW p \in Packets, NEW hits \in Found
    PROVE  LET best == BestCorrected(hits, p)
               asked == Overridden(p, best)
               decided == IF Cooled(p.source, asked) THEN last[p.source].decision
                          ELSE Raised(p, asked)
           IN  /\ Fused(p, best) \in Int /\ asked \in TI!Verdicts /\ decided \in TI!Verdicts
               /\ Cooled(p.source, asked) \in BOOLEAN
<1> DEFINE best == BestCorrected(hits, p)
           asked == Overridden(p, best)
<1>1. best = 0 \/ records[best] \in MemoryType
  BY FoundAreRecords, BestIsRecord, ElementOfSeq, LenProperties DEF LearnTypes
<1> HIDE DEF best
<1>2. Fused(p, best) \in Int
  <2>1. CASE best = 0
    BY <2>1, PacketFacts DEF Fused
  <2>2. CASE best # 0
    <3>1. records[best].conf \in Int
      BY <1>1, <2>2 DEF MemoryType
    <3>2. (records[best].conf - 60) \div 2 \in Int
      BY <3>1
    <3> QED BY <2>2, <3>2, PacketFacts DEF Fused
  <2> QED BY <2>1, <2>2
<1>3. asked \in TI!Verdicts
  BY <1>1, PacketFacts DEF Overridden, MemoryType
<1> HIDE DEF asked
<1>4. Raised(p, asked) \in TI!Verdicts
  BY <1>3 DEF Raised, TI!Verdicts
<1>5. last[p.source].decision \in TI!Verdicts
  BY PacketFacts DEF LearnTypes
<1>6. Cooled(p.source, asked) \in BOOLEAN
  BY DEF Cooled
<1> QED BY <1>2, <1>3, <1>4, <1>5, <1>6 DEF best, asked

\* What Decode does to the packet it takes.
LEMMA DecodeFacts ==
    ASSUME LearnTypes, Decode
    PROVE  /\ job' \in JobType /\ job'.seen = job.seen /\ job'.packet = job.packet
           /\ pc = "search" /\ pc' = "fill"
           /\ jobs' = Append(jobs, job')
           /\ mistakes' = IF job'.packet.label # "none" /\ Wrong(job')
                          THEN mistakes \cup {job'.packet} ELSE mistakes
           /\ UNCHANGED <<records, record_id, metrics, clock, taken, spc, sjob, faults>>
<1>1. pc = "search" /\ Searching
  BY DEF Decode, LearnTypes
<1> DEFINE p == job.packet
<1>2. PICK hits \in Found :
         LET best == BestCorrected(hits, p)
             asked == Overridden(p, best)
             cooled == Cooled(p.source, asked)
             decided == IF cooled THEN last[p.source].decision ELSE Raised(p, asked)
         IN  /\ job' = [number |-> job.number, packet |-> p, conf |-> Fused(p, best),
                        decision |-> IF verdict'.level = "CRITICAL" THEN "Block" ELSE decided,
                        cooled |-> cooled, filled |-> FALSE, seen |-> job.seen, at |-> 0]
             /\ mistakes' = IF p.label # "none" /\ Wrong(job') THEN mistakes \cup {p} ELSE mistakes
  BY DEF Decode
<1>3. job' \in JobType /\ job'.seen = job.seen /\ job'.packet = p
  <2> DEFINE best == BestCorrected(hits, p)
             asked == Overridden(p, best)
             cooled == Cooled(p.source, asked)
             decided == IF cooled THEN last[p.source].decision ELSE Raised(p, asked)
  <2>1. p \in Packets /\ job.number \in Nat /\ job.seen \in Nat
    BY <1>1 DEF Searching
  <2>2. Fused(p, best) \in Int /\ decided \in TI!Verdicts /\ cooled \in BOOLEAN
    BY <1>1, <2>1, DecodedFacts
  <2>3. job' = [number |-> job.number, packet |-> p, conf |-> Fused(p, best),
                decision |-> IF verdict'.level = "CRITICAL" THEN "Block" ELSE decided,
                cooled |-> cooled, filled |-> FALSE, seen |-> job.seen, at |-> 0]
    BY <1>2
  <2>4. (IF verdict'.level = "CRITICAL" THEN "Block" ELSE decided) \in TI!Verdicts
    BY <2>2 DEF TI!Verdicts
  <2> HIDE DEF best, cooled, decided, p
  <2> QED BY <2>1, <2>2, <2>3, <2>4 DEF JobType
<1>4. mistakes' = IF p.label # "none" /\ Wrong(job') THEN mistakes \cup {p} ELSE mistakes
  BY <1>2
<1> HIDE DEF p
<1> QED BY <1>1, <1>3, <1>4 DEF Decode, learned, p

\* A correction is a record, and passes the gate.
LEMMA LessonFacts ==
    ASSUME clock \in Nat, record_id \in Nat, NEW j \in JobType, NEW host \in Hosts \cup {Nowhere},
           NEW shape \in Shapes \cup {DefaultShape}, NEW port \in Nat
    PROVE  /\ Lesson(j, host, shape, port) \in MemoryType
           /\ PassesGate(Lesson(j, host, shape, port))
<1>1. j.packet.source \in Sources
  BY PacketFacts DEF JobType
<1> QED BY <1>1 DEF Lesson, MemoryType, PassesGate, TI!Verdicts

\* The records only grow, by what is written now.
Grown == /\ Len(records) <= Len(records') /\ Len(records') \in Nat /\ Len(records) \in Nat
         /\ DOMAIN records = 1..Len(records) /\ DOMAIN records' = 1..Len(records')
         /\ \A i \in DOMAIN records : records'[i] = records[i]
         /\ \A i \in DOMAIN records' \ DOMAIN records : records'[i].time = clock

LEMMA WrittenFacts ==
    ASSUME records \in Seq(MemoryType), NEW r \in MemoryType, r.time = clock, Written(r)
    PROVE  /\ records' \in Seq(MemoryType) /\ Grown
           /\ PassesGate(r) => \E i \in DOMAIN records' : records'[i] = r
<1>1. CASE PassesGate(r)
  <2>1. records' = Append(records, r)
    BY <1>1 DEF Written
  <2>2. /\ records' \in Seq(MemoryType) /\ Len(records') = Len(records) + 1
        /\ Len(records) \in Nat
        /\ \A i \in 1..Len(records) : records'[i] = records[i]
        /\ records'[Len(records) + 1] = r
    BY <2>1, AppendProperties, LenProperties
  <2>3. DOMAIN records = 1..Len(records) /\ DOMAIN records' = 1..Len(records')
    BY <2>2, LenProperties
  <2> QED BY <2>2, <2>3 DEF Grown
<1>2. CASE ~PassesGate(r)
  BY <1>2, LenProperties DEF Written, Grown
<1> QED BY <1>1, <1>2

LEMMA CorrectFacts ==
    ASSUME records \in Seq(MemoryType), clock \in Nat, record_id \in Nat, NEW j \in JobType,
           NEW host \in Hosts \cup {Nowhere}, NEW shape \in Shapes \cup {DefaultShape},
           NEW port \in Nat, Correct(j, host, shape, port)
    PROVE  /\ records' \in Seq(MemoryType) /\ Grown
           /\ \E i \in DOMAIN records' : records'[i] = Lesson(j, host, shape, port)
<1> DEFINE r == Lesson(j, host, shape, port)
<1>1. Written(r)
  BY DEF Correct
<1>2. r \in MemoryType /\ PassesGate(r)
  BY LessonFacts
<1>3. r.time = clock
  BY DEF Lesson
<1> HIDE DEF r
<1>4. records' \in Seq(MemoryType) /\ Grown /\ \E i \in DOMAIN records' : records'[i] = r
  BY <1>1, <1>2, <1>3, WrittenFacts
<1> QED BY <1>4 DEF r

LEMMA AgainFacts ==
    ASSUME LearnTypes, NEW t \in Side, TeachAgain(t)
    PROVE  /\ records' \in Seq(MemoryType) /\ Grown
           /\ \E i \in DOMAIN records' :
                  \E host, shape, port : records'[i] = Lesson(sjob[t], host, shape, port)
<1>1. sjob[t] \in JobType /\ sjob[t].packet.shape \in Shapes /\ sjob[t].packet.port \in Nat
  BY PacketFacts DEF TeachAgain, LearnTypes, JobType
<1>0. /\ records \in Seq(MemoryType) /\ clock \in Nat /\ record_id \in Nat
      /\ Nowhere \in Hosts \cup {Nowhere}
      /\ DefaultShape \in Shapes \cup {DefaultShape} /\ 0 \in Nat
      /\ sjob[t].packet.shape \in Shapes \cup {DefaultShape}
  BY <1>1 DEF LearnTypes
<1>2. CASE sjob[t].filled
  <2>1. Correct(sjob[t], Nowhere, sjob[t].packet.shape, sjob[t].packet.port)
    BY <1>2 DEF TeachAgain
  <2>2. /\ records' \in Seq(MemoryType) /\ Grown
        /\ \E i \in DOMAIN records' :
               records'[i] = Lesson(sjob[t], Nowhere, sjob[t].packet.shape, sjob[t].packet.port)
    BY <1>0, <1>1, <2>1, CorrectFacts
  <2> QED BY <2>2
<1>3. CASE ~sjob[t].filled
  <2>1. Correct(sjob[t], Nowhere, DefaultShape, 0)
    BY <1>3 DEF TeachAgain
  <2>2. /\ records' \in Seq(MemoryType) /\ Grown
        /\ \E i \in DOMAIN records' :
               records'[i] = Lesson(sjob[t], Nowhere, DefaultShape, 0)
    BY <1>0, <1>1, <2>1, CorrectFacts
  <2> QED BY <2>2
<1> QED BY <1>2, <1>3

LEMMA LogFacts ==
    ASSUME LearnTypes, Log PROVE records' \in Seq(MemoryType) /\ Grown
<1> DEFINE p == job.packet
           r == [id |-> record_id, source |-> p.source, host |-> Nowhere, port |-> p.port,
                 shape |-> p.shape, decision |-> job.decision, conf |-> job.conf,
                 time |-> clock, lesson |-> FALSE]
<1>1. job \in JobType /\ Written(r)
  BY DEF Log, LearnTypes
<1>2. r \in MemoryType /\ r.time = clock
  BY <1>1, PacketFacts DEF JobType, MemoryType, LearnTypes
<1> HIDE DEF r
<1> QED BY <1>1, <1>2, WrittenFacts DEF LearnTypes

LEMMA TeachFacts ==
    ASSUME LearnTypes, Teach
    PROVE  /\ records' \in Seq(MemoryType) /\ Grown
           /\ \E i \in DOMAIN records' :
                  \E host, shape, port : records'[i] = Lesson(job, host, shape, port)
<1>1. /\ job \in JobType /\ job.packet.host \in Hosts
      /\ job.packet.shape \in Shapes /\ job.packet.port \in Nat
  BY PacketFacts DEF Teach, LearnTypes, JobType
<1>2. Correct(job, job.packet.host, job.packet.shape, job.packet.port)
  BY DEF Teach
<1>3. /\ records' \in Seq(MemoryType) /\ Grown
      /\ \E i \in DOMAIN records' :
             records'[i] = Lesson(job, job.packet.host, job.packet.shape, job.packet.port)
  BY <1>1, <1>2, CorrectFacts DEF LearnTypes
<1> QED BY <1>3

LEMMA ClockMoves == ASSUME clock \in Nat, Done PROVE clock' \in Nat /\ clock' >= clock /\ pc' = "idle"
  BY LearningAssumption DEF Done

LEMMA NothingGrown ==
    ASSUME LearnTypes, UNCHANGED records PROVE Grown
  BY LenProperties DEF Grown, LearnTypes

\* What every step does to the memory, the counter and the clock.
LEMMA MemoryGrows ==
    ASSUME LearnTypes, [LearnNext]_learnVars
    PROVE  /\ records' \in Seq(MemoryType) /\ Grown /\ record_id' \in Nat
           /\ clock' \in Nat /\ clock <= clock'
<1>0. records \in Seq(MemoryType) /\ record_id \in Nat /\ clock \in Nat
  BY DEF LearnTypes
<1>1. CASE Log
  <2>1. clock' = clock \/ Done
    BY <1>1 DEF Log
  <2>2. record_id' = record_id
    BY <1>1 DEF Log
  <2> QED BY <1>0, <1>1, <2>1, <2>2, LogFacts, ClockMoves
<1>2. CASE Teach
  <2>1. Done /\ record_id' = record_id
    BY <1>2 DEF Teach
  <2> QED BY <1>0, <1>2, <2>1, TeachFacts, ClockMoves
<1>3. CASE \E t \in Side : TeachAgain(t)
  <2>1. PICK t \in Side : TeachAgain(t)
    BY <1>3
  <2>2. clock' = clock /\ record_id' = record_id
    BY <2>1 DEF TeachAgain, dispatch
  <2> QED BY <1>0, <2>1, <2>2, AgainFacts
<1>4. CASE Number
  <2>1. clock' = clock /\ record_id' = record_id + 1 /\ records' = records
    BY <1>4 DEF Number
  <2> QED BY <1>0, <2>1, NothingGrown
<1>5. CASE Validate
  <2>1. (clock' = clock \/ Done) /\ record_id' \in {record_id, record_id + 1} /\ records' = records
    BY <1>5 DEF Validate, Judged
  <2> QED BY <1>0, <2>1, NothingGrown, ClockMoves
<1>6. CASE \E t \in Side : ValidateAgain(t)
  <2>1. PICK t \in Side : ValidateAgain(t)
    BY <1>6
  <2>2. clock' = clock /\ record_id' \in {record_id, record_id + 1} /\ records' = records
    BY <2>1 DEF ValidateAgain, dispatch, Judged
  <2> QED BY <1>0, <2>2, NothingGrown
<1>7. CASE Retrieve \/ SearchFails \/ Decode \/ Fill \/ ValidateFails
  <2>1. (clock' = clock \/ Done) /\ record_id' = record_id /\ records' = records
    BY <1>7 DEF Retrieve, SearchFails, Decode, Fill, ValidateFails, learned
  <2> QED BY <1>0, <2>1, NothingGrown, ClockMoves
<1>8. CASE \E t \in Side : Read(t) \/ AgainFails(t)
  <2>1. clock' = clock /\ record_id' = record_id /\ records' = records
    BY <1>8 DEF Read, AgainFails, dispatch, learned
  <2> QED BY <1>0, <2>1, NothingGrown
<1>9. CASE UNCHANGED learnVars
  <2>1. clock' = clock /\ record_id' = record_id /\ records' = records
    BY <1>9 DEF learnVars, learned, dispatch
  <2> QED BY <1>0, <2>1, NothingGrown
<1> QED BY <1>1, <1>2, <1>3, <1>4, <1>5, <1>6, <1>7, <1>8, <1>9
        DEF LearnNext, Dispatch, Pool, Failures

LEMMA LearnTypesInitial == LearnInit => LearnTypes
  BY LearningAssumption DEF LearnInit, LearnTypes, TI!Verdicts

\* The packet being searched for stays one while the side threads write.
LEMMA SearchingStays ==
    ASSUME Searching, Grown, job' = job PROVE Searching'
<1>1. job.seen <= Len(records')
  BY DEF Searching, Grown
<1>2. \A h \in job.hits : records'[h.at] = records[h.at]
  BY DEF Searching, Grown
<1> QED BY <1>1, <1>2 DEF Searching

LEMMA LearnTypesKept == LearnTypes /\ [LearnNext]_learnVars => LearnTypes'
<1> SUFFICES ASSUME LearnTypes, [LearnNext]_learnVars PROVE LearnTypes'
  OBVIOUS
<1>m. /\ records' \in Seq(MemoryType) /\ Grown /\ record_id' \in Nat /\ clock' \in Nat
  BY MemoryGrows
<1>0. CASE Retrieve
  <2>1. /\ pc' = "search" /\ taken' = taken + 1
        /\ UNCHANGED <<records, last, mistakes, jobs, spc, sjob, faults>>
    BY <1>0 DEF Retrieve, learned, side
  <2>2. PICK p \in Packets :
          job' = [number |-> taken', packet |-> p, seen |-> Len(records), entering |-> Entering,
                  hits |-> Merged({}, Top(Wanted[1], Scopes(p)[1], p), 1, p)]
    BY <1>0 DEF Retrieve
  <2>3. Searching'
    <3>1. /\ job'.number = taken' /\ job'.packet = p /\ job'.seen = Len(records)
          /\ job'.hits = Merged({}, Top(Wanted[1], Scopes(p)[1] \ {}, p), 1, p)
      BY <2>2
    <3>2. \A h \in job'.hits : /\ h.at \in DOMAIN records /\ h.scope = 1
                               /\ h = [at |-> h.at, scope |-> 1]
                               /\ records[h.at].source = p.source
      <4> DEFINE merged == job'.hits
      <4>1. merged = Merged({}, Top(Wanted[1], Scopes(p)[1] \ {}, p), 1, p)
        BY <3>1
      <4> HIDE DEF merged
      <4>2. IsMerged(merged, {}, 1, p)
        BY <4>1 DEF IsMerged
      <4>3. 1 \in 1..4
        OBVIOUS
      <4>4. Adds(merged, {}, 1, p)
        BY <4>2, <4>3, SearchedFacts
      <4>5. \A h \in merged : /\ h.at \in DOMAIN records /\ h.scope = 1
                              /\ h = [at |-> h.at, scope |-> 1]
                              /\ records[h.at].source = p.source
        BY <4>4 DEF Adds
      <4> QED BY <4>5 DEF merged
    <3>3. DOMAIN records = 1..Len(records) /\ Len(records) \in Nat
      BY LenProperties DEF LearnTypes
    <3>4. taken' \in Nat
      BY <2>1 DEF LearnTypes
    <3>5. \A h \in job'.hits : /\ h.at \in 1..job'.seen /\ h.scope = 1
                               /\ h = [at |-> h.at, scope |-> 1]
                               /\ records'[h.at].source = job'.packet.source
      BY <2>1, <3>1, <3>2, <3>3
    <3> QED BY <2>1, <3>1, <3>3, <3>4, <3>5 DEF Searching
  <2>4. taken' \in Nat
    BY <2>1 DEF LearnTypes
  <2> QED BY <1>m, <2>1, <2>3, <2>4 DEF LearnTypes
<1>1. CASE Decode
  <2>1. /\ job' \in JobType /\ pc' = "fill" /\ jobs' = Append(jobs, job')
        /\ mistakes' = IF job'.packet.label # "none" /\ Wrong(job')
                       THEN mistakes \cup {job'.packet} ELSE mistakes
        /\ UNCHANGED <<records, metrics, clock, taken, spc, sjob, faults>>
    BY <1>1, DecodeFacts
  <2>2. jobs' \in Seq(JobType)
    BY <2>1, AppendProperties DEF LearnTypes
  <2>3. mistakes' \subseteq Packets
    BY <2>1 DEF LearnTypes, JobType
  <2>4. last' \in [Sources -> [decision : TI!Verdicts, time : Nat]]
    <3> DEFINE p == job.packet
    <3>1. PICK hits \in Found :
             LET asked == Overridden(p, BestCorrected(hits, p))
                 cooled == Cooled(p.source, asked)
                 decided == IF cooled THEN last[p.source].decision ELSE Raised(p, asked)
             IN  last' = IF cooled THEN last
                         ELSE [last EXCEPT ![p.source] = [decision |-> decided, time |-> clock]]
      BY <1>1 DEF Decode
    <3> DEFINE asked == Overridden(p, BestCorrected(hits, p))
               cooled == Cooled(p.source, asked)
               decided == IF cooled THEN last[p.source].decision ELSE Raised(p, asked)
    <3>2. decided \in TI!Verdicts
      <4>1. pc = "search" /\ p \in Packets
        BY <1>1 DEF Decode, LearnTypes, Searching
      <4> HIDE DEF p
      <4> QED BY <4>1, DecodedFacts
    <3>3. last' = IF cooled THEN last
                  ELSE [last EXCEPT ![p.source] = [decision |-> decided, time |-> clock]]
      BY <3>1
    <3> HIDE DEF decided, cooled
    <3> QED BY <3>2, <3>3 DEF LearnTypes
  <2> QED BY <1>m, <2>1, <2>2, <2>3, <2>4 DEF LearnTypes
<1>2. CASE Fill
  <2>1. /\ pc' = "number" /\ job \in JobType /\ job' = [job EXCEPT !.filled = TRUE]
        /\ UNCHANGED <<last, mistakes, taken, clock, spc, sjob, faults>>
    BY <1>2 DEF Fill, LearnTypes, learned
  <2>2. job' \in JobType
    BY <2>1 DEF JobType
  <2>3. jobs' \in Seq(JobType)
    <3>1. jobs' = [i \in DOMAIN jobs |-> IF jobs[i].number = job.number
                                         THEN [jobs[i] EXCEPT !.filled = TRUE] ELSE jobs[i]]
      BY <1>2 DEF Fill
    <3>2. DOMAIN jobs = 1..Len(jobs) /\ Len(jobs) \in Nat /\ \A i \in DOMAIN jobs : jobs[i] \in JobType
      BY LenProperties, ElementOfSeq DEF LearnTypes
    <3>3. \A i \in DOMAIN jobs : [jobs[i] EXCEPT !.filled = TRUE] \in JobType
      BY <3>2 DEF JobType
    <3>4. jobs' \in [1..Len(jobs) -> JobType]
      BY <3>1, <3>2, <3>3
    <3> QED BY <3>2, <3>4, SeqDef
  <2> QED BY <1>m, <2>1, <2>2, <2>3 DEF LearnTypes
<1>3. CASE Number \/ Log \/ Validate \/ Teach
  <2>1. UNCHANGED <<last, mistakes, taken, jobs, spc, sjob, faults>> /\ job \in JobType
    BY <1>3 DEF Number, Log, Validate, Teach, LearnTypes, side
  <2>2. /\ pc' \in {"idle", "log", "validate", "correct"}
        /\ pc' # "idle" => job' = job
    BY <1>3 DEF Number, Log, Validate, Teach, Done
  <2> QED BY <1>m, <2>1, <2>2 DEF LearnTypes
<1>5. CASE ValidateFails \/ SearchFails
  <2>1. UNCHANGED <<last, mistakes, taken, jobs, spc, sjob>>
    BY <1>5 DEF ValidateFails, SearchFails, side
  <2>2. pc' = "idle"
    BY <1>5 DEF ValidateFails, SearchFails, Done
  <2>3. faults' \in 0..MaxFaults
    BY <1>5, LearningAssumption DEF ValidateFails, SearchFails, LearnTypes
  <2> QED BY <1>m, <2>1, <2>2, <2>3 DEF LearnTypes
<1>6. ASSUME NEW t \in Side, Read(t) PROVE LearnTypes'
  <2>1. UNCHANGED <<records, last, pc, job, taken, clock, mistakes, faults>>
    BY <1>6 DEF Read, learned, dispatch
  <2>2. jobs' \in Seq(JobType) /\ Head(jobs) \in JobType
    BY <1>6, HeadTailProperties DEF Read, LearnTypes
  <2>3. /\ spc' \in [Side -> {"idle", "validate", "correct"}] /\ DOMAIN sjob' = Side
        /\ \A u \in Side : spc'[u] # "idle" => sjob'[u] \in JobType
    BY <1>6, <2>2 DEF Read, LearnTypes
  <2>4. pc' = "search" => Searching'
    BY <1>m, <2>1, SearchingStays DEF LearnTypes
  <2> QED BY <1>m, <2>1, <2>2, <2>3, <2>4 DEF LearnTypes
<1>7. ASSUME NEW t \in Side, ValidateAgain(t) \/ TeachAgain(t) PROVE LearnTypes'
  <2>1. UNCHANGED <<last, pc, job, taken, clock, mistakes, faults, jobs>>
    BY <1>7 DEF ValidateAgain, TeachAgain, dispatch
  <2>2. /\ spc' \in [Side -> {"idle", "validate", "correct"}] /\ DOMAIN sjob' = Side
        /\ \A u \in Side : spc'[u] # "idle" => sjob'[u] \in JobType
    BY <1>7 DEF ValidateAgain, TeachAgain, LearnTypes
  <2>3. pc' = "search" => Searching'
    BY <1>m, <2>1, SearchingStays DEF LearnTypes
  <2> QED BY <1>m, <2>1, <2>2, <2>3 DEF LearnTypes
<1>8. ASSUME NEW t \in Side, AgainFails(t) PROVE LearnTypes'
  <2>1. UNCHANGED <<last, pc, job, taken, clock, mistakes, jobs>>
    BY <1>8 DEF AgainFails, dispatch
  <2>2. /\ spc' \in [Side -> {"idle", "validate", "correct"}] /\ DOMAIN sjob' = Side
        /\ \A u \in Side : spc'[u] # "idle" => sjob'[u] \in JobType
    BY <1>8 DEF AgainFails, LearnTypes
  <2>3. faults' \in 0..MaxFaults
    BY <1>8, LearningAssumption DEF AgainFails, LearnTypes
  <2>4. pc' = "search" => Searching'
    BY <1>m, <2>1, SearchingStays DEF LearnTypes
  <2> QED BY <1>m, <2>1, <2>2, <2>3, <2>4 DEF LearnTypes
<1>9. CASE UNCHANGED learnVars
  <2>1. UNCHANGED <<last, pc, job, taken, clock, mistakes, faults, jobs, spc, sjob>>
    BY <1>9 DEF learnVars, dispatch, side
  <2>2. pc' = "search" => Searching'
    BY <1>m, <2>1, SearchingStays DEF LearnTypes
  <2> QED BY <1>m, <2>1, <2>2 DEF LearnTypes
<1> QED BY <1>0, <1>1, <1>2, <1>3, <1>5, <1>6, <1>7, <1>8, <1>9
        DEF LearnNext, Dispatch, Pool, Failures

-----------------------------------------------------------------------------
\* A correction of p, and the two validations of it that may be ahead.
Learned(p) == \E i \in DOMAIN records :
    /\ records[i].lesson /\ records[i].source = p.source
    /\ records[i].decision = (IF p.label = "attack" THEN "Block" ELSE "Ignore")

Due(p, j) == j.packet = p /\ Wrong(j)
DispatchDue(p) == pc \notin {"idle", "search"} /\ Due(p, job)
SideDue(p) == \/ \E i \in DOMAIN jobs : Due(p, jobs[i])
              \/ \E t \in Side : spc[t] # "idle" /\ Due(p, sjob[t])

\* One of the two may fail, not both: as long as failures are left both are ahead,
\* or the correction has been made.
LessonsAhead ==
    \A p \in mistakes :
        /\ p.label # "none"
        /\ \/ Learned(p)
           \/ DispatchDue(p) /\ SideDue(p)
           \/ (DispatchDue(p) \/ SideDue(p)) /\ faults = MaxFaults

LEMMA LessonsAheadMeans == LessonsAhead => MistakesLeaveLessons
<1> SUFFICES ASSUME LessonsAhead, Quiet, NEW p \in mistakes PROVE Learned(p)
  BY DEF MistakesLeaveLessons, Learned
<1>1. ~DispatchDue(p) /\ ~SideDue(p)
  BY DEF Quiet, DispatchDue, SideDue
<1> QED BY <1>1 DEF LessonsAhead

\* What was learned stays.
LEMMA LearnedStays ==
    ASSUME Grown, NEW p, Learned(p)
    PROVE  \E i \in DOMAIN records' :
               /\ records'[i].lesson /\ records'[i].source = p.source
               /\ records'[i].decision = (IF p.label = "attack" THEN "Block" ELSE "Ignore")
<1>1. DOMAIN records \subseteq DOMAIN records' /\ \A i \in DOMAIN records : records'[i] = records[i]
  BY DEF Grown
<1> QED BY <1>1 DEF Learned

\* Steps that keep the validations that are ahead, or make the correction.
LEMMA LessonsAheadKept ==
    ASSUME LessonsAhead, Grown, mistakes' \subseteq mistakes, faults' = faults,
           \A p \in mistakes : \/ DispatchDue(p) => DispatchDue(p)'
                               \/ \E i \in DOMAIN records' :
                                      \E j, host, shape, port :
                                          /\ records'[i] = Lesson(j, host, shape, port)
                                          /\ j.packet = p,
           \A p \in mistakes : \/ SideDue(p) => SideDue(p)'
                               \/ \E i \in DOMAIN records' :
                                      \E j, host, shape, port :
                                          /\ records'[i] = Lesson(j, host, shape, port)
                                          /\ j.packet = p
    PROVE  LessonsAhead'
<1> SUFFICES ASSUME NEW p \in mistakes
             PROVE  /\ p.label # "none"
                    /\ \/ Learned(p)'
                       \/ DispatchDue(p)' /\ SideDue(p)'
                       \/ (DispatchDue(p)' \/ SideDue(p)') /\ faults' = MaxFaults
  BY DEF LessonsAhead
<1>1. CASE Learned(p)
  BY <1>1, LearnedStays DEF Learned, LessonsAhead
<1>2. ASSUME NEW i \in DOMAIN records', NEW j, NEW host, NEW shape, NEW port,
             records'[i] = Lesson(j, host, shape, port), j.packet = p
      PROVE  Learned(p)'
  BY <1>2 DEF Learned, Lesson
<1>3. CASE ~Learned(p)
  BY <1>2, <1>3 DEF LessonsAhead
<1> QED BY <1>1, <1>3

LEMMA LessonsAheadInductive ==
    ASSUME MaxFaults <= 1, LearnTypes, LessonsAhead, [LearnNext]_learnVars
    PROVE  LessonsAhead'
<1>f. faults \in Nat /\ faults <= MaxFaults /\ MaxFaults \in Nat
  BY LearningAssumption DEF LearnTypes
<1>1. CASE Decode
  <2>1. /\ pc = "search" /\ pc' = "fill" /\ jobs' = Append(jobs, job')
        /\ mistakes' = IF job'.packet.label # "none" /\ Wrong(job')
                       THEN mistakes \cup {job'.packet} ELSE mistakes
        /\ UNCHANGED <<records, spc, sjob, faults>> /\ job' \in JobType
    BY <1>1, DecodeFacts
  <2>2. /\ DOMAIN jobs' = 1..(Len(jobs) + 1) /\ DOMAIN jobs = 1..Len(jobs) /\ Len(jobs) \in Nat
        /\ \A i \in DOMAIN jobs : jobs'[i] = jobs[i]
        /\ jobs'[Len(jobs) + 1] = job'
    BY <2>1, AppendProperties, LenProperties DEF LearnTypes
  <2>3. DOMAIN jobs \subseteq DOMAIN jobs' /\ Len(jobs) + 1 \in DOMAIN jobs'
    BY <2>2
  <2>4. \A p : SideDue(p) => SideDue(p)'
    BY <2>1, <2>2, <2>3 DEF SideDue, Due
  <2>5. \A p : ~DispatchDue(p)
    BY <2>1 DEF DispatchDue
  <2>6. \A p : Learned(p) => Learned(p)'
    BY <2>1 DEF Learned
  <2>7. ASSUME NEW p \in mistakes
        PROVE  p.label # "none" /\ (Learned(p)' \/ (SideDue(p)' /\ faults' = MaxFaults))
    BY <2>1, <2>4, <2>5, <2>6 DEF LessonsAhead
  <2>8. ASSUME NEW p, p = job'.packet, Wrong(job')
        PROVE  DispatchDue(p)' /\ SideDue(p)'
    BY <2>1, <2>2, <2>3, <2>8 DEF DispatchDue, SideDue, Due
  <2> QED BY <2>1, <2>7, <2>8 DEF LessonsAhead
<1>2. CASE Fill
  <2>1. /\ pc = "fill" /\ pc' = "number" /\ job \in JobType /\ job' = [job EXCEPT !.filled = TRUE]
        /\ UNCHANGED <<records, mistakes, spc, sjob, faults>>
        /\ jobs' = [i \in DOMAIN jobs |-> IF jobs[i].number = job.number
                                         THEN [jobs[i] EXCEPT !.filled = TRUE] ELSE jobs[i]]
    BY <1>2 DEF Fill, LearnTypes, learned
  <2>2. \A i \in DOMAIN jobs : jobs[i] \in JobType
    BY LenProperties, ElementOfSeq DEF LearnTypes
  <2>3. job'.packet = job.packet /\ job'.decision = job.decision
    BY <2>1 DEF JobType
  <2>4. \A i \in DOMAIN jobs : /\ i \in DOMAIN jobs'
                               /\ jobs'[i].packet = jobs[i].packet
                               /\ jobs'[i].decision = jobs[i].decision
    BY <2>1, <2>2 DEF JobType
  <2>5. \A p : DispatchDue(p) => DispatchDue(p)'
    BY <2>1, <2>3 DEF DispatchDue, Due, Wrong
  <2>6. \A p : SideDue(p) => SideDue(p)'
    BY <2>1, <2>4 DEF SideDue, Due, Wrong
  <2> QED BY <2>1, <2>5, <2>6, NothingGrown, LessonsAheadKept
<1>3. CASE Log
  <2>1. /\ UNCHANGED <<mistakes, jobs, spc, sjob, faults>> /\ Grown
        /\ pc = "log"
    BY <1>3, LogFacts DEF Log, side
  <2>2. \A p : SideDue(p) => SideDue(p)'
    BY <2>1 DEF SideDue
  <2>3. ASSUME NEW p \in mistakes, DispatchDue(p) PROVE DispatchDue(p)'
    <3>1. job.packet.label # "none"
      BY <2>3 DEF DispatchDue, Due, LessonsAhead
    <3>2. pc' = "validate" /\ job' = job
      BY <1>3, <3>1 DEF Log
    <3> QED BY <2>3, <3>2 DEF DispatchDue
  <2> QED BY <2>1, <2>2, <2>3, LessonsAheadKept
<1>4. CASE Teach
  <2>1. /\ UNCHANGED <<mistakes, jobs, spc, sjob, faults>> /\ Grown
        /\ \E i \in DOMAIN records' :
               \E host, shape, port : records'[i] = Lesson(job, host, shape, port)
    BY <1>4, TeachFacts DEF Teach, side
  <2>2. \A p : SideDue(p) => SideDue(p)'
    BY <2>1 DEF SideDue
  <2>3. \A p : DispatchDue(p) => job.packet = p
    BY DEF DispatchDue, Due
  <2> QED BY <2>1, <2>2, <2>3, LessonsAheadKept
<1>a. CASE Retrieve \/ Number \/ Validate
  <2>1. UNCHANGED <<records, mistakes, jobs, spc, sjob, faults>>
    BY <1>a DEF Retrieve, Number, Validate, side, learned
  <2>2. \A p : SideDue(p) => SideDue(p)'
    BY <2>1 DEF SideDue
  <2>3. ASSUME NEW p, DispatchDue(p) PROVE DispatchDue(p)'
    <3>1. pc # "idle" /\ Wrong(job) /\ job.packet = p
      BY <2>3 DEF DispatchDue, Due
    <3>2. pc' \in {"log", "correct"} /\ job' = job
      BY <1>a, <3>1 DEF Retrieve, Number, Validate
    <3> QED BY <2>3, <3>2 DEF DispatchDue
  <2> QED BY <2>1, <2>2, <2>3, NothingGrown, LessonsAheadKept
<1>5. CASE ValidateFails \/ SearchFails
  <2>1. UNCHANGED <<records, mistakes, jobs, spc, sjob>> /\ faults < MaxFaults /\ faults' = faults + 1
    BY <1>5 DEF ValidateFails, SearchFails, side, learned
  <2>2. faults # MaxFaults /\ faults' = MaxFaults
    BY <1>f, <2>1
  <2>3. \A p : (SideDue(p) => SideDue(p)') /\ (Learned(p) => Learned(p)')
    BY <2>1 DEF SideDue, Learned
  <2> QED BY <2>1, <2>2, <2>3 DEF LessonsAhead
<1>6. ASSUME NEW t \in Side, Read(t) PROVE LessonsAhead'
  <2>1. UNCHANGED <<records, pc, job, mistakes, faults>>
    BY <1>6 DEF Read, learned, dispatch
  <2>2. /\ jobs \in Seq(JobType) /\ jobs # <<>> /\ jobs' = Tail(jobs) /\ Head(jobs) = jobs[1]
        /\ DOMAIN jobs = 1..Len(jobs) /\ Len(jobs) \in Nat
    BY <1>6, LenProperties, HeadTailProperties DEF Read, LearnTypes
  <2>3. DOMAIN jobs' = 1..(Len(jobs) - 1) /\ \A i \in 1..(Len(jobs) - 1) : jobs'[i] = jobs[i + 1]
    BY <2>2, HeadTailProperties, LenProperties
  <2>4. \A i \in DOMAIN jobs : i = 1 \/ (i - 1 \in DOMAIN jobs' /\ jobs'[i - 1] = jobs[i])
    BY <2>2, <2>3
  <2>5. \A p : DispatchDue(p) => DispatchDue(p)'
    BY <2>1 DEF DispatchDue
  <2>6. spc[t] = "idle" /\ \A u \in Side : spc[u] # "idle" => spc'[u] # "idle" /\ sjob'[u] = sjob[u]
    BY <1>6 DEF Read, LearnTypes
  <2>7. ASSUME NEW p \in mistakes, Due(p, Head(jobs)) PROVE SideDue(p)'
    <3>1. Head(jobs).packet.label # "none"
      BY <2>7 DEF Due, LessonsAhead
    <3>2. spc'[t] = "validate" /\ sjob'[t] = Head(jobs)
      BY <1>6, <3>1 DEF Read, LearnTypes
    <3> QED BY <2>7, <3>2 DEF SideDue, Due
  <2>8. ASSUME NEW p \in mistakes, SideDue(p) PROVE SideDue(p)'
    <3>1. CASE \E i \in DOMAIN jobs : Due(p, jobs[i])
      <4>1. PICK i \in DOMAIN jobs : Due(p, jobs[i])
        BY <3>1
      <4>2. CASE i = 1
        BY <2>2, <2>7, <4>1, <4>2
      <4>3. CASE i # 1
        BY <2>4, <4>1, <4>3 DEF SideDue, Due
      <4> QED BY <4>2, <4>3
    <3>2. CASE \E u \in Side : spc[u] # "idle" /\ Due(p, sjob[u])
      BY <2>6, <3>2 DEF SideDue, Due
    <3> QED BY <2>8, <3>1, <3>2 DEF SideDue
  <2> QED BY <2>1, <2>5, <2>8, NothingGrown, LessonsAheadKept
<1>7. ASSUME NEW t \in Side, TeachAgain(t) PROVE LessonsAhead'
  <2>1. UNCHANGED <<pc, job, mistakes, faults, jobs>> /\ Grown
    BY <1>7, AgainFacts DEF TeachAgain, dispatch
  <2>2. \A p : DispatchDue(p) => DispatchDue(p)'
    BY <2>1 DEF DispatchDue
  <2>3. \A u \in Side \ {t} : spc'[u] = spc[u] /\ sjob'[u] = sjob[u]
    BY <1>7 DEF TeachAgain, LearnTypes
  <2>4. ASSUME NEW p \in mistakes, SideDue(p), ~SideDue(p)' PROVE Due(p, sjob[t])
    BY <2>1, <2>3, <2>4 DEF SideDue, Due
  <2>5. \A p : Due(p, sjob[t]) => sjob[t].packet = p
    BY DEF Due
  <2> QED BY <1>7, <2>1, <2>2, <2>4, <2>5, AgainFacts, LessonsAheadKept
<1>b. ASSUME NEW t \in Side, ValidateAgain(t) PROVE LessonsAhead'
  <2>1. UNCHANGED <<records, pc, job, mistakes, faults, jobs>>
    BY <1>b DEF ValidateAgain, dispatch
  <2>2. \A p : DispatchDue(p) => DispatchDue(p)'
    BY <2>1 DEF DispatchDue
  <2>3. \A u \in Side \ {t} : spc'[u] = spc[u] /\ sjob'[u] = sjob[u]
    BY <1>b DEF ValidateAgain, LearnTypes
  <2>4. Wrong(sjob[t]) => spc'[t] = "correct" /\ sjob'[t] = sjob[t]
    BY <1>b DEF ValidateAgain, LearnTypes
  <2>5. ASSUME NEW p, SideDue(p) PROVE SideDue(p)'
    <3>1. CASE \E i \in DOMAIN jobs : Due(p, jobs[i])
      BY <2>1, <3>1 DEF SideDue, Due
    <3>2. ASSUME NEW u \in Side, spc[u] # "idle", Due(p, sjob[u]) PROVE SideDue(p)'
      <4>1. spc'[u] # "idle" /\ sjob'[u] = sjob[u]
        BY <2>3, <2>4, <3>2 DEF Due
      <4> QED BY <3>2, <4>1 DEF SideDue, Due
    <3> QED BY <2>5, <3>1, <3>2 DEF SideDue
  <2> QED BY <2>1, <2>2, <2>5, NothingGrown, LessonsAheadKept
<1>8. ASSUME NEW t \in Side, AgainFails(t) PROVE LessonsAhead'
  <2>1. UNCHANGED <<records, pc, job, mistakes, jobs>> /\ faults < MaxFaults /\ faults' = faults + 1
    BY <1>8 DEF AgainFails, dispatch
  <2>2. faults # MaxFaults /\ faults' = MaxFaults
    BY <1>f, <2>1
  <2>3. \A p : (DispatchDue(p) => DispatchDue(p)') /\ (Learned(p) => Learned(p)')
    BY <2>1 DEF DispatchDue, Learned
  <2> QED BY <2>1, <2>2, <2>3 DEF LessonsAhead
<1>9. CASE UNCHANGED learnVars
  <2>1. UNCHANGED <<records, pc, job, mistakes, jobs, spc, sjob, faults>>
    BY <1>9 DEF learnVars, learned, dispatch, side
  <2>2. \A p : (DispatchDue(p) => DispatchDue(p)') /\ (SideDue(p) => SideDue(p)')
    BY <2>1 DEF DispatchDue, SideDue
  <2> QED BY <2>1, <2>2, NothingGrown, LessonsAheadKept
<1> QED BY <1>1, <1>2, <1>3, <1>4, <1>5, <1>6, <1>7, <1>8, <1>9, <1>a, <1>b
        DEF LearnNext, Dispatch, Pool, Failures

\* However many packets and side threads there are, a wrong decision leaves its
\* correction once everything is at rest, if at most one call fails.
THEOREM EveryMistakeTeaches ==
    ASSUME MaxFaults <= 1
    PROVE  LearnSpec => []MistakesLeaveLessons
<1>1. LearnInit => LearnTypes /\ LessonsAhead
  BY LearnTypesInitial DEF LearnInit, LessonsAhead
<1>2. LearnTypes /\ LessonsAhead /\ [LearnNext]_learnVars => (LearnTypes /\ LessonsAhead)'
  BY LearnTypesKept, LessonsAheadInductive
<1> QED BY <1>1, <1>2, LessonsAheadMeans, PTL DEF LearnSpec

-----------------------------------------------------------------------------
\* A set of numbers has a least one.
LEMMA LeastNumber ==
    ASSUME NEW T, T \subseteq Nat, T # {} PROVE \E x \in T : \A y \in T : x <= y
<1>1. \E R : IsWellFoundedOn(R, Nat) /\ \A x, y \in Nat : y < x => <<y, x>> \in R
  <2> DEFINE R == OpToRel(<, Nat)
  <2>1. IsWellFoundedOn(R, Nat)
    BY NatLessThanWellFounded
  <2>2. \A x, y \in Nat : y < x => <<y, x>> \in R
    BY DEF OpToRel
  <2> HIDE DEF R
  <2> QED BY <2>1, <2>2
<1>2. PICK R : IsWellFoundedOn(R, Nat) /\ \A x, y \in Nat : y < x => <<y, x>> \in R
  BY <1>1
<1>3. PICK x \in T : \A y \in T : <<y, x>> \notin R
  BY <1>2, WFMin
<1>4. ASSUME NEW y \in T PROVE x <= y
  <2>1. x \in Nat /\ y \in Nat
    OBVIOUS
  <2>2. ~(y < x)
    BY <1>2, <1>3, <2>1
  <2> QED BY <2>1, <2>2
<1> QED BY <1>4

LEMMA SimFacts ==
    ASSUME NEW s, NEW t
    PROVE  Sim(s, t) \in Int /\ Sim(s, t) <= 100 /\ (Sim(s, t) = 100 <=> s = t)
<1>1. Alike \in Int /\ Alike <= 99
  BY LearningAssumption
<1>2. CASE s = t
  BY <1>2 DEF Sim
<1>3. CASE s # t
  BY <1>1, <1>3 DEF Sim
<1> QED BY <1>2, <1>3

\* The correction made last of those in the first n records.
Greatest(S) == CHOOSE i \in S : \A j \in S : j <= i
Final(p, n) == Greatest(Lessons(p, n))

LEMMA FinalExists ==
    ASSUME NEW p, NEW n \in Nat, Lessons(p, n) # {}
    PROVE  /\ Final(p, n) \in Lessons(p, n)
           /\ \A j \in Lessons(p, n) : j <= Final(p, n)
<1> DEFINE S == {n - i : i \in Lessons(p, n)}
<1>1. Lessons(p, n) \subseteq 1..n
  BY DEF Lessons
<1>2. S \subseteq Nat /\ S # {}
  BY <1>1
<1>3. PICK m \in S : \A k \in S : m <= k
  BY <1>2, LeastNumber
<1>4. PICK i \in Lessons(p, n) : m = n - i
  BY <1>3
<1>5. ASSUME NEW j \in Lessons(p, n) PROVE j <= i
  <2>1. m <= n - j
    BY <1>3
  <2> QED BY <1>1, <1>4, <2>1
<1>6. \E q \in Lessons(p, n) : \A j \in Lessons(p, n) : j <= q
  BY <1>4, <1>5
<1> QED BY <1>6 DEF Final, Greatest

\* Records are written in order of time.
InOrderOfTime ==
    /\ \A i, j \in DOMAIN records : i <= j => records[i].time <= records[j].time
    /\ \A i \in DOMAIN records : records[i].time <= clock

LEMMA TimeKept ==
    ASSUME LearnTypes, InOrderOfTime, [LearnNext]_learnVars PROVE InOrderOfTime'
<1>1. Grown /\ clock \in Nat /\ clock' \in Nat /\ clock <= clock' /\ records' \in Seq(MemoryType)
  BY MemoryGrows DEF LearnTypes
<1>2. \A i \in DOMAIN records' : records'[i].time \in Nat
  BY <1>1, LenProperties, ElementOfSeq DEF MemoryType
<1>3. DOMAIN records = 1..Len(records) /\ DOMAIN records' = 1..Len(records') /\ Len(records) \in Nat
      /\ Len(records') \in Nat
  BY <1>1 DEF Grown
<1>4. ASSUME NEW i \in DOMAIN records' PROVE records'[i].time <= clock
  BY <1>1, <1>4 DEF Grown, InOrderOfTime
<1>5. ASSUME NEW i \in DOMAIN records', NEW j \in DOMAIN records', i <= j
      PROVE  records'[i].time <= records'[j].time
  <2>1. CASE j \in DOMAIN records
    <3>1. i \in DOMAIN records
      BY <1>3, <1>5, <2>1
    <3> QED BY <1>1, <1>5, <2>1, <3>1 DEF Grown, InOrderOfTime
  <2>2. CASE j \notin DOMAIN records
    <3>1. records'[j].time = clock
      BY <1>1, <1>5, <2>2 DEF Grown
    <3> QED BY <1>4, <1>5, <3>1
  <2> QED BY <2>1, <2>2
<1>6. ASSUME NEW i \in DOMAIN records' PROVE records'[i].time <= clock'
  BY <1>1, <1>2, <1>4, <1>6
<1> QED BY <1>5, <1>6 DEF InOrderOfTime

LEMMA RecencyFacts ==
    ASSUME NEW a \in Nat, NEW b \in Nat, a <= b
    PROVE  Recency(a) \in Int /\ Recency(b) \in Int /\ Recency(b) <= Recency(a)
<1> DEFINE x == IF a < Horizon THEN a ELSE Horizon
           y == IF b < Horizon THEN b ELSE Horizon
<1>1. /\ Horizon \in Nat /\ Decay \in [0..Horizon -> 0..100]
      /\ \A c, d \in 0..Horizon : c <= d => Decay[d] <= Decay[c]
  BY LearningAssumption
<1>2. x \in 0..Horizon /\ y \in 0..Horizon /\ x <= y
  BY <1>1
<1> HIDE DEF x, y
<1>3. Decay[x] \in 0..100 /\ Decay[y] \in 0..100
  BY <1>1, <1>2
<1>4. Decay[y] <= Decay[x]
  BY <1>1, <1>2
<1> QED BY <1>3, <1>4 DEF Recency, x, y

LEMMA ScoreFacts ==
    ASSUME LearnTypes, InOrderOfTime, NEW p, NEW i \in DOMAIN records
    PROVE  /\ Score(records[i], p) \in Int
           /\ records[i] \in MemoryType /\ clock - records[i].time \in Nat
<1>1. records[i] \in MemoryType
  BY LenProperties, ElementOfSeq DEF LearnTypes
<1>2. records[i].time \in Nat /\ records[i].conf \in Int
  BY <1>1 DEF MemoryType
<1>3. clock - records[i].time \in Nat
  BY <1>2 DEF LearnTypes, InOrderOfTime
<1>4. Recency(clock - records[i].time) \in Int
  BY <1>3, RecencyFacts
<1>5. Sim(records[i].shape, p.shape) \in Int
  BY SimFacts
<1> QED BY <1>1, <1>2, <1>3, <1>4, <1>5 DEF Score

\* Of two corrections of one kind the later has the better score.
LEMMA LaterLessonIsBetter ==
    ASSUME LearnTypes, InOrderOfTime, NEW p, NEW i \in DOMAIN records, NEW j \in DOMAIN records,
           i < j, records[i].lesson, records[j].lesson, records[i].shape = records[j].shape
    PROVE  Better(j, i, p) /\ ~Better(i, j, p)
<1>1. records[i].conf = 95 /\ records[j].conf = 95
  BY ScoreFacts DEF MemoryType
<1>2. Recency(clock - records[i].time) <= Recency(clock - records[j].time)
      /\ Recency(clock - records[i].time) \in Int /\ Recency(clock - records[j].time) \in Int
  <2>0. clock - records[i].time \in Nat /\ clock - records[j].time \in Nat
    BY ScoreFacts
  <2>1. records[i].time \in Nat /\ records[j].time \in Nat /\ clock \in Nat
    BY ScoreFacts DEF MemoryType, LearnTypes
  <2>2. records[i].time <= records[j].time
    BY LenProperties DEF InOrderOfTime, LearnTypes
  <2>3. clock - records[j].time <= clock - records[i].time
    BY <2>1, <2>2
  <2> QED BY <2>0, <2>3, RecencyFacts
<1>3. Score(records[i], p) <= Score(records[j], p)
  <2>1. Sim(records[i].shape, p.shape) \in Int
    BY SimFacts
  <2> QED BY <1>1, <1>2, <2>1 DEF Score
<1>4. Score(records[i], p) \in Int /\ Score(records[j], p) \in Int
  BY ScoreFacts
<1>5. i \in Int /\ j \in Int
  BY LenProperties DEF LearnTypes
<1> QED BY <1>3, <1>4, <1>5 DEF Better

\* The last correction in memory is among the hits of its source's scope, unless it
\* is outranked.
LEMMA FinalIsHit ==
    ASSUME LearnTypes, NEW p, Lessons(p, Len(records)) # {},
           ~Outranked(Final(p, Len(records)), p, Len(records))
    PROVE  [at |-> Final(p, Len(records)), scope |-> 1]
               \in Merged({}, Top(Wanted[1], Scopes(p)[1], p), 1, p)
<1> DEFINE n == Len(records)
           final == Final(p, n)
           ip == {i \in DOMAIN records : records[i].source = p.source}
           rivals == {i \in 1..n : records[i].source = p.source /\ Better(i, final, p)}
           found == Top(3, ip, p)
<1>1. DOMAIN records = 1..n /\ n \in Nat
  BY LenProperties DEF LearnTypes
<1>2. final \in Lessons(p, n)
  BY <1>1, FinalExists
<1>3. /\ \A i \in rivals : records[i].id # records[final].id
      /\ ~(Cardinality(rivals) >= 3)
  BY DEF Outranked
<1>4. Cardinality(rivals) < 3
  <2>1. IsFiniteSet(1..n)
    BY <1>1, FS_Interval
  <2>2. IsFiniteSet(rivals)
    BY <2>1, FS_Subset
  <2>3. Cardinality(rivals) \in Nat
    BY <2>2, FS_CardinalityType
  <2> HIDE DEF rivals
  <2> QED BY <1>3, <2>3
<1> HIDE DEF final
<1>5. final \in ip /\ records[final].conf = 95
  <2>1. final \in DOMAIN records /\ records[final].source = p.source /\ records[final].lesson
    BY <1>1, <1>2 DEF Lessons
  <2>2. records[final] \in MemoryType
    BY <2>1, LenProperties, ElementOfSeq DEF LearnTypes
  <2> QED BY <2>1, <2>2 DEF MemoryType
<1>6. {j \in ip : Better(j, final, p)} = rivals
  BY <1>1
<1>7. final \in found
  <2> HIDE DEF rivals
  <2>1. Cardinality({j \in ip : Better(j, final, p)}) < 3
    BY <1>4, <1>6
  <2> HIDE DEF ip
  <2> QED BY <1>5, <2>1 DEF Top
<1>8. \A j \in found : j \in ip
  BY DEF Top
<1>9. \A j \in found : records[j].id = records[final].id => ~Better(j, final, p)
  BY <1>3, <1>6, <1>8
<1> HIDE DEF found, ip, rivals
<1>10. final \in {i \in {i \in found : records[i].conf > 50} :
                    /\ \A h \in {} : records[h.at].id # records[i].id
                    /\ \A j \in {k \in found : records[k].conf > 50} :
                           records[j].id = records[i].id => ~Better(j, i, p)}
  BY <1>5, <1>7, <1>9
<1>11. [at |-> final, scope |-> 1] \in Merged({}, found, 1, p)
  BY <1>10 DEF Merged
<1>12. Scopes(p)[1] = ip /\ Wanted[1] = 3
  BY DEF Scopes, Wanted, ip
<1> QED BY <1>11, <1>12 DEF found, final, n

\* The packet being searched for has met the last correction of its kind, unless it
\* was outranked.
Met ==
    pc = "search" => \A p \in Packets, n \in Nat : p = job.packet /\ n = job.seen =>
        \/ Lessons(p, n) = {}
        \/ Outranked(Final(p, n), p, n)
        \/ [at |-> Final(p, n), scope |-> 1] \in job.hits

\* What the last correction asks for is what the decoder takes.
LEMMA FinalIsTaken ==
    ASSUME LearnTypes, InOrderOfTime, pc = "search", NEW hits \in Found,
           NEW p \in Packets, NEW n \in Nat, p = job.packet, n = job.seen,
           Lessons(p, n) # {}, ~Outranked(Final(p, n), p, n),
           [at |-> Final(p, n), scope |-> 1] \in job.hits
    PROVE  /\ BestCorrected(hits, p) = Final(p, n) /\ Final(p, n) \in DOMAIN records
           /\ records[Final(p, n)].conf = 95
           /\ records[Final(p, n)].decision \in {"Block", "Ignore"}
<1> DEFINE final == Final(p, n)
           top == [at |-> final, scope |-> 1]
           sure == {h \in hits : records[h.at].conf > 85}
           nearest == {h \in sure : \A g \in sure \ {h} : Nearer(h, g, p)}
<1>1. DOMAIN records = 1..Len(records) /\ Len(records) \in Nat /\ n <= Len(records)
  BY LenProperties DEF LearnTypes, Searching
<1>2. final \in Lessons(p, n) /\ \A j \in Lessons(p, n) : j <= final
  BY FinalExists
<1>3. /\ final \in 1..n /\ final \in DOMAIN records /\ records[final].lesson
      /\ records[final].source = p.source /\ records[final].shape = p.shape
  BY <1>1, <1>2 DEF Lessons
<1>4. records[final].conf = 95 /\ records[final].decision \in {"Block", "Ignore"}
  <2>1. records[final] \in MemoryType
    BY <1>3, ScoreFacts
  <2> QED BY <1>3, <2>1 DEF MemoryType
<1>5. ASSUME NEW i \in 1..n, records[i].source = p.source, records[i].shape = p.shape,
             records[i].conf > 85, i # final
      PROVE  Better(final, i, p) /\ ~Better(i, final, p)
  <2>0. i \in DOMAIN records /\ i \in Int /\ final \in Int
    BY <1>1, <1>3
  <2>1. CASE records[i].lesson
    <3>1. i \in Lessons(p, n)
      BY <1>5, <2>1 DEF Lessons
    <3>2. i < final
      BY <1>2, <1>5, <2>0, <3>1
    <3> HIDE DEF final
    <3> QED BY <1>3, <1>5, <2>0, <2>1, <3>2, LaterLessonIsBetter
  <2>2. CASE ~records[i].lesson
    <3>1. ~Better(i, final, p)
      BY <1>5, <2>2 DEF Outranked
    <3>2. Score(records[i], p) \in Int /\ Score(records[final], p) \in Int
      BY <1>3, <2>0, ScoreFacts
    <3> HIDE DEF final
    <3>3. Better(final, i, p)
      BY <1>5, <2>0, <3>1, <3>2 DEF Better
    <3> QED BY <3>1, <3>3
  <2> QED BY <2>1, <2>2
<1> HIDE DEF final
<1>6. top \in sure
  <2>1. top \in hits
    BY FoundFacts DEF final
  <2> QED BY <1>4, <2>1
<1>7. ASSUME NEW g \in sure, g # top PROVE Nearer(top, g, p) /\ ~Nearer(g, top, p)
  <2> DEFINE s == Sim(records[final].shape, p.shape)
             t == Sim(records[g.at].shape, p.shape)
  <2>1. s = 100 /\ t \in Int /\ t <= 100 /\ (t = 100 => records[g.at].shape = p.shape)
    BY <1>3, SimFacts
  <2>2. g \in hits /\ records[g.at].conf > 85
    OBVIOUS
  <2>3. \/ g.scope \in 2..4
        \/ g.scope = 1 /\ g.at \in 1..n /\ g = [at |-> g.at, scope |-> 1]
           /\ records[g.at].source = p.source
    BY <2>2, FoundFacts DEF LearnTypes, Searching
  <2>4. g.scope = 1 /\ t = 100 => Better(final, g.at, p) /\ ~Better(g.at, final, p)
    BY <1>5, <1>7, <2>1, <2>2, <2>3
  <2>5. g.scope \in 1..4
    BY <2>3
  <2>6. top.at = final /\ top.scope = 1
    OBVIOUS
  <2> HIDE DEF s, t, sure, top
  <2>7. Nearer(top, g, p)
    <3>1. Sim(records[top.at].shape, p.shape) = s /\ Sim(records[g.at].shape, p.shape) = t
      BY <2>6 DEF s, t
    <3> QED BY <2>1, <2>4, <2>5, <2>6, <3>1 DEF Nearer
  <2>8. ~Nearer(g, top, p)
    <3>1. Sim(records[top.at].shape, p.shape) = s /\ Sim(records[g.at].shape, p.shape) = t
      BY <2>6 DEF s, t
    <3> QED BY <2>1, <2>4, <2>5, <2>6, <3>1 DEF Nearer
  <2> QED BY <2>7, <2>8
<1>8. nearest = {top}
  <2> HIDE DEF sure, top
  <2>1. top \in nearest
    BY <1>6, <1>7
  <2>2. \A h \in nearest : h = top
    BY <1>6, <1>7
  <2> HIDE DEF nearest
  <2> QED BY <2>1, <2>2
<1>9. BestCorrected(hits, p) = IF nearest = {} THEN 0 ELSE (CHOOSE h \in nearest : TRUE).at
  BY DEF BestCorrected
<1>10. BestCorrected(hits, p) = final
  <2>1. (CHOOSE h \in {top} : TRUE) = top
    OBVIOUS
  <2> HIDE DEF nearest
  <2>2. BestCorrected(hits, p) = top.at
    BY <1>8, <1>9, <2>1
  <2> QED BY <2>2
<1> QED BY <1>3, <1>4, <1>10 DEF final

\* The decision of the packet at hand is the one its last correction asks for; a
\* cooldown and a critical threat level can only add a block.
HoldsNow ==
    pc = "fill" => \A p \in Packets, n \in Nat : p = job.packet /\ n = job.seen =>
        /\ n <= Len(records)
        /\ \/ Lessons(p, n) = {}
           \/ Outranked(Final(p, n), p, n)
           \/ IF records[Final(p, n)].decision = "Block" THEN job.decision \in Alarms
              ELSE job.cooled \/ verdict.level = "CRITICAL" \/ job.decision \notin Alarms

LEMMA HoldsNowMeans == LearnTypes /\ HoldsNow => LessonsHold
<1> SUFFICES ASSUME LearnTypes, HoldsNow, pc = "fill" PROVE LessonsHold
  BY DEF LessonsHold
<1>1. job.packet \in Packets /\ job.seen \in Nat
  BY DEF LearnTypes, JobType
<1> QED BY <1>1 DEF HoldsNow, LessonsHold, Final, Greatest

\* What is appended later changes neither which correction was the last nor what
\* outranks it.
LEMMA SameFinal ==
    ASSUME Grown, clock' = clock, NEW p, NEW n \in Nat, n <= Len(records)
    PROVE  /\ Lessons(p, n)' = Lessons(p, n) /\ Final(p, n)' = Final(p, n)
           /\ Lessons(p, n) # {} =>
                  /\ records'[Final(p, n)] = records[Final(p, n)]
                  /\ Outranked(Final(p, n), p, n)' <=> Outranked(Final(p, n), p, n)
<1>1. \A i \in 1..n : records'[i] = records[i]
  BY DEF Grown
<1>2. Lessons(p, n)' = Lessons(p, n)
  BY <1>1 DEF Lessons
<1>3. Final(p, n)' = Final(p, n)
  BY <1>2 DEF Final
<1>4. Lessons(p, n) # {} => Final(p, n) \in 1..n
  BY FinalExists DEF Lessons
<1>5. ASSUME NEW f \in 1..n PROVE Outranked(f, p, n)' <=> Outranked(f, p, n)
  <2>1. \A i \in 1..n : Better(i, f, p)' <=> Better(i, f, p)
    BY <1>1, <1>5 DEF Better, Score
  <2> DEFINE rivals == {i \in 1..n : records[i].source = p.source /\ Better(i, f, p)}
  <2>2. rivals' = rivals
    BY <1>1, <2>1
  <2>3. Outranked(f, p, n) <=>
          \/ \E i \in rivals : ~records[i].lesson /\ records[i].shape = p.shape /\ records[i].conf > 85
          \/ \E i \in rivals : records[i].id = records[f].id
          \/ Cardinality(rivals) >= 3
    BY DEF Outranked
  <2>4. Outranked(f, p, n)' <=>
          \/ \E i \in rivals' : ~records'[i].lesson /\ records'[i].shape = p.shape /\ records'[i].conf > 85
          \/ \E i \in rivals' : records'[i].id = records'[f].id
          \/ Cardinality(rivals') >= 3
    BY DEF Outranked
  <2>5. \A i \in rivals : i \in 1..n
    OBVIOUS
  <2> HIDE DEF rivals
  <2> QED BY <1>1, <1>5, <2>2, <2>3, <2>4, <2>5
<1>6. Lessons(p, n) # {} =>
          /\ records'[Final(p, n)] = records[Final(p, n)]
          /\ Outranked(Final(p, n), p, n)' <=> Outranked(Final(p, n), p, n)
  <2> SUFFICES ASSUME Lessons(p, n) # {}
               PROVE  /\ records'[Final(p, n)] = records[Final(p, n)]
                      /\ Outranked(Final(p, n), p, n)' <=> Outranked(Final(p, n), p, n)
    OBVIOUS
  <2>1. PICK f \in 1..n : f = Final(p, n)
    BY <1>4
  <2>2. Outranked(f, p, n)' <=> Outranked(f, p, n)
    BY <1>5
  <2>3. f = Final(p, n)'
    BY <1>3, <2>1
  <2> QED BY <1>1, <2>1, <2>2, <2>3
<1> QED BY <1>2, <1>3, <1>6

LEMMA RetrieveMeets == ASSUME LearnTypes, Retrieve PROVE Met'
<1>1. PICK p \in Packets :
        job' = [number |-> taken', packet |-> p, seen |-> Len(records), entering |-> Entering,
                hits |-> Merged({}, Top(Wanted[1], Scopes(p)[1], p), 1, p)]
  BY DEF Retrieve
<1> DEFINE n == Len(records)
<1>2. UNCHANGED <<records, clock>> /\ n \in Nat /\ n <= Len(records)
  BY LenProperties DEF Retrieve, LearnTypes, learned
<1>3. Grown
  BY <1>2, NothingGrown
<1>4. job'.packet = p /\ job'.seen = n
      /\ job'.hits = Merged({}, Top(Wanted[1], Scopes(p)[1], p), 1, p)
  BY <1>1
<1>5. \/ Lessons(p, n) = {}
      \/ Outranked(Final(p, n), p, n)
      \/ [at |-> Final(p, n), scope |-> 1] \in job'.hits
  BY <1>4, FinalIsHit
<1> HIDE DEF n
<1>6. ASSUME NEW q \in Packets, NEW m \in Nat, q = p, m = n
      PROVE  \/ Lessons(q, m)' = {}
             \/ Outranked(Final(q, m), q, m)'
             \/ [at |-> Final(q, m)', scope |-> 1] \in job'.hits
  <2>1. \/ Lessons(q, m) = {}
        \/ Outranked(Final(q, m), q, m)
        \/ [at |-> Final(q, m), scope |-> 1] \in job'.hits
    BY <1>5, <1>6
  <2> QED BY <1>2, <1>3, <1>6, <2>1, SameFinal
<1> QED BY <1>4, <1>6 DEF Met

LEMMA MetStays ==
    ASSUME LearnTypes, Met, Grown, UNCHANGED <<pc, job, clock>>
    PROVE  Met'
<1> SUFFICES ASSUME pc = "search", NEW p \in Packets, NEW n \in Nat, p = job.packet, n = job.seen
             PROVE  \/ Lessons(p, n)' = {}
                    \/ Outranked(Final(p, n), p, n)'
                    \/ [at |-> Final(p, n)', scope |-> 1] \in job.hits
  BY DEF Met
<1>1. n <= Len(records)
  BY DEF LearnTypes, Searching
<1>2. \/ Lessons(p, n) = {}
      \/ Outranked(Final(p, n), p, n)
      \/ [at |-> Final(p, n), scope |-> 1] \in job.hits
  BY DEF Met
<1> QED BY <1>1, <1>2, SameFinal

LEMMA HoldsNowStays ==
    ASSUME LearnTypes, HoldsNow, Grown, UNCHANGED <<pc, job, clock, verdict>>
    PROVE  HoldsNow'
<1> SUFFICES ASSUME pc = "fill", NEW p \in Packets, NEW n \in Nat, p = job.packet, n = job.seen
             PROVE  /\ n <= Len(records')
                    /\ \/ Lessons(p, n)' = {}
                       \/ Outranked(Final(p, n), p, n)'
                       \/ IF records'[Final(p, n)'].decision = "Block" THEN job.decision \in Alarms
                          ELSE job.cooled \/ verdict.level = "CRITICAL" \/ job.decision \notin Alarms
  BY DEF HoldsNow
<1>1. /\ n <= Len(records) /\ n <= Len(records')
  BY DEF HoldsNow, Grown
<1>2. /\ \/ Lessons(p, n) = {}
         \/ Outranked(Final(p, n), p, n)
         \/ IF records[Final(p, n)].decision = "Block" THEN job.decision \in Alarms
            ELSE job.cooled \/ verdict.level = "CRITICAL" \/ job.decision \notin Alarms
  BY DEF HoldsNow
<1>3. /\ Lessons(p, n)' = Lessons(p, n) /\ Final(p, n)' = Final(p, n)
      /\ Lessons(p, n) # {} =>
             /\ records'[Final(p, n)] = records[Final(p, n)]
             /\ Outranked(Final(p, n), p, n)' <=> Outranked(Final(p, n), p, n)
  BY <1>1, SameFinal
<1>4. CASE Lessons(p, n) = {}
  BY <1>1, <1>3, <1>4
<1>5. CASE Lessons(p, n) # {}
  <2>1. records'[Final(p, n)'] = records[Final(p, n)]
    BY <1>3, <1>5
  <2> QED BY <1>1, <1>2, <1>3, <1>5, <2>1
<1> QED BY <1>4, <1>5

LEMMA DecodeHolds == LearnTypes /\ InOrderOfTime /\ Met /\ Decode => HoldsNow'
<1> SUFFICES ASSUME LearnTypes, InOrderOfTime, Met, Decode PROVE HoldsNow'
  OBVIOUS
<1> DEFINE p == job.packet
           n == job.seen
<1>1. PICK hits \in Found :
         LET best == BestCorrected(hits, p)
             asked == Overridden(p, best)
             cooled == Cooled(p.source, asked)
             decided == IF cooled THEN last[p.source].decision ELSE Raised(p, asked)
         IN  job' = [number |-> job.number, packet |-> p, conf |-> Fused(p, best),
                     decision |-> IF verdict'.level = "CRITICAL" THEN "Block" ELSE decided,
                     cooled |-> cooled, filled |-> FALSE, seen |-> job.seen, at |-> 0]
  BY DEF Decode
<1> DEFINE best == BestCorrected(hits, p)
           asked == Overridden(p, best)
           cooled == Cooled(p.source, asked)
           decided == IF cooled THEN last[p.source].decision ELSE Raised(p, asked)
<1>2. /\ job'.packet = p /\ job'.seen = n /\ job'.cooled = cooled
      /\ job'.decision = IF verdict'.level = "CRITICAL" THEN "Block" ELSE decided
  BY <1>1
<1>3. /\ UNCHANGED <<records, clock>> /\ p \in Packets /\ n \in Nat /\ n <= Len(records)
      /\ pc = "search" /\ Len(records) \in Nat
  BY LenProperties, DecodeFacts DEF LearnTypes, Searching
<1>4. Grown
  BY <1>3, NothingGrown
<1> HIDE DEF p, n
<1>5. ASSUME Lessons(p, n) # {}, ~Outranked(Final(p, n), p, n)
      PROVE  IF records[Final(p, n)].decision = "Block" THEN job'.decision \in Alarms
             ELSE job'.cooled \/ verdict'.level = "CRITICAL" \/ job'.decision \notin Alarms
  <2> DEFINE final == Final(p, n)
  <2>0. [at |-> final, scope |-> 1] \in job.hits
    BY <1>3, <1>5 DEF Met, p, n
  <2>1. /\ best = final /\ final \in DOMAIN records /\ records[final].conf = 95
        /\ records[final].decision \in {"Block", "Ignore"}
    BY <1>3, <1>5, <2>0, FinalIsTaken DEF p, n
  <2>2. final # 0
    BY <2>1, LenProperties DEF LearnTypes
  <2> HIDE DEF final, best
  <2>3. asked = records[final].decision
    BY <2>1, <2>2 DEF Overridden
  <2> HIDE DEF asked
  <2>4. CASE asked = "Block"
    <3>1. cooled => last[p.source].decision = "Block"
      BY <2>4 DEF Cooled
    <3>2. ~cooled => decided \in {"Block", "Escalate"}
      BY <2>4 DEF Raised
    <3>3. decided \in {"Block", "Escalate"}
      <4> HIDE DEF cooled
      <4> QED BY <3>1, <3>2
    <3> HIDE DEF decided
    <3> QED BY <1>2, <2>3, <2>4, <3>3 DEF Alarms, final
  <2>5. CASE asked = "Ignore"
    <3>1. ~cooled => decided = "Ignore"
      BY <2>5 DEF Raised
    <3> HIDE DEF decided, cooled
    <3> QED BY <1>2, <2>3, <2>5, <3>1 DEF Alarms, final
  <2> QED BY <2>1, <2>3, <2>4, <2>5
<1> HIDE DEF best, asked, cooled, decided
<1>6. ASSUME NEW q \in Packets, NEW m \in Nat, q = p, m = n
      PROVE  \/ Lessons(q, m)' = {}
             \/ Outranked(Final(q, m), q, m)'
             \/ IF records'[Final(q, m)'].decision = "Block" THEN job'.decision \in Alarms
                ELSE job'.cooled \/ verdict'.level = "CRITICAL" \/ job'.decision \notin Alarms
  <2>1. /\ Lessons(q, m)' = Lessons(q, m) /\ Final(q, m)' = Final(q, m)
        /\ Lessons(q, m) # {} =>
               /\ records'[Final(q, m)] = records[Final(q, m)]
               /\ Outranked(Final(q, m), q, m)' <=> Outranked(Final(q, m), q, m)
    BY <1>3, <1>4, <1>6, SameFinal
  <2>2. Lessons(q, m) # {} /\ ~Outranked(Final(q, m), q, m) =>
          IF records[Final(q, m)].decision = "Block" THEN job'.decision \in Alarms
          ELSE job'.cooled \/ verdict'.level = "CRITICAL" \/ job'.decision \notin Alarms
    BY <1>5, <1>6
  <2> QED BY <1>3, <2>1, <2>2
<1> QED BY <1>2, <1>3, <1>6 DEF HoldsNow

LEMMA HoldsNowInductive ==
    ASSUME LearnTypes, InOrderOfTime, Met, HoldsNow, [LearnNext]_learnVars
    PROVE  Met' /\ HoldsNow'
<1>0. CASE Retrieve
  <2>1. pc' = "search"
    BY <1>0 DEF Retrieve
  <2> QED BY <1>0, <2>1, RetrieveMeets DEF HoldsNow
<1>1. CASE Decode
  <2>1. pc' = "fill"
    BY <1>1 DEF Decode
  <2> QED BY <1>1, <2>1, DecodeHolds DEF Met
<1>2. ASSUME pc' \notin {"search", "fill"} PROVE Met' /\ HoldsNow'
  BY <1>2 DEF HoldsNow, Met
<1>3. CASE Fill \/ Number \/ Log \/ Validate \/ Teach \/ SearchFails \/ ValidateFails
  BY <1>2, <1>3 DEF Fill, Number, Log, Validate, Teach, SearchFails, ValidateFails, Done
<1>4. ASSUME NEW t \in Side, Read(t) \/ ValidateAgain(t) \/ TeachAgain(t) \/ AgainFails(t)
      PROVE  Met' /\ HoldsNow'
  <2>1. UNCHANGED <<pc, job, clock, verdict>>
    BY <1>4 DEF Read, ValidateAgain, TeachAgain, AgainFails, dispatch, intelligence
  <2> QED BY <2>1, MemoryGrows, MetStays, HoldsNowStays
<1>5. CASE UNCHANGED learnVars
  <2>1. UNCHANGED <<pc, job, clock, verdict>>
    BY <1>5 DEF learnVars, dispatch, intelligence
  <2> QED BY <2>1, MemoryGrows, MetStays, HoldsNowStays
<1> QED BY <1>0, <1>1, <1>3, <1>4, <1>5 DEF LearnNext, Dispatch, Pool, Failures

\* What was corrected last decides the next packet of its source and shape, however
\* old it is, whatever the memory holds besides and whatever the side threads insert
\* while it is being searched and decided; that nothing of the source outranks the
\* correction is the property's own condition, and there is no other.
THEOREM CorrectionsDecide == LearnSpec => []LessonsHold
<1> DEFINE Inv == LearnTypes /\ InOrderOfTime /\ Met /\ HoldsNow
<1>1. LearnInit => Inv
  BY LearnTypesInitial, EmptySeq DEF LearnInit, HoldsNow, Met, InOrderOfTime
<1>2. Inv /\ [LearnNext]_learnVars => Inv'
  BY LearnTypesKept, TimeKept, HoldsNowInductive
<1>3. Inv => LessonsHold
  BY HoldsNowMeans
<1> QED BY <1>1, <1>2, <1>3, PTL DEF LearnSpec

-----------------------------------------------------------------------------
(* Campaigns.                                                                *)

RunType == [source : Sources, target : Hosts, signature : TI!Signatures, time : Nat]
CaseType == [sources : SUBSET Sources, targets : SUBSET Hosts, attacks : Seq(RunType),
             severe : BOOLEAN, actor : {"none", "coordinated", "opportunistic"}]

CaseTypes ==
    /\ clock \in Nat
    /\ DOMAIN similar = TI!Signatures
    /\ \A g \in TI!Signatures : similar[g] \in Seq([campaign : Nat, time : Nat])
    /\ cases \in Seq(CaseType)

Kind(c) == cases[c].attacks[1].signature
FirstTime(c) == cases[c].attacks[1].time
LastTime(c) == cases[c].attacks[Len(cases[c].attacks)].time

\* What the similar attacks and the campaigns say of each other: the latest similar
\* attack is the last of its kind, and no similar attack is later than its campaign.
RunsInv ==
    /\ \A c \in DOMAIN cases :
         /\ cases[c].attacks # <<>>
         /\ \A i \in DOMAIN cases[c].attacks : cases[c].attacks[i].signature = Kind(c)
         /\ FirstTime(c) <= clock /\ LastTime(c) <= clock
         /\ \A g \in TI!Signatures : Kind(c) = g =>
              similar[g] # <<>> /\ LastTime(c) <= similar[g][Len(similar[g])].time
    /\ \A g \in TI!Signatures : \A i \in DOMAIN similar[g] : \A c \in Nat :
         similar[g][i].campaign = c =>
             /\ c \in DOMAIN cases
             /\ Kind(c) = g
             /\ similar[g][i].time <= LastTime(c)
    /\ CampaignsAreRuns

\* A packet opens a campaign when the latest similar one is too old, and joins that
\* of a similar one that is not.
LEMMA CampaignFacts ==
    ASSUME CaseTypes, NEW a, TI!Signature(a) \in TI!Signatures
    PROVE  LET s == similar[TI!Signature(a)]
               c == TI!CampaignOf(a, clock)
           IN  \/ /\ c = Len(cases) + 1
                  /\ s # <<>> => clock - s[Len(s)].time >= CampaignWin
               \/ \E k \in DOMAIN s : s[k].campaign = c /\ clock - s[k].time < CampaignWin
<1> DEFINE g == TI!Signature(a)
           s == similar[g]
           m == IF Len(s) < Lookback THEN 1 ELSE Len(s) - Lookback + 1
           known == TI!LatestSimilar(g)
           recent == {i \in DOMAIN known : clock - known[i].time < CampaignWin}
           c == TI!CampaignOf(a, clock)
<1>1. s \in Seq([campaign : Nat, time : Nat]) /\ Lookback \in Nat \ {0} /\ clock \in Nat
      /\ CampaignWin \in Nat
  BY LearningAssumption DEF CaseTypes
<1>2. known = SubSeq(s, m, Len(s))
  BY DEF TI!LatestSimilar
<1>3. c = IF recent = {} THEN Len(cases) + 1
          ELSE known[CHOOSE i \in recent : \A j \in recent : i <= j].campaign
  BY DEF TI!CampaignOf
<1> HIDE DEF g, s, known, c
<1>4. /\ Len(s) \in Nat /\ DOMAIN s = 1..Len(s)
      /\ \A i \in 1..Len(s) : s[i] \in [campaign : Nat, time : Nat]
  BY <1>1, LenProperties, ElementOfSeq
<1>5. m \in Nat /\ 1 <= m /\ m <= Len(s) + 1 /\ (Len(s) # 0 => m <= Len(s))
  BY <1>1, <1>4
<1> HIDE DEF m
<1>6. /\ DOMAIN known = 1..(Len(s) - m + 1)
      /\ \A i \in 1..(Len(s) - m + 1) : known[i] = s[m + i - 1]
  <2>1. \A i \in m..Len(s) : s[i] \in [campaign : Nat, time : Nat]
    BY <1>4, <1>5
  <2>2. /\ known \in Seq([campaign : Nat, time : Nat])
        /\ Len(known) = IF m <= Len(s) THEN Len(s) - m + 1 ELSE 0
        /\ \A i \in 1 .. Len(s) - m + 1 : known[i] = s[m + i - 1]
    BY <1>2, <1>4, <1>5, <2>1, SubSeqProperties
  <2>3. Len(known) = Len(s) - m + 1
    BY <1>4, <1>5, <2>2
  <2> QED BY <2>2, <2>3, LenProperties
<1>7. CASE recent = {}
  <2>1. ASSUME s # <<>> PROVE clock - s[Len(s)].time >= CampaignWin
    <3>1. Len(s) # 0
      BY <1>1, <2>1, EmptySeq
    <3>2. Len(s) - m + 1 \in DOMAIN known /\ known[Len(s) - m + 1] = s[Len(s)]
      BY <1>4, <1>5, <1>6, <3>1
    <3>3. ~(clock - s[Len(s)].time < CampaignWin)
      BY <1>7, <3>2
    <3>4. s[Len(s)].time \in Nat
      BY <1>4, <3>1
    <3> QED BY <1>1, <3>3, <3>4
  <2> QED BY <1>3, <1>7, <2>1 DEF c, s, g
<1>8. CASE recent # {}
  <2>1. recent \subseteq Nat
    BY <1>6
  <2> DEFINE first == CHOOSE i \in recent : \A j \in recent : i <= j
  <2>2. \E i \in recent : \A j \in recent : i <= j
    BY <1>8, <2>1, LeastNumber
  <2>3. first \in recent
    BY <2>2
  <2>4. c = known[first].campaign
    BY <1>3, <1>8
  <2> HIDE DEF first
  <2>5. first \in DOMAIN known /\ clock - known[first].time < CampaignWin
    BY <2>3
  <2> HIDE DEF recent
  <2>6. first \in 1..(Len(s) - m + 1)
    BY <1>6, <2>5
  <2>7. m + first - 1 \in DOMAIN s
    BY <1>4, <1>5, <2>6
  <2>8. known[first] = s[m + first - 1]
    BY <1>6, <2>6
  <2> QED BY <2>4, <2>5, <2>7, <2>8 DEF c, s, g
<1> QED BY <1>7, <1>8

\* The campaign c and the packet's attack as its last.
LEMMA UpdatedFacts ==
    ASSUME CaseTypes, NEW a \in TI!Attacks, NEW c \in 1..(Len(cases) + 1)
    PROVE  LET all == TI!Updated(c, a, clock)
               r == [source |-> a.source, target |-> a.target, signature |-> TI!Signature(a),
                     time |-> clock]
           IN  /\ all \in Seq(CaseType) /\ DOMAIN all = DOMAIN cases \cup {c}
               /\ \A e \in DOMAIN cases \ {c} : all[e] = cases[e]
               /\ all[c].attacks = Append(IF c \in DOMAIN cases THEN cases[c].attacks ELSE <<>>, r)
<1> DEFINE r == [source |-> a.source, target |-> a.target, signature |-> TI!Signature(a),
                 time |-> clock]
           opened == IF c > Len(cases) THEN Append(cases, TI!NewCase) ELSE cases
           all == TI!Updated(c, a, clock)
<1>1. /\ cases \in Seq(CaseType) /\ Len(cases) \in Nat /\ DOMAIN cases = 1..Len(cases)
  BY LenProperties DEF CaseTypes
<1>2. r \in RunType
  BY DEF RunType, CaseTypes, TI!Attacks, TI!Signature, TI!Signatures
<1>3. TI!NewCase \in CaseType /\ TI!NewCase.attacks = <<>>
  <2>1. <<>> \in Seq(RunType)
    BY EmptySeq
  <2> QED BY <2>1 DEF CaseType, TI!NewCase
<1>4. /\ opened \in Seq(CaseType) /\ DOMAIN opened = DOMAIN cases \cup {c}
      /\ \A e \in DOMAIN cases : opened[e] = cases[e]
      /\ c \notin DOMAIN cases => opened[c] = TI!NewCase
  <2>1. CASE c > Len(cases)
    <3>1. c = Len(cases) + 1
      BY <1>1, <2>1
    <3> QED BY <1>1, <1>3, <2>1, <3>1, AppendProperties, LenProperties
  <2>2. CASE ~(c > Len(cases))
    BY <1>1, <2>2
  <2> QED BY <2>1, <2>2
<1>5. opened[c] \in CaseType
  BY <1>4, ElementOfSeq, LenProperties
<1> DEFINE one == [opened[c] EXCEPT !.sources = @ \cup {a.source}, !.targets = @ \cup {a.target},
                                    !.attacks = Append(@, r), !.severe = @ \/ a.severe]
<1>6. all = [opened EXCEPT ![c] = one]
  BY DEF TI!Updated, TI!Signature
<1> HIDE DEF opened, all, r
<1>7. one \in CaseType /\ one.attacks = Append(opened[c].attacks, r)
  <2>1. /\ opened[c].sources \cup {a.source} \in SUBSET Sources
        /\ opened[c].targets \cup {a.target} \in SUBSET Hosts
        /\ (opened[c].severe \/ a.severe) \in BOOLEAN
    BY <1>5 DEF CaseType, TI!Attacks
  <2>2. Append(opened[c].attacks, r) \in Seq(RunType)
    BY <1>2, <1>5, AppendProperties DEF CaseType
  <2> QED BY <1>5, <2>1, <2>2 DEF CaseType
<1> HIDE DEF one
<1>8. /\ all \in Seq(CaseType) /\ DOMAIN all = DOMAIN opened
      /\ \A e \in DOMAIN opened \ {c} : all[e] = opened[e]
      /\ all[c] = one
  BY <1>4, <1>6, <1>7, ExceptSeq
<1> QED BY <1>3, <1>4, <1>7, <1>8 DEF all, r

\* What one packet does to the campaigns and the similar attacks.
LEMMA ProcessFacts ==
    ASSUME CaseTypes, RunsInv, NEW a \in TI!Attacks, TI!ProcessAttack(a)
    PROVE  LET g == TI!Signature(a)
               c == TI!CampaignOf(a, clock)
               r == [source |-> a.source, target |-> a.target, signature |-> g, time |-> clock]
           IN  /\ g \in TI!Signatures /\ c \in 1..(Len(cases) + 1) /\ r \in RunType
               /\ similar' = [similar EXCEPT ![g] = Append(@, [campaign |-> c, time |-> clock])]
               /\ cases' \in Seq(CaseType) /\ DOMAIN cases' = DOMAIN cases \cup {c}
               /\ \A e \in DOMAIN cases \ {c} : cases'[e] = cases[e]
               /\ cases'[c].attacks = Append(IF c \in DOMAIN cases THEN cases[c].attacks ELSE <<>>, r)
<1> DEFINE g == TI!Signature(a)
           c == TI!CampaignOf(a, clock)
           r == [source |-> a.source, target |-> a.target, signature |-> g, time |-> clock]
           all == TI!Updated(c, a, clock)
           actor == TI!ActorType(all[c])
<1>1. g \in TI!Signatures
  BY DEF TI!Signature, TI!Signatures, TI!Attacks
<1>2. r \in RunType
  BY <1>1 DEF RunType, CaseTypes, TI!Attacks
<1>3. /\ similar' = [similar EXCEPT ![g] = Append(@, [campaign |-> c, time |-> clock])]
      /\ cases' = [all EXCEPT ![c].actor = actor]
  BY DEF TI!ProcessAttack
<1>4. actor \in {"none", "coordinated", "opportunistic"}
  BY DEF TI!ActorType
<1>5. \/ c = Len(cases) + 1
      \/ \E k \in DOMAIN similar[g] : similar[g][k].campaign = c
  BY <1>1, CampaignFacts
<1> HIDE DEF g, c, actor
<1>6. Len(cases) \in Nat /\ DOMAIN cases = 1..Len(cases)
  BY LenProperties DEF CaseTypes
<1>7. c \in 1..(Len(cases) + 1)
  <2>1. CASE c = Len(cases) + 1
    BY <1>6, <2>1
  <2>2. ASSUME NEW k \in DOMAIN similar[g], similar[g][k].campaign = c
        PROVE  c \in 1..(Len(cases) + 1)
    <3>1. similar[g][k] \in [campaign : Nat, time : Nat]
      BY <1>1, LenProperties, ElementOfSeq DEF CaseTypes
    <3>2. c \in DOMAIN cases
      BY <1>1, <2>2, <3>1 DEF RunsInv
    <3> QED BY <1>6, <3>2
  <2> QED BY <1>5, <2>1, <2>2
<1>8. /\ all \in Seq(CaseType) /\ DOMAIN all = DOMAIN cases \cup {c}
      /\ \A e \in DOMAIN cases \ {c} : all[e] = cases[e]
      /\ all[c].attacks = Append(IF c \in DOMAIN cases THEN cases[c].attacks ELSE <<>>, r)
  BY <1>7, UpdatedFacts DEF g
<1> HIDE DEF all, r
<1>9. /\ all[c] \in CaseType /\ c \in 1..Len(all) /\ DOMAIN all = 1..Len(all)
  BY <1>8, LenProperties, ElementOfSeq
<1> DEFINE one == [all[c] EXCEPT !.actor = actor]
<1>10. one \in CaseType /\ one.attacks = all[c].attacks
  BY <1>4, <1>9 DEF CaseType
<1>11. cases' = [all EXCEPT ![c] = one]
  BY <1>3
<1> HIDE DEF one
<1>12. /\ cases' \in Seq(CaseType) /\ DOMAIN cases' = DOMAIN all
       /\ \A e \in DOMAIN all \ {c} : cases'[e] = all[e]
       /\ cases'[c] = one
  BY <1>8, <1>9, <1>10, <1>11, ExceptSeq
<1> QED BY <1>1, <1>2, <1>3, <1>7, <1>8, <1>10, <1>12 DEF g, c, r

\* It keeps what the campaigns and the similar attacks say of each other.
LEMMA RunsGrow ==
    ASSUME CaseTypes, RunsInv, NEW g \in TI!Signatures, NEW c \in 1..(Len(cases) + 1),
           NEW r \in RunType, r.signature = g, r.time = clock, clock' = clock,
           similar' = [similar EXCEPT ![g] = Append(@, [campaign |-> c, time |-> clock])],
           cases' \in Seq(CaseType), DOMAIN cases' = DOMAIN cases \cup {c},
           \A e \in DOMAIN cases \ {c} : cases'[e] = cases[e],
           cases'[c].attacks = Append(IF c \in DOMAIN cases THEN cases[c].attacks ELSE <<>>, r),
           \/ /\ c = Len(cases) + 1
              /\ similar[g] # <<>> => clock - similar[g][Len(similar[g])].time >= CampaignWin
           \/ \E k \in DOMAIN similar[g] :
                  similar[g][k].campaign = c /\ clock - similar[g][k].time < CampaignWin
    PROVE  CaseTypes' /\ RunsInv'
<1>1. /\ Len(cases) \in Nat /\ DOMAIN cases = 1..Len(cases) /\ clock \in Nat /\ CampaignWin \in Nat
      /\ \A e \in DOMAIN cases : cases[e] \in CaseType /\ cases[e].attacks \in Seq(RunType)
  <2>1. cases \in Seq(CaseType) /\ clock \in Nat /\ CampaignWin \in Nat
    BY LearningAssumption DEF CaseTypes
  <2>2. /\ Len(cases) \in Nat /\ DOMAIN cases = 1..Len(cases)
        /\ \A e \in 1..Len(cases) : cases[e] \in CaseType
    BY <2>1, LenProperties, ElementOfSeq
  <2>3. \A k \in CaseType : k.attacks \in Seq(RunType)
    BY DEF CaseType
  <2> QED BY <2>1, <2>2, <2>3
<1>2. \A e \in DOMAIN cases :
          /\ cases[e].attacks # <<>> /\ Len(cases[e].attacks) \in Nat \ {0}
          /\ DOMAIN cases[e].attacks = 1..Len(cases[e].attacks)
          /\ FirstTime(e) \in Nat /\ LastTime(e) \in Nat
          /\ Kind(e) \in TI!Signatures
  <2> TAKE e \in DOMAIN cases
  <2> DEFINE s == cases[e].attacks
  <2>1. s \in Seq(RunType) /\ s # <<>>
    BY <1>1 DEF RunsInv
  <2> HIDE DEF s
  <2>2. Len(s) \in Nat \ {0} /\ DOMAIN s = 1..Len(s) /\ s[1] \in RunType /\ s[Len(s)] \in RunType
    BY <2>1, EmptySeq, LenProperties, ElementOfSeq
  <2> QED BY <2>1, <2>2 DEF s, FirstTime, LastTime, Kind, RunType
<1>3. ASSUME NEW e \in DOMAIN cases \ {c}
      PROVE  /\ Kind(e)' = Kind(e) /\ FirstTime(e)' = FirstTime(e) /\ LastTime(e)' = LastTime(e)
             /\ cases'[e].attacks = cases[e].attacks
  BY DEF Kind, FirstTime, LastTime
<1>4. /\ DOMAIN similar' = TI!Signatures
      /\ \A h \in TI!Signatures : h # g => similar'[h] = similar[h]
      /\ similar'[g] = Append(similar[g], [campaign |-> c, time |-> clock])
      /\ \A h \in TI!Signatures : /\ similar[h] \in Seq([campaign : Nat, time : Nat])
                                  /\ DOMAIN similar[h] = 1..Len(similar[h])
                                  /\ Len(similar[h]) \in Nat
                                  /\ \A i \in DOMAIN similar[h] : similar[h][i] \in [campaign : Nat, time : Nat]
  BY LenProperties, ElementOfSeq DEF CaseTypes
<1>5. /\ similar'[g] \in Seq([campaign : Nat, time : Nat]) /\ similar'[g] # <<>>
      /\ Len(similar'[g]) = Len(similar[g]) + 1
      /\ DOMAIN similar'[g] = 1..(Len(similar[g]) + 1)
      /\ \A i \in 1..Len(similar[g]) : similar'[g][i] = similar[g][i]
      /\ similar'[g][Len(similar[g]) + 1] = [campaign |-> c, time |-> clock]
  <2>1. [campaign |-> c, time |-> clock] \in [campaign : Nat, time : Nat]
    BY <1>1
  <2> QED BY <1>4, <2>1, AppendProperties, LenProperties
<1>6. CaseTypes'
  BY <1>1, <1>4, <1>5 DEF CaseTypes
\* A campaign that is joined is of the packet's kind and has not paused.
<1>7. c \in DOMAIN cases => Kind(c) = g /\ clock - LastTime(c) < CampaignWin
  <2> SUFFICES ASSUME c \in DOMAIN cases PROVE Kind(c) = g /\ clock - LastTime(c) < CampaignWin
    OBVIOUS
  <2>1. PICK k \in DOMAIN similar[g] :
               similar[g][k].campaign = c /\ clock - similar[g][k].time < CampaignWin
    BY <1>1
  <2>2. Kind(c) = g /\ similar[g][k].time <= LastTime(c)
    BY <1>1, <2>1 DEF RunsInv
  <2>3. similar[g][k].time \in Nat
    BY <1>4
  <2> QED BY <1>1, <1>2, <2>1, <2>2, <2>3
\* A campaign that is opened is far from all earlier ones of its kind.
<1>8. c \notin DOMAIN cases => c = Len(cases) + 1 /\ \A e \in DOMAIN cases :
          Kind(e) = g => clock - LastTime(e) >= CampaignWin
  <2> SUFFICES ASSUME c \notin DOMAIN cases, NEW e \in DOMAIN cases, Kind(e) = g
               PROVE  clock - LastTime(e) >= CampaignWin
    BY <1>1
  <2>1. ~\E k \in DOMAIN similar[g] : similar[g][k].campaign = c
    BY <1>1 DEF RunsInv
  <2>2. similar[g] # <<>> /\ LastTime(e) <= similar[g][Len(similar[g])].time
    BY DEF RunsInv
  <2>3. clock - similar[g][Len(similar[g])].time >= CampaignWin
    BY <2>1, <2>2
  <2>4. similar[g][Len(similar[g])].time \in Nat
    <3>1. Len(similar[g]) # 0
      BY <1>4, <2>2, EmptySeq
    <3> QED BY <1>4, <3>1
  <2> QED BY <1>1, <1>2, <2>2, <2>3, <2>4
<1> DEFINE old == IF c \in DOMAIN cases THEN cases[c].attacks ELSE <<>>
           new == cases'[c].attacks
<1>9. /\ old \in Seq(RunType) /\ new = Append(old, r)
      /\ c \in DOMAIN cases => Len(old) \in Nat \ {0} /\ DOMAIN old = 1..Len(old)
      /\ c \notin DOMAIN cases => Len(old) = 0
  BY <1>1, <1>2, EmptySeq
<1>10. /\ new # <<>> /\ Len(new) = Len(old) + 1 /\ DOMAIN new = 1..Len(new) /\ Len(old) \in Nat
       /\ \A i \in 1..Len(old) : new[i] = old[i]
       /\ new[Len(old) + 1] = r
  <2> HIDE DEF old, new
  <2> QED BY <1>9, AppendProperties, LenProperties
<1>11. /\ Kind(c)' = g /\ LastTime(c)' = clock
       /\ c \in DOMAIN cases => FirstTime(c)' = FirstTime(c)
       /\ c \notin DOMAIN cases => FirstTime(c)' = clock
  <2>1. Kind(c)' = new[1].signature /\ LastTime(c)' = new[Len(new)].time /\ FirstTime(c)' = new[1].time
    BY DEF Kind, LastTime, FirstTime
  <2>2. CASE c \in DOMAIN cases
    <3>1. new[1] = old[1] /\ old = cases[c].attacks
      BY <1>9, <1>10, <2>2
    <3>2. old[1].signature = Kind(c) /\ old[1].time = FirstTime(c)
      BY <3>1 DEF Kind, FirstTime
    <3> HIDE DEF old, new
    <3> QED BY <1>7, <1>9, <1>10, <2>1, <2>2, <3>1, <3>2
  <2>3. CASE c \notin DOMAIN cases
    <3>1. Len(old) = 0
      BY <1>9, <2>3
    <3> HIDE DEF old, new
    <3> QED BY <1>10, <2>1, <2>3, <3>1
  <2> QED BY <2>2, <2>3
<1>12. \A e \in DOMAIN cases' :
         /\ cases'[e].attacks # <<>>
         /\ \A i \in DOMAIN cases'[e].attacks : cases'[e].attacks[i].signature = Kind(e)'
         /\ FirstTime(e)' <= clock /\ LastTime(e)' <= clock
         /\ \A h \in TI!Signatures : Kind(e)' = h =>
              similar'[h] # <<>> /\ LastTime(e)' <= similar'[h][Len(similar'[h])].time
  <2>1. ASSUME NEW e \in DOMAIN cases \ {c}
        PROVE  /\ cases'[e].attacks # <<>>
               /\ \A i \in DOMAIN cases'[e].attacks : cases'[e].attacks[i].signature = Kind(e)'
               /\ FirstTime(e)' <= clock /\ LastTime(e)' <= clock
               /\ \A h \in TI!Signatures : Kind(e)' = h =>
                    similar'[h] # <<>> /\ LastTime(e)' <= similar'[h][Len(similar'[h])].time
    <3>1. /\ cases[e].attacks # <<>>
          /\ \A i \in DOMAIN cases[e].attacks : cases[e].attacks[i].signature = Kind(e)
          /\ FirstTime(e) <= clock /\ LastTime(e) <= clock
          /\ \A h \in TI!Signatures : Kind(e) = h =>
               similar[h] # <<>> /\ LastTime(e) <= similar[h][Len(similar[h])].time
      BY DEF RunsInv
    <3>2. ASSUME NEW h \in TI!Signatures, Kind(e)' = h
          PROVE  similar'[h] # <<>> /\ LastTime(e)' <= similar'[h][Len(similar'[h])].time
      <4>1. CASE h = g
        BY <1>3, <1>5, <3>1, <4>1
      <4>2. CASE h # g
        BY <1>3, <1>4, <3>1, <3>2, <4>2
      <4> QED BY <4>1, <4>2
    <3> QED BY <1>3, <3>1, <3>2
  <2>2. /\ new # <<>>
        /\ \A i \in DOMAIN new : new[i].signature = Kind(c)'
        /\ FirstTime(c)' <= clock /\ LastTime(c)' <= clock
        /\ \A h \in TI!Signatures : Kind(c)' = h =>
             similar'[h] # <<>> /\ LastTime(c)' <= similar'[h][Len(similar'[h])].time
    <3>1. \A i \in DOMAIN new : new[i].signature = g
      <4>1. \A i \in 1..Len(old) : old[i].signature = g
        BY <1>7, <1>9 DEF RunsInv
      <4> HIDE DEF old, new
      <4> QED BY <1>10, <4>1
    <3>2. FirstTime(c)' <= clock
      BY <1>1, <1>11 DEF RunsInv
    <3>3. LastTime(c)' <= clock
      BY <1>1, <1>11
    <3>4. similar'[g] # <<>> /\ similar'[g][Len(similar'[g])].time = clock
      <4> DEFINE q == similar'[g]
                 l == Len(similar[g])
                 x == [campaign |-> c, time |-> clock]
      <4>1. q # <<>> /\ Len(q) = l + 1 /\ q[l + 1] = x
        BY <1>5
      <4>2. x.time = clock
        OBVIOUS
      <4> HIDE DEF q, l, x
      <4>3. q[Len(q)].time = clock
        BY <4>1, <4>2
      <4> QED BY <4>1, <4>3 DEF q
    <3>5. ASSUME NEW h \in TI!Signatures, Kind(c)' = h
          PROVE  similar'[h] # <<>> /\ LastTime(c)' <= similar'[h][Len(similar'[h])].time
      BY <1>1, <1>11, <3>4, <3>5
    <3> HIDE DEF new
    <3> QED BY <1>10, <1>11, <3>1, <3>2, <3>3, <3>5
  <2> QED BY <2>1, <2>2
<1>13. \A h \in TI!Signatures : \A i \in DOMAIN similar'[h] : \A e \in Nat :
         similar'[h][i].campaign = e =>
             /\ e \in DOMAIN cases'
             /\ Kind(e)' = h
             /\ similar'[h][i].time <= LastTime(e)'
  <2> SUFFICES ASSUME NEW h \in TI!Signatures, NEW i \in DOMAIN similar'[h], NEW e \in Nat,
                      similar'[h][i].campaign = e
               PROVE  e \in DOMAIN cases' /\ Kind(e)' = h /\ similar'[h][i].time <= LastTime(e)'
    OBVIOUS
  <2>1. CASE i \in DOMAIN similar[h] /\ similar'[h][i] = similar[h][i]
    <3>1. e \in DOMAIN cases /\ Kind(e) = h /\ similar[h][i].time <= LastTime(e)
      BY <2>1 DEF RunsInv
    <3>2. CASE e # c
      BY <1>3, <2>1, <3>1, <3>2
    <3>3. CASE e = c
      <4>1. LastTime(c) <= clock /\ LastTime(c) \in Nat /\ similar[h][i].time \in Nat
        BY <1>2, <1>4, <2>1, <3>1, <3>3 DEF RunsInv
      <4> QED BY <1>1, <1>7, <1>11, <2>1, <3>1, <3>3, <4>1
    <3> QED BY <3>2, <3>3
  <2>2. CASE h = g /\ i = Len(similar[g]) + 1
    BY <1>1, <1>5, <1>11, <2>2
  <2>3. \/ i \in DOMAIN similar[h] /\ similar'[h][i] = similar[h][i]
        \/ h = g /\ i = Len(similar[g]) + 1
    <3>1. CASE h # g
      BY <1>4, <3>1
    <3>2. CASE h = g
      <4>1. i \in 1..(Len(similar[g]) + 1) /\ Len(similar[g]) \in Nat
        BY <1>4, <1>5, <3>2
      <4>2. CASE i = Len(similar[g]) + 1
        BY <3>2, <4>2
      <4>3. CASE i \in 1..Len(similar[g])
        BY <1>4, <1>5, <3>2, <4>3
      <4> QED BY <4>1, <4>2, <4>3
    <3> QED BY <3>1, <3>2
  <2> QED BY <2>1, <2>2, <2>3
<1>14. ASSUME NEW e \in DOMAIN cases', NEW i \in 2..Len(cases'[e].attacks)
       PROVE  /\ cases'[e].attacks[i].signature = cases'[e].attacks[i - 1].signature
              /\ cases'[e].attacks[i].time - cases'[e].attacks[i - 1].time < CampaignWin
  <2>1. CASE e # c
    BY <1>3, <2>1 DEF RunsInv, CampaignsAreRuns, TI!CampaignsAreRuns
  <2>2. CASE e = c
    <3>1. CASE i <= Len(old)
      <4>1. i \in 2..Len(old) /\ i - 1 \in 1..Len(old) /\ i \in 1..Len(old)
        BY <1>10, <3>1
      <4>2. c \in DOMAIN cases
        BY <1>9, <4>1
      <4>3. /\ old[i].signature = old[i - 1].signature
            /\ old[i].time - old[i - 1].time < CampaignWin
        BY <4>1, <4>2 DEF RunsInv, CampaignsAreRuns, TI!CampaignsAreRuns
      <4> HIDE DEF old
      <4> QED BY <1>10, <2>2, <4>1, <4>3
    <3>2. CASE ~(i <= Len(old))
      <4>1. i = Len(old) + 1 /\ Len(old) \in 1..Len(old) /\ i - 1 = Len(old) /\ Len(old) # 0
        BY <1>10, <2>2, <3>2
      <4>2. c \in DOMAIN cases
        BY <1>9, <4>1
      <4>3. old[Len(old)].time = LastTime(c) /\ old[Len(old)].signature = g
        BY <1>7, <1>9, <4>1, <4>2 DEF LastTime, RunsInv
      <4> HIDE DEF old
      <4> QED BY <1>7, <1>10, <2>2, <4>1, <4>2, <4>3
    <3> QED BY <3>1, <3>2
  <2> QED BY <2>1, <2>2
<1>15. ASSUME NEW d \in DOMAIN cases', NEW e \in DOMAIN cases', d < e, Kind(d)' = Kind(e)'
       PROVE  FirstTime(e)' - LastTime(d)' >= CampaignWin
  <2>1. \A b, f \in DOMAIN cases : b < f /\ Kind(b) = Kind(f) => FirstTime(f) - LastTime(b) >= CampaignWin
    BY DEF RunsInv, CampaignsAreRuns, TI!CampaignsAreRuns, Kind, FirstTime, LastTime
  <2>2. CASE d # c /\ e # c
    BY <1>3, <1>15, <2>1, <2>2
  <2>3. CASE e = c /\ c \in DOMAIN cases
    BY <1>1, <1>3, <1>7, <1>11, <1>15, <2>1, <2>3
  <2>4. CASE e = c /\ c \notin DOMAIN cases
    BY <1>1, <1>3, <1>8, <1>11, <1>15, <2>4
  <2>5. CASE d = c
    <3>1. e \in DOMAIN cases /\ e # c
      BY <1>1, <1>15, <2>5
    <3>2. c \in DOMAIN cases
      BY <1>1, <1>15, <2>5, <3>1
    <3>3. FirstTime(e) - LastTime(c) >= CampaignWin /\ FirstTime(e) <= clock
      BY <1>3, <1>7, <1>11, <1>15, <2>1, <2>5, <3>1, <3>2 DEF RunsInv
    <3> QED BY <1>1, <1>2, <1>7, <3>1, <3>2, <3>3
  <2> QED BY <2>2, <2>3, <2>4, <2>5
<1>16. CampaignsAreRuns'
  BY <1>14, <1>15 DEF CampaignsAreRuns, TI!CampaignsAreRuns, Kind, FirstTime, LastTime
<1> QED BY <1>6, <1>12, <1>13, <1>16 DEF RunsInv

\* Time passes.
LEMMA RunsStay ==
    ASSUME CaseTypes, RunsInv, clock' \in Nat, clock <= clock', UNCHANGED <<similar, cases>>
    PROVE  CaseTypes' /\ RunsInv'
<1>1. ASSUME NEW c \in DOMAIN cases
      PROVE  FirstTime(c) \in Nat /\ LastTime(c) \in Nat
  <2> DEFINE s == cases[c].attacks
  <2>1. s \in Seq(RunType) /\ s # <<>>
    <3>1. cases[c] \in CaseType
      BY LenProperties, ElementOfSeq DEF CaseTypes
    <3> QED BY <3>1 DEF CaseType, RunsInv
  <2> HIDE DEF s
  <2>2. Len(s) \in Nat \ {0} /\ DOMAIN s = 1..Len(s) /\ s[1] \in RunType /\ s[Len(s)] \in RunType
    BY <2>1, EmptySeq, LenProperties, ElementOfSeq
  <2> QED BY <2>2 DEF s, FirstTime, LastTime, RunType
<1>2. ASSUME NEW c \in DOMAIN cases PROVE FirstTime(c) <= clock' /\ LastTime(c) <= clock'
  BY <1>1 DEF RunsInv, CaseTypes
<1>3. \A c : Kind(c)' = Kind(c) /\ FirstTime(c)' = FirstTime(c) /\ LastTime(c)' = LastTime(c)
  BY DEF Kind, FirstTime, LastTime
<1>4. CaseTypes'
  BY DEF CaseTypes
<1>5. CampaignsAreRuns'
  BY DEF RunsInv, CampaignsAreRuns, TI!CampaignsAreRuns
<1> QED BY <1>2, <1>3, <1>4, <1>5 DEF RunsInv

LEMMA DecodeRuns ==
    ASSUME LearnTypes, CaseTypes, RunsInv, Decode PROVE CaseTypes' /\ RunsInv'
<1> DEFINE p == job.packet
<1>0. pc = "search" /\ p \in Packets
  BY DEF Decode, LearnTypes, Searching
<1>1. PICK hits \in Found :
         LET asked == Overridden(p, BestCorrected(hits, p))
             decided == IF Cooled(p.source, asked) THEN last[p.source].decision ELSE Raised(p, asked)
         IN  TI!ProcessAttack([source |-> p.source, target |-> p.host, class |-> decided,
                               shape |-> p.shape, odd |-> p.odd, severe |-> p.severe])
  BY DEF Decode
<1> HIDE DEF p
<1> DEFINE asked == Overridden(p, BestCorrected(hits, p))
           decided == IF Cooled(p.source, asked) THEN last[p.source].decision ELSE Raised(p, asked)
           a == [source |-> p.source, target |-> p.host, class |-> decided,
                 shape |-> p.shape, odd |-> p.odd, severe |-> p.severe]
<1>2. decided \in TI!Verdicts
  BY <1>0, DecodedFacts
<1>3. TI!ProcessAttack(a)
  BY <1>1
<1> HIDE DEF decided
<1>4. a \in TI!Attacks
  BY <1>0, <1>2, PacketFacts DEF TI!Attacks
<1> HIDE DEF a
<1> DEFINE g == TI!Signature(a)
           c == TI!CampaignOf(a, clock)
           r == [source |-> a.source, target |-> a.target, signature |-> g, time |-> clock]
<1>5. /\ g \in TI!Signatures /\ c \in 1..(Len(cases) + 1) /\ r \in RunType
      /\ similar' = [similar EXCEPT ![g] = Append(@, [campaign |-> c, time |-> clock])]
      /\ cases' \in Seq(CaseType) /\ DOMAIN cases' = DOMAIN cases \cup {c}
      /\ \A e \in DOMAIN cases \ {c} : cases'[e] = cases[e]
      /\ cases'[c].attacks = Append(IF c \in DOMAIN cases THEN cases[c].attacks ELSE <<>>, r)
  BY <1>3, <1>4, ProcessFacts
<1>6. \/ /\ c = Len(cases) + 1
         /\ similar[g] # <<>> => clock - similar[g][Len(similar[g])].time >= CampaignWin
      \/ \E k \in DOMAIN similar[g] :
             similar[g][k].campaign = c /\ clock - similar[g][k].time < CampaignWin
  BY <1>5, CampaignFacts
<1>7. clock' = clock /\ r.signature = g /\ r.time = clock
  BY DecodeFacts
<1> HIDE DEF g, c, r
<1> QED BY <1>5, <1>6, <1>7, RunsGrow

LEMMA RunsInductive ==
    ASSUME LearnTypes, CaseTypes, RunsInv, [LearnNext]_learnVars PROVE CaseTypes' /\ RunsInv'
<1>1. CASE Decode
  BY <1>1, DecodeRuns
<1>2. CASE ~Decode
  <2>1. UNCHANGED <<similar, cases>>
    BY <1>2 DEF LearnNext, Dispatch, Pool, Failures, Retrieve, SearchFails, Fill, Number, Log,
                Validate, Teach, ValidateFails, Read, ValidateAgain, TeachAgain, AgainFails,
                learnVars, intelligence
  <2>2. clock' \in Nat /\ clock <= clock'
    BY MemoryGrows
  <2> QED BY <2>1, <2>2, RunsStay
<1> QED BY <1>1, <1>2

\* Whatever packets come and however their sources and targets mix, no campaign
\* holds a pause of the correlation window, and none is split.
THEOREM CampaignsHoldTogether == LearnSpec => []CampaignsAreRuns
<1>1. LearnInit => LearnTypes /\ CaseTypes /\ RunsInv
  <2> SUFFICES ASSUME LearnInit PROVE LearnTypes /\ CaseTypes /\ RunsInv
    OBVIOUS
  <2>1. /\ clock = 0 /\ cases = <<>> /\ similar = [g \in TI!Signatures |-> <<>>]
    BY DEF LearnInit, TI!Init
  <2>2. CaseTypes
    BY <2>1, EmptySeq DEF CaseTypes
  <2>3. RunsInv
    BY <2>1 DEF RunsInv, CampaignsAreRuns, TI!CampaignsAreRuns
  <2> QED BY <2>2, <2>3, LearnTypesInitial
<1>2. LearnTypes /\ CaseTypes /\ RunsInv /\ [LearnNext]_learnVars
      => (LearnTypes /\ CaseTypes /\ RunsInv)'
  BY LearnTypesKept, RunsInductive
<1>3. RunsInv => CampaignsAreRuns
  BY DEF RunsInv
<1> QED BY <1>1, <1>2, <1>3, PTL DEF LearnSpec
=============================================================================
