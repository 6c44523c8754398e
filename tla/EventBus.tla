------------------------------ MODULE EventBus ------------------------------
(***************************************************************************)
(* The realtime feed of one project: publishers put numbered events on a   *)
(* ring buffer and on the queue of every registered subscriber; a handler  *)
(* per WebSocket replays what the browser asks for and then drains its     *)
(* queue; the browser keeps one socket, remembers the number of the last   *)
(* event it received, and asks for everything after it when it reconnects. *)
(*                                                                         *)
(* A publish runs without an await: it is one step.  The handler awaits    *)
(* every send, so anything may happen between two of its steps.  Numbers   *)
(* start again when the process does; an event is told apart from its      *)
(* namesakes of earlier processes by its epoch, which the code has not.    *)
(***************************************************************************)
EXTENDS Integers, Sequences

CONSTANTS
  Handlers,    \* bound: handlers serving a WebSocket at a time
  BUFFER,      \* EVENT_BUFFER_SIZE
  QUEUE,       \* SUBSCRIBER_QUEUE_SIZE
  WIRE,        \* events a socket holds, the one a send waits with included
  MaxEvents,   \* bound: events published by one process
  MaxMishaps   \* bound: connections lost, pages closed, restarts, in all

ASSUME FeedAssumption ==
  /\ {Handlers, BUFFER, QUEUE, WIRE} \subseteq Nat \ {0}
  /\ {MaxEvents, MaxMishaps} \subseteq Nat

VARIABLES
  epoch,   \* which process this is
  seq,     \* events it has published
  stage,   \* what each handler is doing
  asked,   \* catch_up_from of each connection, 0 when it has none
  todo,    \* the part of its catch-up each handler has not sent
  queue,   \* the queue of each registered handler
  socket,  \* the browser's connection
  wire,    \* events sent on it and not received
  lastSeq, \* number of the last event received, 0 before the first
  mishaps, \* how many there have been
  log,     \* history: the events the page has received
  missed   \* history: events the feed is entitled to lose, and why

(* A connection is the slot its handler takes; 0 is no connection. *)
Connections == 1 .. Handlers
NoConn == 0

server == <<epoch, seq>>
handlers == <<stage, asked, todo, queue>>
browser == <<socket, wire, lastSeq>>
history == <<log, missed>>
vars == <<server, handlers, browser, mishaps, history>>

Stages == {"idle", "accepting", "replaying", "live"}
Numbers == 1 .. MaxEvents
Events == [epoch : 0 .. MaxMishaps, n : Numbers]
Reasons == {"fresh", "full", "window", "evicted", "restarted"}
Missing == [event : Events, why : Reasons]

Event(n) == [epoch |-> epoch, n |-> n]
Lost(numbers, reason) ==
  {[event |-> Event(n), why |-> reason] : n \in numbers}

TypeOK ==
  /\ epoch \in 0 .. MaxMishaps
  /\ seq \in 0 .. MaxEvents
  /\ stage \in [Connections -> Stages]
  /\ asked \in [Connections -> 0 .. MaxEvents]
  /\ todo \in [Connections -> Seq(Numbers)]
  /\ queue \in [Connections -> Seq(Numbers)]
  /\ \A c \in Connections : Len(queue[c]) =< QUEUE /\ Len(todo[c]) =< BUFFER
  /\ socket \in Connections \cup {NoConn}
  /\ wire \in Seq(Events) /\ Len(wire) =< WIRE
  /\ lastSeq \in 0 .. MaxEvents
  /\ mishaps \in 0 .. MaxMishaps
  /\ log \in Seq(Events)
  /\ missed \subseteq Missing

Init ==
  /\ epoch = 0 /\ seq = 0
  /\ stage = [c \in Connections |-> "idle"]
  /\ asked = [c \in Connections |-> 0]
  /\ todo = [c \in Connections |-> <<>>]
  /\ queue = [c \in Connections |-> <<>>]
  /\ socket = NoConn /\ wire = <<>> /\ lastSeq = 0
  /\ mishaps = 0
  /\ log = <<>> /\ missed = {}
-----------------------------------------------------------------------------
(* Publishing *)

(* A full queue drops the event, for this subscriber only. *)
Offer(q, n) == IF Len(q) < QUEUE THEN Append(q, n) ELSE q

(* What the browser's own handler lets go of: its queue is full, or it is   *)
(* still replaying, and so has not registered a queue.                      *)
LetGo(n) ==
  IF socket = NoConn THEN {}
  ELSE CASE stage[socket] = "replaying" -> Lost({n}, "window")
         [] stage[socket] = "live" /\ Len(queue[socket]) >= QUEUE
              -> Lost({n}, "full")
         [] OTHER -> {}

Publish ==
  /\ seq < MaxEvents
  /\ seq' = seq + 1
  /\ queue' = [c \in Connections |->
                 IF stage[c] = "live" THEN Offer(queue[c], seq + 1)
                                      ELSE queue[c]]
  /\ missed' = missed \cup LetGo(seq + 1)
  /\ UNCHANGED <<epoch, stage, asked, todo, browser, mishaps, log>>
-----------------------------------------------------------------------------
(* The handler of a connection *)

(* The numbers in the ring buffer are those above this one. *)
Evicted == IF seq > BUFFER THEN seq - BUFFER ELSE 0

After(low) == [i \in 1 .. seq - low |-> low + i]

(* Variants, to test the resume: off by one, either way. *)
CatchUp_Inclusive(from) ==
  After(IF from > Evicted THEN from - 1 ELSE Evicted)
CatchUp_SkipsOne(from) ==
  After(IF from >= Evicted THEN from + 1 ELSE Evicted)

CatchUp(from) == After(IF from > Evicted THEN from ELSE Evicted)

(* What the page cannot get any more once its handler begins: all that came *)
(* before, if it never received an event; what left the ring buffer; and,   *)
(* after a restart, numbers at or below the old process's.                  *)
OutOfReach ==
  IF lastSeq = 0 THEN Lost(1 .. seq, "fresh")
  ELSE Lost(lastSeq + 1 .. Evicted, "evicted")
         \cup IF log[Len(log)].epoch = epoch THEN {}
              ELSE Lost({n \in 1 .. seq : n =< lastSeq}, "restarted")

(* The socket is accepted.  With something to replay the handler starts on  *)
(* the list as it is now; otherwise it registers its queue at once.         *)
Begin(c) ==
  LET list == IF asked[c] = 0 THEN <<>> ELSE CatchUp(asked[c])
  IN  /\ stage[c] = "accepting"
      /\ stage' = [stage EXCEPT ![c] = IF list = <<>> THEN "live"
                                                      ELSE "replaying"]
      /\ todo' = [todo EXCEPT ![c] = list]
      /\ asked' = [asked EXCEPT ![c] = 0]
      /\ missed' = IF c = socket THEN missed \cup OutOfReach ELSE missed
      /\ UNCHANGED <<server, queue, browser, mishaps, log>>

(* A send: on the browser's socket it waits for room; on a connection the   *)
(* browser has given up it may still succeed, to no effect.                 *)
Transmit(c, n) ==
  IF c = socket
  THEN Len(wire) < WIRE /\ wire' = Append(wire, Event(n))
  ELSE wire' = wire

SendReplay(c) ==
  /\ stage[c] = "replaying"
  /\ todo[c] # <<>>
  /\ Transmit(c, Head(todo[c]))
  /\ todo' = [todo EXCEPT ![c] = Tail(@)]
  /\ UNCHANGED <<server, stage, asked, queue, socket, lastSeq, mishaps,
                 history>>

(* The last send of the replay has returned: only now is there a queue. *)
Register(c) ==
  /\ stage[c] = "replaying"
  /\ todo[c] = <<>>
  /\ stage' = [stage EXCEPT ![c] = "live"]
  /\ UNCHANGED <<server, asked, todo, queue, browser, mishaps, history>>

SendLive(c) ==
  /\ stage[c] = "live"
  /\ queue[c] # <<>>
  /\ Transmit(c, Head(queue[c]))
  /\ queue' = [queue EXCEPT ![c] = Tail(@)]
  /\ UNCHANGED <<server, stage, asked, todo, socket, lastSeq, mishaps,
                 history>>

(* Accepting or sending fails, the browser having gone: the handler ends    *)
(* and its queue is unregistered.  One with nothing to send never notices.  *)
Notice(c) ==
  /\ c # socket
  /\ \/ stage[c] = "accepting"
     \/ stage[c] = "replaying" /\ todo[c] # <<>>
     \/ stage[c] = "live" /\ queue[c] # <<>>
  /\ stage' = [stage EXCEPT ![c] = "idle"]
  /\ asked' = [asked EXCEPT ![c] = 0]
  /\ todo' = [todo EXCEPT ![c] = <<>>]
  /\ queue' = [queue EXCEPT ![c] = <<>>]
  /\ UNCHANGED <<server, browser, mishaps, history>>
-----------------------------------------------------------------------------
(* The browser *)

(* Handlers are alike: a new connection takes the lowest slot. *)
Free(c) ==
  /\ stage[c] = "idle"
  /\ \A d \in 1 .. c - 1 : stage[d] # "idle"

(* Variant, to test the resume: a new socket does not say where it left off. *)
Connect_Anew(c) ==
  /\ socket = NoConn
  /\ Free(c)
  /\ socket' = c
  /\ stage' = [stage EXCEPT ![c] = "accepting"]
  /\ UNCHANGED <<server, asked, todo, queue, wire, lastSeq, mishaps, history>>

(* ensureConnected: at once for the first listener, by the timer after. *)
Connect(c) ==
  /\ socket = NoConn
  /\ Free(c)
  /\ socket' = c
  /\ stage' = [stage EXCEPT ![c] = "accepting"]
  /\ asked' = [asked EXCEPT ![c] = lastSeq]
  /\ UNCHANGED <<server, todo, queue, wire, lastSeq, mishaps, history>>

(* onmessage *)
Receive ==
  /\ wire # <<>>
  /\ wire' = Tail(wire)
  /\ lastSeq' = Head(wire).n
  /\ log' = Append(log, Head(wire))
  /\ UNCHANGED <<server, handlers, socket, mishaps, missed>>

Mishap ==
  /\ mishaps < MaxMishaps
  /\ mishaps' = mishaps + 1

HangUp ==
  /\ socket' = NoConn
  /\ wire' = <<>>

(* onclose: the network failed, and what was in flight is lost. *)
Drop ==
  /\ socket # NoConn
  /\ Mishap
  /\ HangUp
  /\ UNCHANGED <<server, handlers, lastSeq, history>>

(* onclose: the process behind the socket has ended. *)
ServerClosed ==
  /\ socket # NoConn
  /\ stage[socket] = "idle"
  /\ HangUp
  /\ UNCHANGED <<server, handlers, lastSeq, mishaps, history>>

(* The last listener has gone, or the page was closed; the page opened next  *)
(* has a channel that remembers nothing.                                     *)
Reopen ==
  /\ Mishap
  /\ HangUp
  /\ lastSeq' = 0
  /\ log' = <<>> /\ missed' = {}
  /\ UNCHANGED <<server, handlers>>

(* The process ends and starts again: channels, buffers, numbers and         *)
(* handlers are gone.                                                        *)
Restart ==
  /\ Mishap
  /\ epoch' = epoch + 1
  /\ seq' = 0
  /\ stage' = [c \in Connections |-> "idle"]
  /\ asked' = [c \in Connections |-> 0]
  /\ todo' = [c \in Connections |-> <<>>]
  /\ queue' = [c \in Connections |-> <<>>]
  /\ UNCHANGED <<browser, history>>

Handler(c) ==
  Begin(c) \/ SendReplay(c) \/ Register(c) \/ SendLive(c) \/ Notice(c)

Next ==
  \/ Publish
  \/ \E c \in Connections : Connect(c) \/ Handler(c)
  \/ Receive \/ Drop \/ ServerClosed \/ Reopen
  \/ Restart

(* Handlers run when the event loop lets them, a socket delivers what it     *)
(* holds or closes, and the reconnect timer fires while the page is open.    *)
(* Nobody has to publish, to fail or to restart.                             *)
Fairness ==
  /\ \A c \in Connections : WF_vars(Handler(c))
  /\ WF_vars(\E c \in Connections : Connect(c))
  /\ WF_vars(Receive)
  /\ WF_vars(ServerClosed)

Spec == Init /\ [][Next]_vars /\ Fairness
-----------------------------------------------------------------------------
(* Properties *)

Received(e) == \E i \in 1 .. Len(log) : log[i] = e
Entitled(e, reasons) == \E m \in missed : m.event = e /\ m.why \in reasons

(* The page has received a later event of the same process. *)
Passed(e) ==
  \E i \in 1 .. Len(log) : log[i].epoch = e.epoch /\ log[i].n > e.n

(* Over all the connections of a page no event reaches it twice nor out of   *)
(* order: what a resumed connection replays (event_bus.py:101) starts after  *)
(* the last event received and ends before what its queue holds.             *)
InOrderOnce ==
  \A i, j \in 1 .. Len(log) : i < j =>
    \/ log[i].epoch < log[j].epoch
    \/ log[i].epoch = log[j].epoch /\ log[i].n < log[j].n

(* An event is skipped only for a reason the feed has: it came before the    *)
(* page's first event, it fell out of the ring buffer or on a full queue, it *)
(* was published during a replay or numbered anew by a restart.  Events lost *)
(* in flight or with a dead handler's queue are replayed on reconnection.    *)
SkippedForAReason ==
  \A e \in Events : Passed(e) => Received(e) \/ Entitled(e, Reasons)

(* As the WebSocket's documentation has it (realtime.py:20-23): a dropped    *)
(* connection resumes without missing events still in the ring buffer.       *)
ResumeMissesNothingBuffered ==
  \A n \in Evicted + 1 .. seq :
    LET e == Event(n)
    IN  Passed(e) => Received(e) \/ Entitled(e, {"fresh", "full"})

(* Once published, an event reaches the open page, or the feed lets go of it *)
(* for one of its reasons, or the process that numbered it ends: no event    *)
(* stays in a queue, in a replay or on a dead connection for ever.           *)
EventsSettle ==
  \A n \in Numbers :
    seq >= n ~> \/ Received(Event(n))
                \/ Entitled(Event(n), Reasons)
                \/ seq < n
=============================================================================
