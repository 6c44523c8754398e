--------------------------- MODULE EventBusProofs ---------------------------
(***************************************************************************)
(* That the feed is in order and without unexplained gaps, for any sizes of *)
(* ring buffer, queue and socket and any number of handlers, events and    *)
(* mishaps.  The argument follows an event along its way: what a handler   *)
(* has still to send comes after what is on the wire, and that after what   *)
(* the page has received; and while a handler serves the page, each number  *)
(* given out so far is in one of these places or lost for a reason.        *)
(***************************************************************************)
EXTENDS EventBus, TLAPS, SequenceTheorems

Before(e, f) == e.epoch < f.epoch \/ (e.epoch = f.epoch /\ e.n < f.n)
In(x, s) == \E i \in 1 .. Len(s) : s[i] = x
InOrder(s) == \A i, j \in 1 .. Len(s) : i < j => Before(s[i], s[j])
Rising(s) == \A i, j \in 1 .. Len(s) : i < j => s[i] < s[j]
Pending(n) == In(n, todo[socket]) \/ In(n, queue[socket])
Serving == socket # NoConn /\ stage[socket] \in {"replaying", "live"}

(* A process numbers its mishap.                                           *)
EpochInv == epoch <= mishaps

(* What a handler holds at each of its stages. *)
StageInv ==
  \A c \in Connections :
    /\ stage[c] # "live" => queue[c] = <<>>
    /\ stage[c] # "replaying" => todo[c] = <<>>

(* The wire of a socket nobody serves yet is empty, and what it asked for   *)
(* is what the page has.                                                   *)
SocketInv ==
  /\ socket = NoConn => wire = <<>>
  /\ socket # NoConn /\ stage[socket] = "accepting" =>
       wire = <<>> /\ asked[socket] = lastSeq
  /\ lastSeq = IF log = <<>> THEN 0 ELSE log[Len(log)].n

(* Numbers that have been given out. *)
Given(e) == e.epoch < epoch \/ (e.epoch = epoch /\ e.n <= seq)
NumberInv ==
  /\ \A e \in Events : In(e, log) \/ In(e, wire) => Given(e)
  /\ socket # NoConn => \A n \in Numbers : Pending(n) => n <= seq

OrderInv ==
  /\ InOrder(log) /\ InOrder(wire)
  /\ \A e, f \in Events : In(e, log) /\ In(f, wire) => Before(e, f)
  /\ socket # NoConn =>
       /\ Rising(todo[socket]) /\ Rising(queue[socket])
       /\ \A n \in Numbers, e \in Events :
            Pending(n) /\ (In(e, log) \/ In(e, wire)) => Before(e, Event(n))

(* No gap: what the log or the wire has passed is in one of them or lost    *)
(* for a reason; and while the page is served, so is what has been given    *)
(* out, unless it is still to be sent.                                     *)
Overtaken(e, s) == \E f \in Events : In(f, s) /\ f.epoch = e.epoch /\ f.n > e.n
Known(e) == In(e, log) \/ In(e, wire) \/ Entitled(e, Reasons)
GapInv ==
  /\ \A e \in Events : Overtaken(e, log) \/ Overtaken(e, wire) => Known(e)
  /\ Serving => \A n \in Numbers : n <= seq => Known(Event(n)) \/ Pending(n)

FeedInv == EpochInv /\ StageInv /\ SocketInv /\ NumberInv /\ OrderInv /\ GapInv

-----------------------------------------------------------------------------
(* Sequences *)

(* What sending the head of a queue leaves in it. *)
LEMMA TailOf ==
  ASSUME NEW T, NEW s \in Seq(T), s # <<>>
  PROVE  /\ Head(s) \in T /\ Tail(s) \in Seq(T)
         /\ Len(Tail(s)) = Len(s) - 1
         /\ \A i \in 1 .. Len(Tail(s)) : Tail(s)[i] = s[i + 1]
         /\ \A x : In(x, s) <=> x = Head(s) \/ In(x, Tail(s))
<1>1. /\ Head(s) = s[1] /\ Head(s) \in T /\ Tail(s) \in Seq(T) /\ Len(s) \in Nat \ {0}
      /\ Len(Tail(s)) = Len(s) - 1
      /\ \A i \in 1 .. Len(Tail(s)) : Tail(s)[i] = s[i + 1]
  BY HeadTailProperties
<1>2. ASSUME NEW x, In(x, s), x # Head(s)  PROVE In(x, Tail(s))
  <2>1. PICK i \in 1 .. Len(s) : s[i] = x
    BY <1>2 DEF In
  <2>2. i # 1 /\ i - 1 \in 1 .. Len(Tail(s)) /\ Tail(s)[i - 1] = s[(i - 1) + 1]
    BY <1>1, <1>2, <2>1
  <2>3. QED
    BY <2>1, <2>2 DEF In
<1>3. ASSUME NEW x, In(x, Tail(s))  PROVE In(x, s)
  <2>1. PICK i \in 1 .. Len(Tail(s)) : Tail(s)[i] = x
    BY <1>3 DEF In
  <2>2. i + 1 \in 1 .. Len(s) /\ s[i + 1] = x
    BY <1>1, <2>1
  <2>3. QED
    BY <2>2 DEF In
<1>4. In(Head(s), s)
  BY <1>1 DEF In
<1>5. QED
  BY <1>1, <1>2, <1>3, <1>4

LEMMA TailRises ==
  ASSUME NEW s \in Seq(Nat), s # <<>>, Rising(s)
  PROVE  /\ Rising(Tail(s))
         /\ \A n \in Nat : In(n, Tail(s)) => Head(s) < n
<1>1. /\ Head(s) = s[1] /\ Len(s) \in Nat \ {0} /\ Len(Tail(s)) = Len(s) - 1
      /\ \A i \in 1 .. Len(Tail(s)) : Tail(s)[i] = s[i + 1]
  BY HeadTailProperties
<1>2. Rising(Tail(s))
  <2> SUFFICES ASSUME NEW i \in 1 .. Len(Tail(s)), NEW j \in 1 .. Len(Tail(s)), i < j
               PROVE  Tail(s)[i] < Tail(s)[j]
    BY DEF Rising
  <2>1. i + 1 \in 1 .. Len(s) /\ j + 1 \in 1 .. Len(s) /\ i + 1 < j + 1
    BY <1>1
  <2>2. QED
    BY <1>1, <2>1 DEF Rising
<1>3. ASSUME NEW i \in 1 .. Len(Tail(s))  PROVE Head(s) < Tail(s)[i]
  <2>1. 1 \in 1 .. Len(s) /\ i + 1 \in 1 .. Len(s) /\ 1 < i + 1
    BY <1>1
  <2>2. QED
    BY <1>1, <2>1 DEF Rising
<1>4. QED
  BY <1>2, <1>3 DEF In

LEMMA TailInOrder ==
  ASSUME NEW T, NEW s \in Seq(T), s # <<>>, InOrder(s)
  PROVE  /\ InOrder(Tail(s))
         /\ \A e : In(e, Tail(s)) => Before(Head(s), e)
<1>1. /\ Head(s) = s[1] /\ Len(s) \in Nat \ {0} /\ Len(Tail(s)) = Len(s) - 1
      /\ \A i \in 1 .. Len(Tail(s)) : Tail(s)[i] = s[i + 1]
  BY HeadTailProperties
<1>2. InOrder(Tail(s))
  <2> SUFFICES ASSUME NEW i \in 1 .. Len(Tail(s)), NEW j \in 1 .. Len(Tail(s)), i < j
               PROVE  Before(Tail(s)[i], Tail(s)[j])
    BY DEF InOrder
  <2>1. i + 1 \in 1 .. Len(s) /\ j + 1 \in 1 .. Len(s) /\ i + 1 < j + 1
    BY <1>1
  <2>2. QED
    BY <1>1, <2>1 DEF InOrder
<1>3. ASSUME NEW i \in 1 .. Len(Tail(s))  PROVE Before(Head(s), Tail(s)[i])
  <2>1. 1 \in 1 .. Len(s) /\ i + 1 \in 1 .. Len(s) /\ 1 < i + 1
    BY <1>1
  <2>2. QED
    BY <1>1, <2>1 DEF InOrder
<1>4. QED
  BY <1>2, <1>3 DEF In

(* What an event put at the end of a sequence adds to it. *)
LEMMA AppendTo ==
  ASSUME NEW T, NEW s \in Seq(T), NEW y \in T
  PROVE  /\ Append(s, y) \in Seq(T) /\ Append(s, y) # <<>>
         /\ Len(Append(s, y)) = Len(s) + 1
         /\ Append(s, y)[Len(s) + 1] = y
         /\ \A i \in 1 .. Len(s) : Append(s, y)[i] = s[i]
         /\ \A x : In(x, Append(s, y)) <=> In(x, s) \/ x = y
<1>1. /\ Append(s, y) \in Seq(T) /\ Append(s, y) # <<>> /\ Len(s) \in Nat
      /\ Len(Append(s, y)) = Len(s) + 1
      /\ Append(s, y)[Len(s) + 1] = y
      /\ \A i \in 1 .. Len(s) : Append(s, y)[i] = s[i]
  BY AppendProperties, LenProperties
<1>2. \A i : i \in 1 .. Len(s) + 1 <=> i \in 1 .. Len(s) \/ i = Len(s) + 1
  BY <1>1
<1>3. \A x : In(x, Append(s, y)) <=> In(x, s) \/ x = y
  BY <1>1, <1>2 DEF In
<1>4. QED
  BY <1>1, <1>3

LEMMA AppendRises ==
  ASSUME NEW s \in Seq(Nat), NEW y \in Nat, Rising(s), \A n \in Nat : In(n, s) => n < y
  PROVE  Rising(Append(s, y))
<1> SUFFICES ASSUME NEW i \in 1 .. Len(Append(s, y)), NEW j \in 1 .. Len(Append(s, y)), i < j
             PROVE  Append(s, y)[i] < Append(s, y)[j]
  BY DEF Rising
<1>1. /\ Len(Append(s, y)) = Len(s) + 1 /\ Len(s) \in Nat
      /\ Append(s, y)[Len(s) + 1] = y
      /\ \A k \in 1 .. Len(s) : Append(s, y)[k] = s[k] /\ s[k] \in Nat
  BY AppendTo, LenProperties, ElementOfSeq
<1>2. i \in 1 .. Len(s) /\ (j \in 1 .. Len(s) \/ j = Len(s) + 1)
  BY <1>1
<1>3. \A k \in 1 .. Len(s) : s[k] < y
  BY <1>1 DEF In
<1>4. QED
  BY <1>1, <1>2, <1>3 DEF Rising

LEMMA AppendInOrder ==
  ASSUME NEW T, NEW s \in Seq(T), NEW y \in T, InOrder(s), \A e \in T : In(e, s) => Before(e, y)
  PROVE  InOrder(Append(s, y))
<1> SUFFICES ASSUME NEW i \in 1 .. Len(Append(s, y)), NEW j \in 1 .. Len(Append(s, y)), i < j
             PROVE  Before(Append(s, y)[i], Append(s, y)[j])
  BY DEF InOrder
<1>1. /\ Len(Append(s, y)) = Len(s) + 1 /\ Len(s) \in Nat
      /\ Append(s, y)[Len(s) + 1] = y
      /\ \A k \in 1 .. Len(s) : Append(s, y)[k] = s[k] /\ s[k] \in T
  BY AppendTo, LenProperties, ElementOfSeq
<1>2. i \in 1 .. Len(s) /\ (j \in 1 .. Len(s) \/ j = Len(s) + 1)
  BY <1>1
<1>3. \A k \in 1 .. Len(s) : Before(s[k], y)
  BY <1>1 DEF In
<1>4. QED
  BY <1>1, <1>2, <1>3 DEF InOrder

LEMMA NothingIn ==
  /\ \A x : ~ In(x, <<>>)
  /\ Rising(<<>>) /\ InOrder(<<>>) /\ \A e : ~ Overtaken(e, <<>>)
  BY DEF In, Rising, InOrder, Overtaken

LEMMA InType ==
  ASSUME NEW T, NEW s \in Seq(T), NEW x, In(x, s)
  PROVE  x \in T
  BY ElementOfSeq DEF In

(* The numbers a replay is made of. *)
LEMMA AfterFacts ==
  ASSUME NEW low \in Nat, seq \in 0 .. MaxEvents, MaxEvents \in Nat
  PROVE  /\ After(low) \in Seq(Numbers)
         /\ Len(After(low)) = IF low < seq THEN seq - low ELSE 0
         /\ Rising(After(low))
         /\ \A n \in Nat : In(n, After(low)) <=> low < n /\ n <= seq
<1>1. CASE low < seq
  <2>1. seq - low \in Nat /\ \A i \in 1 .. seq - low : low + i \in Numbers
    BY <1>1 DEF Numbers
  <2>2. After(low) \in Seq(Numbers) /\ Len(After(low)) = seq - low
        /\ \A i \in 1 .. seq - low : After(low)[i] = low + i
    BY <2>1 DEF After
  <2>3. Rising(After(low))
    BY <1>1, <2>1, <2>2 DEF Rising
  <2>4. \A n \in Nat : low < n /\ n <= seq => n - low \in 1 .. seq - low /\ n = low + (n - low)
    BY <2>1
  <2>5. \A n \in Nat : In(n, After(low)) <=> low < n /\ n <= seq
    BY <1>1, <2>1, <2>2, <2>4 DEF In
  <2>6. QED
    BY <1>1, <2>2, <2>3, <2>5
<1>2. CASE ~ (low < seq)
  <2>1. 1 .. seq - low = 1 .. 0
    BY <1>2
  <2>2. After(low) = [i \in 1 .. 0 |-> low + i]
    BY <2>1 DEF After
  <2>3. After(low) = <<>>
    BY <2>2
  <2>4. QED
    BY <1>2, <2>3, NothingIn DEF Numbers
<1>3. QED
  BY <1>1, <1>2

-----------------------------------------------------------------------------
(* Types *)

LEMMA TypedParts ==
  ASSUME TypeOK
  PROVE  /\ epoch \in Nat /\ seq \in Nat /\ lastSeq \in Nat
         /\ \A c \in Connections : /\ stage[c] \in Stages /\ asked[c] \in Nat
                                   /\ todo[c] \in Seq(Numbers) /\ todo[c] \in Seq(Nat)
                                   /\ queue[c] \in Seq(Numbers) /\ queue[c] \in Seq(Nat)
         /\ wire \in Seq(Events) /\ log \in Seq(Events)
         /\ \A n \in Numbers : Event(n) \in Events /\ n \in Nat
         /\ \A e \in Events : e.epoch \in Nat /\ e.n \in Numbers /\ e.n \in Nat
<1>1. \A n \in Numbers : n \in Nat
  BY FeedAssumption DEF Numbers
<1>2. \A s \in Seq(Numbers) : s \in Seq(Nat)
  BY <1>1, SeqMonotonic
<1>3. \A n \in Numbers : Event(n) \in Events
  BY FeedAssumption DEF TypeOK, Event, Events
<1>4. \A e \in Events : e.epoch \in Nat /\ e.n \in Numbers /\ e.n \in Nat
  BY <1>1, FeedAssumption DEF Events
<1>5. QED
  BY <1>1, <1>2, <1>3, <1>4, FeedAssumption DEF TypeOK

LEMMA LostTyped ==
  ASSUME TypeOK, NEW numbers \in SUBSET Numbers, NEW reason \in Reasons
  PROVE  Lost(numbers, reason) \subseteq Missing
BY TypedParts DEF Lost, Missing

LEMMA OutOfReachTyped ==
  ASSUME TypeOK
  PROVE  OutOfReach \subseteq Missing
<1>1. seq \in 0 .. MaxEvents /\ lastSeq \in 0 .. MaxEvents /\ MaxEvents \in Nat /\ BUFFER \in Nat
  BY FeedAssumption DEF TypeOK
<1>2. /\ 1 .. seq \in SUBSET Numbers /\ lastSeq + 1 .. Evicted \in SUBSET Numbers
      /\ {n \in 1 .. seq : n =< lastSeq} \in SUBSET Numbers
  BY <1>1 DEF Numbers, Evicted
<1>3. {"fresh", "evicted", "restarted"} \subseteq Reasons
  BY DEF Reasons
<1>4. Lost(1 .. seq, "fresh") \subseteq Missing
  BY <1>2, <1>3, LostTyped
<1>5. Lost(lastSeq + 1 .. Evicted, "evicted") \subseteq Missing
  BY <1>2, <1>3, LostTyped
<1>6. Lost({n \in 1 .. seq : n =< lastSeq}, "restarted") \subseteq Missing
  BY <1>2, <1>3, LostTyped
<1>7. QED
  BY <1>4, <1>5, <1>6 DEF OutOfReach

LEMMA LetGoTyped ==
  ASSUME TypeOK, seq < MaxEvents
  PROVE  LetGo(seq + 1) \subseteq Missing
<1>1. {seq + 1} \in SUBSET Numbers /\ {"window", "full"} \subseteq Reasons
  BY FeedAssumption DEF TypeOK, Numbers, Reasons
<1>2. Lost({seq + 1}, "window") \subseteq Missing /\ Lost({seq + 1}, "full") \subseteq Missing
  BY <1>1, LostTyped
<1>3. QED
  BY <1>2 DEF LetGo

(* The list a handler begins with: what is above some number. *)
LEMMA CatchUpFacts ==
  ASSUME TypeOK, NEW from \in Nat
  PROVE  /\ CatchUp(from) \in Seq(Numbers) /\ Len(CatchUp(from)) <= BUFFER
         /\ Rising(CatchUp(from))
         /\ \A n \in Nat : In(n, CatchUp(from)) <=> from < n /\ Evicted < n /\ n <= seq
<1> DEFINE low == IF from > Evicted THEN from ELSE Evicted
<1>1. seq \in 0 .. MaxEvents /\ MaxEvents \in Nat /\ BUFFER \in Nat
  BY FeedAssumption DEF TypeOK
<1>2. Evicted \in Nat /\ low \in Nat /\ seq - low <= BUFFER
  BY <1>1 DEF Evicted
<1>3. CatchUp(from) = After(low)
  BY DEF CatchUp
<1>4. \A n \in Nat : low < n <=> from < n /\ Evicted < n
  BY <1>2
<1> HIDE DEF low
<1>5. /\ After(low) \in Seq(Numbers) /\ Rising(After(low))
      /\ Len(After(low)) = IF low < seq THEN seq - low ELSE 0
      /\ \A n \in Nat : In(n, After(low)) <=> low < n /\ n <= seq
  BY <1>1, <1>2, AfterFacts
<1>6. Len(After(low)) <= BUFFER
  BY <1>1, <1>2, <1>5
<1>7. QED
  BY <1>3, <1>4, <1>5, <1>6

LEMMA InitType == Init => TypeOK /\ EpochInv
<1> SUFFICES ASSUME Init PROVE TypeOK /\ EpochInv
  OBVIOUS
<1>1. <<>> \in Seq(Numbers) /\ <<>> \in Seq(Events) /\ Len(<<>>) = 0
  OBVIOUS
<1>2. QED
  BY <1>1, FeedAssumption DEF Init, TypeOK, EpochInv, Stages, Connections, NoConn

LEMMA TypeStep ==
  ASSUME TypeOK, EpochInv, [Next]_vars
  PROVE  TypeOK' /\ EpochInv'
<1> USE FeedAssumption DEF TypeOK, EpochInv
<1>0. <<>> \in Seq(Numbers) /\ <<>> \in Seq(Events) /\ Len(<<>>) = 0
  OBVIOUS
<1>1. CASE Publish
  <2>1. seq + 1 \in Numbers /\ missed' \subseteq Missing
    BY <1>1, LetGoTyped DEF Publish, Numbers
  <2>2. \A c \in Connections : queue'[c] \in Seq(Numbers) /\ Len(queue'[c]) =< QUEUE
    BY <1>1, <2>1, AppendTo, LenProperties DEF Publish, Offer
  <2>3. queue' \in [Connections -> Seq(Numbers)]
    BY <1>1, <2>2 DEF Publish
  <2>4. QED
    BY <1>1, <2>1, <2>2, <2>3, SMTT(30) DEF Publish, browser
<1>2. ASSUME NEW c \in Connections, Connect(c)  PROVE TypeOK' /\ EpochInv'
  BY <1>2 DEF Connect, Stages, server, history
<1>3. ASSUME NEW c \in Connections, Begin(c)  PROVE TypeOK' /\ EpochInv'
  <2>1. asked[c] \in Nat
    OBVIOUS
  <2>2. CatchUp(asked[c]) \in Seq(Numbers) /\ Len(CatchUp(asked[c])) =< BUFFER
    BY <2>1, CatchUpFacts
  <2>3. missed' \subseteq Missing
    BY <1>3, OutOfReachTyped DEF Begin
  <2>4. QED
    BY <1>0, <1>3, <2>2, <2>3, SMTT(30) DEF Begin, Stages, server, browser
<1>4. ASSUME NEW c \in Connections, NEW n \in Numbers, Transmit(c, n), UNCHANGED epoch
      PROVE  wire' \in Seq(Events) /\ Len(wire') =< WIRE
  <2>1. wire \in Seq(Events) /\ Event(n) \in Events
    BY TypedParts
  <2>2. Append(wire, Event(n)) \in Seq(Events) /\ Len(Append(wire, Event(n))) = Len(wire) + 1
        /\ Len(wire) \in Nat
    BY <2>1, AppendTo, LenProperties
  <2>3. CASE c = socket
    <3>1. Len(wire) < WIRE /\ wire' = Append(wire, Event(n))
      BY <1>4, <2>3 DEF Transmit
    <3>2. QED
      BY <2>2, <3>1
  <2>4. CASE c # socket
    BY <1>4, <2>4 DEF Transmit
  <2>5. QED
    BY <2>3, <2>4
<1>5. ASSUME NEW c \in Connections, SendReplay(c)  PROVE TypeOK' /\ EpochInv'
  <2>1. todo[c] \in Seq(Numbers) /\ todo[c] # <<>>
    BY <1>5 DEF SendReplay
  <2>2. /\ Head(todo[c]) \in Numbers /\ Tail(todo[c]) \in Seq(Numbers)
        /\ Len(Tail(todo[c])) = Len(todo[c]) - 1 /\ Len(todo[c]) \in Nat
    BY <2>1, HeadTailProperties, LenProperties
  <2>3. wire' \in Seq(Events) /\ Len(wire') =< WIRE
    BY <1>4, <1>5, <2>2 DEF SendReplay, server
  <2>4. QED
    BY <1>5, <2>2, <2>3, SMTT(30) DEF SendReplay, server, history
<1>6. ASSUME NEW c \in Connections, SendLive(c)  PROVE TypeOK' /\ EpochInv'
  <2>1. queue[c] \in Seq(Numbers) /\ queue[c] # <<>>
    BY <1>6 DEF SendLive
  <2>2. /\ Head(queue[c]) \in Numbers /\ Tail(queue[c]) \in Seq(Numbers)
        /\ Len(Tail(queue[c])) = Len(queue[c]) - 1 /\ Len(queue[c]) \in Nat
    BY <2>1, HeadTailProperties, LenProperties
  <2>3. wire' \in Seq(Events) /\ Len(wire') =< WIRE
    BY <1>4, <1>6, <2>2 DEF SendLive, server
  <2>4. QED
    BY <1>6, <2>2, <2>3, SMTT(30) DEF SendLive, server, history
<1>7. ASSUME NEW c \in Connections, Register(c) \/ Notice(c)  PROVE TypeOK' /\ EpochInv'
  <2>1. CASE Register(c)
    BY <2>1 DEF Register, Stages, server, browser, history
  <2>2. CASE Notice(c)
    BY <1>0, <2>2, SMTT(30) DEF Notice, Stages, server, browser, history
  <2>3. QED
    BY <1>7, <2>1, <2>2
<1>8. CASE Receive
  <2>1. /\ Head(wire) \in Events /\ Tail(wire) \in Seq(Events)
        /\ Len(Tail(wire)) = Len(wire) - 1 /\ Len(wire) \in Nat
    BY <1>8, HeadTailProperties, LenProperties DEF Receive
  <2>2. Append(log, Head(wire)) \in Seq(Events)
    BY <2>1, AppendProperties
  <2>3. Head(wire).n \in 0 .. MaxEvents
    BY <2>1 DEF Events, Numbers
  <2>4. QED
    BY <1>8, <2>1, <2>2, <2>3, SMTT(30) DEF Receive, server, handlers
<1>9. CASE Drop \/ ServerClosed \/ Reopen
  <2>1. CASE Drop
    BY <1>0, <2>1 DEF Drop, Mishap, HangUp, server, handlers, history
  <2>2. CASE ServerClosed
    BY <1>0, <2>2 DEF ServerClosed, HangUp, server, handlers, history
  <2>3. CASE Reopen
    BY <1>0, <2>3, SMTT(30) DEF Reopen, Mishap, HangUp, server, handlers
  <2>4. QED
    BY <1>9, <2>1, <2>2, <2>3
<1>10. CASE Restart
  BY <1>0, <1>10 DEF Restart, Mishap, Stages, browser, history
<1>11. CASE UNCHANGED vars
  BY <1>11 DEF vars, server, handlers, browser, history
<1>12. QED
  BY <1>1, <1>2, <1>3, <1>5, <1>6, <1>7, <1>8, <1>9, <1>10, <1>11 DEF Next, Handler

-----------------------------------------------------------------------------
(* Steps *)

Flow == SocketInv /\ NumberInv /\ OrderInv /\ GapInv

(* A step that leaves the page's socket and its handler alone. *)
LEMMA Frame ==
  ASSUME FeedInv, UNCHANGED <<epoch, seq, socket, wire, lastSeq, log>>, missed \subseteq missed',
         socket # NoConn => /\ stage'[socket] = stage[socket] /\ asked'[socket] = asked[socket]
                            /\ todo'[socket] = todo[socket] /\ queue'[socket] = queue[socket]
  PROVE  Flow'
<1>1. SocketInv' /\ NumberInv' /\ OrderInv'
  BY DEF FeedInv, SocketInv, NumberInv, OrderInv, Given, Pending, Event
<1>2. \A e : Known(e) => Known(e)'
  BY DEF Known, Entitled
<1>3. \A n : Event(n)' = Event(n)
  BY DEF Event
<1>4. GapInv'
  BY <1>2, <1>3 DEF FeedInv, GapInv, Serving, Overtaken, Pending
<1>5. QED
  BY <1>1, <1>4 DEF Flow

LEMMA StageStep ==
  ASSUME TypeOK, FeedInv, Next
  PROVE  StageInv'
<1>1. ASSUME NEW c \in Connections, Begin(c)  PROVE StageInv'
  BY <1>1 DEF Begin, FeedInv, StageInv, TypeOK
<1>2. ASSUME NEW c \in Connections, Connect(c) \/ SendReplay(c) \/ Register(c) \/ SendLive(c)
      PROVE  StageInv'
  BY <1>2 DEF Connect, Free, SendReplay, Register, SendLive, FeedInv, StageInv, TypeOK
<1>3. ASSUME NEW c \in Connections, Notice(c)  PROVE StageInv'
  BY <1>3 DEF Notice, FeedInv, StageInv, TypeOK
<1>4. CASE Publish \/ Receive \/ Drop \/ ServerClosed \/ Reopen \/ Restart
  BY <1>4 DEF Publish, Receive, Drop, ServerClosed, Reopen, Restart, handlers,
              FeedInv, StageInv, TypeOK
<1>5. QED
  BY <1>1, <1>2, <1>3, <1>4 DEF Next, Handler

(* The connections and the closings. *)
LEMMA SocketStep ==
  ASSUME TypeOK, FeedInv, \/ \E c \in Connections : Connect(c)
                          \/ Drop \/ ServerClosed \/ Reopen \/ Restart
  PROVE  Flow'
<1> USE TypedParts, NothingIn
<1>1. ASSUME NEW c \in Connections, Connect(c)  PROVE Flow'
  <2>1. /\ wire = <<>> /\ todo[c] = <<>> /\ queue[c] = <<>> /\ socket' = c /\ c # NoConn
        /\ stage'[c] = "accepting" /\ asked'[c] = lastSeq
        /\ UNCHANGED <<epoch, seq, wire, todo, queue, lastSeq, log, missed>>
    BY <1>1 DEF Connect, Free, FeedInv, StageInv, SocketInv, server, history, TypeOK,
                Connections, NoConn
  <2>2. SocketInv' /\ NumberInv'
    BY <2>1 DEF FeedInv, SocketInv, NumberInv, Given, Pending
  <2>3. OrderInv'
    BY <2>1 DEF FeedInv, OrderInv, Pending
  <2>4. GapInv'
    BY <2>1 DEF FeedInv, GapInv, Serving, Known, Entitled, Overtaken
  <2>5. QED
    BY <2>2, <2>3, <2>4 DEF Flow
<1>2. CASE Drop \/ ServerClosed
  <2>1. socket' = NoConn /\ wire' = <<>> /\ UNCHANGED <<epoch, seq, lastSeq, log, missed>>
    BY <1>2 DEF Drop, ServerClosed, HangUp, server, history
  <2>2. SocketInv' /\ NumberInv' /\ OrderInv'
    BY <2>1 DEF FeedInv, SocketInv, NumberInv, OrderInv, Given
  <2>3. ASSUME NEW e \in Events, Overtaken(e, log)  PROVE Known(e)'
    <3>1. PICK f \in Events : In(f, log) /\ f.epoch = e.epoch /\ f.n > e.n
      BY <2>3 DEF Overtaken
    <3>2. ~ In(e, wire)
      BY <3>1 DEF FeedInv, OrderInv, Before
    <3>3. QED
      BY <2>1, <2>3, <3>2 DEF FeedInv, GapInv, Known, Entitled
  <2>4. GapInv'
    BY <2>1, <2>3 DEF GapInv, Serving, Overtaken
  <2>5. QED
    BY <2>2, <2>4 DEF Flow
<1>3. CASE Reopen
  <2>1. socket' = NoConn /\ wire' = <<>> /\ log' = <<>> /\ lastSeq' = 0
        /\ UNCHANGED <<epoch, seq>>
    BY <1>3 DEF Reopen, HangUp, server
  <2>2. QED
    BY <2>1 DEF Flow, SocketInv, NumberInv, OrderInv, GapInv, Serving
<1>4. CASE Restart
  <2>1. /\ epoch' = epoch + 1 /\ seq' = 0
        /\ UNCHANGED <<socket, wire, lastSeq, log, missed>>
        /\ socket # NoConn => stage'[socket] = "idle" /\ todo'[socket] = <<>>
                                                      /\ queue'[socket] = <<>>
    BY <1>4 DEF Restart, browser, history, TypeOK
  <2>2. SocketInv' /\ NumberInv'
    BY <2>1 DEF FeedInv, SocketInv, NumberInv, Given, Pending
  <2>3. OrderInv'
    BY <2>1 DEF FeedInv, OrderInv, Pending
  <2>4. GapInv'
    BY <2>1 DEF FeedInv, GapInv, Serving, Known, Entitled, Overtaken
  <2>5. QED
    BY <2>2, <2>3, <2>4 DEF Flow
<1>5. QED
  BY <1>1, <1>2, <1>3, <1>4

LEMMA ReceiveStep ==
  ASSUME TypeOK, FeedInv, Receive
  PROVE  Flow'
<1>1. /\ wire # <<>> /\ wire' = Tail(wire) /\ lastSeq' = Head(wire).n
      /\ log' = Append(log, Head(wire))
      /\ UNCHANGED <<epoch, seq, socket, stage, asked, todo, queue, missed>>
  BY DEF Receive, server, handlers
<1>2. wire \in Seq(Events) /\ log \in Seq(Events)
  BY TypedParts
<1> DEFINE h == Head(wire)
<1>3. h \in Events /\ (\A e : In(e, wire) <=> e = h \/ In(e, wire'))
  BY <1>1, <1>2, TailOf
<1>4. InOrder(wire') /\ \A e : In(e, wire') => Before(h, e)
  BY <1>1, <1>2, TailInOrder DEF FeedInv, OrderInv
<1>5. \A e \in Events : In(e, log) => Before(e, h)
  BY <1>3 DEF FeedInv, OrderInv
<1>6. /\ InOrder(log') /\ (\A e : In(e, log') <=> In(e, log) \/ e = h)
      /\ log' # <<>> /\ log'[Len(log')] = h
  BY <1>1, <1>2, <1>3, <1>5, AppendTo, AppendInOrder DEF FeedInv, OrderInv
<1>7. SocketInv'
  BY <1>1, <1>6 DEF FeedInv, SocketInv
<1>8. \A e : In(e, log') \/ In(e, wire') <=> In(e, log) \/ In(e, wire)
  BY <1>3, <1>6
<1> HIDE DEF h
<1>9. NumberInv'
  BY <1>1, <1>8 DEF FeedInv, NumberInv, Given, Pending
<1>10. OrderInv'
  BY <1>1, <1>3, <1>4, <1>6, <1>8 DEF FeedInv, OrderInv, Pending, Event
<1>11. \A e : Known(e)' <=> Known(e)
  BY <1>1, <1>8 DEF Known, Entitled
<1>12. \A e : Overtaken(e, log)' \/ Overtaken(e, wire)' => Overtaken(e, log) \/ Overtaken(e, wire)
  BY <1>8 DEF Overtaken
<1>13. GapInv'
  BY <1>1, <1>11, <1>12 DEF FeedInv, GapInv, Serving, Pending, Event
<1>14. QED
  BY <1>7, <1>9, <1>10, <1>13 DEF Flow


(* A new number is greater than all before it: it goes to the end of the    *)
(* page's queue, or is let go.                                              *)
LEMMA PublishStep ==
  ASSUME TypeOK, FeedInv, Publish
  PROVE  Flow'
<1> USE TypedParts
<1>0. PICK n \in Nat : n = seq + 1
  OBVIOUS
<1>1. /\ seq' = n /\ seq < MaxEvents /\ missed' = missed \cup LetGo(n)
      /\ UNCHANGED <<epoch, stage, asked, todo, socket, wire, lastSeq, log>>
      /\ \A c \in Connections : queue'[c] = IF stage[c] = "live" THEN Offer(queue[c], n) ELSE queue[c]
  BY <1>0 DEF Publish, browser, TypeOK
<1>2. n \in Numbers /\ n \in Nat
  BY <1>0, <1>1, FeedAssumption DEF Numbers, TypeOK
<1>3. SocketInv'
  BY <1>1 DEF FeedInv, SocketInv
<1>4. \A e \in Events : In(e, log) \/ In(e, wire) => Given(e) /\ Before(e, Event(n))
  BY <1>0, <1>2 DEF FeedInv, NumberInv, Given, Before, Event
<1>5. \A e : Known(e) => Known(e)'
  BY <1>1 DEF Known, Entitled
<1>6. \A k : Event(k)' = Event(k)
  BY <1>1 DEF Event
<1>7. CASE socket = NoConn
  BY <1>0, <1>1, <1>3, <1>4, <1>5, <1>7
     DEF Flow, FeedInv, NumberInv, OrderInv, GapInv, Serving, Overtaken, Given
<1>8. CASE socket # NoConn
  <2>1. socket \in Connections
    BY <1>8 DEF TypeOK
  <2> DEFINE q == queue[socket]
  <2>2. q \in Seq(Numbers) /\ q \in Seq(Nat) /\ todo[socket] \in Seq(Numbers)
    BY <2>1
  <2>3. \A k \in Nat : In(k, q) => k < n
    <3>1. \A k \in Nat : In(k, q) => k \in Numbers
      BY <2>2, InType
    <3>2. QED
      BY <1>0, <1>8, <3>1 DEF FeedInv, NumberInv, Pending
  <2>4. Rising(Append(q, n)) /\ \A k : In(k, Append(q, n)) <=> In(k, q) \/ k = n
    BY <1>2, <1>8, <2>2, <2>3, AppendTo, AppendRises DEF FeedInv, OrderInv
  <2>5. \/ queue'[socket] = q
        \/ queue'[socket] = Append(q, n)
    BY <1>1, <2>1 DEF Offer
  <2>6. /\ Rising(queue'[socket]) /\ Rising(todo'[socket])
        /\ \A k : Pending(k)' => Pending(k) \/ k = n
        /\ \A k : Pending(k) => Pending(k)'
    BY <1>1, <1>8, <2>4, <2>5 DEF FeedInv, OrderInv, Pending
  <2>7. NumberInv'
    BY <1>0, <1>1, <1>2, <1>4, <1>8, <2>6 DEF FeedInv, NumberInv, Given
  <2>8. OrderInv'
    BY <1>1, <1>2, <1>4, <1>6, <1>8, <2>6 DEF FeedInv, OrderInv
  <2>9. ASSUME Serving  PROVE Known(Event(n))' \/ Pending(n)'
    <3>1. CASE stage[socket] = "live" /\ Len(q) < QUEUE
      BY <1>1, <2>1, <2>4, <3>1 DEF Offer, Pending
    <3>2. CASE ~ (stage[socket] = "live" /\ Len(q) < QUEUE)
      <4>1. PICK why \in {"window", "full"} : LetGo(n) = Lost({n}, why)
        BY <1>0, <1>8, <2>2, <2>9, <3>2, LenProperties, FeedAssumption DEF LetGo, Serving
      <4>2. [event |-> Event(n), why |-> why] \in missed' /\ why \in Reasons
        BY <1>1, <4>1 DEF Lost, Reasons
      <4>3. QED
        BY <4>2, <1>6 DEF Known, Entitled
    <3>3. QED
      BY <3>1, <3>2
  <2>10. GapInv'
    <3>1. \A e \in Events : Overtaken(e, log)' \/ Overtaken(e, wire)' => Known(e)'
      BY <1>1, <1>5 DEF FeedInv, GapInv, Overtaken
    <3>2. ASSUME Serving', NEW k \in Numbers, k <= seq'  PROVE (Known(Event(k)) \/ Pending(k))'
      <4>1. Serving
        BY <1>1, <3>2 DEF Serving
      <4>2. CASE k = n
        BY <4>1, <4>2, <2>9, <1>6
      <4>3. CASE k # n
        <5>1. k <= seq
          BY <1>0, <1>1, <3>2, <4>3
        <5>2. QED
          BY <1>5, <1>6, <2>6, <4>1, <5>1 DEF FeedInv, GapInv
      <4>4. QED
        BY <4>2, <4>3
    <3>3. QED
      BY <3>1, <3>2 DEF GapInv
  <2>11. QED
    BY <1>3, <2>7, <2>8, <2>10 DEF Flow
<1>9. QED
  BY <1>7, <1>8

(* What the handler of the page begins with continues what the page has.    *)
LEMMA BeginStep ==
  ASSUME TypeOK, FeedInv, NEW c \in Connections, Begin(c)
  PROVE  Flow'
<1> USE TypedParts
<1> DEFINE list == IF asked[c] = 0 THEN <<>> ELSE CatchUp(asked[c])
<1>1. /\ stage[c] = "accepting"
      /\ stage'[c] = IF list = <<>> THEN "live" ELSE "replaying"
      /\ todo'[c] = list
      /\ missed' = IF c = socket THEN missed \cup OutOfReach ELSE missed
      /\ UNCHANGED <<epoch, seq, queue, socket, wire, lastSeq, log>>
      /\ \A d \in Connections \ {c} : stage'[d] = stage[d] /\ asked'[d] = asked[d]
                                        /\ todo'[d] = todo[d]
  BY DEF Begin, server, browser, TypeOK
<1>2. CASE c # socket
  BY <1>1, <1>2, Frame DEF TypeOK
<1>3. CASE c = socket
  <2>1. /\ socket # NoConn /\ wire = <<>> /\ asked[c] = lastSeq /\ queue[c] = <<>>
    BY <1>1, <1>3 DEF FeedInv, SocketInv, StageInv, Connections, NoConn
  <2>2. /\ Rising(list)
        /\ \A n \in Nat : In(n, list) <=> lastSeq # 0 /\ lastSeq < n /\ Evicted < n /\ n <= seq
    <3>1. CASE asked[c] = 0
      BY <2>1, <3>1, NothingIn
    <3>2. CASE asked[c] # 0
      BY <2>1, <3>2, CatchUpFacts
    <3>3. QED
      BY <3>1, <3>2
  <2>3. \A n : Pending(n)' <=> In(n, list)
    BY <1>1, <1>3, <2>1, NothingIn DEF Pending
  <2>4. \A e : ~ In(e, wire)
    BY <2>1, NothingIn
  <2>5. SocketInv'
    BY <1>1, <1>3, <2>1 DEF FeedInv, SocketInv
  <2>6. NumberInv'
    BY <1>1, <2>2, <2>3 DEF FeedInv, NumberInv, Given
  <2>7. ASSUME lastSeq # 0
        PROVE  /\ log # <<>> /\ log[Len(log)] \in Events /\ log[Len(log)].n = lastSeq
               /\ In(log[Len(log)], log)
               /\ \A e \in Events : In(e, log) => e = log[Len(log)] \/ Before(e, log[Len(log)])
    <3>1. log # <<>> /\ log[Len(log)].n = lastSeq
      BY <2>7 DEF FeedInv, SocketInv
    <3>2. Len(log) \in Nat \ {0}
      BY <3>1, EmptySeq, LenProperties
    <3>3. Len(log) \in 1 .. Len(log) /\ log[Len(log)] \in Events
      BY <3>2, ElementOfSeq
    <3>4. ASSUME NEW i \in 1 .. Len(log)
          PROVE  log[i] = log[Len(log)] \/ Before(log[i], log[Len(log)])
      <4>1. CASE i = Len(log)
        BY <4>1
      <4>2. CASE i # Len(log)
        BY <3>2, <3>3, <4>2 DEF FeedInv, OrderInv, InOrder
      <4>3. QED
        BY <4>1, <4>2
    <3>5. QED
      BY <3>1, <3>3, <3>4 DEF In
  <2>8. OrderInv'
    <3>1. ASSUME NEW n \in Numbers, In(n, list), NEW e \in Events, In(e, log)
          PROVE  Before(e, Event(n))
      <4>1. lastSeq # 0 /\ lastSeq < n
        BY <2>2, <3>1
      <4>2. e.n <= lastSeq \/ e.epoch < log[Len(log)].epoch
        BY <2>7, <3>1, <4>1 DEF Before
      <4>3. Given(e) /\ Given(log[Len(log)])
        BY <2>7, <3>1, <4>1 DEF FeedInv, NumberInv
      <4>4. /\ log[Len(log)] \in Events /\ log[Len(log)].n = lastSeq
            /\ log[Len(log)].epoch <= epoch
        BY <2>7, <4>1, <4>3 DEF Given
      <4>5. Event(n).epoch = epoch /\ Event(n).n = n
        BY DEF Event
      <4>6. e.epoch < epoch \/ (e.epoch = epoch /\ e.n < n)
        BY <3>1, <4>1, <4>2, <4>3, <4>4 DEF Given
      <4>7. QED
        BY <4>5, <4>6 DEF Before
    <3>2. \A n : Event(n)' = Event(n)
      BY <1>1 DEF Event
    <3>3. Rising(todo'[socket]) /\ Rising(queue'[socket])
      BY <1>1, <1>3, <2>1, <2>2, NothingIn
    <3> HIDE DEF list
    <3>4. QED
      BY <1>1, <2>1, <2>3, <2>4, <3>1, <3>2, <3>3 DEF FeedInv, OrderInv
  <2>9. ASSUME NEW n \in Numbers, n <= seq  PROVE Known(Event(n))' \/ In(n, list)
    <3>1. seq \in Nat /\ Evicted \in Int /\ n \in 1 .. seq
      BY <2>9, FeedAssumption DEF Evicted, Numbers
    <3>2. ASSUME NEW why \in Reasons, NEW ns, n \in ns, Lost(ns, why) \subseteq missed'
          PROVE  Known(Event(n))'
      <4>1. [event |-> Event(n), why |-> why] \in missed'
        BY <3>2 DEF Lost
      <4>2. Event(n)' = Event(n)
        BY <1>1 DEF Event
      <4>3. QED
        BY <4>1, <4>2 DEF Known, Entitled
    <3>3. {"fresh", "evicted", "restarted"} \subseteq Reasons
      BY DEF Reasons
    <3>4. CASE lastSeq = 0
      <4>1. Lost(1 .. seq, "fresh") \subseteq missed'
        BY <1>1, <1>3, <3>4 DEF OutOfReach
      <4>2. QED
        BY <3>1, <3>2, <3>3, <4>1
    <3>5. CASE lastSeq # 0 /\ lastSeq < n
      <4>1. CASE n <= Evicted
        <5>1. n \in lastSeq + 1 .. Evicted
          BY <3>1, <3>5, <4>1
        <5>2. Lost(lastSeq + 1 .. Evicted, "evicted") \subseteq missed'
          BY <1>1, <1>3, <3>5 DEF OutOfReach
        <5>3. QED
          BY <3>2, <3>3, <5>1, <5>2
      <4>2. CASE Evicted < n
        BY <2>2, <2>9, <3>5, <4>2
      <4>3. QED
        BY <3>1, <4>1, <4>2
    <3>6. CASE lastSeq # 0 /\ n <= lastSeq
      <4>1. CASE log[Len(log)].epoch = epoch
        <5>1. CASE n = lastSeq
          <6>1. Event(n) = log[Len(log)]
            BY <2>7, <3>6, <4>1, <5>1 DEF Event, Events
          <6>2. QED
            <7>1. In(Event(n), log)
              BY <2>7, <3>6, <6>1
            <7>2. QED
              BY <1>1, <7>1 DEF Known, Event
        <5>2. CASE n # lastSeq
          <6>1. Overtaken(Event(n), log)
            <7>1. /\ log[Len(log)] \in Events /\ In(log[Len(log)], log)
                  /\ log[Len(log)].n > n /\ log[Len(log)].epoch = epoch
              BY <2>7, <3>6, <4>1, <5>2
            <7>2. Event(n).epoch = epoch /\ Event(n).n = n
              BY DEF Event
            <7>3. QED
              BY <7>1, <7>2 DEF Overtaken
          <6>2. Known(Event(n))
            BY <6>1 DEF FeedInv, GapInv
          <6>3. QED
            BY <1>1, <6>2 DEF Known, Entitled, Event
        <5>3. QED
          BY <5>1, <5>2
      <4>2. CASE log[Len(log)].epoch # epoch
        <5>1. n \in {k \in 1 .. seq : k =< lastSeq}
          BY <3>1, <3>6
        <5>2. Lost({k \in 1 .. seq : k =< lastSeq}, "restarted") \subseteq missed'
          BY <1>1, <1>3, <3>6, <4>2 DEF OutOfReach
        <5>3. QED
          BY <3>2, <3>3, <5>1, <5>2
      <4>3. QED
        BY <4>1, <4>2
    <3>7. QED
      BY <3>4, <3>5, <3>6
  <2>10. GapInv'
    <3>1. \A e : Known(e) => Known(e)'
      BY <1>1 DEF Known, Entitled
    <3>2. \A n : Event(n)' = Event(n)
      BY <1>1 DEF Event
    <3> HIDE DEF list
    <3>3. QED
      BY <1>1, <2>3, <2>9, <3>1, <3>2 DEF FeedInv, GapInv, Overtaken
  <2>11. QED
    BY <2>5, <2>6, <2>8, <2>10 DEF Flow
<1>4. QED
  BY <1>2, <1>3


(* A send takes the first of what is pending, all of which is of the        *)
(* present process, and puts it on the wire.                               *)
LEMMA SendStep ==
  ASSUME TypeOK, FeedInv, NEW c \in Connections, SendReplay(c) \/ SendLive(c)
  PROVE  Flow'
<1> USE TypedParts
<1>1. /\ stage[c] \in {"replaying", "live"}
      /\ UNCHANGED <<epoch, seq, stage, asked, socket, lastSeq, log, missed>>
      /\ c # socket => wire' = wire
      /\ \A d \in Connections \ {c} : todo'[d] = todo[d] /\ queue'[d] = queue[d]
  BY DEF SendReplay, SendLive, Transmit, server, history, TypeOK
<1>2. CASE c # socket
  BY <1>1, <1>2, Frame DEF TypeOK
<1>3. CASE c = socket
  <2>0. socket # NoConn
    BY <1>3 DEF Connections, NoConn
  <2>1. PICK s \in Seq(Numbers) :
          /\ s # <<>> /\ Rising(s)
          /\ wire' = Append(wire, Event(Head(s)))
          /\ \/ /\ s = todo[socket] /\ todo'[socket] = Tail(s)
                /\ queue[socket] = <<>> /\ queue'[socket] = <<>>
             \/ /\ s = queue[socket] /\ queue'[socket] = Tail(s)
                /\ todo[socket] = <<>> /\ todo'[socket] = <<>>
    <3>1. CASE SendReplay(c)
      <4>1. /\ todo[c] \in Seq(Numbers) /\ todo[c] # <<>> /\ queue[c] = <<>> /\ queue'[c] = <<>>
            /\ todo'[c] = Tail(todo[c]) /\ wire' = Append(wire, Event(Head(todo[c])))
            /\ Rising(todo[c])
        BY <1>3, <2>0, <3>1 DEF SendReplay, Transmit, TypeOK, FeedInv, StageInv, OrderInv
      <4>2. QED
        BY <1>3, <4>1
    <3>2. CASE SendLive(c)
      <4>1. /\ queue[c] \in Seq(Numbers) /\ queue[c] # <<>> /\ todo[c] = <<>> /\ todo'[c] = <<>>
            /\ queue'[c] = Tail(queue[c]) /\ wire' = Append(wire, Event(Head(queue[c])))
            /\ Rising(queue[c])
        BY <1>3, <2>0, <3>2 DEF SendLive, Transmit, TypeOK, FeedInv, StageInv, OrderInv
      <4>2. QED
        BY <1>3, <4>1
    <3>3. QED
      BY <3>1, <3>2
  <2>2. PICK n \in Numbers : n = Head(s)
    BY <2>1, TailOf
  <2>3. /\ \A k : In(k, s) <=> k = n \/ In(k, Tail(s))
        /\ Tail(s) \in Seq(Numbers) /\ s \in Seq(Nat)
    BY <2>1, <2>2, TailOf, SeqMonotonic
  <2>4. Rising(Tail(s)) /\ \A k \in Nat : In(k, Tail(s)) => n < k
    BY <2>1, <2>2, <2>3, TailRises
  <2>5. /\ \A k : Pending(k) <=> k = n \/ Pending(k)'
        /\ \A k \in Nat : Pending(k)' => n < k
        /\ Rising(todo'[socket]) /\ Rising(queue'[socket])
    BY <1>1, <2>1, <2>3, <2>4, NothingIn DEF Pending
  <2>6. Pending(n) /\ n \in Nat /\ n <= seq
    BY <2>0, <2>2, <2>5 DEF FeedInv, NumberInv
  <2>7. /\ \A e : In(e, wire') <=> In(e, wire) \/ e = Event(n)
        /\ wire' = Append(wire, Event(n)) /\ wire \in Seq(Events) /\ Event(n) \in Events
    BY <2>1, <2>2, AppendTo
  <2>8. \A e \in Events : In(e, log) \/ In(e, wire) => Before(e, Event(n))
    BY <2>0, <2>6 DEF FeedInv, OrderInv
  <2>9. \A k : Event(k)' = Event(k) /\ Event(k).epoch = epoch /\ Event(k).n = k
    BY <1>1 DEF Event
  <2>10. SocketInv'
    BY <1>1, <1>3, <2>0 DEF FeedInv, SocketInv
  <2>11. NumberInv'
    BY <1>1, <2>0, <2>5, <2>6, <2>7, <2>9 DEF FeedInv, NumberInv, Given
  <2>12. OrderInv'
    <3>1. InOrder(wire')
      BY <2>7, <2>8, AppendInOrder DEF FeedInv, OrderInv
    <3>2. \A k \in Numbers : Pending(k)' => Before(Event(n), Event(k))
      BY <2>5, <2>9 DEF Before
    <3>3. \A k \in Numbers, e \in Events :
            Pending(k)' /\ (In(e, log) \/ In(e, wire')) => Before(e, Event(k))
      BY <2>0, <2>5, <2>7, <3>2 DEF FeedInv, OrderInv
    <3>4. \A e, f \in Events : In(e, log) /\ In(f, wire') => Before(e, f)
      BY <2>7, <2>8 DEF FeedInv, OrderInv
    <3>5. QED
      BY <1>1, <2>5, <2>9, <3>1, <3>3, <3>4 DEF FeedInv, OrderInv
  <2>13. GapInv'
    <3>1. \A e : Known(e) \/ e = Event(n) <=> Known(e)'
      BY <1>1, <2>7 DEF Known, Entitled
    <3>2. ASSUME NEW e \in Events, e.epoch = epoch, e.n < n  PROVE Known(e)
      <4>1. e = Event(e.n) /\ e.n \in Numbers
        BY <3>2, <2>9 DEF Events, Event
      <4>2. Serving /\ e.n <= seq
        BY <1>1, <1>3, <2>0, <2>6, <3>2 DEF Serving
      <4>3. ~ Pending(e.n)
        BY <2>5, <3>2
      <4>4. QED
        BY <4>1, <4>2, <4>3 DEF FeedInv, GapInv
    <3>3. ASSUME NEW e \in Events, Overtaken(e, log)' \/ Overtaken(e, wire)'  PROVE Known(e)'
      <4>1. CASE Overtaken(e, log) \/ Overtaken(e, wire)
        BY <3>1, <4>1 DEF FeedInv, GapInv
      <4>2. CASE ~ (Overtaken(e, log) \/ Overtaken(e, wire))
        <5>1. e.epoch = epoch /\ e.n < n
          BY <1>1, <2>7, <2>9, <3>3, <4>2 DEF Overtaken
        <5>2. QED
          BY <3>1, <3>2, <5>1
      <4>3. QED
        BY <4>1, <4>2
    <3>4. QED
      BY <1>1, <2>5, <2>9, <3>1, <3>3 DEF FeedInv, GapInv, Serving
  <2>14. QED
    BY <2>10, <2>11, <2>12, <2>13 DEF Flow
<1>4. QED
  BY <1>2, <1>3

LEMMA RegisterStep ==
  ASSUME TypeOK, FeedInv, NEW c \in Connections, Register(c)
  PROVE  Flow'
<1>1. /\ stage[c] = "replaying" /\ stage'[c] = "live"
      /\ \A d \in Connections \ {c} : stage'[d] = stage[d]
      /\ UNCHANGED <<epoch, seq, asked, todo, queue, socket, wire, lastSeq, log, missed>>
  BY DEF Register, server, browser, history, TypeOK
<1>2. CASE c # socket
  BY <1>1, <1>2, Frame DEF TypeOK
<1>3. CASE c = socket
  <2>1. SocketInv' /\ NumberInv' /\ OrderInv'
    BY <1>1, <1>3 DEF FeedInv, SocketInv, NumberInv, OrderInv, Given, Pending, Event
  <2>2. Serving /\ (\A e : Known(e)' <=> Known(e)) /\ (\A n : Event(n)' = Event(n))
        /\ \A n : Pending(n)' <=> Pending(n)
    BY <1>1, <1>3 DEF Serving, Known, Entitled, Event, Pending, Connections, NoConn
  <2>3. GapInv'
    BY <1>1, <2>2 DEF FeedInv, GapInv, Overtaken
  <2>4. QED
    BY <2>1, <2>3 DEF Flow
<1>4. QED
  BY <1>2, <1>3

-----------------------------------------------------------------------------
(* Theorems *)

LEMMA InitFeed == Init => FeedInv
<1> SUFFICES ASSUME Init PROVE FeedInv
  OBVIOUS
<1>1. EpochInv /\ StageInv /\ SocketInv
  BY DEF Init, EpochInv, StageInv, SocketInv
<1>2. NumberInv /\ OrderInv /\ GapInv
  BY NothingIn DEF Init, NumberInv, OrderInv, GapInv, Serving
<1>3. QED
  BY <1>1, <1>2 DEF FeedInv

LEMMA FeedStep ==
  ASSUME TypeOK, FeedInv, [Next]_vars
  PROVE  FeedInv'
<1>1. EpochInv'
  BY TypeStep DEF FeedInv
<1>2. CASE Next
  <2>1. StageInv'
    BY <1>2, StageStep
  <2>2. ASSUME NEW c \in Connections, Notice(c)  PROVE Flow'
    <3>1. /\ c # socket /\ UNCHANGED <<epoch, seq, socket, wire, lastSeq, log, missed>>
          /\ \A d \in Connections \ {c} : stage'[d] = stage[d] /\ asked'[d] = asked[d]
                                            /\ todo'[d] = todo[d] /\ queue'[d] = queue[d]
      BY <2>2 DEF Notice, server, browser, history, TypeOK
    <3>2. QED
      BY <3>1, Frame DEF TypeOK
  <2>3. Flow'
    BY <1>2, <2>2, SocketStep, ReceiveStep, PublishStep, BeginStep, SendStep, RegisterStep
       DEF Next, Handler
  <2>4. QED
    BY <1>1, <2>1, <2>3 DEF FeedInv, Flow
<1>3. CASE UNCHANGED vars
  <2>1. UNCHANGED <<epoch, seq, stage, asked, todo, queue, socket, wire, lastSeq, log, missed>>
    BY <1>3 DEF vars, server, handlers, browser, history
  <2>2. StageInv'
    BY <2>1 DEF FeedInv, StageInv
  <2>3. QED
    BY <1>1, <2>1, <2>2, Frame DEF FeedInv, Flow
<1>4. QED
  BY <1>2, <1>3

LEMMA FeedAlways == Spec => [](TypeOK /\ FeedInv)
<1>1. Init => TypeOK /\ FeedInv
  BY InitType, InitFeed
<1>2. TypeOK /\ FeedInv /\ [Next]_vars => (TypeOK /\ FeedInv)'
  BY TypeStep, FeedStep DEF FeedInv
<1>3. QED
  BY <1>1, <1>2, PTL DEF Spec

(* Every variable keeps its type, for any bounds: queues and replays stay   *)
(* within their sizes (SUBSCRIBER_QUEUE_SIZE, EVENT_BUFFER_SIZE).          *)
THEOREM TypeCorrect == Spec => []TypeOK
  BY FeedAlways, PTL

(* Whatever sockets are lost, pages reopened and processes restarted, a     *)
(* page receives no event twice and none out of order (catch_up).           *)
THEOREM OrderKept == Spec => []InOrderOnce
<1>1. TypeOK /\ FeedInv => InOrderOnce
  BY DEF FeedInv, OrderInv, InOrder, Before, InOrderOnce
<1>2. QED
  BY <1>1, FeedAlways, PTL

(* And what it skips is skipped for one of the reasons the feed has         *)
(* (_ProjectChannel.publish and catch_up; project_events_ws in realtime.py). *)
THEOREM GapsExplained == Spec => []SkippedForAReason
<1>1. ASSUME TypeOK, FeedInv  PROVE SkippedForAReason
  <2> SUFFICES ASSUME NEW e \in Events, Passed(e)
               PROVE  Received(e) \/ Entitled(e, Reasons)
    BY DEF SkippedForAReason
  <2>1. PICK i \in 1 .. Len(log) : log[i].epoch = e.epoch /\ log[i].n > e.n
    BY DEF Passed
  <2>2. log[i] \in Events /\ In(log[i], log)
    BY <1>1, TypedParts, ElementOfSeq DEF In
  <2>3. Known(e)
    BY <1>1, <2>1, <2>2 DEF FeedInv, GapInv, Overtaken
  <2>4. ~ In(e, wire)
    BY <1>1, <2>1, <2>2, TypedParts DEF FeedInv, OrderInv, Before
  <2>5. QED
    BY <2>3, <2>4 DEF Known, Received, In
<1>2. QED
  BY <1>1, FeedAlways, PTL

=============================================================================
