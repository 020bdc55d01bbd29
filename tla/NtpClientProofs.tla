--------------------------- MODULE NtpClientProofs ---------------------------
(***************************************************************************)
(* Proofs about NtpClient, for every delay of the network and of the name  *)
(* service, every window and every width of the counters.                  *)
(***************************************************************************)
EXTENDS NtpClient, Modular

\* The network carries nothing for longer than Delay.
InTransit == \A t \in asked \cup net : clock - t <= Delay

\* What the socket holds has come since the call discarded what it held.
Queued ==
    phase # "idle" /\ ~halted =>
      \A i \in 1..Len(queue) : queue[i] \notin Small =>
                                  called - Delay <= queue[i]

\* The call is within the look-up, or within a pass that began in the window.
InTime ==
    /\ phase = "resolving" => clock - called <= Dns
    /\ phase \in {"waiting", "polling"} =>
         /\ called <= sent /\ sent - called <= Dns /\ begin_wait = sent % Wrap
         /\ sent <= tested /\ tested - sent < Window
         /\ clock - tested <= Lag

IInv == TypeOK /\ InTransit /\ Queued /\ InTime

-----------------------------------------------------------------------------
\* What the constants are.
LEMMA Widths ==
  /\ Span \in Nat \ {0} /\ Wrap \in Nat \ {0} /\ Era \in Int
  /\ Window \in Nat \ {0} /\ Lag \in Nat /\ Window + Lag <= Wrap
  /\ Delay \in Nat /\ Dns \in Nat /\ Small \cap Nat = {}
  BY NtpAssumption DEF Small

\* The difference of two readings of millis() is the time between them.
LEMMA WaitMeasured ==
  ASSUME TypeOK, InTime, phase = "waiting"
  PROVE  Waiting <=> clock - sent < Window
  <1>1. /\ clock \in Nat /\ sent \in 0..clock /\ clock - sent < Wrap
        /\ begin_wait = sent % Wrap
    BY Widths DEF TypeOK, Times, InTime
  <1>2. /\ clock \in Int /\ sent \in Int /\ clock - sent \in Int
        /\ clock % Wrap \in Int /\ -sent \in Int
    BY <1>1, Widths, DivMod
  <1>3. ((clock % Wrap) - (sent % Wrap)) % Wrap
          = ((clock % Wrap) - sent) % Wrap
    BY <1>2, Widths, ModDifference
  <1>4. ((clock % Wrap) + -sent) % Wrap = (clock + -sent) % Wrap
    BY <1>2, Widths, ModSum
  <1>5. /\ (clock % Wrap) + -sent = (clock % Wrap) - sent
        /\ clock + -sent = clock - sent
    BY <1>2
  <1>6. (clock - sent) % Wrap = clock - sent
    <2>1. clock - sent \in 0..(Wrap - 1)
      BY <1>1, Widths
    <2> QED
      BY <2>1, Widths, ModSmall
  <1> QED
    BY <1>1, <1>3, <1>4, <1>5, <1>6 DEF Waiting

\* The first datagram of the queue, and the rest.
LEMMA Dequeued ==
  ASSUME NEW S, NEW s \in Seq(S), s # <<>>
  PROVE  /\ 1 \in 1..Len(s) /\ Head(s) = s[1] /\ Head(s) \in S
         /\ Tail(s) \in Seq(S)
         /\ \A i \in 1..Len(Tail(s)) : /\ i + 1 \in 1..Len(s)
                                       /\ Tail(s)[i] = s[i + 1]
  OBVIOUS

\* The seconds of a stamp are those it was made of, modulo its width.
LEMMA SecondsOfStamp ==
  ASSUME NEW t \in Int
  PROVE  Seconds(Stamp(t)) = t % Span /\ t % Span \in 0..(Span - 1)
  <1>1. t + Era \in Int /\ -Era \in Int
    BY Widths
  <1>2. (t + Era) % Span \in Int
    BY <1>1, Widths, DivMod
  <1>3. (((t + Era) % Span) + -Era) % Span = ((t + Era) + -Era) % Span
    BY <1>1, Widths, ModSum
  <1>4. (t + Era) + -Era = t
    BY Widths
  <1>5. ((t + Era) % Span) + -Era = ((t + Era) % Span) - Era
    BY <1>2, Widths
  <1>6. t % Span \in 0..(Span - 1)
    BY Widths, DivMod
  <1> QED
    BY <1>3, <1>4, <1>5, <1>6 DEF Seconds, Stamp

-----------------------------------------------------------------------------
LEMMA InitInvariant == Init => IInv
  <1> SUFFICES ASSUME Init PROVE IInv
    OBVIOUS
  <1>1. queue \in Seq(Times \cup Small)
    BY DEF Init
  <1>2. TypeOK
    <2>1. halted \in BOOLEAN /\ heard \in BOOLEAN
      BY DEF Init
    <2> QED
      BY <1>1, <2>1, Widths DEF Init, TypeOK, Times
  <1>3. InTransit /\ Queued /\ InTime
    BY DEF Init, InTransit, Queued, InTime
  <1> QED
    BY <1>2, <1>3 DEF IInv

LEMMA CallStep ==
  ASSUME IInv, Call
  PROVE  IInv'
  <1>1. /\ phase' = "resolving" /\ called' = clock /\ heard' = FALSE
        /\ clock' = clock /\ begin_wait' = begin_wait /\ answer' = answer
        /\ sent' = sent /\ tested' = tested /\ asked' = asked /\ net' = net
    BY DEF Call, Begin
  <1>2. queue \in Seq(Times \cup Small) /\ Times' = Times
    BY <1>1 DEF IInv, TypeOK, Times
  <1>3. queue' \in Seq(Times \cup Small)
    <2>1. CASE queue' = <<>>
      BY <2>1
    <2>2. ASSUME NEW i \in DOMAIN queue,
                 queue' = SubSeq(queue, i + 1, Len(queue))
          PROVE  queue' \in Seq(Times \cup Small)
      <3>1. i + 1 \in 1..(Len(queue) + 1)
        BY <1>2
      <3> QED
        BY <1>2, <2>2, <3>1
    <2> QED
      BY <2>1, <2>2 DEF Call
  <1>4. TypeOK'
    <2>1. halted' \in BOOLEAN
      BY DEF Call
    <2>2. heard' \in BOOLEAN
      BY <1>1
    <2> QED
      BY <1>1, <1>2, <1>3, <2>1, <2>2 DEF IInv, TypeOK, Times
  <1>5. ~halted' => Len(queue') = 0
    BY DEF Call
  <1>6. InTransit' /\ Queued'
    BY <1>1, <1>5 DEF IInv, InTransit, Queued
  <1>7. InTime'
    BY <1>1, Widths DEF IInv, InTime, TypeOK
  <1> QED
    BY <1>4, <1>6, <1>7 DEF IInv

LEMMA SendStep ==
  ASSUME IInv, NEW found \in BOOLEAN, Send(found)
  PROVE  IInv'
  <1>1. /\ phase = "resolving" /\ phase' = "waiting"
        /\ begin_wait' = clock % Wrap /\ sent' = clock /\ tested' = clock
        /\ asked' \subseteq asked \cup {clock}
        /\ clock' = clock /\ answer' = answer /\ called' = called
        /\ queue' = queue /\ net' = net /\ heard' = heard
        /\ halted' = halted
    BY DEF Send
  <1>2. clock \in Nat /\ called \in 0..clock /\ clock - called <= Dns
    BY <1>1 DEF IInv, TypeOK, Times, InTime
  <1>3. clock % Wrap \in 0..(Wrap - 1)
    BY <1>2, Widths, DivMod
  <1>4. TypeOK'
    BY <1>1, <1>2, <1>3 DEF IInv, TypeOK, Times
  <1>5. InTransit' /\ Queued'
    BY <1>1, <1>2, Widths DEF IInv, InTransit, Queued
  <1>6. InTime'
    BY <1>1, <1>2, Widths DEF InTime
  <1> QED
    BY <1>4, <1>5, <1>6 DEF IInv

\* A pass of the wait loop begins within the window.
LEMMA TestStep ==
  ASSUME IInv, Test
  PROVE  IInv'
  <1>1. /\ phase = "waiting" /\ phase' = "polling" /\ tested' = clock
        /\ UNCHANGED <<clock, begin_wait, answer, called, sent, halted, queue,
                       asked, net, heard>>
    BY DEF Test
  <1>2. clock - sent < Window
    BY <1>1, WaitMeasured DEF Test, IInv
  <1>3. clock \in Nat /\ sent \in 0..clock
    BY DEF IInv, TypeOK, Times
  <1>4. TypeOK'
    BY <1>1, <1>3 DEF IInv, TypeOK, Times
  <1>5. InTime'
    BY <1>1, <1>2, <1>3, Widths DEF IInv, InTime
  <1> QED
    BY <1>1, <1>4, <1>5 DEF IInv, InTransit, Queued

LEMMA AcceptStep ==
  ASSUME IInv, Accept
  PROVE  IInv'
  <1>1. /\ queue # <<>> /\ Head(queue) \notin Small /\ queue' = Tail(queue)
        /\ phase' = "idle" /\ answer' = Seconds(Stamp(Head(queue)))
        /\ begin_wait' = begin_wait /\ called' = called /\ sent' = sent
        /\ tested' = tested /\ halted' = halted
        /\ clock' = clock /\ asked' = asked /\ net' = net /\ heard' = heard
    BY DEF Accept, Return
  <1>2. Head(queue) \in 0..clock /\ Tail(queue) \in Seq(Times \cup Small)
    BY <1>1, Dequeued DEF IInv, TypeOK, Times
  <1>3. answer' \in 0..(Span - 1)
    <2>1. Head(queue) \in Int
      BY <1>2
    <2> QED
      BY <1>1, <2>1, SecondsOfStamp
  <1>4. TypeOK'
    BY <1>1, <1>2, <1>3 DEF IInv, TypeOK, Times
  <1> QED
    BY <1>1, <1>4 DEF IInv, InTransit, Queued, InTime

LEMMA SkipStep ==
  ASSUME IInv, Skip \/ FindNothing
  PROVE  IInv'
  <1>1. /\ phase = "polling" /\ phase' = "waiting"
        /\ UNCHANGED <<clock, begin_wait, answer, called, sent, tested, halted,
                       asked, net, heard>>
    BY DEF Skip, FindNothing
  <1>2. queue \in Seq(Times \cup Small)
    BY DEF IInv, TypeOK
  <1>3. queue' \in Seq(Times \cup Small) /\ Queued'
    <2>1. CASE queue' = queue
      BY <1>1, <1>2, <2>1 DEF IInv, Queued
    <2>2. CASE queue # <<>> /\ queue' = Tail(queue)
      BY <1>1, <1>2, <2>2, Dequeued DEF IInv, Queued
    <2> QED
      BY <2>1, <2>2 DEF Skip, FindNothing
  <1>4. TypeOK'
    BY <1>1, <1>3 DEF IInv, TypeOK, Times
  <1> QED
    BY <1>1, <1>3, <1>4 DEF IInv, InTransit, InTime

LEMMA GiveUpStep ==
  ASSUME IInv, GiveUp
  PROVE  IInv'
  BY Widths DEF GiveUp, Return, IInv, TypeOK, Times, InTransit, Queued, InTime

\* A server answers at the time the network carries its answer from.
LEMMA ServeStep ==
  ASSUME IInv, NEW q \in asked, Serve(q)
  PROVE  IInv'
  <1>1. /\ asked' \subseteq asked /\ net' = net \cup {clock}
        /\ UNCHANGED <<clock, call, queue, heard>>
    BY DEF Serve
  <1>2. TypeOK'
    BY <1>1 DEF IInv, TypeOK, Times, call
  <1>3. InTransit'
    BY <1>1, Widths DEF IInv, TypeOK, InTransit
  <1> QED
    BY <1>1, <1>2, <1>3 DEF IInv, Queued, InTime, call

\* An answer is at most Delay old when it reaches the socket.
LEMMA DeliverStep ==
  ASSUME IInv, NEW r \in net \cup Small, Len(queue) < Room,
         queue' = Append(queue, r), net' \subseteq net, heard' \in BOOLEAN,
         UNCHANGED <<clock, call, asked>>
  PROVE  IInv'
  <1>1. queue \in Seq(Times \cup Small) /\ r \in Times \cup Small
    BY DEF IInv, TypeOK
  <1>2. TypeOK'
    BY <1>1 DEF IInv, TypeOK, Times, call
  <1>3. InTransit'
    BY DEF IInv, InTransit
  <1>4. Queued'
    <2> SUFFICES ASSUME phase # "idle", ~halted, NEW i \in 1..Len(queue'),
                        queue'[i] \notin Small
                 PROVE  called - Delay <= queue'[i]
      BY DEF Queued, call
    <2>1. CASE i \in 1..Len(queue)
      <3>1. queue'[i] = queue[i]
        BY <1>1, <2>1
      <3> QED
        BY <2>1, <3>1 DEF IInv, Queued
    <2>2. CASE i = Len(queue) + 1
      <3>1. queue'[i] = r /\ r \in net
        BY <1>1, <2>2
      <3>2. /\ clock - r <= Delay /\ r \in 0..clock
            /\ clock \in Nat /\ called \in 0..clock
        BY <3>1 DEF IInv, TypeOK, Times, InTransit
      <3> QED
        BY <3>1, <3>2, Widths
    <2>3. Len(queue') = Len(queue) + 1 /\ Len(queue) \in Nat
      BY <1>1
    <2> QED
      BY <2>1, <2>2, <2>3
  <1> QED
    BY <1>2, <1>3, <1>4 DEF IInv, InTime, call

LEMMA LoseStep ==
  ASSUME IInv, Lose
  PROVE  IInv'
  <1>1. /\ asked' \subseteq asked /\ net' \subseteq net
        /\ UNCHANGED <<clock, call, queue, heard>>
    BY DEF Lose
  <1> QED
    BY <1>1 DEF IInv, TypeOK, Times, InTransit, Queued, InTime, call

\* A tick makes what is under way a tick older.
LEMMA ElapseStep ==
  ASSUME IInv, Elapse
  PROVE  IInv'
  <1>1. /\ clock' = clock + 1 /\ UNCHANGED <<call, queue, asked, net, heard>>
        /\ phase = "resolving" => clock - called < Dns
        /\ phase \in {"waiting", "polling"} => clock - tested < Lag
        /\ \A t \in asked \cup net : clock - t < Delay
    BY DEF Elapse
  <1>2. /\ clock \in Nat /\ called \in 0..clock /\ sent \in 0..clock
        /\ tested \in 0..clock
        /\ asked \subseteq 0..clock /\ net \subseteq 0..clock
        /\ queue \in Seq(0..clock \cup Small)
    BY DEF IInv, TypeOK, Times
  <1>3. TypeOK'
    <2>1. 0..clock \subseteq 0..(clock + 1)
      BY <1>2
    <2>2. queue \in Seq(0..(clock + 1) \cup Small)
      BY <1>2, <2>1
    <2> QED
      BY <1>1, <1>2, <2>1, <2>2 DEF IInv, TypeOK, Times, call
  <1>4. InTransit'
    BY <1>1, <1>2, Widths DEF InTransit
  <1>5. Queued'
    BY <1>1 DEF IInv, Queued, call
  <1>6. InTime'
    BY <1>1, <1>2, Widths DEF IInv, InTime, call
  <1> QED
    BY <1>3, <1>4, <1>5, <1>6 DEF IInv

-----------------------------------------------------------------------------
\* No step lets a datagram or a call outlive its bound.
LEMMA InvariantStep ==
  ASSUME IInv, [Next]_vars
  PROVE  IInv'
  <1>1. CASE Call
    BY <1>1, CallStep
  <1>2. CASE \E found \in BOOLEAN : Send(found)
    BY <1>2, SendStep
  <1>3. CASE Accept
    BY <1>3, AcceptStep
  <1>4. CASE Skip \/ FindNothing
    BY <1>4, SkipStep
  <1>5. CASE Test \/ GiveUp
    BY <1>5, TestStep, GiveUpStep
  <1>6. CASE \E q \in asked : Serve(q)
    BY <1>6, ServeStep
  <1>7. ASSUME NEW r \in net, Deliver(r)
        PROVE  IInv'
    <2>1. heard' \in BOOLEAN
      BY <1>7 DEF Deliver
    <2>2. net' \subseteq net /\ r \in net \cup Small
      BY <1>7 DEF Deliver
    <2> QED
      BY <1>7, <2>1, <2>2, DeliverStep DEF Deliver
  <1>8. ASSUME NEW d \in Small, DeliverSmall(d)
        PROVE  IInv'
    <2>1. heard' \in BOOLEAN /\ net' \subseteq net /\ d \in net \cup Small
      BY <1>8 DEF DeliverSmall, IInv, TypeOK
    <2> QED
      BY <1>8, <2>1, DeliverStep DEF DeliverSmall
  <1>9. CASE Lose
    BY <1>9, LoseStep
  <1>10. CASE Elapse
    BY <1>10, ElapseStep
  <1>11. CASE UNCHANGED vars
    BY <1>11 DEF IInv, TypeOK, Times, InTransit, Queued, InTime, vars,
                 call
  <1> QED
    BY <1>1, <1>2, <1>3, <1>4, <1>5, <1>6, <1>7, <1>8, <1>9, <1>10, <1>11
    DEF Next

THEOREM Invariance == Spec => []IInv
  BY InitInvariant, InvariantStep, PTL DEF Spec

\* No answer waits or travels that was asked for later than now, and no time
\* that a call keeps is later than now.
THEOREM TypeCorrect == Spec => []TypeOK
  <1>1. IInv => TypeOK
    BY DEF IInv
  <1> QED
    BY Invariance, <1>1, PTL

\* A call is over after the look-up and the window, wherever millis() wraps
\* and whatever arrives meanwhile.
THEOREM EndsInTime == Spec => []ReturnsInTime
  <1>1. IInv => ReturnsInTime
    <2> SUFFICES ASSUME IInv, phase # "idle"
                 PROVE  clock - called < Dns + Window + Lag
      BY DEF ReturnsInTime
    <2>1. /\ phase \in {"resolving", "waiting", "polling"} /\ clock \in Nat
          /\ called \in 0..clock /\ sent \in 0..clock /\ tested \in 0..clock
      BY DEF IInv, TypeOK, Times
    <2> QED
      BY <2>1, Widths DEF IInv, InTime
  <1> QED
    BY Invariance, <1>1, PTL

\* A time that is returned was right at most Delay before the call began, for
\* every pattern of losses, copies, delays and calls that gave up.
THEOREM FreshAnswers == Spec => AnswersAreFresh
  <1>1. ASSUME IInv, [Next]_vars, phase = "polling", phase' = "idle",
               answer' # 0, ~halted
        PROVE  \E t \in (called - Delay)..clock : answer' = t % Span
    <2>1. Accept
      BY <1>1 DEF Next, vars, call, Call, Begin, Send, Test, GiveUp, Skip,
                  FindNothing, Serve, Deliver, DeliverSmall, Lose, Elapse
    <2> DEFINE t == Head(queue)
    <2>2. queue # <<>> /\ t \notin Small /\ answer' = Seconds(Stamp(t))
      BY <2>1 DEF Accept, Return
    <2>3. /\ queue \in Seq(Times \cup Small) /\ clock \in Nat
          /\ called \in 0..clock
      BY <1>1 DEF IInv, TypeOK, Times
    <2>4. 1 \in 1..Len(queue) /\ t = queue[1] /\ t \in 0..clock
      BY <2>2, <2>3, Dequeued DEF Times
    <2>5. called - Delay <= t
      BY <1>1, <2>2, <2>4 DEF IInv, Queued
    <2>6. answer' = t % Span
      <3>1. t \in Int
        BY <2>4
      <3> QED
        BY <2>2, <3>1, SecondsOfStamp
    <2> HIDE DEF t
    <2>7. t \in (called - Delay)..clock
      BY <2>3, <2>4, <2>5, Widths
    <2> QED
      BY <2>6, <2>7
  <1>2. IInv /\ [Next]_vars =>
          [phase = "polling" /\ phase' = "idle" /\ answer' # 0 /\ ~halted
             => \E t \in (called - Delay)..clock : answer' = t % Span]_vars
    BY <1>1
  <1> QED
    BY Invariance, <1>2, PTL DEF Spec, AnswersAreFresh

-----------------------------------------------------------------------------
\* After n more datagrams, each taken in a pass as long as it may be, the
\* window is still open.
InWindow(n) ==
    CASE phase = "resolving" -> n * Lag < Window
      [] phase = "waiting"   -> (tested - sent) + n * Lag < Window
      [] phase = "polling"   -> (tested - sent) + (n - 1) * Lag < Window
      [] OTHER -> TRUE

\* The i-th datagram of the socket is large enough, and will be reached.
Reached(i) == queue[i] \notin Small /\ InWindow(i)

\* An answer that came in time is still in the socket.
Held == phase # "idle" /\ heard => \E i \in 1..Len(queue) : Reached(i)

\* One pass more takes at most Lag.
LEMMA OneMore ==
  ASSUME NEW n \in Nat \ {0}
  PROVE  /\ n * Lag \in Nat /\ (n - 1) * Lag \in Nat
         /\ n * Lag = (n - 1) * Lag + Lag
  <1>1. Lag \in Nat
    BY Widths
  <1> QED
    BY <1>1

\* The clocks of a call.
LEMMA Clocks ==
  ASSUME IInv
  PROVE  /\ clock \in Nat /\ sent \in 0..clock /\ tested \in 0..clock
         /\ Window \in Nat \ {0} /\ Lag \in Nat
         /\ queue \in Seq(Times \cup Small) /\ Len(queue) \in Nat
         /\ phase \in {"waiting", "polling"} => clock - tested <= Lag
  BY Widths DEF IInv, TypeOK, Times, InTime

LEMMA HeldSkip ==
  ASSUME IInv, Held, Skip
  PROVE  Held'
  <1> SUFFICES ASSUME heard PROVE \E i \in 1..Len(queue') : Reached(i)'
    BY DEF Held, Skip
  <1>1. /\ phase = "polling" /\ phase' = "waiting"
        /\ queue # <<>> /\ Head(queue) \in Small /\ queue' = Tail(queue)
        /\ tested' = tested /\ sent' = sent
    BY DEF Skip
  <1>2. PICK i \in 1..Len(queue) : Reached(i)
    BY <1>1 DEF Held
  <1>3. queue \in Seq(Times \cup Small)
    BY Clocks
  <1>4. i # 1
    BY <1>1, <1>2, <1>3, Dequeued DEF Reached
  <1>5. Len(queue') = Len(queue) - 1 /\ Len(queue) \in Nat
    BY <1>1, <1>3
  <1>6. i - 1 \in 1..Len(queue') /\ (i - 1) + 1 = i
    BY <1>4, <1>5
  <1>7. queue'[i - 1] = queue[i]
    <2>1. queue'[i - 1] = queue[(i - 1) + 1]
      BY <1>1, <1>3, <1>6, Dequeued
    <2> QED
      BY <1>6, <2>1
  <1>8. InWindow(i) => InWindow(i - 1)'
    BY <1>1, Widths DEF InWindow
  <1> QED
    BY <1>2, <1>6, <1>7, <1>8, Widths DEF Reached

\* What a datagram adds to the socket is there, behind what was.
LEMMA HeldAppend ==
  ASSUME IInv, Held, NEW r \in net \cup Small, queue' = Append(queue, r),
         UNCHANGED <<clock, call>>,
         heard' => heard \/ (r \in net /\ Timely)
  PROVE  Held'
  <1> DEFINE n == Len(queue) + 1
  <1>1. queue \in Seq(Times \cup Small) /\ r \in Times \cup Small
    BY DEF IInv, TypeOK
  <1>2. /\ Len(queue') = n /\ n \in Nat \ {0} /\ n - 1 = Len(queue)
        /\ \A i \in 1..Len(queue) : i \in 1..n /\ queue'[i] = queue[i]
        /\ queue'[n] = r
    BY <1>1
  <1> HIDE DEF n
  <1>3. \A i : InWindow(i)' <=> InWindow(i)
    BY Widths DEF InWindow, call
  <1>4. CASE heard
    BY <1>2, <1>3, <1>4 DEF Held, Reached, call, Small
  <1>5. CASE ~heard
    <2> SUFFICES ASSUME heard', phase # "idle"
                 PROVE  queue'[n] \notin Small /\ InWindow(n)
      BY <1>2, <1>3 DEF Held, Reached, call, Small
    <2>1. r \in net /\ Timely
      BY <1>5
    <2>2. r \notin Small
      BY <2>1, Widths DEF IInv, TypeOK, Times
    <2>3. InWindow(n)
      <3>1. /\ n * Lag \in Nat /\ (n - 1) * Lag \in Nat
            /\ n * Lag = (n - 1) * Lag + Lag
        BY <1>2, OneMore
      <3>2. phase \in {"resolving", "waiting", "polling"}
        BY DEF IInv, TypeOK
      <3>3. (IF phase = "resolving" THEN 0 ELSE clock - sent) + n * Lag
              < Window
        BY <2>1 DEF Timely, n
      <3>4. \A a, b, c, d, l, w \in Int :
               c + b < w /\ a <= c /\ b = d + l /\ l >= 0
                 => a + b < w /\ a + d < w
        OBVIOUS
      <3> DEFINE a == tested - sent
                 b == n * Lag
                 c == clock - sent
                 d == (n - 1) * Lag
      <3>5. a <= c /\ a \in Int /\ c \in Int /\ Lag \in Nat /\ Window \in Int
        BY Clocks
      <3>6. b \in Int /\ d \in Int /\ b = d + Lag
        BY <3>1
      <3>7. CASE phase = "resolving"
        <4>1. b < Window
          <5>1. 0 + b < Window
            BY <3>3, <3>7
          <5> HIDE DEF b
          <5> QED
            BY <3>5, <3>6, <5>1
        <4> QED
          BY <3>7, <4>1 DEF InWindow
      <3>8. CASE phase # "resolving"
        <4>1. c + b < Window
          BY <3>3, <3>8
        <4> HIDE DEF a, b, c, d
        <4>2. a + b < Window /\ a + d < Window
          BY <3>4, <3>5, <3>6, <4>1
        <4> QED
          BY <3>2, <3>8, <4>2 DEF InWindow, a, b, d
      <3> QED
        BY <3>7, <3>8
    <2> QED
      BY <1>2, <2>2, <2>3
  <1> QED
    BY <1>4, <1>5

\* A call that still has an answer to reach does not give up.
LEMMA WindowOpen ==
  ASSUME IInv, phase = "waiting", NEW i \in 1..Len(queue), InWindow(i)
  PROVE  Waiting /\ (clock - sent) + (i - 1) * Lag < Window
  <1> DEFINE d == (i - 1) * Lag
  <1>1. i \in Nat \ {0}
    BY Clocks
  <1>2. (tested - sent) + i * Lag < Window
    BY DEF InWindow
  <1>3. i * Lag = d + Lag /\ d \in Nat
    BY <1>1, OneMore
  <1> HIDE DEF d
  <1>4. (tested - sent) + (d + Lag) < Window
    BY <1>2, <1>3
  <1>5. (clock - sent) + d < Window /\ clock - sent < Window
    BY <1>3, <1>4, Clocks
  <1> QED
    BY <1>5, WaitMeasured DEF IInv, d

LEMMA HeldStep ==
  ASSUME IInv, Held, [Next]_vars
  PROVE  Held'
  <1>1. CASE Call
    BY <1>1 DEF Call, Begin, Held
  <1>2. CASE \E found \in BOOLEAN : Send(found)
    <2>1. /\ phase = "resolving" /\ phase' = "waiting"
          /\ tested' = clock /\ sent' = clock
          /\ queue' = queue /\ heard' = heard
      BY <1>2 DEF Send
    <2>2. ASSUME NEW i \in 1..Len(queue), InWindow(i)
          PROVE  InWindow(i)'
      <3> DEFINE b == i * Lag
      <3>1. b < Window
        BY <2>1, <2>2 DEF InWindow
      <3>2. i \in Nat \ {0}
        BY Clocks
      <3>3. b \in Nat
        BY <3>2, OneMore
      <3>4. (clock - clock) + b < Window
        <4> HIDE DEF b
        <4> QED
          BY <3>1, <3>3, Clocks
      <3> QED
        BY <2>1, <3>4, Widths DEF InWindow
    <2> QED
      BY <2>1, <2>2 DEF Held, Reached, Small
  <1>3. CASE Accept \/ GiveUp
    BY <1>3 DEF Accept, GiveUp, Return, Held
  <1>4. CASE Skip
    BY <1>4, HeldSkip
  <1>5. CASE Test
    <2>1. /\ phase = "waiting" /\ phase' = "polling" /\ tested' = clock
          /\ sent' = sent /\ queue' = queue /\ heard' = heard
      BY <1>5 DEF Test
    <2>2. ASSUME NEW i \in 1..Len(queue), InWindow(i)
          PROVE  InWindow(i)'
      <3>1. (clock - sent) + (i - 1) * Lag < Window
        BY <2>1, <2>2, WindowOpen
      <3> QED
        BY <2>1, <3>1, Widths DEF InWindow
    <2> QED
      BY <2>1, <2>2 DEF Held, Reached, Small
  <1>6. CASE FindNothing
    <2>1. queue = <<>> /\ Len(queue) = 0 /\ heard' = heard /\ phase = "polling"
      BY <1>6 DEF FindNothing
    <2> QED
      BY <2>1 DEF Held
  <1>7. ASSUME NEW r \in net, Deliver(r)
        PROVE  Held'
    <2>1. /\ r \in net \cup Small
          /\ queue' = Append(queue, r) /\ UNCHANGED <<clock, call>>
          /\ heard' => heard \/ (r \in net /\ Timely)
      BY <1>7 DEF Deliver
    <2> QED
      BY <2>1, HeldAppend
  <1>8. ASSUME NEW d \in Small, DeliverSmall(d)
        PROVE  Held'
    <2>1. /\ d \in net \cup Small
          /\ queue' = Append(queue, d) /\ UNCHANGED <<clock, call>>
          /\ heard' = heard
      BY <1>8 DEF DeliverSmall
    <2> QED
      BY <2>1, HeldAppend
  <1>9. CASE (\E q \in asked : Serve(q)) \/ Lose \/ Elapse \/ UNCHANGED vars
    <2>1. UNCHANGED <<call, queue, heard>>
      BY <1>9 DEF Serve, Lose, Elapse, vars
    <2>2. \A i : InWindow(i)' <=> InWindow(i)
      BY <2>1, Widths DEF InWindow, call
    <2> QED
      BY <2>1, <2>2 DEF Held, Reached, call, Small
  <1> QED
    BY <1>1, <1>2, <1>3, <1>4, <1>5, <1>6, <1>7, <1>8, <1>9 DEF Next

\* A call that returns 0 has missed no answer that reached the socket early
\* enough to be looked at, however many small datagrams came before it and
\* however long the passes of the wait loop were: while such an answer is in
\* the socket the window is open.
THEOREM MissesNone == Spec => NoAnswerMissed
  <1>1. Init => Held
    BY DEF Init, Held
  <1>2. Spec => []Held
    BY <1>1, HeldStep, Invariance, PTL DEF Spec
  <1>3. ASSUME IInv, Held, [Next]_vars, phase # "idle", phase' = "idle",
               answer' = 0
        PROVE  ~heard \/ HeadIsZero
    <2>1. CASE Accept
      BY <1>3, <2>1 DEF Accept, Return, HeadIsZero
    <2>2. CASE GiveUp
      BY <1>3, <2>2, WindowOpen DEF GiveUp, Held, Reached
    <2> QED
      BY <1>3, <2>1, <2>2 DEF Next, vars, call, Call, Begin, Send, Test, Skip,
                              FindNothing, Serve, Deliver, DeliverSmall, Lose,
                              Elapse
  <1>4. IInv /\ Held /\ [Next]_vars =>
          [phase # "idle" /\ phase' = "idle" /\ answer' = 0
             => ~heard \/ HeadIsZero]_vars
    BY <1>3
  <1> QED
    BY Invariance, <1>2, <1>4, PTL DEF Spec, NoAnswerMissed
=============================================================================
