------------------------------ MODULE NtpClient ------------------------------
(***************************************************************************)
(* The NTP client: a request, and a wait for the first datagram that could *)
(* be its answer.                                                          *)
(*                                                                         *)
(* Datagrams are lost, duplicated and delayed, and answers to a call that  *)
(* gave up arrive during later ones.  The client looks neither at who sent *)
(* a datagram nor at what it answers.  A full datagram is represented by   *)
(* the time its server put into it.  Time passes in ticks, of which the    *)
(* time stamps count as many as the waits do; it passes, and datagrams     *)
(* come, between any two steps of a call.                                  *)
(*                                                                         *)
(* Source: shared/ntp_client.cpp; the socket, the network, the name        *)
(* service and the time servers are external, and servers that answer have *)
(* the time.                                                               *)
(***************************************************************************)
EXTENDS Integers, Sequences

CONSTANTS
    Span,        \* time stamps count modulo Span (2^32)
    Era,         \* 1970 as NTP counts (2208988800)
    Wrap,        \* millis() counts modulo Wrap (2^32)
    Window,      \* how long a call waits for an answer (1500 ms)
    Dns,         \* the longest a look-up of the server's name takes
    Lag,         \* the longest a pass of the wait loop takes
    Delay,       \* the longest the network carries a datagram
    Short,       \* a datagram of less than NTP_PACKET_SIZE
    Empty,       \* one of no bytes at all
    Room,        \* bound of the datagrams the socket holds
    Horizon      \* bound of the clock

ASSUME NtpAssumption ==
    /\ Span \in Nat \ {0} /\ Wrap \in Nat \ {0}
    /\ Era \in Nat /\ Dns \in Nat /\ Delay \in Nat
    /\ Window \in Nat \ {0} /\ Lag \in Nat /\ Window + Lag <= Wrap
    /\ Room \in Nat /\ Horizon \in Nat
    /\ Short \notin Nat /\ Empty \notin Nat

VARIABLES
    clock,       \* the time since 1970
    phase,       \* where getNtpTime is
    begin_wait,  \* beginWait
    queue,       \* the datagrams the socket holds
    answer,      \* what the last call returned; 0 stands for no answer
    asked,       \* the requests on their way, by the time they were sent
    net,         \* the full datagrams on their way to the client
    \* History variables, of the call that runs:
    called,      \* when it began
    sent,        \* when it sent its request
    tested,      \* when the pass of its wait loop began
    halted,      \* an empty datagram ended its discarding
    heard        \* a full datagram has reached the socket in time for it

call == <<phase, begin_wait, answer, called, sent, tested, halted>>
vars == <<clock, call, queue, asked, net, heard>>

-----------------------------------------------------------------------------
(* getNtpTime *)

Stamp(t) == (t + Era) % Span

\* Mutant of Seconds: the subtraction is made in more than 32 bits.
Seconds_Wide(stamp) == stamp - Era

\* The four bytes of the stamp as a time_t.
Seconds(stamp) == (stamp - Era) % Span

\* Mutant of Waiting: the end of the wait is computed in advance.
Waiting_Deadline == clock % Wrap < begin_wait + Window

\* The condition of the wait loop; millis() is clock % Wrap.
Waiting == ((clock % Wrap) - begin_wait) % Wrap < Window

Small == {Short, Empty}

Return(t) ==
    /\ phase' = "idle" /\ answer' = t
    /\ UNCHANGED <<begin_wait, called, sent, tested, halted>>

Begin ==
    /\ phase = "idle" /\ phase' = "resolving"
    /\ called' = clock /\ heard' = FALSE
    /\ UNCHANGED <<clock, begin_wait, answer, sent, tested, asked, net>>

\* Mutant of Call: what the socket holds is kept.
Call_KeepsQueue == Begin /\ halted' = FALSE /\ UNCHANGED queue

\* The call begins: it discards what the socket holds, up to a datagram whose
\* size is 0, and looks the server up.
Call ==
    /\ Begin
    /\ \/ /\ \A i \in DOMAIN queue : queue[i] # Empty
          /\ queue' = <<>> /\ halted' = FALSE
       \/ \E i \in DOMAIN queue :
            /\ queue[i] = Empty /\ \A j \in 1..(i - 1) : queue[j] # Empty
            /\ queue' = SubSeq(queue, i + 1, Len(queue)) /\ halted' = TRUE

\* The look-up ends.  Its failure is not noticed: the request goes nowhere,
\* and the wait is as long.
Send(found) ==
    /\ phase = "resolving"
    /\ phase' = "waiting"
    /\ begin_wait' = clock % Wrap /\ sent' = clock /\ tested' = clock
    /\ asked' = IF found THEN asked \cup {clock} ELSE asked
    /\ UNCHANGED <<clock, answer, called, halted, queue, net, heard>>

\* A pass of the wait loop begins: the condition holds.
Test ==
    /\ phase = "waiting" /\ Waiting
    /\ phase' = "polling" /\ tested' = clock
    /\ UNCHANGED <<clock, begin_wait, answer, called, sent, halted, queue,
                   asked, net, heard>>

\* It does not.
GiveUp ==
    /\ phase = "waiting" /\ ~Waiting
    /\ Return(0)
    /\ UNCHANGED <<clock, queue, asked, net, heard>>

\* parsePacket finds a datagram that is large enough.
Accept ==
    /\ phase = "polling"
    /\ queue # <<>> /\ Head(queue) \notin Small
    /\ queue' = Tail(queue)
    /\ Return(Seconds(Stamp(Head(queue))))
    /\ UNCHANGED <<clock, asked, net, heard>>

\* Mutant of Skip: a datagram that is too small ends the wait.
Skip_GivesUp ==
    /\ phase = "polling"
    /\ queue # <<>> /\ Head(queue) \in Small
    /\ queue' = Tail(queue)
    /\ Return(0)
    /\ UNCHANGED <<clock, asked, net, heard>>

\* It finds one that is not.
Skip ==
    /\ phase = "polling" /\ phase' = "waiting"
    /\ queue # <<>> /\ Head(queue) \in Small
    /\ queue' = Tail(queue)
    /\ UNCHANGED <<clock, begin_wait, answer, called, sent, tested, halted,
                   asked, net, heard>>

\* It finds none.
FindNothing ==
    /\ phase = "polling" /\ phase' = "waiting"
    /\ queue = <<>>
    /\ UNCHANGED <<clock, begin_wait, answer, called, sent, tested, halted,
                   queue, asked, net, heard>>

-----------------------------------------------------------------------------
(* The network. *)

\* A server answers a request, of which a copy may still be on its way.
Serve(q) ==
    /\ asked' \in {asked, asked \ {q}}
    /\ net' = net \cup {clock}
    /\ UNCHANGED <<clock, call, queue, heard>>

\* The call looks at the socket once in a pass, and takes one datagram at a
\* time: one that comes now is reached while the window is open, even if every
\* pass takes as long as it may.
Timely ==
    LET used == IF phase = "resolving" THEN 0 ELSE clock - sent
    IN  phase # "idle" /\ used + (Len(queue) + 1) * Lag < Window

\* An answer reaches the socket, and so may a copy of it later.
Deliver(r) ==
    /\ Len(queue) < Room
    /\ queue' = Append(queue, r)
    /\ net' \in {net, net \ {r}}
    /\ heard' = (heard \/ Timely)
    /\ UNCHANGED <<clock, call, asked>>

DeliverSmall(d) ==
    /\ Len(queue) < Room
    /\ queue' = Append(queue, d)
    /\ UNCHANGED <<clock, call, asked, net, heard>>

Lose ==
    /\ \/ \E q \in asked : asked' = asked \ {q} /\ UNCHANGED net
       \/ \E r \in net : net' = net \ {r} /\ UNCHANGED asked
    /\ UNCHANGED <<clock, call, queue, heard>>

\* A tick passes, anywhere in a call.
Elapse ==
    /\ clock < Horizon
    /\ phase = "resolving" => clock - called < Dns
    /\ phase \in {"waiting", "polling"} => clock - tested < Lag
    /\ \A t \in asked \cup net : clock - t < Delay
    /\ clock' = clock + 1
    /\ UNCHANGED <<call, queue, asked, net, heard>>

-----------------------------------------------------------------------------
Init ==
    /\ clock = 0 /\ phase = "idle" /\ answer = 0
    /\ begin_wait = 0 /\ called = 0 /\ sent = 0 /\ tested = 0
    /\ halted = FALSE /\ heard = FALSE
    /\ queue = <<>> /\ asked = {} /\ net = {}

Next ==
    \/ Call \/ (\E found \in BOOLEAN : Send(found))
    \/ Test \/ GiveUp \/ Accept \/ Skip \/ FindNothing
    \/ (\E q \in asked : Serve(q)) \/ (\E r \in net : Deliver(r))
    \/ (\E d \in Small : DeliverSmall(d)) \/ Lose \/ Elapse

Spec == Init /\ [][Next]_vars

-----------------------------------------------------------------------------
Times == 0..clock

TypeOK ==
    /\ clock \in Nat
    /\ phase \in {"idle", "resolving", "waiting", "polling"}
    /\ begin_wait \in 0..(Wrap - 1)
    /\ queue \in Seq(Times \cup Small)
    /\ answer \in 0..(Span - 1)
    /\ asked \subseteq Times /\ net \subseteq Times
    /\ called \in Times /\ sent \in Times /\ tested \in Times
    /\ halted \in BOOLEAN /\ heard \in BOOLEAN

\* However late, often or out of order answers arrive, to this call or to
\* earlier ones: a time a call returns was right at most Delay before the call
\* began, in every era of the 32 bits; unless an empty datagram kept the call
\* from discarding what was behind it.
AnswersAreFresh ==
    [][phase = "polling" /\ phase' = "idle" /\ answer' # 0 /\ ~halted
         => \E t \in (called - Delay)..clock : answer' = t % Span]_vars

HeadIsZero ==
    queue # <<>> /\ Head(queue) \notin Small /\ Seconds(Stamp(Head(queue))) = 0

\* A call that returns 0 has missed no answer that reached the socket a pass
\* of its loop before the window's end, and one more pass for each datagram
\* before it, but for one whose time is 0.  Later in the window an answer is
\* missed if the window closes before the next look at the socket.
NoAnswerMissed ==
    [][phase # "idle" /\ phase' = "idle" /\ answer' = 0
         => ~heard \/ HeadIsZero]_vars

\* Whatever arrives and wherever millis() wraps, a call is over after the
\* look-up, the window and the pass in which the window closes.
ReturnsInTime == phase # "idle" => clock - called < Dns + Window + Lag
=============================================================================
