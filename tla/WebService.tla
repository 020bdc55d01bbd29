----------------------------- MODULE WebService -----------------------------
(***************************************************************************)
(* What a web server promises, seen from outside: each request is served   *)
(* in one step, in which it has its effect and its answer is settled.      *)
(***************************************************************************)
CONSTANTS
    Conns,        \* connections
    Requests,     \* what a client may ask
    Answer(_),    \* what the pages promise for a request
    Reports(_),   \* it carries a reading
    Zero,         \* what is stored of a report that was cut short
    Null,         \* no request, no reading
    Pending       \* no answer

VARIABLES
    asked,        \* what each client asks
    cut,          \* its request was cut short: it left before the end
    answer,       \* what is answered
    stored        \* the reading stored last

vars == <<asked, cut, answer, stored>>

Init == /\ asked = [c \in Conns |-> Null]
        /\ cut = [c \in Conns |-> FALSE]
        /\ answer = [c \in Conns |-> Pending]
        /\ stored = Null

Ask(c, r) ==
    /\ asked[c] = Null
    /\ asked' = [asked EXCEPT ![c] = r]
    /\ UNCHANGED <<cut, answer, stored>>

CutShort(c) ==
    /\ asked[c] # Null
    /\ cut' = [cut EXCEPT ![c] = TRUE]
    /\ UNCHANGED <<asked, answer, stored>>

\* Each request is served once.  Only a report is stored, and it carries its
\* own reading.
Serve(c) ==
    /\ asked[c] # Null /\ answer[c] = Pending
    /\ answer' = [answer EXCEPT ![c] = Answer(asked[c])]
    /\ IF Reports(asked[c])
         THEN stored' = asked[c].arg \/ (cut[c] /\ stored' = Zero)
         ELSE stored' = stored
    /\ UNCHANGED <<asked, cut>>

Next == \E c \in Conns :
           (\E r \in Requests : Ask(c, r)) \/ CutShort(c) \/ Serve(c)

Spec == Init /\ [][Next]_vars
=============================================================================
