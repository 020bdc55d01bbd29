------------------------------ MODULE SimServer ------------------------------
(***************************************************************************)
(* The web server of the simulator.  handleClient() accepts a connection   *)
(* and starts a thread for it; the threads read their requests and hand    *)
(* them to the one ESP8266WebServer object, whose members hold "the        *)
(* current" request.  Each access of these members is a step.              *)
(*                                                                         *)
(* A step that would follow a null pointer has no successor: the program   *)
(* ends there.                                                             *)
(*                                                                         *)
(* Source: simple_web_server/webserver.cpp and socket.cpp,                 *)
(* esp8266_sim/ESP8266WebServer.cpp, shared/OOWebServer.h and the handlers *)
(* of weather_station_base/weather_station_base_class.cpp.                 *)
(***************************************************************************)
EXTENDS Naturals, Sequences, SequencesExt, FiniteSets

CONSTANTS
    Conns,        \* connections
    Requests,     \* records of a method, a uri and the body's argument
    Routes,       \* the calls of on(), in order: method, uri, what it does
    Templates,    \* the uris whose template was loaded
    MaxOpen,      \* the requests there may be at a time
    Zero,         \* what toInt() makes of a missing argument
    NoArg, Null

VARIABLES
    req, sent,    \* what each client asks, and how much of it it has sent
    gone,         \* it has closed its end
    refs, closed, \* its Socket's refCounter_, and the calls of closesocket
    pc,           \* where its thread is
    args, reply,  \* params_ and the answer's fields of its http_request
    currentRequest, currentMethod, currentUri, currentArgs, currentHandler,
    responseHeaders,
    stored        \* m_current_remote_sensor_data

clients == <<req, sent, gone>>
sockets == <<refs, closed>>
current == <<currentRequest, currentMethod, currentUri, currentArgs,
             currentHandler>>
vars == <<clients, sockets, pc, args, reply, current, responseHeaders, stored>>

-----------------------------------------------------------------------------
(* Routes, templates and replies. *)

Pending == [status |-> 202, headers |-> <<>>, answer |-> ""]

\* MethodRequestHandler::canHandle
CanHandle(route, method, uri) ==
    route.method \in {"ANY", method} /\ route.uri = uri

\* The handlers are asked in the order of their registration; 0 is none.
FirstMatch(method, uri) ==
    SelectInSeq(Routes, LAMBDA route : CanHandle(route, method, uri))

\* get_page_template
Page(uri) == IF uri \in Templates THEN uri ELSE ""

-----------------------------------------------------------------------------
(* Clients. *)

\* The Content-Length of its headers is not 0.
HasBody(r) == r.arg # NoArg

\* A thread that waits for the rest of a body when the client is gone waits
\* for ever, and touches nothing.
Stuck(c) == pc[c] = "body" /\ gone[c] /\ sent[c] # "all"

Open(c) == pc[c] \notin {"none", "ended"} /\ ~Stuck(c)

Connect(c, r) ==
    /\ pc[c] = "none" /\ Cardinality({d \in Conns : Open(d)}) < MaxOpen
    /\ pc' = [pc EXCEPT ![c] = "queued"]
    /\ req' = [req EXCEPT ![c] = r]
    /\ UNCHANGED <<sent, gone, sockets, args, reply, current,
                   responseHeaders, stored>>

Rest == [nothing |-> "line", line |-> "head", head |-> "all"]

\* The first line, the headers and the body arrive one after the other.
Send(c) ==
    /\ pc[c] # "none" /\ ~gone[c] /\ sent[c] \in DOMAIN Rest
    /\ sent[c] = "head" => HasBody(req[c])
    /\ sent' = [sent EXCEPT ![c] = Rest[sent[c]]]
    /\ UNCHANGED <<req, gone, sockets, pc, args, reply, current,
                   responseHeaders, stored>>

Leave(c) ==
    /\ pc[c] \in {"queued", "line", "head", "body"} /\ ~gone[c]
    /\ gone' = [gone EXCEPT ![c] = TRUE]
    /\ UNCHANGED <<req, sent, sockets, pc, args, reply, current,
                   responseHeaders, stored>>

-----------------------------------------------------------------------------
(* handle_client and Request. *)

Goes(c, from, to) == pc[c] = from /\ pc' = [pc EXCEPT ![c] = to]

\* Mutant of Accept: the thread has the Socket itself, and destroys it.
Accept_Moves(c) ==
    /\ Goes(c, "queued", "line")
    /\ refs' = [refs EXCEPT ![c] = 1]
    /\ UNCHANGED <<clients, closed, args, reply, current, responseHeaders,
                   stored>>

\* The thread's Socket is a copy of the one that Accept created, which is
\* never destroyed.
Accept(c) ==
    /\ Goes(c, "queued", "line")
    /\ refs' = [refs EXCEPT ![c] = 2]
    /\ UNCHANGED <<clients, closed, args, reply, current, responseHeaders,
                   stored>>

\* ReceiveLine returns "" for a client that has left, and so does the thread.
ReadLine(c) ==
    /\ sent[c] # "nothing" \/ gone[c]
    /\ Goes(c, "line", IF sent[c] = "nothing" THEN "destroy" ELSE "head")
    /\ UNCHANGED <<clients, sockets, args, reply, current, responseHeaders,
                   stored>>

\* Mutant of ReadHead: any POST waits for a body.
ReadHead_AnyPost(c) ==
    /\ sent[c] \in {"head", "all"} \/ gone[c]
    /\ Goes(c, "head", IF req[c].method = "POST" THEN "body" ELSE "request")
    /\ UNCHANGED <<clients, sockets, args, reply, current, responseHeaders,
                   stored>>

\* A client that left in the middle of its headers ends them: whether the
\* thread then waits for a body depends on the headers that had come.
ReadHead(c) ==
    /\ sent[c] \in {"head", "all"} \/ gone[c]
    /\ \E next \in {"body", "request"} :
         /\ Goes(c, "head", next)
         /\ next = "body" => HasBody(req[c])
         /\ next = "request" => sent[c] = "line" \/ ~HasBody(req[c])
    /\ UNCHANGED <<clients, sockets, args, reply, current, responseHeaders,
                   stored>>

ReadBody(c) ==
    /\ sent[c] = "all"
    /\ Goes(c, "body", "request")
    /\ args' = [args EXCEPT ![c] = req[c].arg]
    /\ UNCHANGED <<clients, sockets, reply, current, responseHeaders, stored>>

Reply(c) ==
    /\ Goes(c, "reply", "destroy")
    /\ closed' = [closed EXCEPT ![c] = @ + 1]
    /\ UNCHANGED <<clients, refs, args, reply, current, responseHeaders,
                   stored>>

\* ~Socket
Destroy(c) ==
    /\ Goes(c, "destroy", "ended")
    /\ refs' = [refs EXCEPT ![c] = @ - 1]
    /\ closed' = [closed EXCEPT ![c] = IF refs[c] = 1 THEN @ + 1 ELSE @]
    /\ UNCHANGED <<clients, args, reply, current, responseHeaders, stored>>

-----------------------------------------------------------------------------
(* handle_get *)

SetRequest(c) ==
    /\ Goes(c, "request", "method")
    /\ currentRequest' = c
    /\ UNCHANGED <<clients, sockets, args, reply, currentMethod, currentUri,
                   currentArgs, currentHandler, responseHeaders, stored>>

\* The web server tells GET and POST only, which is all that requests are here;
\* on anything else handleGet would assert.
SetMethod(c) ==
    /\ Goes(c, "method", "uri")
    /\ currentMethod' = req[c].method
    /\ UNCHANGED <<clients, sockets, args, reply, currentRequest, currentUri,
                   currentArgs, currentHandler, responseHeaders, stored>>

SetUri(c) ==
    /\ Goes(c, "uri", "args")
    /\ currentUri' = req[c].uri
    /\ UNCHANGED <<clients, sockets, args, reply, currentRequest,
                   currentMethod, currentArgs, currentHandler,
                   responseHeaders, stored>>

\* Mutant of SetArgs: a request without arguments leaves those of the last.
SetArgs_KeepsOld(c) ==
    /\ Goes(c, "args", "find")
    /\ currentArgs' = IF args[c] = NoArg THEN currentArgs ELSE args[c]
    /\ UNCHANGED <<clients, sockets, args, reply, currentRequest,
                   currentMethod, currentUri, currentHandler,
                   responseHeaders, stored>>

SetArgs(c) ==
    /\ Goes(c, "args", "find")
    /\ currentArgs' = args[c]
    /\ UNCHANGED <<clients, sockets, args, reply, currentRequest,
                   currentMethod, currentUri, currentHandler,
                   responseHeaders, stored>>

Answers(c, status, body) ==
    reply' = [reply EXCEPT ![c] = [status |-> status, headers |-> @.headers,
                                   answer |-> body]]

\* The loop over the handlers.
Find(c) ==
    LET i == FirstMatch(currentMethod, currentUri) IN
    /\ Goes(c, "find", IF i = 0 THEN "clear" ELSE "handle")
    /\ currentHandler' = i
    /\ IF i = 0 THEN Answers(c, 404, req[c].uri) ELSE UNCHANGED reply
    /\ UNCHANGED <<clients, sockets, args, currentRequest, currentMethod,
                   currentUri, currentArgs, responseHeaders, stored>>

\* MethodRequestHandler::handle
Handle(c) ==
    /\ currentHandler # 0
    /\ IF CanHandle(Routes[currentHandler], currentMethod, currentUri)
         THEN Goes(c, "handle", Routes[currentHandler].does) /\ UNCHANGED reply
         ELSE Goes(c, "handle", "clear") /\ Answers(c, 500, req[c].uri)
    /\ UNCHANGED <<clients, sockets, args, current, responseHeaders, stored>>

\* handle_sensor_data_post
Report(c) ==
    /\ Goes(c, "report", "send report")
    /\ stored' = IF currentArgs = NoArg THEN Zero ELSE currentArgs
    /\ UNCHANGED <<clients, sockets, args, reply, current, responseHeaders>>

\* handle_root, handleTime and handleWiFiConfig fetch their template.
Render(c) ==
    /\ Goes(c, "page", "send page")
    /\ UNCHANGED <<clients, sockets, args, reply, current, responseHeaders,
                   stored>>

\* redirect_to, for setTime, setTimeZone and setWiFiConfig.
Redirect(c) ==
    /\ Goes(c, "set", "send set")
    /\ responseHeaders' = Append(responseHeaders, "Location")
    /\ UNCHANGED <<clients, sockets, args, reply, current, stored>>

Sent(status, body) ==
    reply' = [reply EXCEPT ![currentRequest] =
                [status |-> status, headers |-> responseHeaders,
                 answer |-> body]]

\* Mutant of SendReply: _responseHeaders keeps what was added to it.
SendReply_KeepsHeaders(c) ==
    /\ currentRequest # Null
    /\ \/ Goes(c, "send report", "clear") /\ Sent(200, "OK")
       \/ Goes(c, "send page", "clear") /\ Sent(200, Page(currentUri))
       \/ Goes(c, "send set", "clear") /\ Sent(302, "/")
    /\ UNCHANGED <<clients, sockets, args, current, responseHeaders, stored>>

\* send and sendContent
SendReply(c) ==
    /\ currentRequest # Null
    /\ \/ Goes(c, "send report", "clear") /\ Sent(200, "OK")
       \/ Goes(c, "send page", "clear") /\ Sent(200, Page(currentUri))
       \/ Goes(c, "send set", "clear") /\ Sent(302, "/")
    /\ responseHeaders' = <<>>
    /\ UNCHANGED <<clients, sockets, args, current, stored>>

ClearRequest(c) ==
    /\ Goes(c, "clear", "reply")
    /\ currentRequest' = Null
    /\ UNCHANGED <<clients, sockets, args, reply, currentMethod, currentUri,
                   currentArgs, currentHandler, responseHeaders, stored>>

HandleGet(c) ==
    SetRequest(c) \/ SetMethod(c) \/ SetUri(c) \/ SetArgs(c) \/ Find(c)
    \/ Handle(c) \/ Report(c) \/ Render(c) \/ Redirect(c) \/ SendReply(c)
    \/ ClearRequest(c)

-----------------------------------------------------------------------------
Init ==
    /\ req \in [Conns -> {Null}]
    /\ sent = [c \in Conns |-> "nothing"] /\ gone = [c \in Conns |-> FALSE]
    /\ refs = [c \in Conns |-> 0] /\ closed = refs
    /\ pc = [c \in Conns |-> "none"]
    /\ args = [c \in Conns |-> NoArg] /\ reply = [c \in Conns |-> Pending]
    /\ currentRequest = Null /\ currentMethod = "ANY" /\ currentUri = ""
    /\ currentArgs = NoArg /\ currentHandler = 0
    /\ responseHeaders = <<>> /\ stored = Null

Client(c) == (\E r \in Requests : Connect(c, r)) \/ Send(c) \/ Leave(c)

Thread(c) == Accept(c) \/ ReadLine(c) \/ ReadHead(c) \/ ReadBody(c)
             \/ HandleGet(c) \/ Reply(c) \/ Destroy(c)

Next == \E c \in Conns : Client(c) \/ Thread(c)

Spec == Init /\ [][Next]_vars

\* The host schedules every thread.
FairSpec == Spec /\ \A c \in Conns : WF_vars(Thread(c))

-----------------------------------------------------------------------------
TypeOK ==
    /\ req \in [Conns -> Requests \cup {Null}]
    /\ sent \in [Conns -> DOMAIN Rest \cup {"all"}]
    /\ gone \in [Conns -> BOOLEAN]
    /\ refs \in [Conns -> 0..2] /\ closed \in [Conns -> 0..1]
    /\ pc \in [Conns -> {"none", "queued", "line", "head", "body", "request",
                         "method", "uri", "args", "find", "handle", "clear",
                         "reply", "destroy", "ended", "report", "page", "set",
                         "send report", "send page", "send set"}]
    /\ currentRequest \in Conns \cup {Null}
    /\ currentHandler \in 0..Len(Routes)
    /\ Len(responseHeaders) <= 1

Asks(r, does) == \E i \in DOMAIN Routes :
                    CanHandle(Routes[i], r.method, r.uri) /\ Routes[i].does = does

\* What the pages promise to the client of request r.
Promised(r) ==
    CASE Asks(r, "report") ->
           [status |-> 200, headers |-> <<>>, answer |-> "OK"]
      [] Asks(r, "page") ->
           [status |-> 200, headers |-> <<>>, answer |-> Page(r.uri)]
      [] Asks(r, "set") ->
           [status |-> 302, headers |-> <<"Location">>, answer |-> "/"]
      [] OTHER -> [status |-> 404, headers |-> <<>>, answer |-> r.uri]

\* While there is one request at a time, each client is sent the answer to its
\* own request, and the headers of no earlier one.
OwnAnswer ==
    \A c \in Conns : closed[c] > 0 => reply[c] = Promised(req[c])

\* A stored reading is the one its own report carries; only a client that
\* left before its body leaves a reading nobody measured.  ServesAtOnce says so
\* too, of the abstract server.
StoresOwnReport ==
    [][stored' # stored =>
         \E c \in Conns :
            /\ pc[c] = "report"
            /\ stored' = req[c].arg
                 \/ (gone[c] /\ sent[c] = "line" /\ stored' = Zero)]_vars

Reports(r) == Asks(r, "report")

\* A report takes effect when its reading is stored, any other request when
\* its answer is ready.
Settled(c) == IF pc[c] = "send report" THEN Promised(req[c]) ELSE reply[c]

CutOff(c) == gone[c] /\ sent[c] # "all"

Service == INSTANCE WebService WITH
    Answer <- Promised,
    asked  <- req,
    cut    <- [c \in Conns |-> CutOff(c)],
    answer <- [c \in Conns |-> Settled(c)]

\* The many steps of a request amount to one: its effect and its answer come
\* together and once, whatever the members of the server object are used for
\* in between.
ServesAtOnce == Service!Spec

Whole(c) == sent[c] = (IF HasBody(req[c]) THEN "all" ELSE "head")

\* A request that arrived whole is answered, also behind a client that left a
\* thread waiting.
Answered ==
    \A c \in Conns : (pc[c] # "none" /\ Whole(c)) ~> closed[c] = 1
=============================================================================
