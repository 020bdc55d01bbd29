----------------------------- MODULE MCSimulator -----------------------------
(***************************************************************************)
(* The remote sensor with its base, and three parts of the simulator's     *)
(* base: its web server, the arguments of its requests and its clock.      *)
(* They share no variable, so each moves only while the others rest: all   *)
(* that side by side could add is the product.                             *)
(***************************************************************************)
EXTENDS Remote, FiniteSets

CONSTANTS
    cold, junk,                                  \* readings
    c1, c2,                                      \* connections
    this, timer,                                 \* threads
    Conns, Requests, Routes, Templates, MaxOpen, NoArg, Null,
                                                 \* see SimServer
    Plain, Special, White, Names, MaxLength, MaxFields,
                                                 \* see UrlArgs
    Threads, Wrap, Second, Settings, Horizon     \* see SimClock

VARIABLES
    req, sent, gone, refs, closed, place, args, reply, currentRequest,
    currentMethod, currentUri, currentArgs, currentHandler, responseHeaders,
    kept,
    form,
    clock, sysTime, prevMillis, pc, reg, set_to, set_at

server == <<req, sent, gone, refs, closed, place, args, reply, currentRequest,
            currentMethod, currentUri, currentArgs, currentHandler,
            responseHeaders, kept>>
time   == <<clock, sysTime, prevMillis, pc, reg, set_to, set_at>>

Server == INSTANCE SimServer WITH pc <- place, stored <- kept
Form   == INSTANCE UrlArgs
Clock  == INSTANCE SimClock

\* Every request is a GET or a POST, for one kind of page at most, and every
\* report carries a reading.
ASSUME ServerAssumption ==
    /\ IsFiniteSet(Conns) /\ Null \notin Conns \cup Requests
    /\ Routes \in Seq([method : STRING, uri : STRING,
                       does : {"report", "page", "set"}])
    /\ \A r \in Requests : r.method \in {"GET", "POST"}
    /\ \A r \in Requests, i, j \in DOMAIN Routes :
          Server!CanHandle(Routes[i], r.method, r.uri) =>
            /\ Server!CanHandle(Routes[j], r.method, r.uri)
                 => Routes[j].does = Routes[i].does
            /\ Routes[i].does = "report" => Server!HasBody(r)

\* A browser sends the two characters as %xy, and no name needs that.
ASSUME FormAssumption ==
    /\ {"+", "&"} \cap Plain = {} /\ "&" \notin Names
    /\ White \subseteq Special

ASSUME ClockAssumption ==
    /\ Wrap \in Nat \ {0} /\ Second \in Nat \ {0} /\ Settings \subseteq Nat

-----------------------------------------------------------------------------
RemoteRests == Init
ServerRests == Server!Init
FormRests   == Form!Init
ClockRests  == Clock!Init /\ clock = 0

SimulatorInit == RemoteRests /\ ServerRests /\ FormRests /\ Clock!Init

RemoteAlone == ServerRests /\ FormRests /\ ClockRests
ServerAlone == RemoteRests /\ FormRests /\ ClockRests

SimulatorNext ==
    \/ RemoteAlone /\ Next /\ UNCHANGED <<server, form, time>>
    \/ ServerAlone /\ Server!Next /\ UNCHANGED <<vars, form, time>>
    \/ RemoteRests /\ ServerRests /\ ClockRests /\ Form!Next
         /\ UNCHANGED <<vars, server, time>>
    \/ RemoteRests /\ ServerRests /\ FormRests /\ Clock!Next
         /\ UNCHANGED <<vars, server, form>>

SimulatorSpec ==
    SimulatorInit /\ [][SimulatorNext]_<<vars, server, form, time>>

\* The fairness of Remote and of SimServer.
FairSimulatorSpec ==
    /\ SimulatorSpec
    /\ WF_vars(RemoteAlone /\ Setup) /\ WF_vars(RemoteAlone /\ Loop)
    /\ \A c \in Conns : WF_server(ServerAlone /\ Server!Thread(c))

-----------------------------------------------------------------------------
\* The types of the remote with its base, and of the web server.  No socket
\* is closed twice, though two Socket objects share it.
TypesOK == TypeOK /\ Server!TypeOK

\* See SimServer: every client is sent the answer to its own request.
OwnAnswer == Server!OwnAnswer

\* See SimServer: a stored reading is the one its own report carries.
StoresOwnReport == Server!StoresOwnReport

\* See SimServer: the many steps of a request amount to one.
ServesAtOnce == Server!ServesAtOnce

\* See SimServer: a request that arrived whole is answered.
Answered == Server!Answered

\* See UrlArgs: a handler finds the form's fields as they were typed.
FormArrives == Form!FormArrives

\* See SimClock: no time is lost or gained, step by step.
KeepsTime == Clock!KeepsTime

\* See SimClock: what the comment beside the subtraction says of it.
SubtractionIsDifference == Clock!SubtractionIsDifference

-----------------------------------------------------------------------------
OneThread  == {this}
TwoThreads == {this, timer}

\* The routes of the base station, in the order of its calls of on().
BaseRoutes ==
    << [method |-> "POST", uri |-> "/report_sensor_data", does |-> "report"],
       [method |-> "ANY",  uri |-> "/",                   does |-> "page"],
       [method |-> "GET",  uri |-> "/time",               does |-> "page"],
       [method |-> "POST", uri |-> "/time",               does |-> "set"],
       [method |-> "POST", uri |-> "/time_zone",          does |-> "set"],
       [method |-> "GET",  uri |-> "/wifi_config",        does |-> "page"],
       [method |-> "POST", uri |-> "/wifi_config",        does |-> "set"] >>

\* The files of weather_station_base/data.
Files == {"/", "/time", "/wifi_config"}

Asked ==
    { [method |-> "POST", uri |-> "/report_sensor_data", arg |-> 1],
      [method |-> "POST", uri |-> "/report_sensor_data", arg |-> 2],
      [method |-> "GET",  uri |-> "/",                   arg |-> NoArg],
      [method |-> "POST", uri |-> "/time",               arg |-> 3],
      [method |-> "POST", uri |-> "/time_zone",          arg |-> NoArg],
      [method |-> "GET",  uri |-> "/time_zone",          arg |-> NoArg] }
=============================================================================
