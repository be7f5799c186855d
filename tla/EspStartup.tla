----------------------------- MODULE EspStartup -----------------------------
(***************************************************************************)
(* The ESP32 miner until it mines (app_esp32/main/main.c: app_main and     *)
(* handshake; wifi.c; net_connect and net_close of platform/net_posix.c).  *)
(* Three actors: app_main; the event task, which runs event_handler on the *)
(* WiFi driver's events in their order; and the driver with the network    *)
(* behind it.  The lines of the handshake are LineSender's and             *)
(* LineReader's; here each send and the reply succeed or fail.             *)
(***************************************************************************)
EXTENDS Integers, Sequences

CONSTANTS
    WIFI_MAX_RETRY,
    Addresses       \* how many addresses getaddrinfo may return

ASSUME StartupAssumption ==
    WIFI_MAX_RETRY \in Nat /\ Addresses \in Nat \ {0}

\* File descriptors: the console's, and one for each address tried.
Console == 0
Closed == -1
Sockets == 1 .. Addresses

\* Bound: one disconnect more than the station may ever see in a row.
FailuresBound == WIFI_MAX_RETRY + 2

VARIABLES
    \* the station
    link,           \* "idle", "trying", "associated", or "up": it has an address
    events,         \* posted to the event task
    s_retries,
    s_wifi_events,  \* the event group: the bits that are set
    failures,       \* history: disconnects since the last address, up to a bound
    \* app_main
    pc,
    conn_fd,        \* conn.fd; conn is static, so it starts as 0
    fd, left,       \* net_connect's socket, and how many addresses it has left
    open            \* the open file descriptors

wifiVars == <<link, events, s_retries, s_wifi_events, failures>>
mainVars == <<pc, conn_fd, fd, left, open>>
vars == <<wifiVars, mainVars>>

TypeOK ==
    /\ link \in {"idle", "trying", "associated", "up"}
    /\ events \in Seq({"start", "disconnected", "gotIp"})
    /\ s_retries \in 0 .. WIFI_MAX_RETRY
    /\ s_wifi_events \subseteq {"connected", "fail"}
    /\ failures \in 0 .. FailuresBound
    /\ pc \in {"wifi", "resolve", "socket", "connect", "subscribe", "reply",
               "authorize", "primitives", "nonblocking", "mining", "close",
               "returned"}
    /\ conn_fd \in Sockets \cup {Console, Closed}
    /\ fd \in Sockets \cup {Closed}
    /\ left \in 0 .. Addresses
    /\ open \subseteq Sockets \cup {Console}

Init ==
    /\ link = "idle" /\ events = <<"start">>
    /\ s_retries = 0 /\ s_wifi_events = {} /\ failures = 0
    /\ pc = "wifi"
    /\ conn_fd = Console /\ fd = Closed /\ left = 0
    /\ open = {Console}

-----------------------------------------------------------------------------
(* The driver and the network. *)

Associates ==
    /\ link = "trying"
    /\ link' = "associated"
    /\ UNCHANGED <<events, s_retries, s_wifi_events, failures, mainVars>>

GetsAddress ==
    /\ link = "associated"
    /\ link' = "up"
    /\ events' = Append(events, "gotIp")
    /\ failures' = 0
    /\ UNCHANGED <<s_retries, s_wifi_events, mainVars>>

Drops ==
    /\ link # "idle"
    /\ link' = "idle"
    /\ events' = Append(events, "disconnected")
    /\ failures' = IF failures = FailuresBound THEN failures ELSE failures + 1
    /\ UNCHANGED <<s_retries, s_wifi_events, mainVars>>

-----------------------------------------------------------------------------
(* event_handler.  As in EspMiner, an operator named Bug... is a plausible *)
(* mistake in the operator that follows it.                                *)

esp_wifi_connect == link' = "trying"

RetriesLeft == s_retries < WIFI_MAX_RETRY

BugCountForgotten == esp_wifi_connect /\ UNCHANGED s_retries
BugConnectForgotten == UNCHANGED link /\ s_retries' = s_retries + 1
Retry == esp_wifi_connect /\ s_retries' = s_retries + 1

BugResetForgotten == UNCHANGED s_retries
ResetRetries == s_retries' = 0

Handles(event) ==
    /\ events # <<>>
    /\ Head(events) = event
    /\ events' = Tail(events)
    /\ UNCHANGED <<failures, mainVars>>

HandleStart ==
    /\ Handles("start")
    /\ esp_wifi_connect
    /\ UNCHANGED <<s_retries, s_wifi_events>>

HandleDisconnected ==
    /\ Handles("disconnected")
    /\ RetriesLeft
    /\ Retry
    /\ UNCHANGED s_wifi_events

HandleLastDisconnected ==
    /\ Handles("disconnected")
    /\ ~RetriesLeft
    /\ s_wifi_events' = s_wifi_events \cup {"fail"}
    /\ UNCHANGED <<link, s_retries>>

HandleGotIp ==
    /\ Handles("gotIp")
    /\ ResetRetries
    /\ s_wifi_events' = s_wifi_events \cup {"connected"}
    /\ UNCHANGED link

-----------------------------------------------------------------------------
(* app_main: wifi_connect. *)

\* xEventGroupWaitBits: either bit, and neither is cleared.
WifiConnectReturns ==
    /\ pc = "wifi"
    /\ s_wifi_events # {}
    /\ pc' = IF "connected" \in s_wifi_events THEN "resolve" ELSE "returned"
    /\ UNCHANGED <<conn_fd, fd, left, open, wifiVars>>

(* net_connect: getaddrinfo, then socket and connect for each address. *)

Resolve ==
    /\ pc = "resolve"
    /\ left' \in 1 .. Addresses
    /\ pc' = "socket"
    /\ UNCHANGED <<conn_fd, fd, open, wifiVars>>

ResolveFails ==
    /\ pc = "resolve"
    /\ pc' = "close"
    /\ UNCHANGED <<conn_fd, fd, left, open, wifiVars>>

OpenSocket ==
    /\ pc = "socket" /\ left > 0
    /\ fd' = left
    /\ open' = open \cup {left}
    /\ pc' = "connect"
    /\ UNCHANGED <<conn_fd, left, wifiVars>>

SocketFails ==
    /\ pc = "socket" /\ left > 0
    /\ fd' = Closed
    /\ left' = left - 1
    /\ UNCHANGED <<pc, conn_fd, open, wifiVars>>

Connects ==
    /\ pc = "connect"
    /\ conn_fd' = fd
    /\ pc' = "subscribe"
    /\ UNCHANGED <<fd, left, open, wifiVars>>

BugLeaveOpen == UNCHANGED open
CloseTried == open' = open \ {fd}

ConnectFails ==
    /\ pc = "connect"
    /\ CloseTried
    /\ fd' = Closed
    /\ left' = left - 1
    /\ pc' = "socket"
    /\ UNCHANGED <<conn_fd, wifiVars>>

NoAddressLeft ==
    /\ pc = "socket" /\ left = 0
    /\ pc' = "close"
    /\ UNCHANGED <<conn_fd, fd, left, open, wifiVars>>

-----------------------------------------------------------------------------
(* app_main: the handshake and what follows it. *)

\* Subscribe, its reply, authorize; the result of suggest_difficulty is ignored.
AfterStep == [subscribe |-> "reply", reply |-> "authorize",
              authorize |-> "primitives"]

HandshakeStep ==
    /\ pc \in DOMAIN AfterStep
    /\ pc' \in {AfterStep[pc], "close"}
    /\ UNCHANGED <<conn_fd, fd, left, open, wifiVars>>

\* net_close(&conn), also when net_connect has failed, and app_main returns.
CloseAndReturn ==
    /\ pc = "close"
    /\ open' = open \ {conn_fd}
    /\ conn_fd' = Closed
    /\ pc' = "returned"
    /\ UNCHANGED <<fd, left, wifiVars>>

\* The mutex and the queue, then the non-blocking socket and the hash task.
Prepare ==
    /\ \/ pc = "primitives" /\ pc' \in {"nonblocking", "returned"}
       \/ pc = "nonblocking" /\ pc' \in {"mining", "returned"}
    /\ UNCHANGED <<conn_fd, fd, left, open, wifiVars>>

\* The connection is lost: esp_restart.
Restart ==
    /\ pc = "mining"
    /\ link' = "idle" /\ events' = <<"start">>
    /\ s_retries' = 0 /\ s_wifi_events' = {} /\ failures' = 0
    /\ pc' = "wifi"
    /\ conn_fd' = Console /\ fd' = Closed /\ left' = 0
    /\ open' = {Console}

-----------------------------------------------------------------------------
Driver == Associates \/ GetsAddress \/ Drops

event_handler ==
    HandleStart \/ HandleDisconnected \/ HandleLastDisconnected \/ HandleGotIp

net_connect ==
    Resolve \/ ResolveFails \/ OpenSocket \/ SocketFails \/ Connects
    \/ ConnectFails \/ NoAddressLeft

app_main ==
    WifiConnectReturns \/ net_connect \/ HandshakeStep \/ CloseAndReturn
    \/ Prepare \/ Restart

Next == Driver \/ event_handler \/ app_main

Spec == Init /\ [][Next]_vars

\* Both tasks run.  An attempt to join the network ends: with an address, or
\* with a disconnect.
FairSpec ==
    /\ Spec
    /\ WF_vars(event_handler)
    /\ WF_vars(app_main)
    /\ WF_vars(link \in {"trying", "associated"} /\ Driver)

-----------------------------------------------------------------------------
(* Properties. *)

\* The station never rests with retries left: when it is idle, an event is on
\* its way to the handler, or the handler has given up (wifi.c:26-35).
StationKeepsTrying ==
    link = "idle" => events # <<>> \/ "fail" \in s_wifi_events

\* It gives up after a first attempt and all retries failed in a row, however
\* many attempts were needed before the last address: an address resets the
\* count, even if it is lost before its event is handled (wifi.c:29, 39).
GivesUpAfterAllRetries ==
    "fail" \in s_wifi_events => failures = WIFI_MAX_RETRY + 1 /\ link = "idle"

\* Of the sockets net_connect tries, only the one it connects stays open, and it
\* is open from then until net_close (net_posix.c:34-55, 178-184).
OneSocket ==
    /\ open \ {Console} = IF pc = "connect" THEN {fd}
                          ELSE {conn_fd} \ {Console, Closed}
    /\ pc \in DOMAIN AfterStep \cup {"primitives", "nonblocking", "mining"}
          => conn_fd \in Sockets

\* wifi_connect returns: with an address, or when the retries run out (wifi.h).
WifiWaitEnds == (pc = "wifi") ~> (pc # "wifi")

-----------------------------------------------------------------------------
(* A property that a comment of the sources states and the code violates.  *)

\* A connection that net_connect failed to make is not passed to net_close
\* (net_posix.h:30-32).  Here it is, and as conn is zeroed, not set to -1, the
\* console's descriptor is closed.
OnlySocketsClosed == Console \in open
=============================================================================
