--------------------------- MODULE EspStartupProofs ---------------------------
(***************************************************************************)
(* Proofs about EspStartup for every number of retries and addresses.      *)
(***************************************************************************)
EXTENDS EspStartup, SequenceTheorems, TLAPS

USE DEF vars, wifiVars, mainVars

-----------------------------------------------------------------------------
(* The station. *)

\* Between two reconnects the driver can post at most an address and then a
\* disconnect, so the queue is one of five, and what is in it says how far the
\* handler's count is behind the disconnects since the last address.
StationInv ==
    \/ /\ link = "idle" /\ events = <<"start">>
       /\ s_retries = 0 /\ failures = 0 /\ "fail" \notin s_wifi_events
    \/ /\ link \in {"trying", "associated"} /\ events = <<>>
       /\ failures = s_retries /\ "fail" \notin s_wifi_events
    \/ /\ link = "up" /\ events = <<"gotIp">>
       /\ failures = 0 /\ "fail" \notin s_wifi_events
    \/ /\ link = "up" /\ events = <<>>
       /\ s_retries = 0 /\ failures = 0 /\ "fail" \notin s_wifi_events
    \/ /\ link = "idle" /\ events = <<"disconnected">>
       /\ failures = s_retries + 1 /\ "fail" \notin s_wifi_events
    \/ /\ link = "idle" /\ events = <<"gotIp", "disconnected">>
       /\ failures = 1 /\ "fail" \notin s_wifi_events
    \/ /\ link = "idle" /\ events = <<>>
       /\ s_retries = WIFI_MAX_RETRY /\ failures = WIFI_MAX_RETRY + 1
       /\ "fail" \in s_wifi_events

RetriesInv == StationInv /\ s_retries \in 0 .. WIFI_MAX_RETRY

Event == {"start", "gotIp", "disconnected"}

\* A queue of one event, and what is posted behind it.
LEMMA SecondEvent ==
    ASSUME NEW e \in Event, NEW f \in Event
    PROVE  Append(<<e>>, f) = <<e, f>>
<1> DEFINE s == Append(<<e>>, f)
           t == <<e, f>>
<1>1. <<e>> \in Seq(Event) /\ Len(<<e>>) = 1 /\ <<e>>[1] = e
  OBVIOUS
<1>2. t \in Seq(Event) /\ Len(t) = 2 /\ t[1] = e /\ t[2] = f
  OBVIOUS
<1>3. s \in Seq(Event) /\ Len(s) = 2 /\ s[1] = e /\ s[2] = f
  BY <1>1
<1> HIDE DEF s, t
<1>4. \A i \in 1 .. Len(s) : s[i] = t[i]
  <2> SUFFICES ASSUME NEW i \in 1 .. Len(s) PROVE s[i] = t[i]
    OBVIOUS
  <2>1. i = 1 \/ i = 2
    BY <1>3
  <2> QED
    BY <2>1, <1>2, <1>3
<1> QED
  BY <1>2, <1>3, <1>4, SeqEqual DEF s, t

\* The queues that occur, their first event and the rest.
LEMMA Queues ==
    /\ \A e \in Event : /\ Append(<<>>, e) = <<e>>
                         /\ <<e>> # <<>> /\ Head(<<e>>) = e /\ Tail(<<e>>) = <<>>
    /\ Append(<<"gotIp">>, "disconnected") = <<"gotIp", "disconnected">>
    /\ <<"gotIp", "disconnected">> # <<>>
    /\ Head(<<"gotIp", "disconnected">>) = "gotIp"
    /\ Tail(<<"gotIp", "disconnected">>) = <<"disconnected">>
<1>1. Append(<<"gotIp">>, "disconnected") = <<"gotIp", "disconnected">>
  BY SecondEvent DEF Event
<1>2. \A e \in Event : /\ Append(<<>>, e) = <<e>>
                       /\ <<e>> # <<>> /\ Head(<<e>>) = e /\ Tail(<<e>>) = <<>>
  OBVIOUS
<1>3. /\ <<"gotIp", "disconnected">> # <<>>
      /\ Head(<<"gotIp", "disconnected">>) = "gotIp"
      /\ Tail(<<"gotIp", "disconnected">>) = <<"disconnected">>
  OBVIOUS
<1> QED
  BY <1>1, <1>2, <1>3

\* Only the driver and the handler touch the station; a restart begins again.
LEMMA StationStep ==
    ASSUME RetriesInv, [Next]_vars
    PROVE  RetriesInv'
<1>1. WIFI_MAX_RETRY \in Nat
  BY StartupAssumption
<1> USE <1>1, Queues DEF Event, RetriesInv, StationInv
<1>2. CASE Associates
  BY <1>2 DEF Associates
<1>3. CASE GetsAddress
  BY <1>3 DEF GetsAddress
<1>4. CASE Drops
  <2>1. /\ link # "idle" /\ link' = "idle" /\ events' = Append(events, "disconnected")
        /\ UNCHANGED <<s_retries, s_wifi_events>>
    BY <1>4 DEF Drops
  <2>2. failures' = failures + 1
    BY <1>4 DEF Drops, FailuresBound
  <2>3. CASE events = <<>>
    BY <2>1, <2>2, <2>3
  <2>4. CASE events = <<"gotIp">>
    BY <2>1, <2>2, <2>4
  <2> QED
    BY <2>1, <2>3, <2>4
<1>5. CASE HandleStart
  BY <1>5 DEF HandleStart, Handles, esp_wifi_connect
<1>6. CASE HandleDisconnected
  BY <1>6 DEF HandleDisconnected, Handles, RetriesLeft, Retry, esp_wifi_connect
<1>7. CASE HandleLastDisconnected
  <2>1. /\ events # <<>> /\ Head(events) = "disconnected" /\ events' = Tail(events)
        /\ s_retries = WIFI_MAX_RETRY /\ "fail" \in s_wifi_events'
        /\ UNCHANGED <<link, s_retries, failures>>
    BY <1>7 DEF HandleLastDisconnected, Handles, RetriesLeft
  <2>2. link = "idle" /\ events = <<"disconnected">> /\ failures = s_retries + 1
    BY <2>1
  <2> QED
    BY <2>1, <2>2
<1>8. CASE HandleGotIp
  <2>1. /\ events # <<>> /\ Head(events) = "gotIp" /\ events' = Tail(events)
        /\ s_retries' = 0 /\ s_wifi_events' = s_wifi_events \cup {"connected"}
        /\ UNCHANGED <<link, failures>>
    BY <1>8 DEF HandleGotIp, Handles, ResetRetries
  <2>2. events = <<"gotIp">> \/ events = <<"gotIp", "disconnected">>
    BY <2>1
  <2>3. "fail" \notin s_wifi_events /\ "fail" \notin s_wifi_events'
    BY <2>1, <2>2
  <2>4. CASE events = <<"gotIp">>
    BY <2>1, <2>3, <2>4
  <2>5. CASE events = <<"gotIp", "disconnected">>
    BY <2>1, <2>3, <2>5
  <2> QED
    BY <2>2, <2>4, <2>5
<1>9. CASE Restart
  BY <1>9 DEF Restart
<1>10. CASE app_main /\ ~Restart
  <2>1. UNCHANGED wifiVars
    BY <1>10 DEF app_main, WifiConnectReturns, net_connect, Resolve, ResolveFails,
       OpenSocket, SocketFails, Connects, ConnectFails, NoAddressLeft, HandshakeStep,
       CloseAndReturn, Prepare
  <2> QED
    BY <2>1
<1>11. CASE UNCHANGED vars
  BY <1>11
<1> QED
  BY <1>2, <1>3, <1>4, <1>5, <1>6, <1>7, <1>8, <1>9, <1>10, <1>11
     DEF Next, Driver, event_handler

\* The queue of the station's events and its counters agree at all times.
THEOREM StationInvariant == Spec => []RetriesInv
<1>1. Init => RetriesInv
  BY StartupAssumption DEF Init, RetriesInv, StationInv
<1>2. RetriesInv /\ [Next]_vars => RetriesInv'
  BY StationStep
<1> QED
  BY <1>1, <1>2, PTL DEF Spec

\* Whatever the order of events, the station is never idle with retries left and
\* nothing on its way to the handler.
THEOREM StationNeverRests == Spec => []StationKeepsTrying
<1>1. RetriesInv => StationKeepsTrying
  BY Queues DEF RetriesInv, StationInv, StationKeepsTrying
<1> QED
  BY <1>1, StationInvariant, PTL

\* For every number of retries: the station gives up after exactly that many
\* reconnects failed in a row, never because of failures before an address.
THEOREM AllRetriesAreUsed == Spec => []GivesUpAfterAllRetries
<1>1. RetriesInv => GivesUpAfterAllRetries
  BY DEF RetriesInv, StationInv, GivesUpAfterAllRetries
<1> QED
  BY <1>1, StationInvariant, PTL

-----------------------------------------------------------------------------
(* Sockets. *)

\* Until net_connect has connected, conn is as it was zeroed.
SocketInv ==
    /\ OneSocket
    /\ pc \in {"wifi", "resolve", "socket", "connect"} => conn_fd = Console
    /\ pc = "connect" => fd \in Sockets /\ left > 0
    /\ left \in 0 .. Addresses
    /\ open \subseteq Sockets \cup {Console}

\* Each step of app_main closes what it leaves, and the station has no sockets.
LEMMA SocketStep ==
    ASSUME SocketInv, [Next]_vars
    PROVE  SocketInv'
<1>1. Addresses \in Nat
  BY StartupAssumption
<1> USE <1>1 DEF SocketInv, OneSocket, Console, Closed, Sockets, AfterStep
<1>2. CASE Driver \/ event_handler
  <2>1. UNCHANGED mainVars
    BY <1>2 DEF Driver, Associates, GetsAddress, Drops, event_handler, HandleStart,
       HandleDisconnected, HandleLastDisconnected, HandleGotIp, Handles
  <2> QED
    BY <2>1
<1>3. CASE WifiConnectReturns
  BY <1>3 DEF WifiConnectReturns
<1>4. CASE Resolve \/ ResolveFails \/ NoAddressLeft
  BY <1>4 DEF Resolve, ResolveFails, NoAddressLeft
<1>5. CASE OpenSocket
  BY <1>5 DEF OpenSocket
<1>6. CASE SocketFails
  BY <1>6 DEF SocketFails
<1>7. CASE Connects
  BY <1>7 DEF Connects
<1>8. CASE ConnectFails
  <2>1. /\ pc = "connect" /\ pc' = "socket" /\ conn_fd = 0 /\ conn_fd' = 0
        /\ open' = open \ {fd} /\ left' = left - 1
    BY <1>8 DEF ConnectFails, CloseTried
  <2>2. open' \ {0} = {}
    BY <2>1
  <2>3. left' \in 0 .. Addresses
    BY <2>1
  <2> QED
    BY <2>1, <2>2, <2>3
<1>9. CASE HandshakeStep
  BY <1>9 DEF HandshakeStep
<1>10. CASE CloseAndReturn
  BY <1>10 DEF CloseAndReturn
<1>11. CASE Prepare
  BY <1>11 DEF Prepare
<1>12. CASE Restart
  BY <1>12 DEF Restart
<1>13. CASE UNCHANGED vars
  BY <1>13
<1> QED
  BY <1>2, <1>3, <1>4, <1>5, <1>6, <1>7, <1>8, <1>9, <1>10, <1>11, <1>12, <1>13
     DEF Next, app_main, net_connect

\* For every number of addresses: of the sockets net_connect tries only the one
\* it connects stays open, through all failures of the handshake.
THEOREM OnlyOneSocket == Spec => []OneSocket
<1>1. Init => SocketInv
  BY StartupAssumption DEF Init, SocketInv, OneSocket, Console, Closed, Sockets, AfterStep
<1>2. SocketInv /\ [Next]_vars => SocketInv'
  BY SocketStep
<1>3. SocketInv => OneSocket
  BY DEF SocketInv
<1> QED
  BY <1>1, <1>2, <1>3, PTL DEF Spec

-----------------------------------------------------------------------------
(* Types. *)

\* The part of the types that is left when the station's and the sockets' invariants
\* are known.
RestOK ==
    /\ events \in Seq(Event)
    /\ s_wifi_events \subseteq {"connected", "fail"}
    /\ pc \in {"wifi", "resolve", "socket", "connect", "subscribe", "reply", "authorize",
               "primitives", "nonblocking", "mining", "close", "returned"}
    /\ conn_fd \in Sockets \cup {Console, Closed}
    /\ fd \in Sockets \cup {Closed}

\* The invariants give the ranges of the counters and of the link.
LEMMA TypesFollow == RetriesInv /\ SocketInv /\ RestOK => TypeOK
<1> SUFFICES ASSUME RetriesInv, SocketInv, RestOK PROVE TypeOK
  OBVIOUS
<1>1. WIFI_MAX_RETRY \in Nat
  BY StartupAssumption
<1>2. /\ link \in {"idle", "trying", "associated", "up"}
      /\ failures \in 0 .. WIFI_MAX_RETRY + 2 /\ s_retries \in 0 .. WIFI_MAX_RETRY
  BY <1>1 DEF RetriesInv, StationInv
<1>3. Event = {"start", "disconnected", "gotIp"}
  BY DEF Event
<1> QED
  BY <1>2, <1>3 DEF TypeOK, FailuresBound, SocketInv, RestOK

\* Every step keeps the rest.
LEMMA RestStep ==
    ASSUME SocketInv, RestOK, [Next]_vars
    PROVE  RestOK'
<1>1. events' \in Seq(Event)
  <2>1. events \in Seq(Event)
    BY DEF RestOK
  <2>2. CASE Drops \/ GetsAddress
    BY <2>1, <2>2 DEF Drops, GetsAddress, Event
  <2>3. CASE event_handler
    <3>1. events # <<>> /\ events' = Tail(events)
      BY <2>3 DEF event_handler, HandleStart, HandleDisconnected, HandleLastDisconnected,
                  HandleGotIp, Handles
    <3> QED
      BY <2>1, <3>1, HeadTailProperties
  <2>4. CASE Restart
    BY <2>4 DEF Restart, Event
  <2>5. CASE UNCHANGED events
    BY <2>1, <2>5
  <2> QED
    BY <2>2, <2>3, <2>4, <2>5
       DEF Next, Driver, Associates, app_main, WifiConnectReturns, net_connect, Resolve,
           ResolveFails, OpenSocket, SocketFails, Connects, ConnectFails, NoAddressLeft,
           HandshakeStep, CloseAndReturn, Prepare
<1>2. s_wifi_events' \subseteq {"connected", "fail"}
  BY DEF RestOK, Next, Driver, Associates, GetsAddress, Drops, event_handler, HandleStart,
         HandleDisconnected, HandleLastDisconnected, HandleGotIp, app_main, WifiConnectReturns,
         net_connect, Resolve, ResolveFails, OpenSocket, SocketFails, Connects, ConnectFails,
         NoAddressLeft, HandshakeStep, CloseAndReturn, Prepare, Restart
<1>3. /\ pc' \in {"wifi", "resolve", "socket", "connect", "subscribe", "reply", "authorize",
                  "primitives", "nonblocking", "mining", "close", "returned"}
      /\ conn_fd' \in Sockets \cup {Console, Closed}
      /\ fd' \in Sockets \cup {Closed}
  <2> USE DEF RestOK
  <2>1. CASE UNCHANGED mainVars
    BY <2>1
  <2>2. CASE WifiConnectReturns \/ HandshakeStep \/ CloseAndReturn \/ Prepare \/ Restart
    BY <2>2 DEF WifiConnectReturns, HandshakeStep, CloseAndReturn, Prepare, Restart, AfterStep
  <2>3. CASE OpenSocket
    <3>1. left \in Sockets
      BY <2>3, StartupAssumption DEF OpenSocket, SocketInv, Sockets
    <3> QED
      BY <2>3, <3>1 DEF OpenSocket
  <2>4. CASE Connects
    BY <2>4 DEF Connects, SocketInv
  <2>5. CASE Resolve \/ ResolveFails \/ SocketFails \/ ConnectFails \/ NoAddressLeft
    BY <2>5 DEF Resolve, ResolveFails, SocketFails, ConnectFails, NoAddressLeft
  <2>6. CASE Driver \/ event_handler
    <3>1. UNCHANGED mainVars
      BY <2>6 DEF Driver, Associates, GetsAddress, Drops, event_handler, HandleStart,
                  HandleDisconnected, HandleLastDisconnected, HandleGotIp, Handles
    <3> QED
      BY <2>1, <3>1
  <2> QED
    BY <2>1, <2>2, <2>3, <2>4, <2>5, <2>6 DEF Next, app_main, net_connect
<1> QED
  BY <1>1, <1>2, <1>3 DEF RestOK

\* Types hold for every number of retries and addresses; with them the history of
\* disconnects never reaches its bound, so capping it loses nothing.
THEOREM StartupTypes == Spec => [](TypeOK /\ failures < FailuresBound)
<1>1. Init => RestOK /\ SocketInv
  <2>1. Init => RestOK
    BY DEF Init, RestOK, Event, Console, Closed
  <2>2. Init => SocketInv
    BY StartupAssumption DEF Init, SocketInv, OneSocket, Console, Closed, Sockets, AfterStep
  <2> QED
    BY <2>1, <2>2
<1>2. RetriesInv /\ SocketInv /\ RestOK => TypeOK /\ failures < FailuresBound
  <2>1. RetriesInv => failures < FailuresBound
    BY StartupAssumption DEF RetriesInv, StationInv, FailuresBound
  <2> QED
    BY <2>1, TypesFollow
<1>3. SocketInv /\ RestOK /\ [Next]_vars => SocketInv' /\ RestOK'
  BY SocketStep, RestStep
<1> QED
  BY <1>1, <1>2, <1>3, StationInvariant, PTL DEF Spec

\* The console's descriptor is lost only by closing a connection that was never
\* made, and then app_main has returned: a board that connects, shakes hands or
\* mines has its console (the limit of what OnlySocketsClosed says).
ConsoleOpenWhileRunning ==
    ~ OnlySocketsClosed => pc = "returned" /\ open = {} /\ conn_fd = Closed

\* For every number of retries and addresses, only the way out of app_main after a
\* failed connect closes the console.
THEOREM ConsoleStaysOpen == Spec => []ConsoleOpenWhileRunning
<1> USE DEF ConsoleOpenWhileRunning, OnlySocketsClosed
<1>1. Init => ConsoleOpenWhileRunning
  BY DEF Init, Console
<1>2. ASSUME SocketInv, ConsoleOpenWhileRunning, [Next]_vars
      PROVE  ConsoleOpenWhileRunning'
  <2>1. CASE CloseAndReturn
    <3>1. /\ pc = "close" /\ open' = open \ {conn_fd} /\ conn_fd' = Closed
          /\ pc' = "returned" /\ Console \in open
      BY <1>2, <2>1 DEF CloseAndReturn
    <3>2. Console \notin open' => conn_fd = Console
      BY <3>1
    <3>3. open \ {Console} = {conn_fd} \ {Console, Closed}
      BY <1>2, <3>1 DEF SocketInv, OneSocket
    <3> QED
      BY <3>1, <3>2, <3>3
  <2>2. CASE Restart
    BY <2>2 DEF Restart
  <2>3. CASE ConnectFails
    <3>1. fd # Console
      BY <1>2, <2>3, StartupAssumption DEF ConnectFails, SocketInv, Sockets, Console
    <3> QED
      BY <1>2, <2>3, <3>1 DEF ConnectFails, CloseTried
  <2>4. CASE Driver \/ event_handler
    <3>1. UNCHANGED mainVars
      BY <2>4 DEF Driver, Associates, GetsAddress, Drops, event_handler, HandleStart,
         HandleDisconnected, HandleLastDisconnected, HandleGotIp, Handles
    <3> QED
      BY <1>2, <3>1 DEF mainVars
  <2>5. CASE WifiConnectReturns
    BY <1>2, <2>5 DEF WifiConnectReturns
  <2>6. CASE Resolve \/ ResolveFails \/ NoAddressLeft
    BY <1>2, <2>6 DEF Resolve, ResolveFails, NoAddressLeft
  <2>7. CASE OpenSocket
    BY <1>2, <2>7 DEF OpenSocket
  <2>8. CASE SocketFails
    BY <1>2, <2>8 DEF SocketFails
  <2>9. CASE Connects
    BY <1>2, <2>9 DEF Connects
  <2>10. CASE HandshakeStep
    BY <1>2, <2>10 DEF HandshakeStep, AfterStep
  <2>11. CASE Prepare
    BY <1>2, <2>11 DEF Prepare
  <2>12. CASE UNCHANGED vars
    BY <1>2, <2>12 DEF vars, mainVars
  <2> QED
    BY <1>2, <2>1, <2>2, <2>3, <2>4, <2>5, <2>6, <2>7, <2>8, <2>9, <2>10, <2>11, <2>12
       DEF Next, app_main, net_connect
<1>3. Init => SocketInv
  BY StartupAssumption DEF Init, SocketInv, OneSocket, Console, Closed, Sockets, AfterStep
<1>4. SocketInv /\ [Next]_vars => SocketInv'
  BY SocketStep
<1> QED
  BY <1>1, <1>2, <1>3, <1>4, PTL DEF Spec
=============================================================================
