----------------------------- MODULE DongleLink -----------------------------
(***************************************************************************)
(* The dongle between the car's USB and the Radxa's access point: the WiFi *)
(* station and its event handler (wifi_sta.c), credentials and mode writes *)
(* over Bluetooth (ble_control.c), the TCP tunnel (tcp_tunnel.c) and the   *)
(* USB bridge (usb_bridge.c), wired together in main.c.                    *)
(*                                                                         *)
(* Four tasks run: the event loop, the Bluetooth host, tcp_rx and USB.     *)
(* They share s_connected and s_sock without a lock.  A socket is numbered *)
(* by its connection; 0 stands for -1.  A blocking send of lwIP returns    *)
(* when all is queued, and fails while another send on the socket is in    *)
(* progress.                                                               *)
(***************************************************************************)
EXTENDS Naturals, Sequences

CONSTANTS
  MaxRetry,    \* WIFI_MAX_RETRY
  MaxConns,    \* bound on the tunnel connections
  MaxOutages,  \* bound on the outages of the Radxa
  MaxCar,      \* bound on the messages of the car
  MaxWrites    \* bound on the Bluetooth writes

ASSUME LinkBoundsAssumption ==
  \A n \in {MaxRetry, MaxConns, MaxOutages, MaxCar, MaxWrites} : n \in Nat

Conns == 1 .. MaxConns
Senders == {"usb", "ble"}
Writable == {"good", "bad"}   \* a value written that fits the access point, or not
Mode == 0                     \* the mode command in a stream of car messages

VARIABLES
  radxa,      \* the Radxa, its access point and aa-proxy are up
  outages,
  sta,        \* the WiFi driver: "idle", "joining" or "joined"
  using,      \* whether the credentials of the current attempt are right
  config,     \* the credentials configured
  events,     \* the event loop's queue
  wifiUp,     \* s_connected of wifi_sta.c
  retry,      \* s_retry_count
  newSsid,    \* s_new_ssid, "none" when empty
  applying,   \* set_credentials has disconnected and not yet configured: what it will set
  writes,
  rxAt,       \* the tcp_rx task
  sock,       \* s_sock
  tcpUp,      \* s_connected of tcp_tunnel.c
  conn,       \* per connection: its state at the dongle's end
  conns,
  sender,     \* per sending task: where it is in tcp_tunnel_send
  on,         \* per sending task: the connection it last wrote to
  carSent,    \* messages the car has sent
  streams,    \* per connection: what TCP has taken on and, while it lasts, delivers
  intact,     \* the car has received all that has arrived for it
  mounted     \* usb_bridge.c: s_connected

wifiVars   == <<sta, using, config, events, wifiUp, retry, newSsid, applying>>
tunnelVars == <<rxAt, sock, tcpUp, conns>>
sendVars   == <<sender, on, carSent, streams>>
carVars    == <<intact, mounted>>
linkVars == <<radxa, outages, wifiVars, writes, tunnelVars, conn, sendVars, carVars>>

LinkTypeOK ==
  /\ radxa \in BOOLEAN /\ outages \in 0 .. MaxOutages
  /\ sta \in {"idle", "joining", "joined"} /\ using \in Writable /\ config \in Writable
  /\ events \in Seq({"start", "disconnected", "got ip"})
  /\ wifiUp \in BOOLEAN /\ retry \in 0 .. MaxRetry
  /\ newSsid \in Writable \cup {"none"} /\ applying \in Writable \cup {"no"}
  /\ writes \in 0 .. MaxWrites
  /\ rxAt \in {"wait", "connect", "opened", "recv", "close", "clear", "delay"}
  /\ conns \in 0 .. MaxConns /\ sock \in 0 .. conns /\ tcpUp \in BOOLEAN
  /\ (rxAt \in {"opened", "recv", "close", "clear"}) = (sock # 0)
  /\ conn \in [Conns -> {"none", "up", "broken", "error", "closed"}]
  /\ sender \in [Senders -> {"idle", "checked", "writing"}] /\ on \in [Senders -> 0 .. conns]
  /\ carSent \in 0 .. MaxCar /\ streams \in [Conns -> Seq(0 .. MaxCar)]
  /\ intact \in BOOLEAN /\ mounted \in BOOLEAN

LinkInit ==
  /\ radxa \in BOOLEAN /\ outages = 0
  /\ sta = "idle" /\ using = "good" /\ config = "good" /\ events = <<"start">>
  /\ wifiUp = FALSE /\ retry = 0 /\ newSsid = "none" /\ applying = "no" /\ writes = 0
  /\ rxAt = "wait" /\ sock = 0 /\ tcpUp = FALSE /\ conns = 0
  /\ conn = [c \in Conns |-> "none"]
  /\ sender = [s \in Senders |-> "idle"] /\ on = [s \in Senders |-> 0]
  /\ carSent = 0 /\ streams = [c \in Conns |-> <<>>]
  /\ intact = TRUE /\ mounted = FALSE

-----------------------------------------------------------------------------
(* The Radxa.                                                              *)

\* It goes away: with a goodbye (its kernel closes the connection) or without.
RadxaStops ==
  /\ radxa /\ outages < MaxOutages
  /\ radxa' = FALSE /\ outages' = outages + 1
  /\ \E state \in {"broken", "error"} :
       conn' = [c \in Conns |-> IF conn[c] = "up" THEN state ELSE conn[c]]
  /\ UNCHANGED <<wifiVars, writes, tunnelVars, sendVars, carVars>>

RadxaStarts ==
  /\ ~radxa
  /\ radxa' = TRUE
  /\ UNCHANGED <<outages, wifiVars, writes, tunnelVars, conn, sendVars, carVars>>

\* Mutation of Notice: without SO_KEEPALIVE only an unanswered send tells.
NoticeWhenSending ==
  /\ sock # 0 /\ conn[sock] = "broken" /\ sender["usb"] = "writing"
  /\ conn' = [conn EXCEPT ![sock] = "error"]
  /\ UNCHANGED <<radxa, outages, wifiVars, writes, tunnelVars, sendVars, carVars>>

\* SO_KEEPALIVE: TCP finds out that the other end does not answer.
Notice ==
  /\ sock # 0 /\ conn[sock] = "broken"
  /\ conn' = [conn EXCEPT ![sock] = "error"]
  /\ UNCHANGED <<radxa, outages, wifiVars, writes, tunnelVars, sendVars, carVars>>

-----------------------------------------------------------------------------
(* The WiFi driver (external) and event_handler.                           *)

Joins ==
  /\ sta = "joining" /\ radxa /\ using = "good"
  /\ sta' = "joined" /\ events' = Append(events, "got ip")
  /\ UNCHANGED <<radxa, outages, using, config, wifiUp, retry, newSsid, applying, writes,
                 tunnelVars, conn, sendVars, carVars>>

\* An attempt fails, or the access point is gone.
Loses ==
  /\ \/ sta = "joining" /\ (~radxa \/ using = "bad")
     \/ sta = "joined" /\ ~radxa
  /\ sta' = "idle" /\ events' = Append(events, "disconnected")
  /\ UNCHANGED <<radxa, outages, using, config, wifiUp, retry, newSsid, applying, writes,
                 tunnelVars, conn, sendVars, carVars>>

\* esp_wifi_connect with a configuration: nothing happens unless the station is idle.
WifiConnect(now, credentials) ==
  IF now = "idle" THEN sta' = "joining" /\ using' = credentials
                  ELSE sta' = now /\ UNCHANGED using

NextEvent == Head(events)

Started ==
  /\ NextEvent = "start"
  /\ WifiConnect(sta, config)
  /\ UNCHANGED <<wifiUp, retry>>

\* Mutation of Disconnected: the flag is only reset when it gives up.
DisconnectedKeepFlag ==
  /\ NextEvent = "disconnected"
  /\ wifiUp' = (wifiUp /\ retry < MaxRetry)
  /\ IF retry < MaxRetry THEN retry' = retry + 1 /\ WifiConnect(sta, config)
                         ELSE UNCHANGED <<retry, sta, using>>

Disconnected ==
  /\ NextEvent = "disconnected"
  /\ wifiUp' = FALSE
  /\ IF retry < MaxRetry THEN retry' = retry + 1 /\ WifiConnect(sta, config)
                         ELSE UNCHANGED <<retry, sta, using>>

GotIp ==
  /\ NextEvent = "got ip"
  /\ wifiUp' = TRUE /\ retry' = 0
  /\ UNCHANGED <<sta, using>>

EventHandler ==
  /\ events # <<>>
  /\ events' = Tail(events)
  /\ Started \/ Disconnected \/ GotIp
  /\ UNCHANGED <<radxa, outages, config, newSsid, applying, writes, tunnelVars, conn, sendVars,
                 carVars>>

-----------------------------------------------------------------------------
(* Bluetooth: chr_access_cb, in the host task.                             *)

BleFree == applying = "no" /\ sender["ble"] = "idle" /\ writes < MaxWrites

WriteSsid(v) ==
  /\ BleFree
  /\ newSsid' = v /\ writes' = writes + 1
  /\ UNCHANGED <<radxa, outages, sta, using, config, events, wifiUp, retry, applying, tunnelVars,
                 conn, sendVars, carVars>>

\* Losing its address, lwIP may reset the connection.
Reset ==
  /\ sock # 0 /\ conn[sock] = "up"
  /\ conn' = [conn EXCEPT ![sock] = "error"]

\* A password written after the SSID applies both: wifi_sta_set_credentials begins
\* with esp_wifi_disconnect.  Written before, it waits for the next password.
WritePassword(v) ==
  /\ BleFree
  /\ writes' = writes + 1
  /\ IF newSsid = "none"
       THEN UNCHANGED <<sta, events, applying>>
       ELSE /\ applying' = IF newSsid = "good" /\ v = "good" THEN "good" ELSE "bad"
            /\ sta' = "idle"
            /\ events' = IF sta = "idle" THEN events ELSE Append(events, "disconnected")
  /\ \/ UNCHANGED conn
     \/ newSsid # "none" /\ sta = "joined" /\ Reset
  /\ UNCHANGED <<radxa, outages, using, config, wifiUp, retry, newSsid, tunnelVars, sendVars,
                 carVars>>

\* esp_wifi_set_config, the counter, and esp_wifi_connect.
ApplyCredentials ==
  /\ applying # "no"
  /\ config' = applying /\ retry' = 0
  /\ WifiConnect(sta, applying)
  /\ applying' = "no" /\ newSsid' = "none"
  /\ UNCHANGED <<radxa, outages, events, wifiUp, writes, tunnelVars, conn, sendVars, carVars>>

-----------------------------------------------------------------------------
(* tcp_rx_task.                                                            *)

WaitForWifi ==
  /\ rxAt = "wait" /\ wifiUp
  /\ rxAt' = "connect"
  /\ UNCHANGED <<radxa, outages, wifiVars, writes, sock, tcpUp, conns, conn, sendVars, carVars>>

Reachable == radxa /\ sta = "joined"

Connect ==
  /\ rxAt = "connect" /\ Reachable /\ conns < MaxConns
  /\ conns' = conns + 1 /\ sock' = conns + 1
  /\ conn' = [conn EXCEPT ![conns + 1] = "up"]
  /\ rxAt' = "opened"
  /\ UNCHANGED <<radxa, outages, wifiVars, writes, tcpUp, sendVars, carVars>>

ConnectFails ==
  /\ rxAt = "connect" /\ ~Reachable
  /\ rxAt' = "delay"
  /\ UNCHANGED <<radxa, outages, wifiVars, writes, sock, tcpUp, conns, conn, sendVars, carVars>>

SetConnected ==
  /\ rxAt = "opened"
  /\ tcpUp' = TRUE
  /\ rxAt' = "recv"
  /\ UNCHANGED <<radxa, outages, wifiVars, writes, sock, conns, conn, sendVars, carVars>>

\* A message arrives and on_tcp_rx passes it to usb_bridge_send: dropped when the
\* bus is down, and its tail dropped when the FIFO stays full.
Receive ==
  /\ rxAt = "recv" /\ conn[sock] = "up" /\ sta = "joined"
  /\ \E whole \in BOOLEAN : intact' = (intact /\ mounted /\ whole)
  /\ UNCHANGED <<radxa, outages, wifiVars, writes, tunnelVars, conn, sendVars, mounted>>

Lost ==
  /\ rxAt = "recv" /\ conn[sock] = "error"
  /\ tcpUp' = FALSE
  /\ rxAt' = "close"
  /\ UNCHANGED <<radxa, outages, wifiVars, writes, sock, conns, conn, sendVars, carVars>>

Close ==
  /\ rxAt = "close"
  /\ conn' = [conn EXCEPT ![sock] = "closed"]
  /\ rxAt' = "clear"
  /\ UNCHANGED <<radxa, outages, wifiVars, writes, sock, tcpUp, conns, sendVars, carVars>>

Clear ==
  /\ rxAt = "clear"
  /\ sock' = 0
  /\ rxAt' = "delay"
  /\ UNCHANGED <<radxa, outages, wifiVars, writes, tcpUp, conns, conn, sendVars, carVars>>

\* CONNECT_RETRY_MS: in that second every task gets from its check to its call.
Delay ==
  /\ rxAt = "delay" /\ \A s \in Senders : sender[s] # "checked"
  /\ rxAt' = "wait"
  /\ UNCHANGED <<radxa, outages, wifiVars, writes, sock, tcpUp, conns, conn, sendVars, carVars>>

-----------------------------------------------------------------------------
(* tcp_tunnel_send, from on_usb_rx in the USB task and from a mode write.  *)

\* The check.  Without a tunnel the data is dropped: nobody looks at the result.
BeginSend(s) ==
  /\ sender[s] = "idle"
  /\ IF s = "usb" THEN mounted /\ carSent < MaxCar /\ carSent' = carSent + 1 /\ UNCHANGED writes
                  ELSE BleFree /\ writes' = writes + 1 /\ UNCHANGED carSent
  /\ sender' = [sender EXCEPT ![s] = IF tcpUp /\ sock # 0 THEN "checked" ELSE "idle"]
  /\ UNCHANGED <<radxa, outages, wifiVars, tunnelVars, conn, on, streams, carVars>>

CanWrite == sock # 0 /\ conn[sock] \in {"up", "broken"}
Busy == \E s \in Senders : sender[s] = "writing" /\ on[s] = sock

\* The call of send reads s_sock once more.
Send(s, accepted) ==
  /\ sender[s] = "checked"
  /\ sender' = [sender EXCEPT ![s] = IF accepted THEN "writing" ELSE "idle"]
  /\ on' = IF accepted THEN [on EXCEPT ![s] = sock] ELSE on
  /\ UNCHANGED <<radxa, outages, wifiVars, writes, tunnelVars, conn, carSent, streams, carVars>>

\* Mutation of CallSend: a socket that does not block may refuse at any time.
CallSendNoWait(s) == \E free \in BOOLEAN : Send(s, CanWrite /\ ~Busy /\ free)

CallSend(s) == Send(s, CanWrite /\ ~Busy)

Item(s) == IF s = "usb" THEN carSent ELSE Mode

\* The data is queued and arrives, unless the connection has gone.
FinishSend(s) ==
  /\ sender[s] = "writing"
  /\ streams' = IF conn[on[s]] = "up"
                  THEN [streams EXCEPT ![on[s]] = Append(@, Item(s))] ELSE streams
  /\ sender' = [sender EXCEPT ![s] = "idle"] /\ on' = [on EXCEPT ![s] = 0]
  /\ UNCHANGED <<radxa, outages, wifiVars, writes, tunnelVars, conn, carSent, carVars>>

\* tud_mount_cb and tud_umount_cb; the tunnel is not told.
Mount ==
  /\ sender["usb"] = "idle"
  /\ mounted' = ~mounted
  /\ UNCHANGED <<radxa, outages, wifiVars, writes, tunnelVars, conn, sendVars, intact>>

-----------------------------------------------------------------------------
Driver == Joins \/ Loses \/ Notice
RxTask ==
  \/ WaitForWifi \/ Connect \/ ConnectFails \/ SetConnected \/ Receive
  \/ Lost \/ Close \/ Clear \/ Delay
Ble == ApplyCredentials \/ \E v \in Writable : WriteSsid(v) \/ WritePassword(v)

LinkNext ==
  \/ RadxaStops \/ RadxaStarts
  \/ Driver \/ EventHandler \/ Ble \/ RxTask
  \/ \E s \in Senders : BeginSend(s) \/ CallSend(s) \/ FinishSend(s)
  \/ Mount

\* The driver and every task of the dongle run; what car, phone and Radxa do is
\* up to them.
LinkFairness ==
  /\ WF_linkVars(Joins \/ Loses) /\ WF_linkVars(Notice) /\ WF_linkVars(EventHandler)
  /\ WF_linkVars(ApplyCredentials) /\ WF_linkVars(RxTask)
  /\ \A s \in Senders : WF_linkVars(CallSend(s) \/ FinishSend(s))

LinkSpec == LinkInit /\ [][LinkNext]_linkVars /\ LinkFairness

-----------------------------------------------------------------------------
(* Properties.                                                             *)

\* What aa-proxy receives of the car is in the order it was sent, over the
\* connections too, and within a connection only a mode write can stand where a
\* message was dropped, although the sending tasks use s_sock and s_connected
\* while tcp_rx replaces them.
PipeInOrder ==
  /\ \A c, d \in Conns : \A i \in DOMAIN streams[c], j \in DOMAIN streams[d] :
       (c < d \/ (c = d /\ i < j)) /\ Mode \notin {streams[c][i], streams[d][j]}
         => streams[c][i] < streams[d][j]
  /\ \A c \in Conns : \A i \in 1 .. Len(streams[c]) - 1 :
       Mode \in {streams[c][i], streams[c][i + 1]} \/ streams[c][i + 1] = streams[c][i] + 1

\* Once the event loop has caught up, wifi_sta_connected tells the truth, whatever
\* losses, retries and new credentials overlapped.
FlagSettles == events = <<>> => (wifiUp <=> sta = "joined")

\* While the WiFi connection and the Radxa stay, the tunnel comes back, also when
\* its connection broke without a goodbye.
TunnelComesBack == <>[](wifiUp /\ radxa) => <>[](tcpUp /\ conn[sock] = "up")

\* wifi_sta.c:36 says of the station that has used up its retries that it will keep
\* retrying via Bluetooth or a periodic timer.  There is no such timer.
WifiComesBack == <>[](radxa /\ config = "good" /\ applying = "no") => <>wifiUp
=============================================================================
