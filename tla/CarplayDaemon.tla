--------------------------- MODULE CarplayDaemon ---------------------------
(***************************************************************************)
(* The main thread of the CarPlay daemon (main.c): its loop over iPhone    *)
(* connections, and in each connection the iAP2 link parser (iap2_link.c), *)
(* the iAP2 session (iap2_session.c) and the CarPlay handler               *)
(* (iap2_carplay.c), from the callback of one packet to the next read().   *)
(*                                                                         *)
(* A stream is a sequence of cells: the header of a packet, then its       *)
(* payload if it has one.  Any number of cells can arrive by one read().   *)
(* Sequence numbers are left out: the daemon sends them and checks none.   *)
(***************************************************************************)
EXTENDS Naturals, Sequences

CONSTANTS
  Messages,        \* what the iPhone sends
  Capacity,        \* cells the parser's buffer holds
  MaxPackets,      \* bound on the packets an iPhone sends
  MaxNoise,        \* bound on those of them that have a wrong header
  MaxConnections   \* bound on the connections

ControlMessages == {"accepted", "rejected", "certRequest", "challenge", "startEap", "eapStarted",
                    "stopEap"}
EapMessages == {"startWireless", "ownNetwork", "stopWireless"}

ASSUME MessagesAssumption == Messages \subseteq {"syn", "ack", "rst"} \cup ControlMessages \cup EapMessages
ASSUME DaemonBoundsAssumption ==
  Capacity \in Nat \ {0} /\ MaxPackets \in Nat /\ MaxNoise \in Nat /\ MaxConnections \in Nat

VARIABLES
  running,     \* g_running
  at,          \* where main() is
  iPhone,      \* the RFCOMM connection: "none", "up", "closed" by the iPhone
  inFlight,    \* cells under way to the daemon
  buf,         \* the cells in hand: carry_buf, and what the last read() added
  identified,  \* sess.identified
  certificate, \* sess.mfi_cert_len > 0
  requested,   \* sess.carplay_started
  started,     \* rx_ctx.carplay_started
  cp,          \* g_carplay.state
  ownNetwork,  \* ~g_carplay.we_provide_wifi
  announced,   \* ready_cb has been called, stopped_cb not since then
  told,        \* what the iPhone was sent in this connection
  handled,     \* history: the packets of this connection that were handled
  packets, noise, connections   \* the counters of the bounds

sessionVars == <<identified, certificate, requested>>
carplayVars == <<cp, ownNetwork, announced>>
boundVars   == <<packets, noise, connections>>
daemonVars == <<running, at, iPhone, inFlight, buf, sessionVars, started, carplayVars, told,
                handled, boundVars>>

States == {"IDLE", "EAP_STARTING", "EAP_RUNNING", "SESSION_ACTIVE", "STOPPED", "ERROR"}
Replies == {"identification", "certificate", "signature", "eapStarted", "startEap", "credentials",
            "stopEap"}
InCall == {"loop", "poll", "parse", "spin", "check"}

Header(m, ok, len) == [part |-> "header", msg |-> m, ok |-> ok, len |-> len]
PacketBody == [part |-> "body", msg |-> "none", ok |-> FALSE, len |-> 0]

\* A header with a wrong checksum claims the packet's length or more than the buffer
\* holds; one with a right checksum can still claim less than its own nine bytes.  From 1
\* to 8 that is a packet without payload in front of noise; 0 is a case of its own.
WrongLengths == {2, Capacity + 1}
NoiseLengths == WrongLengths \cup {0}
Packet(m) ==
  IF m \in {"syn", "ack", "rst"} THEN << Header(m, TRUE, 1) >>
                                 ELSE << Header(m, TRUE, 2), PacketBody >>
Noise(len) == << Header("none", len = 0, len), PacketBody >>

Cells == {Packet(m)[1] : m \in Messages} \cup {Noise(len)[1] : len \in NoiseLengths}
         \cup {PacketBody}

DaemonTypeOK ==
  /\ running \in BOOLEAN /\ iPhone \in {"none", "up", "closed"}
  /\ at \in InCall \cup {"startup", "test", "calling", "accept", "retry", "setup", "cleanup",
                         "shutdown", "stopping", "exited"}
  /\ inFlight \in Seq(Cells) /\ buf \in Seq(Cells) /\ Len(buf) <= Capacity
  /\ {identified, certificate, requested, started, ownNetwork, announced} \subseteq BOOLEAN
  /\ cp \in States /\ told \subseteq Replies

NewSession ==
  /\ identified' = FALSE /\ requested' = FALSE /\ started' = FALSE
  /\ buf' = <<>> /\ handled' = 0

DaemonInit ==
  /\ running = TRUE /\ at = "startup"
  /\ iPhone = "none" /\ inFlight = <<>> /\ buf = <<>>
  /\ identified = FALSE /\ certificate = FALSE /\ requested = FALSE /\ started = FALSE
  /\ cp = "IDLE" /\ ownNetwork = TRUE /\ announced = FALSE
  /\ told = {} /\ handled = 0
  /\ packets = 0 /\ noise = 0 /\ connections = 0

-----------------------------------------------------------------------------
(* The iPhone, and the signal.                                             *)

Dials ==
  /\ iPhone = "none" /\ connections < MaxConnections /\ at \notin {"startup", "exited"}
  /\ iPhone' = "up" /\ packets' = 0
  /\ connections' = connections + 1
  /\ UNCHANGED <<running, at, inFlight, buf, sessionVars, started, carplayVars, told, handled,
                 noise>>

Sends(m) ==
  /\ iPhone = "up" /\ at \in InCall
  /\ packets < MaxPackets
  /\ inFlight' = inFlight \o Packet(m) /\ packets' = packets + 1
  /\ UNCHANGED <<running, at, iPhone, buf, sessionVars, started, carplayVars, told, handled, noise,
                 connections>>

SendsNoise(len) ==
  /\ iPhone = "up" /\ at \in InCall
  /\ packets < MaxPackets /\ noise < MaxNoise
  /\ inFlight' = inFlight \o Noise(len) /\ packets' = packets + 1 /\ noise' = noise + 1
  /\ UNCHANGED <<running, at, iPhone, buf, sessionVars, started, carplayVars, told, handled,
                 connections>>

HangsUp ==
  /\ iPhone = "up" /\ iPhone' = "closed"
  /\ UNCHANGED <<running, at, inFlight, buf, sessionVars, started, carplayVars, told, handled,
                 boundVars>>

\* SIGINT or SIGTERM: it interrupts accept(), when main is in it.
Signal ==
  /\ running /\ at # "exited"
  /\ running' = FALSE
  /\ at' = IF at = "accept" THEN "test" ELSE at
  /\ UNCHANGED <<iPhone, inFlight, buf, sessionVars, started, carplayVars, told, handled,
                 boundVars>>

-----------------------------------------------------------------------------
(* main.                                                                   *)

Goto(l) == at' = l

\* Each of these can fail: mfi_open and mfi_get_version, iap2_bt_init, the AirPlay server.
MfiOpens       == BOOLEAN
BluetoothUp    == BOOLEAN
AirPlayStarts  == BOOLEAN

Startup ==
  /\ at = "startup"
  /\ \E mfi \in MfiOpens, bt \in BluetoothUp, airplay \in AirPlayStarts :
       Goto(IF mfi /\ bt /\ airplay THEN "test" ELSE "exited")
  /\ UNCHANGED <<running, iPhone, inFlight, buf, sessionVars, started, carplayVars, told,
                 handled, boundVars>>

TestRunning ==
  /\ at \in {"test", "retry"}
  /\ Goto(IF running THEN "calling" ELSE "shutdown")
  /\ UNCHANGED <<running, iPhone, inFlight, buf, sessionVars, started, carplayVars, told,
                 handled, boundVars>>

\* From here on a signal interrupts the call.
CallAccept ==
  /\ at = "calling" /\ Goto("accept")
  /\ UNCHANGED <<running, iPhone, inFlight, buf, sessionVars, started, carplayVars, told,
                 handled, boundVars>>

\* iap2_bt_accept fails: a pause, and again.
BtAcceptFails ==
  /\ at = "accept" /\ Goto(IF running THEN "retry" ELSE "shutdown")
  /\ UNCHANGED <<running, iPhone, inFlight, buf, sessionVars, started, carplayVars, told,
                 handled, boundVars>>

Accept ==
  /\ at = "accept" /\ iPhone # "none"
  /\ Goto("setup")
  /\ NewSession
  /\ told' = {}
  /\ UNCHANGED <<running, iPhone, inFlight, certificate, carplayVars, boundVars>>

\* What write() reports: an error can only come once the iPhone has closed.
Written == IF iPhone = "up" THEN {TRUE} ELSE BOOLEAN
Tell(r, ok) == told' = IF ok THEN told \cup {r} ELSE told
SendIdentification(ok) == Tell("identification", ok)
SendAuthCert(ok)       == Tell("certificate", ok /\ certificate)
SendAuthResponse(ok)   == Tell("signature", ok)
SendStartEap(ok)       == Tell("startEap", ok)
SendStopEap(ok)        == Tell("stopEap", ok)
SendCredentials(ok)    == Tell("credentials", ok)

\* The MFi chip: the certificate can be unreadable, and a signature can time out.
CertificateRead == BOOLEAN
Signed(ok)      == {ok, FALSE}

\* handle_iphone_connection up to its loop: SYN, identification, iap2_carplay_init.
Setup ==
  /\ at = "setup"
  /\ certificate' \in CertificateRead
  /\ \E ok \in Written :
       /\ SendIdentification(ok)
       /\ Goto(IF ok THEN "loop" ELSE "cleanup")
       /\ IF ok THEN cp' = "IDLE" /\ ownNetwork' = TRUE /\ announced' = FALSE
                ELSE UNCHANGED carplayVars
  /\ UNCHANGED <<running, iPhone, inFlight, buf, identified, requested, started, handled,
                 boundVars>>

TestLoop ==
  /\ at = "loop"
  /\ Goto(IF running THEN "poll" ELSE "cleanup")
  /\ UNCHANGED <<running, iPhone, inFlight, buf, sessionVars, started, carplayVars, told,
                 handled, boundVars>>

-----------------------------------------------------------------------------
(* iap2_link_process.                                                      *)

\* Mutation of Timeout: the poll() is not limited to 500 ms.
NoTimeout == at = "poll" /\ FALSE /\ UNCHANGED daemonVars

Timeout ==
  /\ at = "poll" /\ inFlight = <<>> /\ iPhone = "up"
  /\ Goto("check")
  /\ UNCHANGED <<running, iPhone, inFlight, buf, sessionVars, started, carplayVars, told,
                 handled, boundVars>>

\* The cells in hand, and as many of those under way as there is room for or as arrive.
Read ==
  /\ at = "poll" /\ inFlight # <<>>
  /\ \E n \in 1 .. Len(inFlight) :
       /\ Len(buf) + n <= Capacity
       /\ buf' = buf \o SubSeq(inFlight, 1, n)
       /\ inFlight' = SubSeq(inFlight, n + 1, Len(inFlight))
  /\ Goto("parse")
  /\ UNCHANGED <<running, iPhone, sessionVars, started, carplayVars, told, handled, boundVars>>

\* read() returns 0: the iPhone has closed, or there is no room left.
ReadNothing ==
  /\ at = "poll"
  /\ (inFlight = <<>> /\ iPhone = "closed") \/ (inFlight # <<>> /\ Len(buf) = Capacity)
  /\ Goto("cleanup")
  /\ UNCHANGED <<running, iPhone, inFlight, buf, sessionVars, started, carplayVars, told,
                 handled, boundVars>>

Complete(b) == b # <<>> /\ (b[1].part = "header" => Len(b) >= b[1].len)
Good(b)     == Complete(b) /\ b[1].part = "header" /\ b[1].ok

\* The checksum of a header of length 0 is right: it is handled again and again, as the
\* parser advances by that length, and iap2_link_process does not return.
SpinsForever ==
  /\ at = "parse" /\ Good(buf) /\ buf[1].len = 0
  /\ Goto("spin")
  /\ UNCHANGED <<running, iPhone, inFlight, buf, sessionVars, started, carplayVars, told,
                 handled, boundVars>>

\* Not a sync byte, or a wrong checksum: one cell further.
SkipCell ==
  /\ at = "parse" /\ Complete(buf) /\ ~Good(buf)
  /\ buf' = Tail(buf)
  /\ UNCHANGED <<running, at, iPhone, inFlight, sessionVars, started, carplayVars, told,
                 handled, boundVars>>

\* Mutation of EndOfBuffer: the unfinished packet is not carried forward.
EndOfBufferForget ==
  /\ at = "parse" /\ ~Complete(buf)
  /\ buf' = <<>>
  /\ Goto("check")
  /\ UNCHANGED <<running, iPhone, inFlight, sessionVars, started, carplayVars, told, handled,
                 boundVars>>

EndOfBuffer ==
  /\ at = "parse" /\ ~Complete(buf)
  /\ Goto("check")
  /\ UNCHANGED <<running, iPhone, inFlight, buf, sessionVars, started, carplayVars, told,
                 handled, boundVars>>

\* The next packet in hand, m, is handled and left behind.
Handles(m) ==
  /\ at = "parse" /\ Good(buf) /\ buf[1].msg = m
  /\ buf' = SubSeq(buf, buf[1].len + 1, Len(buf))
  /\ handled' = handled + 1
  /\ UNCHANGED <<running, iPhone, inFlight, certificate, started, boundVars>>

NoChange == UNCHANGED <<identified, requested, carplayVars, told>>

\* SYN is answered, ACK noted; the status update of the iPhone is only logged.
LinkControl ==
  /\ \E m \in {"syn", "ack"} : Handles(m)
  /\ NoChange /\ UNCHANGED at

LinkReset == Handles("rst") /\ Goto("cleanup") /\ NoChange

-----------------------------------------------------------------------------
(* iap2_session_handle_message; those that the CarPlay handler ignores.    *)

Identification ==
  /\ \E m \in {"accepted", "rejected"} : Handles(m) /\ identified' = (m = "accepted")
  /\ UNCHANGED <<at, requested, carplayVars, told>>

\* Without a certificate there is no answer.
CertRequest ==
  /\ Handles("certRequest")
  /\ \E ok \in Written : SendAuthCert(ok)
  /\ UNCHANGED <<at, identified, requested, carplayVars>>

Challenge ==
  /\ Handles("challenge")
  /\ \E ok \in Written : \E signed \in Signed(ok) : SendAuthResponse(signed)
  /\ UNCHANGED <<at, identified, requested, carplayVars>>

StartEap ==
  /\ Handles("startEap")
  /\ requested' = TRUE
  /\ \E ok \in Written : Tell("eapStarted", ok)
  /\ UNCHANGED <<at, identified, carplayVars>>

-----------------------------------------------------------------------------
(* iap2_carplay_handle_message, once rx_ctx.carplay_started is set.        *)

\* Before, EAP packets are ignored, and control messages go to the session alone.
NotStarted ==
  /\ ~started
  /\ \E m \in EapMessages \cup {"eapStarted", "stopEap"} : Handles(m)
  /\ NoChange /\ UNCHANGED at

EapStarted ==
  /\ started /\ Handles("eapStarted")
  /\ cp' = "EAP_RUNNING"
  /\ UNCHANGED <<at, identified, requested, ownNetwork, announced, told>>

\* Mutation of Stopped: stopped_cb is called for one of the two only.
StoppedUntold ==
  /\ started /\ \E m \in {"stopEap", "stopWireless"} : Handles(m) /\ announced' = (announced /\ m = "stopEap")
  /\ cp' = "STOPPED"
  /\ UNCHANGED <<at, identified, requested, ownNetwork, told>>

Stopped ==
  /\ started /\ \E m \in {"stopEap", "stopWireless"} : Handles(m)
  /\ cp' = "STOPPED" /\ announced' = FALSE
  /\ UNCHANGED <<at, identified, requested, ownNetwork, told>>

\* The iPhone has a network of its own.
UseOwnNetwork ==
  /\ started /\ Handles("ownNetwork")
  /\ cp' = "SESSION_ACTIVE" /\ announced' = TRUE /\ ownNetwork' = TRUE
  /\ UNCHANGED <<at, identified, requested, told>>

OfferNetwork ==
  /\ started /\ Handles("startWireless")
  /\ ownNetwork' = FALSE
  /\ \E ok \in Written :
       /\ SendCredentials(ok)
       /\ cp' = IF ok THEN "SESSION_ACTIVE" ELSE "ERROR"
       /\ announced' = (ok \/ announced)
  /\ UNCHANGED <<at, identified, requested>>

-----------------------------------------------------------------------------
(* The rest of the loop, and its end.                                      *)

\* iap2_carplay_start refuses a state other than IDLE; either failure drops the connection.
StartCarplay ==
  /\ at = "check" /\ requested /\ ~started
  /\ started' = TRUE
  /\ IF cp = "IDLE"
       THEN \E ok \in Written :
              /\ cp' = IF ok THEN "EAP_STARTING" ELSE "ERROR"
              /\ SendStartEap(ok)
              /\ Goto(IF ok THEN "loop" ELSE "cleanup")
       ELSE Goto("cleanup") /\ UNCHANGED <<cp, told>>
  /\ UNCHANGED <<running, iPhone, inFlight, buf, sessionVars, ownNetwork, announced, handled,
                 boundVars>>

NothingToStart ==
  /\ at = "check" /\ ~(requested /\ ~started)
  /\ Goto("loop")
  /\ UNCHANGED <<running, iPhone, inFlight, buf, sessionVars, started, carplayVars, told,
                 handled, boundVars>>

\* The connection is closed; main tests g_running again.
BtClose ==
  /\ at = "cleanup" /\ Goto("test")
  /\ iPhone' = "none" /\ inFlight' = <<>> /\ NewSession
  /\ UNCHANGED <<running, certificate, ownNetwork, boundVars>>

\* iap2_carplay_stop, from a state in which there is something to stop.
CarplayStop ==
  /\ BtClose
  /\ IF started /\ cp \notin {"IDLE", "STOPPED"}
       THEN \E ok \in Written :
              /\ SendStopEap(ok)
              /\ cp' = IF ok THEN "STOPPED" ELSE "ERROR"
              /\ announced' = (announced /\ ~ok)
       ELSE UNCHANGED <<cp, announced, told>>

\* main calls airplay_server_stop and joins the thread of the server.
Shutdown ==
  /\ at = "shutdown" /\ Goto("stopping")
  /\ UNCHANGED <<running, iPhone, inFlight, buf, sessionVars, started, carplayVars, told,
                 handled, boundVars>>

\* Both return (module AirPlayServer says when); then Bluetooth, compositor and MFi chip.
AirPlayStopped ==
  /\ at = "stopping" /\ Goto("exited")
  /\ UNCHANGED <<running, iPhone, inFlight, buf, sessionVars, started, carplayVars, told,
                 handled, boundVars>>

-----------------------------------------------------------------------------
IPhone == \/ Dials \/ HangsUp
          \/ \E m \in Messages : Sends(m)
          \/ \E len \in NoiseLengths : SendsNoise(len)
Parser ==
  \/ Timeout \/ Read \/ ReadNothing \/ SkipCell \/ SpinsForever \/ EndOfBuffer
  \/ LinkControl \/ LinkReset \/ Identification \/ CertRequest \/ Challenge \/ StartEap
  \/ NotStarted \/ EapStarted \/ Stopped \/ UseOwnNetwork \/ OfferNetwork
Main ==
  \/ Startup \/ TestRunning \/ CallAccept \/ Accept \/ Setup \/ TestLoop \/ Parser
  \/ StartCarplay \/ NothingToStart \/ CarplayStop \/ Shutdown

DaemonNext == IPhone \/ Signal \/ Main \/ BtAcceptFails \/ AirPlayStopped

\* The main thread runs, and what it writes to the iPhone does not block.  That the AirPlay
\* server can be stopped is not assumed.
DaemonSpec == DaemonInit /\ [][DaemonNext]_daemonVars /\ WF_daemonVars(Main)

-----------------------------------------------------------------------------
(* Properties.                                                             *)

Whole(c) == c.part = "header" /\ c.ok /\ c.len > 0

\* The packets with a right header among the cells of s, in their order.
Packets(s) ==
  LET of[n \in 0 .. Len(s)] ==
        IF n = 0 THEN <<>>
        ELSE IF Whole(s[n]) THEN Append(of[n - 1], s[n].msg) ELSE of[n - 1]
  IN of[Len(s)]

\* The packets that have been sent and not handled: what a reliable link would hold.
Pending == Packets(buf \o inFlight)
Link == INSTANCE Fifo WITH queue <- Pending, taken <- handled, open <- iPhone # "none"

\* However the bytes are cut by the reads, and whatever noise lies between: the packets of
\* a connection are handled once each, in order, or the connection is over.
ImplementsFifo == Link!Spec

\* A wireless session that ready_cb announced is reported over by stopped_cb before main
\* takes the next connection, unless the iPhone has closed the connection first: then
\* StopEAP may not go out, and the callback is left out (iap2_carplay.c:404-408).
StopIsTold == [][at = "cleanup" /\ at' # "cleanup" /\ announced' => iPhone = "closed"]_daemonVars

\* ready_cb announces nothing outside an EAP session that the daemon itself has asked this
\* iPhone for, whatever the iPhone sends and in what order, in this connection or before.
AnnouncedInEap == announced /\ at \in InCall => "startEap" \in told

\* Announcements stay within their connection, but for those whose end cannot be sent.
SessionSound == StopIsTold /\ []AnnouncedInEap

\* iap2_carplay.h:104: "stopped_cb - invoked when the session ends".
StoppedAlwaysTold == at \in {"test", "calling", "accept"} => ~announced

\* The AirPlay server does not keep main waiting for ever: StopLetsExit of AirPlayServer.
AirPlayStops == WF_daemonVars(AirPlayStopped)

\* A signal in a connection, also one that falls silent, ends the daemon, unless the parser
\* is caught by a length of 0.
SignalInCallEnds == AirPlayStops => (at \in InCall /\ ~running ~> at \in {"exited", "spin"})

\* iap2_link.c:107: "so callers can check shutdown flags".
CallerSeesSignal == at \in InCall /\ ~running ~> at \notin InCall

\* main.c:23: SIGINT and SIGTERM end the daemon.
SignalEnds == AirPlayStops => (at # "exited" /\ ~running ~> at \in {"exited", "spin"})

\* main.c:458: EAP starts when identification and MFi authentication are complete.
CarplayAfterAuth == started => identified /\ "signature" \in told
=============================================================================
