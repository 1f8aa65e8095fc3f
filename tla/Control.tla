------------------------------ MODULE Control ------------------------------
(***************************************************************************)
(* The compositor's control channel (control_channel.c): one thread that   *)
(* polls a table of line-oriented client connections and executes their    *)
(* commands, and the lines it forwards to aa-proxy's control socket        *)
(* (mitm.rs).  Both programs can restart, each without the other noticing. *)
(*                                                                         *)
(* A connection sends the commands of its script, each in two parts, as a  *)
(* line can arrive in two packets, and several parts can be read at once.  *)
(* What a command does to display and camera under g_lock is the concern   *)
(* of module Compositor, what it does to the infrared LEDs of IrLed, to    *)
(* the detector of BabyAi; here a MODE command is its place in the order   *)
(* of the MODE commands executed.                                          *)
(***************************************************************************)
EXTENDS Naturals, Sequences

CONSTANTS
  Scripts,      \* per client connection: the commands it sends
  Torn,         \* the clients whose lines can arrive in two packets
  MaxClients,   \* CONTROL_MAX_CLIENTS
  MaxRestarts,  \* bound on the restarts of aa-proxy
  MaxLives,     \* bound on the times the compositor runs
  MaxLinks      \* bound on the connections to aa-proxy's control socket

Clients == DOMAIN Scripts
Links   == 1 .. MaxLinks
Lives   == 1 .. MaxLives

\* The MODE arguments dispatch_command knows and the touch mode aa-proxy needs for
\* each (mode cycle is one of these, depending on the current layout).
TouchMode == [full_aa |-> "full_aa", full_carplay |-> "full_aa", full_camera |-> "full_cam",
              split_aa_cam |-> "split_aa_cam", split_cp_cam |-> "split_carplay_cam"]

\* A command is [op, arg]: MODE, or any other, which changes nothing here.
ASSUME ScriptsAssumption ==
  \A c \in Clients : Scripts[c] \in Seq([op : {"mode", "other"}, arg : STRING])
ASSUME TornAssumption == Torn \subseteq Clients
ASSUME BoundsAssumption ==
  /\ MaxClients \in Nat \ {0} /\ MaxLives \in Nat \ {0}
  /\ MaxRestarts \in Nat /\ MaxLinks \in Nat

VARIABLES
  link,     \* per client: its connection as the server sees it
  hungUp,   \* per client: it has closed its end
  sent,     \* per client: the parts it has sent
  read,     \* per client: the parts the control thread has processed
  done,     \* per client: the commands executed with its connection as reply_fd
  table,    \* g_clients and g_num_clients: each client's line_buf, as a sequence of parts
  at,       \* the slot control_poll is at; 0 while it accepts
  chunk,    \* how far the bytes of the last recv reach; 0 when they are used up
  modes,    \* number of MODE commands executed
  mode,     \* the argument of the last one
  ctl,      \* g_aa_ctrl_fd: the link to aa-proxy in use, 0 for -1
  links,    \* number of links made so far
  life,     \* how often the compositor has been started
  owner,    \* per link: the life of the compositor that made it
  alive,    \* per link: aa-proxy has a handler for it
  lines,    \* per link: the lines sent and not handled
  proxyUp, restarts,
  handled,  \* per life of the compositor: its last MODE line handled, as its number
  touch     \* aa-proxy's shared_mode

clientVars == <<hungUp, sent>>
tableVars  == <<link, table>>
pollVars   == <<read, at, chunk>>
modeVars   == <<modes, mode, ctl, links, life, owner, lines>>
proxyVars  == <<alive, proxyUp, restarts, handled, touch>>
vars == <<clientVars, tableVars, pollVars, done, modeVars, proxyVars>>

Parts(c) == 2 * Len(Scripts[c])
Garbled == [op |-> "other", arg |-> "garbled"]

TypeOK ==
  /\ link \in [Clients -> {"none", "queued", "open", "refused", "closed"}]
  /\ hungUp \in [Clients -> BOOLEAN]
  /\ \A c \in Clients : read[c] \in 0 .. sent[c] /\ sent[c] \in 0 .. Parts(c)
  /\ Len(table) <= MaxClients /\ at \in 0 .. Len(table)
  /\ \A j \in DOMAIN table : table[j].peer \in Clients /\ Len(table[j].line) <= 1
  /\ chunk # 0 => at # 0
  /\ ctl \in 0 .. links /\ links \in 0 .. MaxLinks
  /\ mode \in DOMAIN TouchMode \cup {"none"} /\ touch \in {TouchMode[a] : a \in DOMAIN TouchMode}
  /\ life \in Lives /\ owner \in [Links -> Lives] /\ handled \in [Lives -> 0 .. modes]

Init ==
  /\ link = [c \in Clients |-> "none"] /\ hungUp = [c \in Clients |-> FALSE]
  /\ sent = [c \in Clients |-> 0] /\ read = [c \in Clients |-> 0]
  /\ done = [c \in Clients |-> <<>>]
  /\ table = <<>>
  /\ at = 0 /\ chunk = 0
  /\ modes = 0 /\ mode = "none"
  /\ ctl = 0 /\ links = 0
  /\ alive = [k \in Links |-> FALSE] /\ lines = [k \in Links |-> <<>>]
  /\ life = 1 /\ owner = [k \in Links |-> 1]
  /\ proxyUp = TRUE /\ restarts = 0 /\ handled = [v \in Lives |-> 0] /\ touch = "full_aa"

-----------------------------------------------------------------------------
(* The clients, such as server.py, which uses a connection per command.    *)

Connect(c) ==
  /\ link[c] = "none"
  /\ link' = [link EXCEPT ![c] = "queued"]
  /\ UNCHANGED <<clientVars, table, pollVars, done, modeVars, proxyVars>>

\* The next packet: half a line, or a whole one.
Send(c) ==
  /\ link[c] \in {"queued", "open"} /\ ~hungUp[c]
  /\ sent[c] < Parts(c)
  /\ sent' = [sent EXCEPT ![c] = @ + (IF c \in Torn THEN 1 ELSE 2)]
  /\ UNCHANGED <<hungUp, tableVars, pollVars, done, modeVars, proxyVars>>

\* The client closes its connection, after the reply, on its timeout, or at will.
HangUp(c) ==
  /\ link[c] \in {"queued", "open"} /\ ~hungUp[c]
  /\ hungUp' = [hungUp EXCEPT ![c] = TRUE]
  /\ UNCHANGED <<sent, tableVars, pollVars, done, modeVars, proxyVars>>

-----------------------------------------------------------------------------
(* control_poll: accept what waits, then serve the clients, last one first. *)

Queued == {c \in Clients : link[c] = "queued"}

\* try_accept, on either listener, and client_add with the table's limit.
Add(limit) ==
  /\ at = 0
  /\ \E c \in Queued :
       \/ /\ Len(table) < limit
          /\ table' = Append(table, [peer |-> c, line |-> <<>>])
          /\ link' = [link EXCEPT ![c] = "open"]
       \/ /\ Len(table) >= limit
          /\ link' = [link EXCEPT ![c] = "refused"]
          /\ UNCHANGED table
  /\ UNCHANGED <<clientVars, pollVars, done, modeVars, proxyVars>>

Accept == Add(MaxClients)

StartServing ==
  /\ at = 0 /\ Queued = {}
  /\ at' = Len(table)
  /\ UNCHANGED <<clientVars, tableVars, read, chunk, done, modeVars, proxyVars>>

Peer == table[at].peer

\* recv returns all the client has sent so far (a few lines fit its 256 bytes).
Receive ==
  /\ at # 0 /\ chunk = 0
  /\ read[Peer] < sent[Peer]
  /\ chunk' = sent[Peer]
  /\ UNCHANGED <<clientVars, tableVars, read, at, done, modeVars, proxyVars>>

\* recv would block: on to the next client.
NothingThere ==
  /\ at # 0 /\ chunk = 0
  /\ read[Peer] = sent[Peer] /\ ~hungUp[Peer]
  /\ at' = at - 1
  /\ UNCHANGED <<clientVars, tableVars, read, chunk, done, modeVars, proxyVars>>

\* recv returns 0: client_remove, with what then is in the slots.
Drop(slots) ==
  /\ at # 0 /\ chunk = 0
  /\ read[Peer] = sent[Peer] /\ hungUp[Peer]
  /\ link' = [link EXCEPT ![Peer] = "closed"]
  /\ table' = SubSeq(slots, 1, Len(table) - 1)
  /\ at' = at - 1
  /\ UNCHANGED <<clientVars, read, chunk, done, modeVars, proxyVars>>

LastSlot == table[Len(table)]

\* Mutation of Remove: the array is not compacted.
RemoveNoCompact == Drop(table)

\* The last client takes the place of the one removed.
Remove == Drop([table EXCEPT ![at] = LastSlot])

\* A part of the chunk has been processed; after the last, on to the next client.
Processed ==
  /\ read' = [read EXCEPT ![Peer] = @ + 1]
  /\ IF read[Peer] + 1 = chunk THEN chunk' = 0 /\ at' = at - 1 ELSE UNCHANGED <<chunk, at>>

Part == [client |-> Peer, number |-> read[Peer] + 1]
EndsLine == read[Peer] % 2 = 1

\* Bytes without a newline go to line_buf.
Buffer ==
  /\ chunk # 0 /\ ~EndsLine
  /\ table' = [table EXCEPT ![at].line = Append(@, Part)]
  /\ Processed
  /\ UNCHANGED <<clientVars, link, done, modeVars, proxyVars>>

\* The command a line that ends with the current part spells.
Command ==
  IF table[at].line = << [client |-> Peer, number |-> read[Peer]] >>
    THEN Scripts[Peer][(read[Peer] + 1) \div 2]
    ELSE Garbled

-----------------------------------------------------------------------------
(* dispatch_command.                                                       *)

\* Mutation of Link: a new connection for every line.
LinkAlways == IF proxyUp THEN links + 1 ELSE 0

\* aa_ctrl_ensure_connected: the link to use, 0 when aa-proxy is not there.
Link == IF ctl # 0 THEN ctl ELSE IF proxyUp THEN links + 1 ELSE 0

\* aa_ctrl_forward: one line over the link; a link whose other end has gone is
\* closed and the line is lost.
Forward(line) ==
  /\ Link <= MaxLinks
  /\ links' = IF Link > links THEN Link ELSE links
  /\ LET works == Link # 0 /\ (alive[Link] \/ Link > links) IN
       /\ ctl' = IF works THEN Link ELSE 0
       /\ lines' = IF works THEN [lines EXCEPT ![Link] = Append(@, line)] ELSE lines
       /\ alive' = IF works THEN [alive EXCEPT ![Link] = TRUE] ELSE alive
       /\ owner' = IF works THEN [owner EXCEPT ![Link] = life] ELSE owner

ModeCommand(a) ==
  /\ a \in DOMAIN TouchMode
  /\ modes' = modes + 1
  /\ mode' = a
  /\ Forward([number |-> modes + 1, format |-> "command", mode |-> a])
  /\ UNCHANGED <<life, proxyUp, restarts, handled, touch>>

\* Anything else: an unknown argument, a garbled line, or a command with no effect on
\* what is modelled here.
OtherCommand(cmd) ==
  /\ cmd.op = "mode" => cmd.arg \notin DOMAIN TouchMode
  /\ UNCHANGED <<modeVars, proxyVars>>

\* A newline: execute the line and reply to the client it came from.
Dispatch ==
  /\ chunk # 0 /\ EndsLine
  /\ \/ Command.op = "mode" /\ ModeCommand(Command.arg)
     \/ OtherCommand(Command)
  /\ done' = [done EXCEPT ![Peer] = Append(@, Command)]
  /\ table' = [table EXCEPT ![at].line = <<>>]
  /\ Processed
  /\ UNCHANGED <<clientVars, link>>

-----------------------------------------------------------------------------
(* aa-proxy's control socket: every connection has a handler of its own.   *)

\* parse_control_message wants JSON.
Parse(line) == IF line.format = "json" THEN {TouchMode[line.mode]} ELSE {}

Handle(k) ==
  /\ alive[k] /\ lines[k] # <<>>
  /\ handled' = [handled EXCEPT ![owner[k]] = Head(lines[k]).number]
  /\ touch' \in IF Parse(Head(lines[k])) = {} THEN {touch} ELSE Parse(Head(lines[k]))
  /\ lines' = [lines EXCEPT ![k] = Tail(@)]
  /\ UNCHANGED <<clientVars, tableVars, pollVars, done, modes, mode, ctl, links, life, owner,
                 alive, proxyUp, restarts>>

ProxyStops ==
  /\ proxyUp /\ restarts < MaxRestarts
  /\ proxyUp' = FALSE
  /\ restarts' = restarts + 1
  /\ alive' = [k \in Links |-> FALSE] /\ lines' = [k \in Links |-> <<>>]
  /\ touch' = "full_aa"
  /\ UNCHANGED <<clientVars, tableVars, pollVars, done, modes, mode, ctl, links, life, owner, handled>>

ProxyStarts ==
  /\ ~proxyUp
  /\ proxyUp' = TRUE
  /\ UNCHANGED <<clientVars, tableVars, pollVars, done, modeVars, alive, restarts, handled,
                 touch>>

-----------------------------------------------------------------------------
(* The compositor stops, or crashes, and is started again.                 *)

\* Its connections close, to clients and to aa-proxy, whose handler of the old link
\* still has the lines sent over it.
CompositorRestart ==
  /\ life < MaxLives
  /\ life' = life + 1
  /\ link' = [c \in Clients |-> IF link[c] \in {"queued", "open"} THEN "closed" ELSE link[c]]
  /\ table' = <<>> /\ at' = 0 /\ chunk' = 0
  /\ mode' = "none" /\ ctl' = 0
  /\ UNCHANGED <<clientVars, read, done, modes, links, owner, lines, proxyVars>>

-----------------------------------------------------------------------------
ControlThread == Accept \/ StartServing \/ Receive \/ NothingThere \/ Remove \/ Buffer \/ Dispatch

Next ==
  \/ \E c \in Clients : Connect(c) \/ Send(c) \/ HangUp(c)
  \/ ControlThread
  \/ \E k \in Links : Handle(k)
  \/ ProxyStops \/ ProxyStarts \/ CompositorRestart

Spec == Init /\ [][Next]_vars

-----------------------------------------------------------------------------
(* Properties.                                                             *)

\* Every client's commands are executed whole, once and in order, and answered on its
\* own connection, whoever connects, leaves in the middle of a line, or takes over
\* a slot of the table (client_add, client_remove, client_read).
CommandsInOrder ==
  \A c \in Clients :
    /\ Len(done[c]) <= Len(Scripts[c])
    /\ done[c] = SubSeq(Scripts[c], 1, Len(done[c]))

\* The table holds exactly the open connections, each once, whoever was removed
\* from it and in what order: control_poll skips nobody, serves nobody twice, and
\* no connection is kept open that nobody will ever read.
TableHoldsOpen ==
  /\ \A c \in Clients : link[c] = "open" <=> \E j \in DOMAIN table : table[j].peer = c
  /\ \A j, k \in DOMAIN table : table[j].peer = table[k].peer => j = k

\* Whoever connects and leaves: nobody is forgotten, nobody's commands are.
ClientsServed == CommandsInOrder /\ TableHoldsOpen

\* Of the MODE lines one run of the compositor forwards, aa-proxy never handles one
\* older than one it has handled, although every link has a handler of its own, links
\* of the present and of former runs are served side by side, and either program may
\* restart or reconnect at any time (aa_ctrl_forward, handle_control_connection).
ModesNeverGoBack == [][\A v \in Lives : handled'[v] >= handled[v]]_handled

\* control_channel.c:272-274: MODE lines are forwarded so that aa-proxy updates its
\* touch zones.  It does not understand them.
TouchFollowsDisplay ==
  proxyUp /\ mode # "none" /\ handled[life] = modes => touch = TouchMode[mode]
=============================================================================
