--------------------------- MODULE Control_proofs ---------------------------
(***************************************************************************)
(* Proofs about the control channel, for any clients, scripts, size of the  *)
(* table and number of restarts of either program, and about the LEDs.      *)
(***************************************************************************)
EXTENDS Control, IrLed, TLAPS

CommandSet == [op : {"mode", "other"}, arg : STRING]
PartSet == [client : Clients, number : Nat]
SlotSet == [peer : Clients, line : Seq(PartSet)]
LineSet == [number : Nat, format : {"command", "json"}, mode : DOMAIN TouchMode]

-----------------------------------------------------------------------------
(* The invariant of the clients and the table.                              *)

ClientType ==
  /\ link \in [Clients -> {"none", "queued", "open", "refused", "closed"}]
  /\ sent \in [Clients -> Nat] /\ read \in [Clients -> Nat]
  /\ done \in [Clients -> Seq(CommandSet)]
  /\ table \in Seq(SlotSet) /\ at \in 0 .. Len(table) /\ chunk \in Nat

\* What has been read has been sent, by a client that is or was served, and is
\* no more than its script; a line in one packet is sent whole.
ReadInv ==
  \A c \in Clients : /\ read[c] <= sent[c] /\ sent[c] <= Parts(c)
                     /\ c \notin Torn => sent[c] % 2 = 0
                     /\ link[c] \in {"none", "queued"} => read[c] = 0

\* The bytes of a recv in use are of the client the thread is at.
ChunkInv == chunk # 0 => at # 0 /\ read[Peer] < chunk /\ chunk <= sent[Peer]

\* line_buf holds the first half of the line that has been begun, of this client.
Begun(c) == IF read[c] % 2 = 1 THEN << [client |-> c, number |-> read[c]] >> ELSE <<>>
LineInv == \A j \in DOMAIN table : table[j].line = Begun(table[j].peer)

\* The commands executed are those of the whole lines read.
DoneInv ==
  \A c \in Clients : /\ Len(done[c]) = read[c] \div 2
                     /\ \A i \in 1 .. Len(done[c]) : done[c][i] = Scripts[c][i]

ClientInv == ClientType /\ ReadInv /\ ChunkInv /\ LineInv /\ DoneInv /\ TableHoldsOpen

-----------------------------------------------------------------------------
(* The invariant of the MODE lines.                                         *)

ModeType ==
  /\ modes \in Nat /\ links \in 0 .. MaxLinks /\ ctl \in 0 .. links
  /\ life \in Lives /\ owner \in [Links -> Lives] /\ handled \in [Lives -> Nat]
  /\ alive \in [Links -> BOOLEAN] /\ lines \in [Links -> Seq(LineSet)]

\* A run of the compositor has one link with a handler at a time, the present one the
\* link in use; and only a link with a handler has lines.
OneLink ==
  /\ \A k \in Links : /\ owner[k] <= life
                      /\ alive[k] => k <= links
                      /\ alive[k] /\ owner[k] = life => k = ctl
                      /\ lines[k] # <<>> => alive[k]
  /\ \A j, k \in Links : alive[j] /\ alive[k] /\ owner[j] = owner[k] => j = k
  /\ ctl # 0 => owner[ctl] = life

\* A queue of lines is in order, its lines newer than h and no newer than m.
Ordered(q, h, m) ==
  \A i \in DOMAIN q :
    /\ h < q[i].number /\ q[i].number <= m
    /\ \A j \in DOMAIN q : i < j => q[i].number < q[j].number

\* The lines under way are in order, newer than the one handled last of their run.
LineOrder ==
  /\ \A v \in Lives : handled[v] <= modes
  /\ \A k \in Links : Ordered(lines[k], handled[owner[k]], modes)

ModeInv == ModeType /\ OneLink /\ LineOrder

-----------------------------------------------------------------------------
(* Arithmetic and sequences.                                                *)

LEMMA HalfStep ==
  ASSUME NEW n \in Nat
  PROVE  /\ n % 2 = 1 => (n + 1) % 2 = 0 /\ (n + 1) \div 2 = n \div 2 + 1
         /\ n % 2 # 1 => (n + 1) % 2 = 1 /\ (n + 1) \div 2 = n \div 2
OBVIOUS

LEMMA HalfRange ==
  ASSUME NEW n \in Nat, NEW m \in Nat, n <= 2 * m
  PROVE  n \div 2 \in 0 .. m /\ (n < 2 * m => n \div 2 + 1 \in 1 .. m)
OBVIOUS

LEMMA PartsNat == ASSUME NEW c \in Clients
                  PROVE  Len(Scripts[c]) \in Nat /\ Parts(c) \in Nat /\ Scripts[c] \in Seq(CommandSet)
<1>1. Scripts[c] \in Seq(CommandSet)
  BY ScriptsAssumption DEF CommandSet
<1> QED
  BY <1>1 DEF Parts

\* Two sequences with the same elements up to the length of the first.
LEMMA PrefixSubSeq ==
  ASSUME NEW S, NEW s \in Seq(S), NEW d \in Seq(S), Len(d) <= Len(s),
         \A i \in 1 .. Len(d) : d[i] = s[i]
  PROVE  d = SubSeq(s, 1, Len(d))
OBVIOUS

\* A sequence with one element replaced.
LEMMA ReplaceOne ==
  ASSUME NEW S, NEW s \in Seq(S), NEW i \in 1 .. Len(s), NEW r \in S, NEW t, t = [s EXCEPT ![i] = r]
  PROVE  /\ t \in Seq(S) /\ Len(t) = Len(s) /\ DOMAIN t = DOMAIN s
         /\ \A j \in DOMAIN s : t[j] = IF j = i THEN r ELSE s[j]
OBVIOUS

\* The invariant says what CommandsInOrder says, by place.
LEMMA InOrder == ClientInv => CommandsInOrder
<1> SUFFICES ASSUME ClientInv, NEW c \in Clients
             PROVE  Len(done[c]) <= Len(Scripts[c]) /\ done[c] = SubSeq(Scripts[c], 1, Len(done[c]))
  BY DEF CommandsInOrder
<1>1. read[c] \in Nat /\ read[c] <= 2 * Len(Scripts[c]) /\ done[c] \in Seq(CommandSet)
  BY PartsNat DEF ClientInv, ClientType, ReadInv, Parts
<1>2. Len(done[c]) <= Len(Scripts[c])
  BY <1>1, PartsNat, HalfRange DEF ClientInv, DoneInv
<1> QED
  BY <1>1, <1>2, PartsNat, PrefixSubSeq DEF ClientInv, DoneInv

LEMMA InitInv == Init => ClientInv /\ ModeInv
<1> SUFFICES ASSUME Init PROVE ClientInv /\ ModeInv
  OBVIOUS
<1>1. ClientType
  BY DEF Init, ClientType
<1>2. ReadInv /\ ChunkInv /\ LineInv /\ DoneInv /\ TableHoldsOpen
  BY PartsNat DEF Init, ReadInv, ChunkInv, LineInv, DoneInv, TableHoldsOpen
<1>3. ModeInv
  BY BoundsAssumption DEF Init, ModeInv, ModeType, OneLink, LineOrder, Ordered, Lives
<1> QED
  BY <1>1, <1>2, <1>3 DEF ClientInv
\* The slot the thread is at.
LEMMA AtSlot ==
  ASSUME ClientType, at # 0
  PROVE  /\ at \in 1 .. Len(table) /\ DOMAIN table = 1 .. Len(table) /\ Len(table) \in Nat
         /\ table[at] \in SlotSet /\ Peer \in Clients
<1>1. at \in 1 .. Len(table) /\ DOMAIN table = 1 .. Len(table) /\ Len(table) \in Nat
  BY DEF ClientType
<1>2. table[at] \in SlotSet
  BY <1>1 DEF ClientType
<1> QED
  BY <1>1, <1>2 DEF Peer, SlotSet

-----------------------------------------------------------------------------
(* The clients.                                                             *)

LEMMA SendKeeps == ASSUME ClientInv, NEW c \in Clients, Send(c) PROVE ClientInv'
<1> USE DEF ClientInv
<1> DEFINE n == IF c \in Torn THEN 1 ELSE 2
<1>1. /\ sent[c] < Parts(c) /\ sent' = [sent EXCEPT ![c] = @ + n]
      /\ UNCHANGED <<link, table, read, at, chunk, done>>
  BY DEF Send, tableVars, pollVars
<1>2. sent[c] \in Nat /\ n \in {1, 2} /\ sent[c] + n \in Nat
  BY DEF ClientType
<1>3. sent[c] + n <= Parts(c) /\ (c \notin Torn => (sent[c] + n) % 2 = 0)
  <2>1. CASE c \in Torn
    BY <1>1, <1>2, <2>1, PartsNat
  <2>2. CASE c \notin Torn
    <3>1. sent[c] % 2 = 0 /\ n = 2 /\ sent[c] < 2 * Len(Scripts[c]) /\ Len(Scripts[c]) \in Nat
      BY <1>1, <2>2, PartsNat DEF ReadInv, Parts
    <3>2. sent[c] + 2 <= 2 * Len(Scripts[c]) /\ (sent[c] + 2) % 2 = 0
      BY <1>2, <3>1
    <3> QED
      BY <3>1, <3>2 DEF Parts
  <2> QED
    BY <2>1, <2>2
<1> HIDE DEF n
<1>4. ClientType'
  BY <1>1, <1>2 DEF ClientType
<1>5. \A d \in Clients : sent'[d] = IF d = c THEN sent[c] + n ELSE sent[d]
  BY <1>1 DEF ClientType
<1>6. \A d \in Clients : sent[d] \in Nat /\ read[d] \in Nat /\ sent[d] <= sent'[d]
  BY <1>2, <1>5 DEF ClientType
<1>7. ReadInv'
  <2> SUFFICES ASSUME NEW d \in Clients
               PROVE  /\ read[d] <= sent'[d] /\ sent'[d] <= Parts(d)
                      /\ d \notin Torn => sent'[d] % 2 = 0
    BY <1>1 DEF ReadInv, Parts
  <2>1. read[d] <= sent'[d]
    BY <1>2, <1>5, <1>6 DEF ReadInv
  <2> QED
    BY <1>3, <1>5, <2>1 DEF ReadInv
<1>8. ChunkInv'
  <2>1. CASE chunk = 0
    BY <1>1, <2>1 DEF ChunkInv
  <2>2. CASE chunk # 0
    <3>1. Peer \in Clients /\ Peer' = Peer /\ chunk \in Nat
      BY <1>1, <2>2, AtSlot DEF ChunkInv, ClientType, Peer
    <3> QED
      BY <1>1, <1>2, <1>5, <1>6, <2>2, <3>1 DEF ChunkInv
  <2> QED
    BY <2>1, <2>2
<1>9. LineInv' /\ DoneInv' /\ TableHoldsOpen'
  BY <1>1 DEF LineInv, Begun, DoneInv, TableHoldsOpen
<1> QED
  BY <1>4, <1>7, <1>8, <1>9

\* A client that connects has been read nothing of.
LEMMA ConnectKeeps == ASSUME ClientInv, NEW c \in Clients, Connect(c) PROVE ClientInv'
<1> USE DEF ClientInv
<1>1. /\ link[c] = "none" /\ link' = [link EXCEPT ![c] = "queued"]
      /\ UNCHANGED <<sent, table, read, at, chunk, done>>
  BY DEF Connect, clientVars, pollVars
<1>2. \A d \in Clients : link'[d] = IF d = c THEN "queued" ELSE link[d]
  BY <1>1 DEF ClientType
<1>3. ClientType'
  BY <1>1 DEF ClientType
<1>4. ReadInv' /\ TableHoldsOpen'
  BY <1>1, <1>2 DEF ReadInv, TableHoldsOpen, Parts
<1>5. ChunkInv' /\ LineInv' /\ DoneInv'
  BY <1>1 DEF ChunkInv, Peer, LineInv, Begun, DoneInv
<1> QED
  BY <1>3, <1>4, <1>5

-----------------------------------------------------------------------------
(* The control thread, up to the parts of a line.                           *)

LEMMA AcceptKeeps == ASSUME ClientInv, Accept PROVE ClientInv'
<1> USE DEF ClientInv
<1>1. at = 0 /\ chunk = 0 /\ UNCHANGED <<sent, read, at, chunk, done>>
  BY DEF Accept, Add, ChunkInv, clientVars, pollVars
<1>2. PICK c \in Clients :
        /\ link[c] = "queued"
        /\ \/ /\ table' = Append(table, [peer |-> c, line |-> <<>>])
              /\ link' = [link EXCEPT ![c] = "open"]
           \/ /\ link' = [link EXCEPT ![c] = "refused"]
              /\ UNCHANGED table
  BY DEF Accept, Add, Queued
<1>3. read[c] = 0 /\ Begun(c) = <<>> /\ \A j \in DOMAIN table : table[j].peer # c
  BY <1>2 DEF ReadInv, Begun, TableHoldsOpen
<1>4. ChunkInv' /\ DoneInv'
  BY <1>1 DEF ChunkInv, DoneInv
<1>5. CASE /\ table' = Append(table, [peer |-> c, line |-> <<>>])
           /\ link' = [link EXCEPT ![c] = "open"]
  <2> DEFINE new == [peer |-> c, line |-> <<>>]
             n == Len(table)
  <2>1. new \in SlotSet /\ n \in Nat
    BY DEF SlotSet, ClientType
  <2>2. /\ table' \in Seq(SlotSet) /\ Len(table') = n + 1
        /\ \A j \in 1 .. n : table'[j] = table[j]
        /\ table'[n + 1] = new
    BY <1>5, <2>1 DEF ClientType
  <2>3. DOMAIN table = 1 .. n /\ DOMAIN table' = 1 .. n + 1
    BY <2>2 DEF ClientType
  <2>4. \A d \in Clients : link'[d] = IF d = c THEN "open" ELSE link[d]
    BY <1>5 DEF ClientType
  <2>5. new.peer = c /\ new.line = <<>>
    OBVIOUS
  <2> HIDE DEF new, n
  <2>6. ClientType'
    BY <1>1, <1>5, <2>1, <2>2 DEF ClientType
  <2>7. ReadInv'
    BY <1>1, <1>3, <2>4 DEF ReadInv, Parts
  <2>8. LineInv'
    <3> SUFFICES ASSUME NEW j \in 1 .. n + 1 PROVE table'[j].line = Begun(table'[j].peer)
      BY <1>1, <2>3 DEF LineInv, Begun
    <3>1. CASE j \in 1 .. n
      BY <2>2, <2>3, <3>1 DEF LineInv
    <3>2. CASE j = n + 1
      BY <1>3, <2>2, <2>5, <3>2
    <3> QED
      BY <2>1, <3>1, <3>2
  <2>9. TableHoldsOpen'
    <3>1. \A j \in 1 .. n + 1 : table'[j].peer = IF j = n + 1 THEN c ELSE table[j].peer
      BY <2>1, <2>2, <2>5
    <3>2. \A d \in Clients : link'[d] = "open" <=> \E j \in 1 .. n + 1 : table'[j].peer = d
      <4> TAKE d \in Clients
      <4>1. CASE d = c
        BY <2>1, <2>4, <3>1, <4>1
      <4>2. CASE d # c
        BY <2>1, <2>3, <2>4, <3>1, <4>2 DEF TableHoldsOpen
      <4> QED
        BY <4>1, <4>2
    <3>3. \A j, k \in 1 .. n + 1 : table'[j].peer = table'[k].peer => j = k
      BY <1>3, <2>1, <2>3, <3>1 DEF TableHoldsOpen
    <3> QED
      BY <2>3, <3>2, <3>3 DEF TableHoldsOpen
  <2> QED
    BY <1>4, <2>6, <2>7, <2>8, <2>9
<1>6. CASE link' = [link EXCEPT ![c] = "refused"] /\ UNCHANGED table
  <2>1. \A d \in Clients : link'[d] = IF d = c THEN "refused" ELSE link[d]
    BY <1>6 DEF ClientType
  <2>2. ClientType'
    BY <1>1, <1>6 DEF ClientType
  <2>3. ReadInv' /\ LineInv' /\ TableHoldsOpen'
    BY <1>1, <1>2, <1>6, <2>1 DEF ReadInv, Parts, LineInv, Begun, TableHoldsOpen
  <2> QED
    BY <1>4, <2>2, <2>3
<1> QED
  BY <1>2, <1>5, <1>6

\* The thread moves on to another slot, or takes what has been sent.
LEMMA PollKeeps == ASSUME ClientInv, StartServing \/ Receive \/ NothingThere PROVE ClientInv'
<1> USE DEF ClientInv
<1>1. UNCHANGED <<link, table, sent, read, done>> /\ chunk = 0
  BY DEF StartServing, Receive, NothingThere, clientVars, tableVars, ChunkInv
<1>2. at' \in 0 .. Len(table)
  BY DEF StartServing, Receive, NothingThere, ClientType
<1>3. ChunkInv' /\ chunk' \in Nat
  <2>1. CASE Receive
    <3>1. at # 0 /\ read[Peer] < sent[Peer] /\ chunk' = sent[Peer] /\ at' = at /\ Peer' = Peer
      BY <1>1, <2>1 DEF Receive, Peer
    <3>2. Peer \in Clients
      BY <3>1, AtSlot
    <3> QED
      BY <1>1, <3>1, <3>2 DEF ChunkInv, ClientType
  <2>2. CASE StartServing \/ NothingThere
    BY <1>1, <2>2 DEF StartServing, NothingThere, ChunkInv
  <2> QED
    BY <2>1, <2>2
<1>4. ClientType'
  BY <1>1, <1>2, <1>3 DEF ClientType
<1>5. ReadInv' /\ LineInv' /\ DoneInv' /\ TableHoldsOpen'
  BY <1>1 DEF ReadInv, Parts, LineInv, Begun, DoneInv, TableHoldsOpen
<1> QED
  BY <1>3, <1>4, <1>5

-----------------------------------------------------------------------------
(* A connection that has ended.                                             *)

\* The last client takes the place of the one removed: the others are where
\* they were or there, and nobody is twice.
LEMMA RemoveKeeps == ASSUME ClientInv, Remove PROVE ClientInv'
<1> USE DEF ClientInv
<1> DEFINE n == Len(table)
<1>1. /\ at # 0 /\ chunk = 0 /\ at' = at - 1
      /\ link' = [link EXCEPT ![Peer] = "closed"]
      /\ table' = SubSeq([table EXCEPT ![at] = table[n]], 1, n - 1)
      /\ UNCHANGED <<sent, read, chunk, done>>
  BY DEF Remove, Drop, LastSlot, clientVars
<1>2. at \in 1 .. n /\ DOMAIN table = 1 .. n /\ n \in Nat /\ Peer \in Clients /\ table[at].peer = Peer
  BY <1>1, AtSlot DEF Peer
<1>3. [table EXCEPT ![at] = table[n]] \in Seq(SlotSet) /\ Len([table EXCEPT ![at] = table[n]]) = n
  BY <1>1, <1>2 DEF ClientType
<1>4. /\ table' \in Seq(SlotSet) /\ Len(table') = n - 1 /\ DOMAIN table' = 1 .. n - 1
      /\ \A j \in 1 .. n - 1 : table'[j] = IF j = at THEN table[n] ELSE table[j]
  BY <1>1, <1>2, <1>3
<1>5. \A d \in Clients : link'[d] = IF d = Peer THEN "closed" ELSE link[d]
  BY <1>1 DEF ClientType
<1> HIDE DEF n
<1>6. ClientType'
  BY <1>1, <1>2, <1>4 DEF ClientType
<1>7. ReadInv' /\ ChunkInv' /\ DoneInv'
  BY <1>1, <1>5 DEF ReadInv, Parts, ChunkInv, DoneInv
<1>8. LineInv'
  <2> SUFFICES ASSUME NEW j \in 1 .. n - 1 PROVE table'[j].line = Begun(table'[j].peer)
    BY <1>1, <1>4 DEF LineInv, Begun
  <2>1. PICK k \in 1 .. n : table'[j] = table[k]
    BY <1>2, <1>4
  <2> QED
    BY <1>2, <2>1 DEF LineInv
<1>9. TableHoldsOpen'
  <2> DEFINE From(j) == IF j = at THEN n ELSE j
  <2>1. \A j \in 1 .. n - 1 : From(j) \in 1 .. n /\ From(j) # at /\ table'[j] = table[From(j)]
    BY <1>2, <1>4
  <2>2. \A j, k \in 1 .. n - 1 : From(j) = From(k) => j = k
    BY <1>2
  <2>3. \A k \in 1 .. n : k # at => \E j \in 1 .. n - 1 : From(j) = k
    <3> TAKE k \in 1 .. n
    <3> HAVE k # at
    <3>1. CASE k = n
      BY <1>2, <3>1
    <3>2. CASE k # n
      BY <1>2, <3>2
    <3> QED
      BY <3>1, <3>2
  <2> HIDE DEF From
  <2>4. \A j, k \in 1 .. n - 1 : table'[j].peer = table'[k].peer => j = k
    BY <1>2, <2>1, <2>2 DEF TableHoldsOpen
  <2>5. \A d \in Clients : link'[d] = "open" <=> \E j \in 1 .. n - 1 : table'[j].peer = d
    <3> TAKE d \in Clients
    <3>1. CASE d = Peer
      BY <1>2, <1>5, <2>1, <3>1 DEF TableHoldsOpen
    <3>2. CASE d # Peer
      <4>1. link'[d] = "open" <=> \E k \in 1 .. n : table[k].peer = d
        BY <1>2, <1>5, <3>2 DEF TableHoldsOpen
      <4>2. ASSUME NEW k \in 1 .. n, table[k].peer = d
            PROVE  \E j \in 1 .. n - 1 : table'[j].peer = d
        <5>1. PICK j \in 1 .. n - 1 : From(j) = k
          BY <1>2, <2>3, <3>2, <4>2
        <5> QED
          BY <2>1, <4>2, <5>1
      <4>3. ASSUME NEW j \in 1 .. n - 1, table'[j].peer = d
            PROVE  \E k \in 1 .. n : table[k].peer = d
        BY <2>1, <4>3
      <4> QED
        BY <4>1, <4>2, <4>3
    <3> QED
      BY <3>1, <3>2
  <2> QED
    BY <1>4, <2>4, <2>5 DEF TableHoldsOpen
<1> QED
  BY <1>6, <1>7, <1>8, <1>9

-----------------------------------------------------------------------------
(* The parts of a line.                                                     *)

\* What the end of a part changes, whatever it was.
LEMMA ProcessedKeeps ==
  ASSUME ClientInv, chunk # 0, Processed, UNCHANGED <<sent, link>>,
         NEW l \in Seq(PartSet), table' = [table EXCEPT ![at].line = l],
         l = IF read[Peer] % 2 = 1 THEN <<>>
             ELSE << [client |-> Peer, number |-> read[Peer] + 1] >>
  PROVE  /\ table' \in Seq(SlotSet) /\ at' \in 0 .. Len(table') /\ chunk' \in Nat
         /\ read' \in [Clients -> Nat]
         /\ \A d \in Clients : read'[d] = IF d = Peer THEN read[d] + 1 ELSE read[d]
         /\ ReadInv' /\ ChunkInv' /\ LineInv' /\ TableHoldsOpen'
<1> USE DEF ClientInv
<1>1. at # 0 /\ read[Peer] < chunk /\ chunk <= sent[Peer] /\ chunk \in Nat
  BY DEF ChunkInv, ClientType
<1>2. /\ at \in 1 .. Len(table) /\ DOMAIN table = 1 .. Len(table) /\ Len(table) \in Nat
      /\ table[at] \in SlotSet /\ Peer \in Clients
  BY <1>1, AtSlot
<1>3. read[Peer] \in Nat /\ sent[Peer] \in Nat /\ link[Peer] = "open"
  BY <1>2 DEF ClientType, TableHoldsOpen, Peer
<1>4. [table[at] EXCEPT !.line = l] \in SlotSet /\ [table[at] EXCEPT !.line = l].peer = Peer
      /\ [table[at] EXCEPT !.line = l].line = l
  BY <1>2 DEF SlotSet, Peer
<1>5. table' = [table EXCEPT ![at] = [table[at] EXCEPT !.line = l]]
  OBVIOUS
<1>6. /\ table' \in Seq(SlotSet) /\ Len(table') = Len(table) /\ DOMAIN table' = DOMAIN table
      /\ \A j \in DOMAIN table : table'[j].peer = table[j].peer
      /\ \A j \in DOMAIN table : table'[j].line = IF j = at THEN l ELSE table[j].line
  <2> DEFINE r == [table[at] EXCEPT !.line = l]
  <2>1. r \in SlotSet /\ r.peer = table[at].peer /\ r.line = l /\ table' = [table EXCEPT ![at] = r]
    BY <1>4, <1>5 DEF Peer
  <2> HIDE DEF r
  <2>2. table \in Seq(SlotSet)
    BY DEF ClientType
  <2>3. /\ table' \in Seq(SlotSet) /\ Len(table') = Len(table) /\ DOMAIN table' = DOMAIN table
        /\ \A j \in DOMAIN table : table'[j] = IF j = at THEN r ELSE table[j]
    BY <1>2, <2>1, <2>2, ReplaceOne
  <2> QED
    BY <2>1, <2>3
<1>7. read' = [read EXCEPT ![Peer] = @ + 1] /\ at' \in {at, at - 1} /\ chunk' \in {chunk, 0}
  BY DEF Processed
<1>8. /\ read' \in [Clients -> Nat] /\ at' \in 0 .. Len(table') /\ chunk' \in Nat
      /\ \A d \in Clients : read'[d] = IF d = Peer THEN read[d] + 1 ELSE read[d]
  BY <1>1, <1>2, <1>3, <1>6, <1>7 DEF ClientType
<1>9. ReadInv'
  <2> SUFFICES ASSUME NEW d \in Clients
               PROVE  /\ read'[d] <= sent[d] /\ sent[d] <= Parts(d)
                      /\ d \notin Torn => sent[d] % 2 = 0
                      /\ link[d] \in {"none", "queued"} => read'[d] = 0
    BY DEF ReadInv, Parts
  <2>1. CASE d = Peer
    BY <1>1, <1>3, <1>8, <2>1 DEF ReadInv
  <2>2. CASE d # Peer
    BY <1>8, <2>2 DEF ReadInv
  <2> QED
    BY <2>1, <2>2
<1>10. ChunkInv'
  <2>1. CASE read[Peer] + 1 = chunk
    BY <2>1 DEF Processed, ChunkInv
  <2>2. CASE read[Peer] + 1 # chunk
    <3>1. UNCHANGED <<chunk, at>> /\ Peer' = Peer
      BY <1>2, <1>6, <2>2 DEF Processed, Peer
    <3> QED
      BY <1>1, <1>2, <1>3, <1>8, <2>2, <3>1 DEF ChunkInv
  <2> QED
    BY <2>1, <2>2
<1>11. LineInv'
  <2> SUFFICES ASSUME NEW j \in DOMAIN table PROVE table'[j].line = Begun(table[j].peer)'
    BY <1>6 DEF LineInv, Begun
  <2>1. CASE j = at
    <3>1. table[j].peer = Peer /\ read'[Peer] = read[Peer] + 1 /\ table'[j].line = l
      BY <1>2, <1>6, <1>8, <2>1 DEF Peer
    <3> QED
      BY <1>3, <3>1, HalfStep DEF Begun
  <2>2. CASE j # at
    <3>1. table[j].peer # Peer
      BY <1>2, <2>2 DEF TableHoldsOpen, Peer
    <3>2. table[j].peer \in Clients
      <4>1. table[j] \in SlotSet
        BY <1>2 DEF ClientType
      <4> QED
        BY <4>1 DEF SlotSet
    <3> QED
      BY <1>6, <1>8, <2>2, <3>1, <3>2 DEF LineInv, Begun
  <2> QED
    BY <2>1, <2>2
<1>12. TableHoldsOpen'
  BY <1>6 DEF TableHoldsOpen
<1> QED
  BY <1>6, <1>8, <1>9, <1>10, <1>11, <1>12

LEMMA BufferKeeps == ASSUME ClientInv, Buffer PROVE ClientInv'
<1> USE DEF ClientInv
<1>1. /\ chunk # 0 /\ read[Peer] % 2 # 1 /\ Processed /\ UNCHANGED <<sent, link, done>>
      /\ table' = [table EXCEPT ![at].line = Append(@, [client |-> Peer, number |-> read[Peer] + 1])]
  BY DEF Buffer, EndsLine, Part, clientVars
<1>2. at # 0 /\ at \in DOMAIN table /\ Peer \in Clients /\ read[Peer] \in Nat
  BY <1>1, AtSlot DEF ChunkInv, ClientType
<1>3. table[at].line = <<>>
  BY <1>1, <1>2 DEF LineInv, Begun, Peer
<1> DEFINE l == << [client |-> Peer, number |-> read[Peer] + 1] >>
<1>4. l \in Seq(PartSet)
  BY <1>2 DEF PartSet
<1>5. table' = [table EXCEPT ![at].line = l]
  BY <1>1, <1>3
<1> HIDE DEF l
<1>6. /\ table' \in Seq(SlotSet) /\ at' \in 0 .. Len(table') /\ chunk' \in Nat
      /\ read' \in [Clients -> Nat]
      /\ \A d \in Clients : read'[d] = IF d = Peer THEN read[d] + 1 ELSE read[d]
      /\ ReadInv' /\ ChunkInv' /\ LineInv' /\ TableHoldsOpen'
  BY <1>1, <1>4, <1>5, ProcessedKeeps DEF l
<1>7. DoneInv'
  <2>1. \A d \in Clients : read'[d] \div 2 = read[d] \div 2
    BY <1>1, <1>2, <1>6, HalfStep
  <2> QED
    BY <1>1, <2>1 DEF DoneInv
<1>8. ClientType'
  BY <1>1, <1>6 DEF ClientType
<1> QED
  BY <1>6, <1>7, <1>8

\* The line in hand is whole, and spells the next command of the client's script.
LEMMA DispatchKeeps == ASSUME ClientInv, Dispatch PROVE ClientInv'
<1> USE DEF ClientInv
<1>1. /\ chunk # 0 /\ read[Peer] % 2 = 1 /\ Processed /\ UNCHANGED <<sent, link>>
      /\ table' = [table EXCEPT ![at].line = <<>>]
      /\ done' = [done EXCEPT ![Peer] = Append(@, Command)]
  BY DEF Dispatch, EndsLine, clientVars
<1>2. at # 0 /\ at \in DOMAIN table /\ Peer \in Clients /\ read[Peer] \in Nat
  BY <1>1, AtSlot DEF ChunkInv, ClientType
<1>3. Command = Scripts[Peer][(read[Peer] + 1) \div 2]
  BY <1>1, <1>2 DEF LineInv, Begun, Command, Peer
<1>4. <<>> \in Seq(PartSet)
  OBVIOUS
<1>5. /\ table' \in Seq(SlotSet) /\ at' \in 0 .. Len(table') /\ chunk' \in Nat
      /\ read' \in [Clients -> Nat]
      /\ \A d \in Clients : read'[d] = IF d = Peer THEN read[d] + 1 ELSE read[d]
      /\ ReadInv' /\ ChunkInv' /\ LineInv' /\ TableHoldsOpen'
  BY <1>1, <1>4, ProcessedKeeps
<1> DEFINE n == read[Peer] \div 2
<1>6. /\ n \in Nat /\ (read[Peer] + 1) \div 2 = n + 1 /\ Len(done[Peer]) = n
      /\ n + 1 \in 1 .. Len(Scripts[Peer])
  <2>1. read[Peer] < 2 * Len(Scripts[Peer])
    <3>1. read'[Peer] <= Parts(Peer) /\ read'[Peer] = read[Peer] + 1
      BY <1>1, <1>2, <1>5, PartsNat DEF ReadInv, Parts, ClientType
    <3> QED
      BY <1>2, <3>1, PartsNat DEF Parts
  <2>2. n \in Nat /\ (read[Peer] + 1) \div 2 = n + 1
    BY <1>1, <1>2, HalfStep
  <2>3. Len(done[Peer]) = n
    BY <1>2 DEF DoneInv
  <2>4. n + 1 \in 1 .. Len(Scripts[Peer])
    BY <1>2, <2>1, HalfRange, PartsNat
  <2> QED
    BY <2>2, <2>3, <2>4
<1> HIDE DEF n
<1>7. Command \in CommandSet /\ Command = Scripts[Peer][n + 1]
  BY <1>2, <1>3, <1>6, PartsNat
<1>8. /\ done' \in [Clients -> Seq(CommandSet)]
      /\ Len(done'[Peer]) = n + 1 /\ done'[Peer][n + 1] = Command
      /\ \A i \in 1 .. n : done'[Peer][i] = done[Peer][i]
      /\ \A d \in Clients : d # Peer => done'[d] = done[d]
  <2> DEFINE new == Append(done[Peer], Command)
  <2>1. done[Peer] \in Seq(CommandSet)
    BY <1>2 DEF ClientType
  <2>2. /\ new \in Seq(CommandSet) /\ Len(new) = n + 1 /\ new[n + 1] = Command
        /\ \A i \in 1 .. n : new[i] = done[Peer][i]
    BY <1>6, <1>7, <2>1
  <2>3. done' = [done EXCEPT ![Peer] = new]
    BY <1>1
  <2> HIDE DEF new
  <2> QED
    BY <1>2, <2>2, <2>3 DEF ClientType
<1>9. DoneInv'
  <2> SUFFICES ASSUME NEW d \in Clients
               PROVE  /\ Len(done'[d]) = read'[d] \div 2
                      /\ \A i \in 1 .. Len(done'[d]) : done'[d][i] = Scripts[d][i]
    BY DEF DoneInv
  <2>1. CASE d = Peer
    <3>1. Len(done'[d]) = read'[d] \div 2
      BY <1>2, <1>5, <1>6, <1>8, <2>1
    <3>2. \A i \in 1 .. n : done[Peer][i] = Scripts[Peer][i]
      BY <1>2, <1>6 DEF DoneInv
    <3> QED
      BY <1>6, <1>7, <1>8, <2>1, <3>1, <3>2
  <2>2. CASE d # Peer
    BY <1>5, <1>8, <2>2 DEF DoneInv
  <2> QED
    BY <2>1, <2>2
<1>10. ClientType'
  BY <1>1, <1>5, <1>8 DEF ClientType
<1> QED
  BY <1>5, <1>9, <1>10

\* The table goes with the compositor.
LEMMA RestartKeeps == ASSUME ClientInv, CompositorRestart PROVE ClientInv'
<1> USE DEF ClientInv
<1>1. /\ table' = <<>> /\ at' = 0 /\ chunk' = 0 /\ UNCHANGED <<sent, read, done>>
      /\ link' = [c \in Clients |-> IF link[c] \in {"queued", "open"} THEN "closed" ELSE link[c]]
  BY DEF CompositorRestart, clientVars
<1>2. \A c \in Clients : link'[c] = IF link[c] \in {"queued", "open"} THEN "closed" ELSE link[c]
  BY <1>1
<1>3. ClientType'
  BY <1>1, <1>2 DEF ClientType
<1>4. ReadInv' /\ DoneInv'
  BY <1>1, <1>2 DEF ReadInv, Parts, DoneInv
<1>5. ChunkInv' /\ LineInv' /\ TableHoldsOpen'
  BY <1>1, <1>2 DEF ChunkInv, LineInv, TableHoldsOpen, ClientType
<1> QED
  BY <1>3, <1>4, <1>5

LEMMA NextClientInv == ClientInv /\ [Next]_vars => ClientInv'
<1> SUFFICES ASSUME ClientInv, [Next]_vars PROVE ClientInv'
  OBVIOUS
<1>1. ASSUME NEW c \in Clients, Connect(c) \/ Send(c) PROVE ClientInv'
  BY <1>1, ConnectKeeps, SendKeeps
<1>2. CASE ControlThread
  BY <1>2, AcceptKeeps, PollKeeps, RemoveKeeps, BufferKeeps, DispatchKeeps DEF ControlThread
<1>3. CASE UNCHANGED <<link, sent, read, done, table, at, chunk>>
  BY <1>3 DEF ClientInv, ClientType, ReadInv, Parts, ChunkInv, Peer, LineInv, Begun, DoneInv,
     TableHoldsOpen
<1>4. CASE CompositorRestart
  BY <1>4, RestartKeeps
<1> QED
  BY <1>1, <1>2, <1>3, <1>4
  DEF Next, HangUp, Handle, ProxyStops, ProxyStarts, clientVars, tableVars, pollVars, vars

-----------------------------------------------------------------------------
(* The MODE lines.                                                          *)

LEMMA NumbersAreNatural ==
  ASSUME NEW q \in Seq(LineSet), NEW i \in DOMAIN q PROVE q[i] \in LineSet /\ q[i].number \in Nat
<1>1. q[i] \in LineSet
  OBVIOUS
<1> QED
  BY <1>1 DEF LineSet

LEMMA AppendOrder ==
  ASSUME NEW q \in Seq(LineSet), NEW h \in Nat, NEW m \in Nat, h <= m, Ordered(q, h, m),
         NEW line \in LineSet, line.number = m + 1, NEW new, new = Append(q, line)
  PROVE  new \in Seq(LineSet) /\ new # <<>> /\ Ordered(new, h, m + 1)
<1>1. /\ new \in Seq(LineSet) /\ Len(new) = Len(q) + 1 /\ Len(q) \in Nat /\ new # <<>>
      /\ DOMAIN new = 1 .. Len(q) + 1 /\ DOMAIN q = 1 .. Len(q)
      /\ new[Len(q) + 1] = line /\ \A i \in 1 .. Len(q) : new[i] = q[i]
  OBVIOUS
<1>2. \A i \in 1 .. Len(q) : q[i].number \in Nat /\ h < q[i].number /\ q[i].number <= m
  BY <1>1, NumbersAreNatural DEF Ordered
<1>3. \A i, j \in 1 .. Len(q) : i < j => q[i].number < q[j].number
  BY <1>1 DEF Ordered
<1>4. \A i \in 1 .. Len(q) + 1 : new[i].number = IF i = Len(q) + 1 THEN m + 1 ELSE q[i].number
  BY <1>1
<1>5. ASSUME NEW i \in 1 .. Len(q) + 1 PROVE h < new[i].number /\ new[i].number <= m + 1
  BY <1>1, <1>2, <1>4
<1>6. ASSUME NEW i \in 1 .. Len(q) + 1, NEW j \in 1 .. Len(q) + 1, i < j
      PROVE  new[i].number < new[j].number
  <2>1. i \in 1 .. Len(q) /\ new[i].number = q[i].number
    BY <1>1, <1>4, <1>6
  <2>2. CASE j = Len(q) + 1
    BY <1>2, <1>4, <2>1, <2>2
  <2>3. CASE j # Len(q) + 1
    <3>1. j \in 1 .. Len(q) /\ new[j].number = q[j].number
      BY <1>1, <1>4, <2>3
    <3> QED
      BY <1>3, <1>6, <2>1, <3>1
  <2> QED
    BY <2>2, <2>3
<1> QED
  BY <1>1, <1>5, <1>6 DEF Ordered

\* A queue stays in order when newer lines come elsewhere.
LEMMA StaysOrdered ==
  ASSUME NEW q \in Seq(LineSet), NEW h, NEW m \in Nat, Ordered(q, h, m) PROVE Ordered(q, h, m + 1)
<1>1. \A i \in DOMAIN q : q[i].number \in Nat
  BY NumbersAreNatural
<1> QED
  BY <1>1 DEF Ordered

\* Without its first line a queue is in order, and newer than that line.
LEMMA TailOrder ==
  ASSUME NEW q \in Seq(LineSet), q # <<>>, NEW h \in Nat, NEW m \in Nat, Ordered(q, h, m)
  PROVE  /\ Tail(q) \in Seq(LineSet) /\ Head(q) \in LineSet
         /\ h < Head(q).number /\ Head(q).number <= m /\ Ordered(Tail(q), Head(q).number, m)
<1>1. /\ Len(q) \in Nat /\ DOMAIN q = 1 .. Len(q) /\ 1 \in DOMAIN q
      /\ Head(q) = q[1] /\ Tail(q) \in Seq(LineSet) /\ DOMAIN Tail(q) = 1 .. Len(q) - 1
      /\ \A i \in 1 .. Len(q) - 1 : Tail(q)[i] = q[i + 1]
  OBVIOUS
<1>2. h < q[1].number /\ q[1].number <= m /\ q[1] \in LineSet
  BY <1>1 DEF Ordered
<1>3. ASSUME NEW i \in 1 .. Len(q) - 1
      PROVE  /\ q[1].number < Tail(q)[i].number /\ Tail(q)[i].number <= m
             /\ \A j \in 1 .. Len(q) - 1 : i < j => Tail(q)[i].number < Tail(q)[j].number
  <2>1. i + 1 \in DOMAIN q /\ 1 < i + 1 /\ Tail(q)[i] = q[i + 1]
    BY <1>1
  <2>2. \A j \in 1 .. Len(q) - 1 : j + 1 \in DOMAIN q /\ Tail(q)[j] = q[j + 1]
    BY <1>1
  <2>3. \A j \in 1 .. Len(q) - 1 : i < j => i + 1 < j + 1
    OBVIOUS
  <2>4. q[1].number < q[i + 1].number /\ q[i + 1].number <= m
    BY <1>1, <2>1 DEF Ordered
  <2>5. \A j \in 1 .. Len(q) - 1 : i < j => q[i + 1].number < q[j + 1].number
    BY <2>1, <2>2, <2>3 DEF Ordered
  <2> QED
    BY <2>1, <2>2, <2>4, <2>5
<1> QED
  BY <1>1, <1>2, <1>3 DEF Ordered

\* A line goes over the link in use or a new one, and no other link of this run of the
\* compositor is alive.
LEMMA ForwardKeeps ==
  ASSUME ModeInv, NEW a, ModeCommand(a) PROVE ModeInv' /\ handled' = handled
<1> USE DEF ModeInv
<1> DEFINE line == [number |-> modes + 1, format |-> "command", mode |-> a]
           works == Link # 0 /\ (alive[Link] \/ Link > links)
<1>1. /\ a \in DOMAIN TouchMode /\ modes' = modes + 1 /\ Link <= MaxLinks
      /\ links' = IF Link > links THEN Link ELSE links
      /\ ctl' = IF works THEN Link ELSE 0
      /\ lines' = IF works THEN [lines EXCEPT ![Link] = Append(@, line)] ELSE lines
      /\ alive' = IF works THEN [alive EXCEPT ![Link] = TRUE] ELSE alive
      /\ owner' = IF works THEN [owner EXCEPT ![Link] = life] ELSE owner
      /\ handled' = handled /\ life' = life
  BY DEF ModeCommand, Forward
<1>2. /\ line \in LineSet /\ line.number = modes + 1 /\ modes \in Nat
      /\ life \in Lives /\ \A v \in Lives : handled[v] \in Nat /\ v \in Nat
  <2>1. modes \in Nat /\ life \in Lives /\ \A v \in Lives : handled[v] \in Nat
    BY DEF ModeType
  <2>2. \A v \in Lives : v \in Nat
    BY DEF Lives
  <2>3. line \in LineSet /\ line.number = modes + 1
    BY <1>1, <2>1 DEF LineSet
  <2> QED
    BY <2>1, <2>2, <2>3
<1>3. /\ links \in Nat /\ ctl \in Nat /\ ctl <= links /\ links <= MaxLinks /\ MaxLinks \in Nat
      /\ Links = 1 .. MaxLinks
  BY BoundsAssumption DEF ModeType, Links
<1>4. Link \in {0, ctl, links + 1} /\ (ctl # 0 => Link = ctl)
  BY DEF Link
<1>5. Link \in Nat /\ links' \in 0 .. MaxLinks /\ ctl' \in 0 .. links' /\ links <= links'
  BY <1>1, <1>3, <1>4
<1>6. \A v \in Lives : handled'[v] <= modes'
  BY <1>1, <1>2 DEF LineOrder
<1>7. \A k \in Links : lines[k] \in Seq(LineSet) /\ owner[k] \in Lives
  BY DEF ModeType
<1>8. \A k \in Links : Ordered(lines[k], handled[owner[k]], modes + 1)
  BY <1>2, <1>7, StaysOrdered DEF LineOrder
<1> HIDE DEF line, works
<1>9. CASE works
  <2>1. Link \in Links /\ Link # 0 /\ Link <= links'
    BY <1>1, <1>3, <1>5, <1>9 DEF works
  <2>2. lines[Link] # <<>> => owner[Link] = life
    <3>1. lines[Link] # <<>> => Link <= links
      BY <2>1 DEF OneLink
    <3>2. lines[Link] # <<>> => Link = ctl
      BY <1>3, <1>4, <2>1, <3>1
    <3> QED
      BY <2>1, <3>2 DEF OneLink
  <2> DEFINE new == Append(lines[Link], line)
  <2>3. Ordered(lines[Link], handled[life], modes)
    <3>1. CASE lines[Link] = <<>>
      BY <3>1 DEF Ordered
    <3>2. CASE lines[Link] # <<>>
      BY <2>1, <2>2, <3>2 DEF LineOrder
    <3> QED
      BY <3>1, <3>2
  <2>4. new \in Seq(LineSet) /\ new # <<>> /\ Ordered(new, handled[life], modes + 1)
    <3>1. handled[life] \in Nat /\ handled[life] <= modes /\ lines[Link] \in Seq(LineSet)
      BY <1>2, <1>7, <2>1 DEF LineOrder
    <3> QED
      BY <1>2, <2>3, <3>1, AppendOrder
  <2>5. /\ lines' = [lines EXCEPT ![Link] = new] /\ alive' = [alive EXCEPT ![Link] = TRUE]
        /\ owner' = [owner EXCEPT ![Link] = life] /\ ctl' = Link
    BY <1>1, <1>9
  <2> HIDE DEF new
  <2>6. ModeType'
    BY <1>1, <1>2, <1>5, <2>1, <2>4, <2>5 DEF ModeType
  <2>7. \A k \in Links : /\ lines'[k] = IF k = Link THEN new ELSE lines[k]
                         /\ owner'[k] = IF k = Link THEN life ELSE owner[k]
                         /\ alive'[k] <=> k = Link \/ alive[k]
    BY <2>1, <2>5 DEF ModeType
  <2>8. \A k \in Links : k # Link /\ alive[k] => owner[k] # life
    BY <1>3, <1>4 DEF OneLink
  <2>9. OneLink'
    <3>1. ASSUME NEW k \in Links
          PROVE  /\ owner'[k] <= life' /\ (alive'[k] => k <= links')
                 /\ (alive'[k] /\ owner'[k] = life' => k = ctl')
                 /\ (lines'[k] # <<>> => alive'[k])
      <4>1. CASE k = Link
        BY <1>1, <1>2, <2>1, <2>5, <2>7, <4>1
      <4>2. CASE k # Link
        <5>1. alive[k] => k <= links'
          BY <1>3, <1>5 DEF OneLink, Links
        <5> QED
          BY <1>1, <2>5, <2>7, <2>8, <4>2, <5>1 DEF OneLink
      <4> QED
        BY <4>1, <4>2
    <3>2. \A j, k \in Links : alive'[j] /\ alive'[k] /\ owner'[j] = owner'[k] => j = k
      BY <2>7, <2>8 DEF OneLink
    <3>3. owner'[ctl'] = life'
      BY <1>1, <2>1, <2>5, <2>7
    <3> QED
      BY <3>1, <3>2, <3>3 DEF OneLink
  <2>10. LineOrder'
    <3>1. \A k \in Links : Ordered(lines'[k], handled'[owner'[k]], modes')
      BY <1>1, <1>8, <2>4, <2>7
    <3> QED
      BY <1>6, <3>1 DEF LineOrder
  <2> QED
    BY <1>1, <2>6, <2>9, <2>10
<1>10. CASE ~works
  <2>1. UNCHANGED <<lines, alive, owner, handled, life>> /\ ctl' = 0 /\ modes' = modes + 1
    BY <1>1, <1>10
  <2>2. \A k \in Links : ~(alive[k] /\ owner[k] = life)
    <3>1. CASE ctl = 0
      BY <1>3, <3>1 DEF OneLink
    <3>2. CASE ctl # 0
      BY <1>3, <1>4, <1>10, <3>2 DEF OneLink, works
    <3> QED
      BY <3>1, <3>2
  <2>3. ModeType'
    <3>1. modes' \in Nat
      BY <1>2, <2>1
    <3> QED
      BY <1>5, <2>1, <3>1 DEF ModeType
  <2>4. OneLink'
    <3>1. \A k \in Links : alive[k] => k <= links'
      BY <1>3, <1>5 DEF OneLink, Links
    <3> QED
      BY <2>1, <2>2, <3>1 DEF OneLink
  <2>5. LineOrder'
    BY <1>6, <1>8, <2>1 DEF LineOrder
  <2> QED
    BY <2>1, <2>3, <2>4, <2>5
<1> QED
  BY <1>9, <1>10

\* The line handled is the oldest one under way of its run of the compositor.
LEMMA HandleKeeps ==
  ASSUME ModeInv, NEW k \in Links, Handle(k)
  PROVE  ModeInv' /\ \A v \in Lives : handled'[v] >= handled[v]
<1> USE DEF ModeInv
<1> DEFINE q == lines[k]
           n == Head(q).number
           o == owner[k]
<1>1. /\ alive[k] /\ q # <<>> /\ handled' = [handled EXCEPT ![o] = n]
      /\ lines' = [lines EXCEPT ![k] = Tail(q)]
      /\ UNCHANGED <<modes, ctl, links, alive, life, owner>>
  BY DEF Handle
<1>2. /\ q \in Seq(LineSet) /\ o \in Lives /\ handled[o] \in Nat /\ modes \in Nat
      /\ Ordered(q, handled[o], modes)
  BY DEF ModeType, LineOrder
<1>3. /\ Tail(q) \in Seq(LineSet) /\ n \in Nat /\ handled[o] < n /\ n <= modes
      /\ Ordered(Tail(q), n, modes)
  <2> HIDE DEF q, o
  <2>1. /\ Tail(q) \in Seq(LineSet) /\ Head(q) \in LineSet
        /\ handled[o] < Head(q).number /\ Head(q).number <= modes
        /\ Ordered(Tail(q), Head(q).number, modes)
    BY <1>1, <1>2, TailOrder
  <2> QED
    BY <2>1 DEF LineSet
<1> HIDE DEF n
<1>4. \A v \in Lives : handled'[v] = (IF v = o THEN n ELSE handled[v]) /\ handled[v] \in Nat
  BY <1>1, <1>2 DEF ModeType
<1>5. \A j \in Links : lines'[j] = IF j = k THEN Tail(q) ELSE lines[j]
  BY <1>1 DEF ModeType
<1>6. \A j \in Links : j # k /\ owner[j] = o => lines[j] = <<>>
  BY <1>1 DEF OneLink
<1>7. ModeType'
  BY <1>1, <1>3 DEF ModeType
<1>8. OneLink'
  BY <1>1, <1>5 DEF OneLink
<1>9. LineOrder'
  <2>1. \A v \in Lives : handled'[v] <= modes'
    BY <1>1, <1>3, <1>4 DEF LineOrder
  <2>2. ASSUME NEW j \in Links PROVE Ordered(lines'[j], handled'[owner'[j]], modes')
    <3>1. CASE j = k
      BY <1>1, <1>2, <1>3, <1>4, <1>5, <3>1
    <3>2. CASE j # k /\ owner[j] = o
      BY <1>5, <1>6, <3>2 DEF Ordered
    <3>3. CASE j # k /\ owner[j] # o
      <4>1. owner[j] \in Lives
        BY DEF ModeType
      <4> QED
        BY <1>1, <1>4, <1>5, <3>3, <4>1 DEF LineOrder
    <3> QED
      BY <3>1, <3>2, <3>3
  <2> QED
    BY <2>1, <2>2 DEF LineOrder
<1>10. \A v \in Lives : handled'[v] >= handled[v]
  BY <1>2, <1>3, <1>4
<1> QED
  BY <1>7, <1>8, <1>9, <1>10

\* The links of a run that has ended keep their lines; the next run has none yet.
LEMMA RestartModes ==
  ASSUME ModeInv, CompositorRestart PROVE ModeInv' /\ handled' = handled
<1> USE DEF ModeInv
<1>1. /\ life < MaxLives /\ life' = life + 1 /\ ctl' = 0
      /\ UNCHANGED <<modes, links, owner, lines, alive, handled>>
  BY DEF CompositorRestart, proxyVars
<1>2. life \in Nat /\ life' \in Lives /\ \A k \in Links : owner[k] \in Nat /\ owner[k] < life'
  BY <1>1, BoundsAssumption DEF ModeType, OneLink, Lives
<1>3. ModeType'
  BY <1>1, <1>2 DEF ModeType
<1>4. OneLink'
  BY <1>1, <1>2 DEF OneLink
<1>5. LineOrder'
  BY <1>1 DEF LineOrder
<1> QED
  BY <1>1, <1>3, <1>4, <1>5

Forwards == \A v \in Lives : handled'[v] >= handled[v]

LEMMA NextModeInv == ModeInv /\ [Next]_vars => ModeInv' /\ Forwards
<1> SUFFICES ASSUME ModeInv, [Next]_vars PROVE ModeInv' /\ Forwards
  OBVIOUS
<1>0. handled' = handled => Forwards
  BY DEF ModeInv, ModeType, Forwards
<1>1. CASE UNCHANGED <<modes, ctl, links, life, owner, lines, alive, handled>>
  BY <1>0, <1>1 DEF ModeInv, ModeType, OneLink, LineOrder
<1>2. CASE Dispatch
  <2>1. CASE \E a : ModeCommand(a)
    BY <1>0, <2>1, ForwardKeeps
  <2>2. CASE UNCHANGED <<modes, ctl, links, life, owner, lines, alive, handled>>
    BY <1>1, <2>2
  <2> QED
    BY <1>2, <2>1, <2>2 DEF Dispatch, OtherCommand, modeVars, proxyVars
<1>3. ASSUME NEW k \in Links, Handle(k) PROVE ModeInv' /\ Forwards
  BY <1>3, HandleKeeps DEF Forwards
<1>4. CASE ProxyStops
  <2>1. /\ alive' = [k \in Links |-> FALSE] /\ lines' = [k \in Links |-> <<>>]
        /\ UNCHANGED <<modes, ctl, links, life, owner, handled>>
    BY <1>4 DEF ProxyStops
  <2> QED
    BY <1>0, <2>1 DEF ModeInv, ModeType, OneLink, LineOrder, Ordered
<1>5. CASE CompositorRestart
  BY <1>0, <1>5, RestartModes
<1> QED
  BY <1>1, <1>2, <1>3, <1>4, <1>5
  DEF Next, Connect, Send, HangUp, ControlThread, Accept, Add, StartServing, Receive, NothingThere,
      Remove, Drop, Buffer, ProxyStarts, modeVars, proxyVars, vars

-----------------------------------------------------------------------------
\* Every client's commands are executed whole, once and in order, and the table
\* holds exactly the open connections, whoever connects and leaves, for any
\* number of clients and size of the table (control_poll and its callees).
THEOREM ServedInOrder == Spec => []ClientsServed
<1>1. Spec => []ClientInv
  BY InitInv, NextClientInv, PTL DEF Spec
<1>2. ClientInv => ClientsServed
  BY InOrder DEF ClientsServed, ClientInv
<1> QED
  BY <1>1, <1>2, PTL

\* Of the MODE lines of one run of the compositor, aa-proxy never handles one older than one
\* it has handled, however many links of this and former runs it serves side by side and
\* however often either program restarts (aa_ctrl_forward, handle_control_connection).
THEOREM ModesForward == Spec => ModesNeverGoBack
<1>1. ModeInv /\ [Next]_vars => [\A v \in Lives : handled'[v] >= handled[v]]_handled
  BY NextModeInv DEF Forwards
<1> QED
  BY <1>1, InitInv, NextModeInv, PTL DEF Spec, ModesNeverGoBack

-----------------------------------------------------------------------------
(* The types, and the size of the table.                                    *)

TouchModes == {TouchMode[a] : a \in DOMAIN TouchMode}

SettingsType ==
  /\ hungUp \in [Clients -> BOOLEAN]
  /\ mode \in DOMAIN TouchMode \cup {"none"} /\ touch \in TouchModes

TableFits == Len(table) <= MaxClients

LEMMA InitialTouch == "full_aa" \in TouchModes
<1>1. "full_aa" \in DOMAIN TouchMode /\ TouchMode["full_aa"] = "full_aa"
  BY DEF TouchMode
<1> QED
  BY <1>1 DEF TouchModes

LEMMA InitTypes == Init => SettingsType /\ TableFits
<1> SUFFICES ASSUME Init PROVE SettingsType /\ TableFits
  OBVIOUS
<1>1. SettingsType
  BY InitialTouch DEF Init, SettingsType
<1>2. table = <<>> /\ MaxClients \in Nat
  BY BoundsAssumption DEF Init
<1>3. TableFits
  BY <1>2 DEF TableFits
<1> QED
  BY <1>1, <1>3

LEMMA HandleTouch ==
  ASSUME ModeInv, NEW k \in Links, Handle(k), touch \in TouchModes PROVE touch' \in TouchModes
<1> DEFINE line == Head(lines[k])
<1>1. touch' = touch \/ touch' \in Parse(line)
  BY DEF Handle
<1>2. line \in LineSet
  <2>1. lines[k] \in Seq(LineSet) /\ lines[k] # <<>>
    BY DEF Handle, ModeInv, ModeType
  <2> QED
    BY <2>1
<1>3. TouchMode[line.mode] \in TouchModes
  BY <1>2 DEF LineSet, TouchModes
<1> QED
  BY <1>1, <1>3 DEF Parse

LEMMA NextSettings == ASSUME ModeInv, SettingsType, [Next]_vars PROVE SettingsType'
<1> USE DEF SettingsType
<1>1. CASE UNCHANGED <<hungUp, mode, touch>>
  BY <1>1
<1>2. ASSUME NEW c \in Clients, Connect(c) \/ Send(c) \/ HangUp(c) PROVE SettingsType'
  BY <1>2 DEF Connect, Send, HangUp, clientVars, modeVars, proxyVars
<1>3. CASE Accept \/ StartServing \/ Receive \/ NothingThere \/ Remove \/ Buffer
  BY <1>1, <1>3 DEF Accept, Add, StartServing, Receive, NothingThere, Remove, Drop, Buffer,
     clientVars, modeVars, proxyVars
<1>4. CASE Dispatch
  <2>1. hungUp' = hungUp
    BY <1>4 DEF Dispatch, clientVars
  <2>2. ASSUME NEW a, ModeCommand(a) PROVE SettingsType'
    BY <2>1, <2>2 DEF ModeCommand
  <2>4. ASSUME NEW cmd, OtherCommand(cmd) PROVE SettingsType'
    BY <2>1, <2>4 DEF OtherCommand, modeVars, proxyVars
  <2> QED
    BY <1>4, <2>2, <2>4 DEF Dispatch
<1>5. ASSUME NEW k \in Links, Handle(k) PROVE SettingsType'
  BY <1>5, HandleTouch DEF Handle, clientVars
<1>6. CASE ProxyStops
  BY <1>6, InitialTouch DEF ProxyStops, clientVars
<1>7. CASE ProxyStarts
  BY <1>7 DEF ProxyStarts, clientVars, modeVars
<1>8. CASE CompositorRestart
  BY <1>8 DEF CompositorRestart, clientVars, proxyVars
<1>9. CASE UNCHANGED vars
  BY <1>1, <1>9 DEF vars, clientVars, modeVars, proxyVars
<1> QED
  BY <1>2, <1>3, <1>4, <1>5, <1>6, <1>7, <1>8, <1>9 DEF Next, ControlThread

LEMMA FirstPartLength ==
  ASSUME NEW S, NEW s \in Seq(S), NEW n \in 0 .. Len(s) PROVE Len(SubSeq(s, 1, n)) = n
OBVIOUS

LEMMA NextFits == ASSUME ClientInv, TableFits, [Next]_vars PROVE TableFits'
<1> USE DEF TableFits
<1>1. table \in Seq(SlotSet) /\ MaxClients \in Nat
  BY BoundsAssumption DEF ClientInv, ClientType
<1>2. CASE UNCHANGED table
  BY <1>2
<1>3. CASE Accept
  <2>1. CASE Len(table) < MaxClients /\ \E c \in Clients : table' = Append(table, [peer |-> c, line |-> <<>>])
    <3>1. PICK r : table' = Append(table, r)
      BY <2>1
    <3>2. Len(table') = Len(table) + 1
      BY <1>1, <3>1
    <3> QED
      BY <1>1, <2>1, <3>2
  <2> QED
    BY <1>2, <1>3, <2>1 DEF Accept, Add, Queued
<1>4. CASE Remove
  <2>1. /\ at \in 1 .. Len(table)
        /\ table' = SubSeq([table EXCEPT ![at] = LastSlot], 1, Len(table) - 1)
    BY <1>4, AtSlot DEF Remove, Drop, ClientInv
  <2>2. Len(table') = Len(table) - 1
    <3>1. Len(table) \in Nat /\ Len(table) - 1 \in 0 .. Len(table) /\ LastSlot \in SlotSet
      BY <1>1, <2>1 DEF LastSlot
    <3> DEFINE slots == [table EXCEPT ![at] = LastSlot]
    <3>2. slots \in Seq(SlotSet) /\ Len(slots) = Len(table)
      BY <1>1, <2>1, <3>1
    <3>3. table' = SubSeq(slots, 1, Len(table) - 1)
      BY <2>1
    <3> HIDE DEF slots
    <3> QED
      BY <3>1, <3>2, <3>3, FirstPartLength
  <2> QED
    BY <1>1, <2>2
<1>5. CASE Buffer \/ Dispatch
  <2>1. \E l : table' = [table EXCEPT ![at].line = l]
    BY <1>5 DEF Buffer, Dispatch
  <2>2. Len(table') = Len(table)
    BY <1>1, <2>1
  <2> QED
    BY <2>2
<1>6. ASSUME NEW c \in Clients, Connect(c) \/ Send(c) \/ HangUp(c) PROVE TableFits'
  BY <1>2, <1>6 DEF Connect, Send, HangUp, tableVars
<1>7. CASE StartServing \/ Receive \/ NothingThere
  BY <1>2, <1>7 DEF StartServing, Receive, NothingThere, tableVars
<1>8. ASSUME NEW k \in Links, Handle(k) PROVE TableFits'
  BY <1>2, <1>8 DEF Handle, tableVars
<1>9. CASE ProxyStops \/ ProxyStarts
  BY <1>2, <1>9 DEF ProxyStops, ProxyStarts, tableVars
<1>11. CASE CompositorRestart
  BY <1>1, <1>11 DEF CompositorRestart
<1>10. CASE UNCHANGED vars
  BY <1>2, <1>10 DEF vars, tableVars
<1> QED
  BY <1>3, <1>4, <1>5, <1>6, <1>7, <1>8, <1>9, <1>10, <1>11 DEF Next, ControlThread

\* Every variable of the control channel keeps its type; client_add never writes behind
\* g_clients, and line_buf never holds more than the half of one line.
THEOREM TypeCorrect == Spec => []TypeOK
<1>1. ClientInv /\ ModeInv /\ SettingsType /\ TableFits => TypeOK
  <2> SUFFICES ASSUME ClientInv, ModeInv, SettingsType, TableFits PROVE TypeOK
    OBVIOUS
  <2>1. \A c \in Clients : read[c] \in 0 .. sent[c] /\ sent[c] \in 0 .. Parts(c)
    BY PartsNat DEF ClientInv, ClientType, ReadInv
  <2>2. \A j \in DOMAIN table : table[j].peer \in Clients /\ Len(table[j].line) <= 1
    <3>1. \A j \in DOMAIN table : table[j] \in SlotSet
      BY DEF ClientInv, ClientType
    <3>2. \A c \in Clients : Len(Begun(c)) <= 1
      BY DEF Begun
    <3>3. \A j \in DOMAIN table : table[j].peer \in Clients /\ table[j].line = Begun(table[j].peer)
      BY <3>1 DEF SlotSet, ClientInv, LineInv
    <3> QED
      BY <3>2, <3>3
  <2>3. /\ ctl \in 0 .. links /\ links \in 0 .. MaxLinks /\ life \in Lives
        /\ owner \in [Links -> Lives] /\ handled \in [Lives -> 0 .. modes]
    BY DEF ModeInv, ModeType, LineOrder
  <2>4. link \in [Clients -> {"none", "queued", "open", "refused", "closed"}]
        /\ at \in 0 .. Len(table) /\ (chunk # 0 => at # 0)
    BY DEF ClientInv, ClientType, ChunkInv
  <2> QED
    BY <2>1, <2>2, <2>3, <2>4 DEF SettingsType, TableFits, TypeOK, TouchModes
<1> QED
  BY <1>1, InitInv, InitTypes, NextClientInv, NextModeInv, NextSettings, NextFits, PTL DEF Spec

-----------------------------------------------------------------------------
(* The infrared LEDs (module IrLed).                                        *)

InSet(t) == phase[t] \in {"flag", "write"}

\* A worker at work in a forced mode judged its picture before the mode was forced, and
\* the control thread sets what the present mode asks for.
WorkersLate ==
  /\ irMode # "auto" => \A w \in Workers : phase[w] # "idle" => late[w]
  /\ phase["control"] # "idle" => irMode # "auto" /\ to["control"] = irMode

\* Past the control thread's set_leds, the flag is as forced unless a worker went against it.
FlagForced ==
  irMode # "auto" /\ ~overruled /\ phase["control"] \notin {"set", "flag"} => leds = irMode

\* While calls of set_leds do not overlap, the pin follows the flag.
PinFollows ==
  ~astray =>
    /\ \A t, u \in Threads : InSet(t) /\ InSet(u) => t = u
    /\ \A t \in Threads : phase[t] = "write" => leds = to[t]
    /\ ready /\ (\A t \in Threads : ~InSet(t)) => pin = leds

LedInv == LedTypeOK /\ WorkersLate /\ FlagForced /\ PinFollows

LEMMA LedInitInv == LedInit => LedInv
<1> SUFFICES ASSUME LedInit PROVE LedInv
  OBVIOUS
<1>1. LedTypeOK
  BY DEF LedInit, LedTypeOK, Modes, Levels, Threads
<1>2. WorkersLate /\ FlagForced
  BY DEF LedInit, WorkersLate, FlagForced, Threads
<1>3. PinFollows
  BY DEF LedInit, PinFollows, InSet
<1> QED
  BY <1>1, <1>2, <1>3 DEF LedInv

LEMMA ControlIsNoWorker == "control" \in Threads /\ "control" \notin Workers /\ Workers \subseteq Threads
BY DEF Threads, Workers

LEMMA JudgeKeeps == ASSUME LedInv, NEW w \in Workers, Judge(w) PROVE LedInv'
<1> USE DEF LedInv
<1>1. PICK l \in Levels :
        /\ irMode = "auto" /\ phase[w] = "idle" /\ phase' = [phase EXCEPT ![w] = "set"]
        /\ to' = [to EXCEPT ![w] = l] /\ late' = [late EXCEPT ![w] = FALSE]
        /\ UNCHANGED <<irState, irMode, leds, pin, ready, overruled, astray>>
  BY DEF Judge, Look
<1>2. \A t \in Threads : /\ phase'[t] = IF t = w THEN "set" ELSE phase[t]
                         /\ t # w => to'[t] = to[t]
  BY <1>1 DEF LedTypeOK
<1>3. \A t \in Threads : InSet(t)' <=> InSet(t)
  BY <1>1, <1>2 DEF InSet
<1>4. LedTypeOK'
  BY <1>1, ControlIsNoWorker DEF LedTypeOK
<1>5. WorkersLate' /\ FlagForced'
  BY <1>1, <1>2, ControlIsNoWorker DEF WorkersLate, FlagForced
<1>6. PinFollows'
  BY <1>1, <1>2, <1>3 DEF PinFollows
<1> QED
  BY <1>4, <1>5, <1>6

LEMMA CommandKeeps == ASSUME LedInv, NEW m \in Modes, IrCommand(m) PROVE LedInv'
<1> USE DEF LedInv
<1>1. /\ phase["control"] = "idle" /\ irState' = m /\ irMode' = m
      /\ UNCHANGED <<leds, pin, ready, astray>>
  BY DEF IrCommand
<1>2. CASE m = irMode
  <2>1. UNCHANGED <<irMode, phase, to, late, overruled>>
    BY <1>1, <1>2 DEF IrCommand
  <2> QED
    BY <1>1, <2>1 DEF LedTypeOK, WorkersLate, FlagForced, PinFollows, InSet
<1>3. CASE m # irMode
  <2>1. /\ overruled' = FALSE /\ late' = [w \in Workers |-> phase[w] # "idle"]
        /\ IF m = "auto" THEN UNCHANGED <<phase, to>>
           ELSE phase' = [phase EXCEPT !["control"] = "set"] /\ to' = [to EXCEPT !["control"] = m]
    BY <1>3 DEF IrCommand
  <2>2. \A t \in Threads : t # "control" => phase'[t] = phase[t] /\ to'[t] = to[t]
    BY <2>1 DEF LedTypeOK
  <2>3. phase'["control"] \in {"idle", "set"}
    BY <1>1, <2>1, ControlIsNoWorker DEF LedTypeOK
  <2>4. LedTypeOK'
    <3>1. late' \in [Workers -> BOOLEAN]
      BY <2>1
    <3>2. m # "auto" => m \in Levels
      BY DEF Modes, Levels
    <3>3. phase' \in [Threads -> {"idle", "set", "flag", "write"}]
      <4>1. CASE m = "auto"
        BY <2>1, <4>1 DEF LedTypeOK
      <4>2. CASE m # "auto"
        BY <2>1, <4>2 DEF LedTypeOK
      <4> QED
        BY <4>1, <4>2
    <3>4. to' \in [Threads -> Levels]
      <4>1. CASE m = "auto"
        BY <2>1, <4>1 DEF LedTypeOK
      <4>2. CASE m # "auto"
        BY <2>1, <3>2, <4>2 DEF LedTypeOK
      <4> QED
        BY <4>1, <4>2
    <3> QED
      BY <1>1, <2>1, <3>1, <3>3, <3>4 DEF LedTypeOK
  <2>5. WorkersLate' /\ FlagForced'
    <3>1. \A w \in Workers : phase'[w] # "idle" => late'[w]
      BY <2>1, <2>2, ControlIsNoWorker
    <3>2. m = "auto" => phase'["control"] = "idle"
      BY <1>1, <2>1
    <3>3. m # "auto" => phase'["control"] = "set" /\ to'["control"] = m
      BY <2>1, ControlIsNoWorker DEF LedTypeOK
    <3> QED
      BY <1>1, <3>1, <3>2, <3>3 DEF WorkersLate, FlagForced
  <2>6. \A t \in Threads : (InSet(t)' <=> InSet(t)) /\ (phase'[t] = "write" => to'[t] = to[t] /\ phase[t] = "write")
    BY <1>1, <2>2, <2>3 DEF InSet
  <2>7. PinFollows'
    BY <1>1, <2>6 DEF PinFollows
  <2> QED
    BY <2>4, <2>5, <2>7
<1> QED
  BY <1>2, <1>3

\* The flag is already as asked, or is not and will be written.
LEMMA TestKeeps == ASSUME LedInv, NEW t \in Threads, NothingToSet(t) \/ Differs(t) PROVE LedInv'
<1> USE DEF LedInv
<1> DEFINE p == IF leds = to[t] THEN "idle" ELSE "flag"
<1>1. /\ phase[t] = "set" /\ phase' = [phase EXCEPT ![t] = p]
      /\ UNCHANGED <<irState, irMode, leds, pin, ready, to, late, overruled>>
      /\ p = "idle" => astray' = astray
      /\ p = "flag" => astray' = (\E u \in Threads : InSet(u))
  BY DEF NothingToSet, Differs, InSet
<1>2. p \in {"idle", "flag"} /\ (p = "idle" => leds = to[t])
  OBVIOUS
<1> HIDE DEF p
<1>3. \A u \in Threads : phase'[u] = IF u = t THEN p ELSE phase[u]
  BY <1>1 DEF LedTypeOK
<1>4. LedTypeOK'
  <2>1. astray' \in BOOLEAN
    BY <1>1, <1>2 DEF LedTypeOK
  <2> QED
    BY <1>1, <1>2, <2>1 DEF LedTypeOK
<1>5. WorkersLate'
  BY <1>1, <1>3, ControlIsNoWorker DEF WorkersLate
<1>6. FlagForced'
  BY <1>1, <1>2, <1>3, ControlIsNoWorker DEF FlagForced, WorkersLate
<1>7. PinFollows'
  <2>1. CASE p = "idle"
    <3>1. \A u \in Threads : InSet(u)' <=> InSet(u)
      BY <1>1, <1>3, <2>1 DEF InSet
    <3> QED
      BY <1>1, <1>3, <2>1, <3>1 DEF PinFollows
  <2>2. CASE p = "flag"
    <3>1. ~astray' => \A u \in Threads : InSet(u)' <=> u = t
      BY <1>1, <1>3, <2>2 DEF InSet
    <3>2. ~astray' => \A u \in Threads : phase'[u] # "write"
      BY <1>1, <1>3, <2>2 DEF InSet
    <3> QED
      BY <3>1, <3>2 DEF PinFollows
  <2> QED
    BY <1>2, <2>1, <2>2
<1> QED
  BY <1>4, <1>5, <1>6, <1>7

LEMMA FlagKeeps == ASSUME LedInv, NEW t \in Threads, SetFlag(t) PROVE LedInv'
<1> USE DEF LedInv
<1>1. /\ phase[t] = "flag" /\ leds' = to[t] /\ phase' = [phase EXCEPT ![t] = "write"]
      /\ overruled' = (overruled \/ Overrules(t))
      /\ UNCHANGED <<irState, irMode, pin, ready, to, late, astray>>
  BY DEF SetFlag
<1>2. \A u \in Threads : phase'[u] = IF u = t THEN "write" ELSE phase[u]
  BY <1>1 DEF LedTypeOK
<1>3. LedTypeOK'
  BY <1>1, ControlIsNoWorker DEF LedTypeOK, Overrules
<1>4. WorkersLate'
  BY <1>1, <1>2, ControlIsNoWorker DEF WorkersLate
<1>5. FlagForced'
  <2> SUFFICES ASSUME irMode # "auto", ~overruled', phase'["control"] \notin {"set", "flag"}
               PROVE  leds' = irMode
    BY <1>1 DEF FlagForced
  <2>1. CASE t = "control"
    BY <1>1, <2>1 DEF WorkersLate
  <2>2. CASE t # "control"
    <3>1. t \in Workers /\ late[t]
      BY <1>1, <2>2 DEF Threads, WorkersLate
    <3> QED
      BY <1>1, <3>1 DEF Overrules
  <2> QED
    BY <2>1, <2>2
<1>6. \A u \in Threads : InSet(u)' <=> InSet(u)
  BY <1>1, <1>2 DEF InSet
<1>7. InSet(t)
  BY <1>1 DEF InSet
<1>8. PinFollows'
  <2>1. ~astray' => \A u \in Threads : phase'[u] = "write" => u = t
    BY <1>1, <1>2, <1>7 DEF PinFollows, InSet
  <2> QED
    BY <1>1, <1>6, <1>7, <2>1 DEF PinFollows
<1> QED
  BY <1>3, <1>4, <1>5, <1>8

LEMMA PinKeeps == ASSUME LedInv, NEW t \in Threads, WritePin(t) PROVE LedInv'
<1> USE DEF LedInv
<1>1. /\ phase[t] = "write" /\ phase' = [phase EXCEPT ![t] = "idle"]
      /\ \/ ready /\ pin' = to[t] /\ UNCHANGED astray
         \/ UNCHANGED pin /\ astray' = TRUE
      /\ overruled' = (overruled \/ Overrules(t))
      /\ UNCHANGED <<irState, irMode, leds, ready, to, late>>
  BY DEF WritePin
<1>2. \A u \in Threads : phase'[u] = IF u = t THEN "idle" ELSE phase[u]
  BY <1>1 DEF LedTypeOK
<1>3. LedTypeOK'
  BY <1>1, ControlIsNoWorker DEF LedTypeOK, Overrules
<1>4. WorkersLate'
  BY <1>1, <1>2, ControlIsNoWorker DEF WorkersLate
<1>5. FlagForced'
  BY <1>1, <1>2, ControlIsNoWorker DEF FlagForced
<1>6. InSet(t) /\ \A u \in Threads : InSet(u)' <=> (u # t /\ InSet(u))
  BY <1>1, <1>2 DEF InSet
<1>7. PinFollows'
  BY <1>1, <1>2, <1>6 DEF PinFollows
<1> QED
  BY <1>3, <1>4, <1>5, <1>7

\* Once all threads are out of ir_led.c, IR on and IR off hold, unless a worker that judged
\* its picture before the command went against it, and the pin with them unless two calls
\* of set_leds overlapped or a write of it failed; whatever commands come and whatever the workers see.
THEOREM ForcedModesHold == LedSpec => []ForcedUnlessOverruled
<1>1. LedInv /\ [LedNext]_ledVars => LedInv'
  <2> SUFFICES ASSUME LedInv, [LedNext]_ledVars PROVE LedInv'
    OBVIOUS
  <2>1. CASE UNCHANGED ledVars
    BY <2>1 DEF ledVars, LedInv, LedTypeOK, WorkersLate, FlagForced, PinFollows, InSet
  <2> QED
    BY <2>1, JudgeKeeps, CommandKeeps, TestKeeps, FlagKeeps, PinKeeps DEF LedNext
<1>2. LedInv => ForcedUnlessOverruled
  <2> SUFFICES ASSUME LedInv, Idle, irMode # "auto", ~overruled
               PROVE  leds = irMode /\ (ready /\ ~astray => pin = irMode)
    BY DEF ForcedUnlessOverruled
  <2>1. leds = irMode
    BY ControlIsNoWorker DEF LedInv, FlagForced, Idle
  <2> QED
    BY <2>1 DEF LedInv, PinFollows, InSet, Idle
<1> QED
  BY <1>1, <1>2, LedInitInv, PTL DEF LedSpec
=============================================================================
