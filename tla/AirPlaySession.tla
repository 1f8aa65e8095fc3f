--------------------------- MODULE AirPlaySession ---------------------------
(***************************************************************************)
(* One AirPlay control connection: the RTSP thread of a session             *)
(* (rtsp_session_handle of airplay_rtsp.c) and the three contexts only it   *)
(* writes, pairing (airplay_pair.c), FairPlay (airplay_fairplay.c) and the  *)
(* key of the mirror stream (airplay_mirror_set_fairplay), against a phone  *)
(* that may send any request in any order, well or badly formed, but waits  *)
(* for each answer before the next request.                                 *)
(*                                                                          *)
(* A request is a head and some units of body; a recv returns any prefix of *)
(* what has arrived.  A secret agreed between two ends is the pair of the   *)
(* values they drew, so that two ends that saw different values differ.     *)
(* The threads around the session are in AirPlayServer, the mirror stream   *)
(* and its consumers in CarPlayVideo.                                       *)
(***************************************************************************)
EXTENDS Naturals, SequencesExt

CONSTANTS ClientValues,  \* the public values a phone draws
          ServerValues,  \* the random values the server draws
          None,          \* no value, no request, no answer
          Fragment,      \* the longest value of one TLV8 item (255 bytes)
          HeaderRoom,    \* units the header buffer of a request holds (16 KB)
          BodyRoom       \* RTSP_MAX_REQUEST_BYTES, in units

ASSUME RoomAssumption == /\ Fragment \in Nat \ {0}
                         /\ HeaderRoom \in Nat \ {0} /\ BodyRoom \in Nat
                         /\ None \notin ClientValues \cup ServerValues

VARIABLES rtsp,    \* state of airplay_rtsp_session_t: RECORDING, TEARDOWN, any other
                   \* ("ready": nothing tests which), and "free" between sessions
          pair,    \* airplay_pair_ctx_t: state, srp_session_key, session_key
          fp,      \* airplay_fairplay_ctx_t: state, server_key and iv, aes_key
          mirror,  \* airplay_mirror_ctx_t: fairplay_active, aes_key, aes_iv
          reader,  \* what the RTSP thread is doing
          wire,    \* what the phone sent and the server has not read
          answer,  \* the answer under way to the phone
          phone    \* the phone: its connection, its request, its secrets

vars == <<rtsp, pair, fp, mirror, reader, wire, answer, phone>>

-----------------------------------------------------------------------------
(* TLV8: a body is a sequence of items; a long value is cut into items of   *)
(* the same type that follow each other.                                    *)

\* A public value as bytes: an SRP key fills more than one item, an X25519
\* key exactly one.
Long(x) == [i \in 1..(Fragment + 1) |-> <<x, i>>]
Short(x) == [i \in 1..Fragment |-> <<x, i>>]

tlv8_encode_item(type, value) ==
  [i \in 1..Max({1, (Len(value) + Fragment - 1) \div Fragment}) |->
     [type |-> type,
      value |-> SubSeq(value, (i - 1) * Fragment + 1, Min({i * Fragment, Len(value)}))]]

IndexOf(items, type) == {i \in DOMAIN items : items[i].type = type}

\* The first item of the type; <<>> when there is none.
tlv8_find(items, type) ==
  IF IndexOf(items, type) = {} THEN <<>> ELSE items[Min(IndexOf(items, type))].value

\* The first run of items of the type, put together again.
tlv8_find_reassemble(items, type) ==
  LET found == IndexOf(items, type)
      first == Min(found)
      run   == {j \in found : first..j \subseteq found}
  IN  IF found = {} THEN <<>>
      ELSE FlattenSeq([k \in 1..Cardinality(run) |-> items[first + k - 1].value])

-----------------------------------------------------------------------------
(* What a phone may ask.  "query" stands for every request that is answered *)
(* and changes nothing here: OPTIONS, GET, /info, /feedback, FLUSH, and     *)
(* what the dispatcher does not know; a parameter comes with a body.        *)

Request(op, step, value) == [op |-> op, step |-> step, value |-> value]

Requests ==
  {Request("query", "none", None)}
  \cup {Request("parameter", s, None) : s \in {"body", "large"}}
  \cup {Request(op, "none", None) : op \in {"announce", "setup", "record", "teardown"}}
  \cup {Request(op, s, None) : op \in {"pair-setup", "pair-verify"},
                               s \in {"none", "M1", "M3", "M5"}}
  \cup {Request(op, "M1", x) : op \in {"pair-setup", "pair-verify"}, x \in ClientValues}
  \cup {Request("fp-setup", s, None) : s \in {"none", "1", "2", "3", "odd"}}

\* Its length: a large body (a cover picture) is more than the reader takes.
Body(r) == CASE r.step = "none"  -> 0
             [] r.step = "large" -> HeaderRoom + BodyRoom
             [] r.value # None   -> 2
             [] OTHER            -> 1

\* Its body as items, for the two pairing requests.
Items(r) ==
  tlv8_encode_item("state", <<r.step>>)
  \o IF r.value = None THEN <<>>
     ELSE tlv8_encode_item("public_key",
            IF r.op = "pair-setup" THEN Long(r.value) ELSE Short(r.value))

Answer(status, items, sealed, key) ==
  [status |-> status, items |-> items, sealed |-> sealed, key |-> key]

Plain(status) == Answer(status, <<>>, None, None)

\* What the cryptography guarantees: a secret is fixed by the two public values
\* it was agreed with, a key by the secret and the use it was derived for, and
\* what is sealed opens with its own key only.
srp_secret(A, B) == <<"srp", A, B>>
x25519_dh(theirs, ours) == <<"x25519", theirs, ours>>
hkdf_sha512(use, secret) == <<use, secret>>
ed25519_sign(parts) == <<"signed", parts>>
aes128gcm_encrypt(key, text) == [key |-> key, text |-> text]
derive_aes_key(server_key) == <<"aesfp", server_key>>

-----------------------------------------------------------------------------
Idle == [at |-> "head", got |-> 0, then |-> None, reply |-> None]

NoPair == [state |-> "SETUP_M1", srp |-> None, session |-> None]
NoFairplay == [state |-> "INIT", key |-> None, aes |-> None]
NoMirror == [active |-> FALSE, key |-> None, iv |-> None]
NoPhone == [open |-> FALSE, ask |-> None, srp |-> None, session |-> None,
            pending |-> None, stream |-> None]

Init == /\ rtsp = "free" /\ pair = NoPair /\ fp = NoFairplay /\ mirror = NoMirror
        /\ reader = Idle /\ wire = <<>> /\ answer = None /\ phone = NoPhone

\* rtsp_session_init for a new connection, and its thread at the first recv.
Open == /\ rtsp = "free" /\ ~phone.open
        /\ rtsp' = "ready" /\ pair' = NoPair /\ fp' = NoFairplay /\ mirror' = NoMirror
        /\ reader' = Idle /\ wire' = <<>> /\ answer' = None
        /\ phone' = [NoPhone EXCEPT !.open = TRUE]

Ask(r) == /\ phone.open /\ phone.ask = None
          /\ phone' = [phone EXCEPT !.ask = r]
          /\ wire' = wire \o <<"head">> \o [i \in 1..Body(r) |-> "body"]
          /\ UNCHANGED <<rtsp, pair, fp, mirror, reader, answer>>

\* What the phone held is of no use once it has hung up.
Hang == /\ phone.open /\ phone' = [NoPhone EXCEPT !.ask = phone.ask]
        /\ answer' = None
        /\ UNCHANGED <<rtsp, pair, fp, mirror, reader, wire>>

\* The phone reads its answer and keeps what it now shares with the server.
Hear ==
  /\ phone.open /\ answer # None /\ answer' = None
  /\ LET r  == phone.ask
         b  == tlv8_find_reassemble(answer.items, "public_key")
         ok == answer.status = 200
     IN  phone' = [phone EXCEPT
           !.ask     = None,
           !.srp     = IF ok /\ r.op = "pair-setup" /\ b # <<>>
                       THEN srp_secret(Long(r.value), b) ELSE @,
           !.session = IF ok /\ r.op = "pair-verify" /\ b # <<>>
                       THEN hkdf_sha512("control", x25519_dh(Short(r.value), b)) ELSE @,
           !.pending = IF ok /\ r.op = "fp-setup" /\ r.step = "1" THEN answer.key ELSE @,
           !.stream  = IF ok /\ r.op = "fp-setup" /\ r.step = "3" THEN phone.pending ELSE @]
  /\ UNCHANGED <<rtsp, pair, fp, mirror, reader, wire>>

Phone == Open \/ (\E r \in Requests : Ask(r)) \/ Hang \/ Hear
-----------------------------------------------------------------------------
(* rtsp_read_request                                                        *)

Serving == rtsp \notin {"free", "TEARDOWN"}

Over == reader' = [reader EXCEPT !.at = "over"]

\* Fault: the part of the body that came with the head is forgotten.
ReadHeadForgets ==
  /\ Serving /\ reader.at = "head" /\ wire # <<>> /\ Head(wire) = "head"
  /\ \E n \in 1..Min({HeaderRoom, Len(wire)}) :
       /\ wire' = SubSeq(wire, n + 1, Len(wire))
       /\ reader' = [reader EXCEPT
            !.at  = IF Body(phone.ask) \in 1..BodyRoom THEN "body" ELSE "dispatch",
            !.got = 0]
  /\ UNCHANGED <<rtsp, pair, fp, mirror, answer, phone>>

\* recv fills the header buffer up to and past the end of the head.  What it
\* took of the body counts; a body that is too large is not read at all.
ReadHead ==
  /\ Serving /\ reader.at = "head" /\ wire # <<>> /\ Head(wire) = "head"
  /\ \E n \in 1..Min({HeaderRoom, Len(wire)}) :
       /\ wire' = SubSeq(wire, n + 1, Len(wire))
       /\ reader' = [reader EXCEPT
            !.at  = IF Body(phone.ask) \in n..BodyRoom THEN "body" ELSE "dispatch",
            !.got = n - 1]
  /\ UNCHANGED <<rtsp, pair, fp, mirror, answer, phone>>

ReadBody ==
  /\ reader.at = "body" /\ wire # <<>>
  /\ \E n \in 1..Min({Body(phone.ask) - reader.got, Len(wire)}) :
       /\ wire' = SubSeq(wire, n + 1, Len(wire))
       /\ reader' = [reader EXCEPT
            !.got = @ + n,
            !.at  = IF reader.got + n = Body(phone.ask) THEN "dispatch" ELSE "body"]
  /\ UNCHANGED <<rtsp, pair, fp, mirror, answer, phone>>

\* The body nobody read is taken for a head: no end of head in 16 KB.
ReadRest == /\ Serving /\ reader.at = "head" /\ wire # <<>> /\ Head(wire) = "body"
            /\ Over /\ UNCHANGED <<rtsp, pair, fp, mirror, wire, answer, phone>>

\* EOF or a reset, which discards what had arrived.
ReadEnd == /\ Serving /\ reader.at \in {"head", "body"} /\ ~phone.open
           /\ Over /\ UNCHANGED <<rtsp, pair, fp, mirror, wire, answer, phone>>

-----------------------------------------------------------------------------
(* The handlers.  Each leaves its answer and the session state it sets.     *)

Dispatching(op) == reader.at = "dispatch" /\ phone.ask.op = op

Reply(a, state) == reader' = [reader EXCEPT !.at = "reply", !.reply = a, !.then = state]

\* The body the handler sees: none if the request had none or too much.
HasBody == phone.ask.step # "none"

HandleQuery == /\ Dispatching("query") /\ Reply(Plain(200), rtsp)
               /\ UNCHANGED <<rtsp, pair, fp, mirror, wire, answer, phone>>

HandleParameter == /\ Dispatching("parameter") /\ Reply(Plain(200), rtsp)
                   /\ UNCHANGED <<rtsp, pair, fp, mirror, wire, answer, phone>>

HandleTeardown == /\ Dispatching("teardown") /\ Reply(Plain(200), "TEARDOWN")
                  /\ UNCHANGED <<rtsp, pair, fp, mirror, wire, answer, phone>>

\* handle_announce, handle_setup and handle_record ask for no earlier state.
HandleStream ==
  /\ \/ Dispatching("announce") /\ Reply(Plain(200), "ready")
     \/ Dispatching("setup") /\ Reply(Plain(200), "ready")
     \/ Dispatching("record") /\ Reply(Plain(200), "RECORDING")
  /\ UNCHANGED <<rtsp, pair, fp, mirror, wire, answer, phone>>

Step == tlv8_find(Items(phone.ask), "state")[1]

\* Fault: only the first fragment of A is read.
PairSetupM1Fragment ==
  /\ Step = "M1"
  /\ LET theirs == tlv8_find(Items(phone.ask), "public_key")
     IN  /\ theirs # <<>>
         /\ \E x \in ServerValues :
              /\ pair' = [pair EXCEPT !.state = "SETUP_M2", !.srp = srp_secret(theirs, Long(x))]
              /\ Reply(Answer(200, tlv8_encode_item("state", <<"M2">>)
                                   \o tlv8_encode_item("public_key", Long(x)),
                              None, None), rtsp)

\* M1: the phone's key A, a fresh B, both ends hold the SRP secret.
PairSetupM1 ==
  /\ Step = "M1"
  /\ LET theirs == tlv8_find_reassemble(Items(phone.ask), "public_key")
     IN  /\ theirs # <<>>
         /\ \E x \in ServerValues :
              /\ pair' = [pair EXCEPT !.state = "SETUP_M2", !.srp = srp_secret(theirs, Long(x))]
              /\ Reply(Answer(200, tlv8_encode_item("state", <<"M2">>)
                                   \o tlv8_encode_item("salt", <<"salt">>)
                                   \o tlv8_encode_item("public_key", Long(x)),
                              None, None), rtsp)

\* The server's identifier and long-term key, signed.
Identity == ed25519_sign(<<"server_id", "ed25519_pub">>)

\* Fault: sealed with the key of pair-verify.
PairSetupM3Session ==
  /\ Step = "M3"
  /\ pair' = [pair EXCEPT !.state = "SETUP_DONE"]
  /\ Reply(Answer(200, tlv8_encode_item("state", <<"M4">>),
                  aes128gcm_encrypt(hkdf_sha512("setup", pair.session), Identity), None), "ready")

\* M3: the server's identity, sealed with what the SRP secret gives.
PairSetupM3 ==
  /\ Step = "M3"
  /\ pair' = [pair EXCEPT !.state = "SETUP_DONE"]
  /\ Reply(Answer(200, tlv8_encode_item("state", <<"M4">>),
                  aes128gcm_encrypt(hkdf_sha512("setup", pair.srp), Identity), None), "ready")

PairVerifyM1 ==
  /\ Step = "M1"
  /\ LET theirs == tlv8_find(Items(phone.ask), "public_key")
     IN  /\ Len(theirs) = Fragment
         /\ \E x \in ServerValues :
              LET shared == x25519_dh(theirs, Short(x)) IN
              /\ pair' = [pair EXCEPT !.state = "VERIFY_M2",
                                      !.session = hkdf_sha512("control", shared)]
              /\ Reply(Answer(200, tlv8_encode_item("state", <<"M2">>)
                                   \o tlv8_encode_item("public_key", Short(x)),
                              aes128gcm_encrypt(hkdf_sha512("verify", shared),
                                                ed25519_sign(<<Short(x), theirs>>)),
                              None), rtsp)

\* M3 is accepted whatever came before it.
PairVerifyM3 ==
  /\ Step = "M3"
  /\ pair' = [pair EXCEPT !.state = "VERIFIED"]
  /\ Reply(Answer(200, tlv8_encode_item("state", <<"M4">>), None, None), "ready")

\* No body: 400.  A step it does not know, M1 without its key or with one the
\* arithmetic refuses: 500.
PairRefused ==
  /\ pair' = pair
  /\ \/ ~HasBody /\ Reply(Plain(400), rtsp)
     \/ HasBody /\ Step # "M3" /\ Reply(Plain(500), rtsp)

HandlePair ==
  /\ \/ /\ Dispatching("pair-setup") /\ HasBody
        /\ PairSetupM1 \/ PairSetupM3
     \/ /\ Dispatching("pair-verify") /\ HasBody
        /\ PairVerifyM1 \/ PairVerifyM3
     \/ /\ Dispatching("pair-setup") \/ Dispatching("pair-verify")
        /\ PairRefused
  /\ UNCHANGED <<rtsp, fp, mirror, wire, answer, phone>>

\* Fault: a handshake may start again.
FollowsAgain(stage, state) == \/ stage = "1"
                              \/ stage = "2" /\ state = "STAGE1"
                              \/ stage = "3" /\ state = "STAGE2"

\* fairplay_process: the length of the body names the stage; the state must
\* be the one before it, and no request leaves the error state.
Follows(stage, state) == \/ stage = "1" /\ state = "INIT"
                         \/ stage = "2" /\ state = "STAGE1"
                         \/ stage = "3" /\ state = "STAGE2"

Stage1 == /\ phone.ask.step = "1" /\ Follows("1", fp.state)
          /\ \E x \in ServerValues \ {phone.stream} :
               /\ fp' = [fp EXCEPT !.state = "STAGE1", !.key = x]
               /\ Reply(Answer(200, <<>>, None, x), rtsp)

Stage2 == /\ phone.ask.step = "2" /\ Follows("2", fp.state)
          /\ fp' = [fp EXCEPT !.state = "STAGE2"]
          /\ Reply(Plain(200), rtsp)

\* The derived key goes to the mirror context before the answer goes out.
Stage3 == /\ phone.ask.step = "3" /\ Follows("3", fp.state)
          /\ fp' = [fp EXCEPT !.state = "DONE", !.aes = derive_aes_key(fp.key)]
          /\ reader' = [reader EXCEPT !.at = "set_fairplay", !.reply = Plain(200),
                                      !.then = "ready"]

\* Out of order, or no random key to be had.
StageRefused == /\ HasBody /\ (~Follows(phone.ask.step, fp.state) \/ phone.ask.step = "1")
                /\ fp' = [fp EXCEPT !.state = "ERROR"]
                /\ Reply(Plain(500), rtsp)

HandleFpSetup ==
  /\ Dispatching("fp-setup")
  /\ \/ Stage1 \/ Stage2 \/ Stage3 \/ StageRefused
     \/ ~HasBody /\ Reply(Plain(400), rtsp) /\ fp' = fp
  /\ UNCHANGED <<rtsp, pair, mirror, wire, answer, phone>>

\* airplay_mirror_set_fairplay: three writes without a lock, which the mirror
\* thread may see in any order.
SetFairplay ==
  /\ reader.at = "set_fairplay"
  /\ \/ mirror.key # fp.aes /\ mirror' = [mirror EXCEPT !.key = fp.aes]
     \/ mirror.iv # fp.key /\ mirror' = [mirror EXCEPT !.iv = fp.key]
     \/ ~mirror.active /\ mirror' = [mirror EXCEPT !.active = TRUE]
  /\ reader' = IF mirror' = [active |-> TRUE, key |-> fp.aes, iv |-> fp.key]
               THEN [reader EXCEPT !.at = "reply"] ELSE reader
  /\ UNCHANGED <<rtsp, pair, fp, wire, answer, phone>>

-----------------------------------------------------------------------------
\* rtsp_send_response and the end of the loop's turn: TEARDOWN ends the
\* session after its answer, a send that fails ends it at once.
Respond ==
  /\ reader.at = "reply"
  /\ \/ /\ phone.open /\ answer' = reader.reply
        /\ rtsp' = reader.then
        /\ reader' = IF reader.then = "TEARDOWN" THEN [Idle EXCEPT !.at = "over"] ELSE Idle
     \/ ~phone.open /\ Over /\ UNCHANGED <<rtsp, answer>>
  /\ UNCHANGED <<pair, fp, mirror, wire, phone>>

\* The thread's last writes; the connection is closed, so the phone sees it.
Finish == /\ reader.at = "over" /\ Serving
          /\ rtsp' = "TEARDOWN"
          /\ UNCHANGED <<pair, fp, mirror, reader, wire, answer, phone>>

\* rtsp_session_destroy, once the mirror thread has been joined: the keys are
\* wiped and the socket closed.
Destroy == /\ reader.at = "over" /\ rtsp = "TEARDOWN"
           /\ rtsp' = "free" /\ reader' = Idle /\ wire' = <<>> /\ answer' = None
           /\ pair' = [pair EXCEPT !.srp = None, !.session = None]
           /\ fp' = NoFairplay
           /\ mirror' = [mirror EXCEPT !.key = None, !.iv = None]
           /\ phone' = NoPhone

Server == \/ ReadHead \/ ReadBody \/ ReadRest \/ ReadEnd
          \/ HandleQuery \/ HandleParameter \/ HandleStream \/ HandleTeardown
          \/ HandlePair \/ HandleFpSetup
          \/ SetFairplay \/ Respond \/ Finish \/ Destroy

Next == Phone \/ Server

\* The kernel delivers what it holds and the session's thread is not starved.
\* The phone owes the server nothing but to read its answers.
Spec == Init /\ [][Next]_vars /\ WF_vars(Server) /\ WF_vars(Hear)

-----------------------------------------------------------------------------
SrpSecrets == {srp_secret(Long(a), Long(b)) : a \in ClientValues, b \in ServerValues}
SessionKeys == {hkdf_sha512("control", x25519_dh(Short(a), Short(b))) :
                  a \in ClientValues, b \in ServerValues}
StreamKeys == {derive_aes_key(x) : x \in ServerValues}

\* A request or a derived key is told from the absence of one.
ASSUME NoneAssumption == None \notin Requests \cup StreamKeys

\* The type of the state.
TypeOK ==
  /\ rtsp \in {"free", "ready", "RECORDING", "TEARDOWN"}
  /\ pair \in [state : {"SETUP_M1", "SETUP_M2", "SETUP_DONE", "VERIFY_M2", "VERIFIED"},
               srp : SrpSecrets \cup {None}, session : SessionKeys \cup {None}]
  /\ fp \in [state : {"INIT", "STAGE1", "STAGE2", "DONE", "ERROR"},
             key : ServerValues \cup {None}, aes : StreamKeys \cup {None}]
  /\ mirror \in [active : BOOLEAN, key : StreamKeys \cup {None},
                 iv : ServerValues \cup {None}]
  /\ reader.at \in {"head", "body", "dispatch", "set_fairplay", "reply", "over"}
  /\ phone.open \in BOOLEAN /\ phone.ask \in Requests \cup {None}

\* Between a request and the next, phone and server hold the same SRP secret
\* and the same session key: no refused, repeated or half done exchange leaves
\* one of them with a key the other has not (pair_setup_process and
\* pair_verify_process against their answers).
KeysAgree == phone.open /\ phone.ask = None =>
               pair.srp = phone.srp /\ pair.session = phone.session

\* Every sealed part of an answer opens with a key the phone has when it reads
\* it, and says what the phone expects: M4 of pair-setup the server's identity,
\* under the secret of M1; M2 of pair-verify a signature of the two values of
\* this exchange, under the key that the same answer completes.
AnswersOpen ==
  answer # None /\ answer.sealed # None =>
    LET mine   == Short(phone.ask.value)
        theirs == tlv8_find_reassemble(answer.items, "public_key")
    IN  answer.sealed =
          IF phone.ask.op = "pair-setup"
          THEN aes128gcm_encrypt(hkdf_sha512("setup", phone.srp), Identity)
          ELSE aes128gcm_encrypt(hkdf_sha512("verify", x25519_dh(mine, theirs)),
                                 ed25519_sign(<<theirs, mine>>))

\* From the moment a phone may encrypt its stream, the mirror context holds
\* that key, that IV and the flag, all three, for as long as the phone does:
\* neither the three separate writes nor a later handshake that fails gets in
\* between (handle_fp_setup).
StreamKeyReady == phone.stream # None =>
                    mirror = [active |-> TRUE, key |-> derive_aes_key(phone.stream),
                              iv |-> phone.stream]

\* A session that has not finished its own handshake does not decrypt: no key
\* of an earlier session of the slot is left (rtsp_session_init).
OwnKeyOnly == Serving /\ mirror.active => fp.aes # None /\ mirror.key \in {fp.aes, None}

\* The mirror decrypts with the key of its own session, from the moment one is agreed.
OwnStreamKey == StreamKeyReady /\ OwnKeyOnly

\* Every request is answered or its connection ends, however its bytes are
\* cut by recv (rtsp_read_request).
Answered == phone.ask # None ~> (phone.ask = None \/ ~phone.open)
=============================================================================
