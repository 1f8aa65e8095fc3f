# TinySightAI in TLA+

TinySightAI puts a baby-camera picture beside Android Auto or CarPlay on a
car's head unit. A T-Dongle-S3 in the car's USB port tunnels the car's traffic
over WiFi to a Radxa board; there `aa-proxy` sits between car and phone, the
`compositor` mixes the phone's video with the camera's, a CarPlay daemon serves
iPhones, and small web servers configure, monitor and update the whole.

```
 car --USB--> dongle --WiFi/TCP--> aa-proxy <--TCP--> phone
                                    |  ^  ^
                     video tap      |  |  | composited frames   MODE lines
                (aa_video_input)    v  |  | (aa_video_output)   (control)
 iPhone --> CarPlay daemon -----> compositor <--- control clients (web, monitor)
   iAP2, AirPlay (carplay_input)    ^   |  \
                                camera  |   baby detector (baby_ai)
                                        infrared LEDs
 config server, OTA server --HTTP--> dongle (firmware updates)
```

This directory holds TLA+ modules translated from the source, TLC
configurations that check them on small instances, and TLAPS proofs. File and
line numbers below are relative to the repository; `PROJECT.json` maps every
definition to the lines it stands for.

Contents: [1 Inventory](#1-inventory), [2 Modules](#2-modules-and-their-code),
[3 Runs](#3-runs), [4 Bounds](#4-bounds), [5 Fairness](#5-fairness),
[6 Proofs](#6-proofs), [7 Only model-checked](#7-what-is-only-model-checked),
[8 Not modelled](#8-what-is-not-modelled), [9 Divergences](#9-divergences-between-code-and-documents),
[10 Plan](#10-plan).

## 1. Inventory

Concurrency is everywhere: four kinds of POSIX threads in the compositor, tokio
tasks in aa-proxy, FreeRTOS tasks in the dongle, two Python servers, and
processes that restart independently of each other.

| Component | State | Operations | Hard behaviour | What makes it correct |
|---|---|---|---|---|
| Frame inputs, `aa_video_input.c`, `carplay_input.c` | two buffers, two indices, unread flag, one client connection | accept, receive header and body, publish, `get_frame`, destroy | receiver and worker share buffers, a pointer is handed out of the lock; disconnect mid-frame; free under a thread | only whole newest frames offered, each once; a held frame lost to nothing but a newer one or the free; accepts again |
| Workers and pipeline, `main.c`, `pipeline.c`, `camera.c`, `mode.c` | display layout and source, `g_lock`, `g_aa_active`, decoder contexts, encoder output, capture buffers | decode, dequeue, composite and encode, send, mode change, shutdown | three workers, one pipeline, two phones on one decoder, send outside the lock from memory that moves, unlocked camera dequeue, every step can fail | no buffer forgotten, no picture shown twice, layout and camera image agree, pointer good until the next encode, lock released, teardown last |
| Compositor output, `aa_video_output.c` | one connection | connect, send, reconnect on failure | blocking send under a lock, the other end restarts | never blocked for ever, reconnects when it sends |
| aa-proxy sessions, `main.rs`, part of `mitm.rs` | current session, per session a receiver task and a latest frame | wait for car, wait for phone with timeout, proxy, standalone, end | tasks outlive their session, two listeners on one path, crashes | the car sees the newest frame of the live connection, or the phone's own |
| aa-proxy relay, `proxy.rs`, `aap.rs` | per direction a stream position and a reassembly | read frame, reassemble, encode, forward | a future dropped by `select!`, fragments across calls | each message forwarded whole, in order, until a frame is dropped half-read |
| Control channel, `control_channel.c`, `mitm.rs` control socket | client table, line buffers, link to aa-proxy | poll, accept, read, dispatch, forward, remove | table changed while iterated, torn lines, restarts of either program, links of two runs served at once | commands in order, table = open connections, modes of a run never go back |
| Infrared LEDs, `ir_led.c` | mode, flag, pin | on, off, auto, brightness check | three threads in `set_leds` without a lock, an early return, a write that fails | a command holds unless a late check overrules it, flag and pin agree unless calls overlap |
| Dongle link, `wifi_sta.c`, `ble_control.c`, `tcp_tunnel.c`, `usb_bridge.c` | station state, retry count, credentials, socket, flags | WiFi events, credentials by Bluetooth, connect, receive, send, close | four tasks share flags and a socket without a lock; silent loss of the peer | stream in order, flag truthful, tunnel comes back |
| Firmware update, `ota_update.c`, `ota_server.py`, `config_server.py` | partitions, otadata, image file, version record | fetch, save, upload, manifest, download, verify, switch | power cuts anywhere, file replaced between two requests, two writers | always bootable, installs what was offered, moves forward, arrives |
| Baby AI, `baby_ai.c`, `awnn_lib.c` | image buffer, last Y plane, network outputs, status, enabled flag | feed, infer, publish, enable, destroy | two feeders and a reader of one buffer, a result of an inference begun before it was disabled, a start that fails in part | a reading is of one whole image, motion goes forward, at most one late result, buffers freed last |
| CarPlay daemon, `carplay/main.c`, `iap2/`, `mfi/` | parser buffer, session and CarPlay state, `g_running` | accept, identify, answer certificate and challenge, start and stop EAP, hand over credentials, reconnect to the compositor | packets cut by `read`, noise, a length of 0, an end at any point, signals | packets once and in order, what is announced is reported over, a signal ends it |
| AirPlay server, `airplay_server.c` | session slots, two listeners, two locks | start, accept, serve, mirror, clean up, stop | two threads per session, one lock around accept, stop at any moment, silent phones, a descriptor closed twice | no descriptor lost, slots reused and given back, the stop ends when phones let go |
| AirPlay session, `airplay_rtsp.c`, `airplay_pair.c`, `airplay_fairplay.c` | RTSP state, pairing keys, FairPlay key, the mirror's key | read a request, pair, verify, set up, record, tear down | requests in any order, bodies cut or too long, keys written beside the thread that uses them | keys agree, answers can be opened, the stream has its own key, everything is answered |
| CarPlay video, `airplay_mirror.c`, `carplay/main.c`, `carplay_input.c` | mirror streams, the shared connection and its mutex, the receiver | read packet, send frame in parts, fail, reconnect, receive | two threads on one connection, partial writes, a compositor that crashes, a connection numbered 0 closed by others | the reader in step, no descriptor lost, the last frame arrives, nobody stuck |
| Baby monitor, web pages, scripts, enclosure | see section 8 | | | not modelled |

Interactions that are modelled: the workers' use of the frame slots (an unread
flag in `Compositor`), the compositor's connection to each session's receiver
task (`ProxySession`), the MODE lines from the control channel to aa-proxy
(`Control`), the Bluetooth mode writes into the tunnel's stream (`DongleLink`),
the two servers' file beside the dongle's download (`Ota`), the mirror threads'
use of the compositor's socket up to the thread that fills the CarPlay frame slot
(`CarPlayVideo`), and the workers that feed the detector, with the AI commands
that switch it (`BabyAi`).

The main hazards of this code are listed with file and line in `PROJECT.json`,
with the properties that would catch each, or the reason why none does yet.
Smaller ones, all in parts that are not modelled: `ir-led-control.sh:303` drives
the infrared GPIO beside the compositor, with a mode of its own;
`power-manager.sh:100` restarts the compositor after three late answers;
`server.py:345` lets one reader of `/stream` occupy the baby monitor's server;
`ota_server.py:165` runs whatever `update.sh` lies in its directory, also one of
an earlier package; in `aa_video_input.c:235` destroy closes the listener and
then joins a thread that may be in `accept` on it, which on Linux `close` does
not wake (`FrameSlot` lets it leave).

## 2. Modules and their code

| Module | Code | Role |
|---|---|---|
| `Mailbox` | `aa_video_input.h`, `carplay_input.h` | abstract specification: a one-place mailbox of frames |
| `FrameSlot` | `aa_video_input.c`, `carplay_input.c` | the double-buffered slot, refines `Mailbox` |
| `Compositor` | `main.c`, `pipeline.c`, `camera.c`, `mode.c` | workers, pipeline, camera, display, shutdown |
| `ProxySession` | `main.rs`, `mitm.rs` 552-657 and 840-890, `aa_video_output.c` | sessions, receiver tasks, the compositor's end |
| `Relay` | `proxy.rs`, `aap.rs` | framing, reassembly, the `select!` loop |
| `Control` | `control_channel.c`, `mitm.rs` control socket | clients, commands, forwarded modes, restarts of both programs |
| `IrLed` | `ir_led.c`, `ir_control` of `main.c` | mode, flag and pin of the infrared LEDs |
| `DongleLink` | `wifi_sta.c`, `ble_control.c`, `tcp_tunnel.c`, `usb_bridge.c`, `main.c` | the dongle between car and Radxa |
| `Ota` | `ota_update.c`, `ota_server.py`, `config_server.py` | firmware updates end to end |
| `Fifo` | `iap2_link.c` | abstract specification: packets taken in the order sent, each once |
| `CarplayDaemon` | `carplay/main.c`, `iap2_link.c`, `iap2_session.c`, `iap2_carplay.c`, `mfi_auth.c` | the daemon's main thread, whose link parser refines `Fifo` |
| `AirPlayServer` | `airplay_server.c` | slots, threads, locks and the stop |
| `AirPlaySession` | `airplay_rtsp.c`, `airplay_pair.c`, `airplay_fairplay.c`, the key of `airplay_mirror.c` | one RTSP connection |
| `CarPlayVideo` | `airplay_mirror.c`, `carplay/main.c`, `carplay_input.c` | mirror streams, the shared connection, its receiver |
| `BabyAi` | `baby_ai.c`, `awnn_lib.c` | feeders, inference thread, switch, shutdown |
| `MC...` | | one per component: values for constants that a `.cfg` cannot write; `MCControl` also has `IrLed` beside `Control` |
| `..._proofs` | | theorems; each extends what it is about: `FrameSlot`, `Compositor`, `Control`, `BabyAi`, `CarPlayVideo` have one each, `Control_proofs` is also about `IrLed`, `ProxySession_proofs` about `Relay`, `Ota_proofs` about `DongleLink`, `CarPlay_proofs` about `AirPlaySession`, `CarplayDaemon` and `AirPlayServer` |

Where one proof module extends several models, all but one carry their name in
the definitions that would clash: `LedSpec`, `RelaySpec`, `LinkSpec`, `DaemonSpec`,
`ServerSpec` and their `...Init`, `...Next`, `...TypeOK`.

Definitions whose comment begins with "Mutation of" or "Fault:" are faulty variants of the
definition that follows them. No specification uses them; substituting one for
the original makes the property that `PROJECT.json` names for it fail.

**FrameSlot.** `pc` follows `recv_thread` (accept, header, body, publish,
close). `BodyPart`/`BodyDone` separate a frame's first bytes from its last, so
a buffer is torn in between; `Publish` is the swap under `g_mutex`; `GetFrame`
hands out a pointer (`held`: which buffer, which frame) that stays in use until
`Finish`, while the receiver goes on. `Stop`, `CloseSockets`, `JoinAndFree`
are the steps of `..._destroy`, which frees the buffers whether or not a worker still
reads: main joins the workers only afterwards. A frame is its number, its bytes are the number
of the frame they belong to.

**Compositor.** One step per thing that can fail or be interrupted: `AaFrame`,
`CarplayFrame`, `CameraTurn` are the unlocked decisions at the top of each
loop; `Acquire` takes `g_lock`; `Decode`, `Dequeue`, `Encode`, `Copy`,
`Release` happen under it; `Send` follows the unlock. A decoder context keeps pictures
back (`waiting`, per phone): after one phone's packet either phone's picture
may come out, or none. `Encode` begins the copy of the packet into `enc_output`, which is
torn until `Copy` ends it and may have been moved by `realloc`: a block of memory is
named after the encode that allocated it, and a worker's `result` is a frame, which
stands for its length, and a pointer to a block. `Release` queues the capture buffer
again; the driver can refuse it (`VIDIOC_QBUF`), and then it is `"lost"`. `ModeCommand`
is the control thread's change of layout and source, which needs the lock. `Signal`
and `TearDown` are main's shutdown, in its order. `owner` records who has each
capture buffer; `dec` whose picture the decoder's single frame holds, and whether it was
composited before.

**ProxySession.** `main` is the loop of `main.rs`; a session is its number. Its
task binds the socket path (`Bind` replaces the previous listener; the old
backlog and connections stay with the old task), accepts, receives, and on end
of stream clears its frame and accepts again. A connection knows which task
holds its other end (`home`) and what its buffer still holds (`pipe`).
`CompSend` needs room in the buffer: without it the sender is blocked, which is
the action being disabled. `ProxyCrash` and `CompRestart` close all ends of the
process concerned; data in a socket buffer survives the sender.

**Relay.** Each side's stream is what `encode_frames` produces for its
messages: cells that are headers and bodies. `FrameArrives` delivers a physical
frame whole, `PartArrives` only its first cell, at any time. `ReadHeader` consumes a
header whose body is missing; it is this future that `select!` drops when the other
side completes a message (`ReadFrame` of the other side resets `pending`, and the
history variable `dropped` remembers whose frame it was). `Assembled` is
`FrameReassembler`. `Forward` passes a message on; the branches of
`mitm.rs` that patch or swallow some messages are left out.

**Control.** `at` is the index of `control_poll`'s loop over the table;
`Remove` moves the last slot into the gap as `client_remove` does. A line is
sent in two parts and buffered per client. `Dispatch` executes a whole command
and, for MODE, forwards the line over `ctl`, connecting first when there is no
link. Every link has its own handler in aa-proxy (`Handle`), and links outlive the
program that made them: after `CompositorRestart` the lines that the former run left
are still read, beside those of the new one. `owner` is the run of the
compositor a link belongs to, `handled` the last line handled of each run.

**IrLed.** `Look` is the brightness check of a worker, `Judge` that check in auto mode,
`IrCommand` the control thread's `ir_led_set_mode` with its early return when the mode
is the present one. `set_leds` is four steps of each of the three threads:
`NothingToSet` or `Differs`, `SetFlag`, `WritePin`. Three history variables name the
exceptions: `late` (a worker judged before the mode was changed), `overruled` (such a worker
has since set something), `astray` (calls overlapped, or a write did not reach the pin).
The limit of one look a second is left out, since two workers can pass it at once.

**DongleLink.** The driver joins and loses the access point and queues events;
the event handler consumes them. `wifiUp`, `tcpUp`, `sock` are the flags the
tasks share. tcp_rx's steps (`WaitForWifi`, `Connect`, `SetConnected`,
`Receive`/`Lost`, `Close`, `Clear`, `Delay`) are separate because nothing is
locked between them; a sender checks the flag in one step, reads `s_sock` and
calls send in another, and the call returns in a third. Sockets are numbered by
connection, so a descriptor is not reused (section 8).

**Ota.** An image is the release it holds and whether it is whole; equal
contents have equal SHA-256 sums. The server's fetch opens the file (torn),
completes it, then saves the record in two steps; an upload writes the same
file. The dongle goes through mutex, manifest, request, write, verify, end,
switch, restart. `Reboot` starts from `boot`; power cuts happen at any step.

**CarplayDaemon.** `at` follows main through its loop over connections and, in
a connection, the loop of `handle_iphone_connection`: test, `poll`, parse, check.
The stream is cells, a packet's header and its payload; `Read` takes any number
of them into the parser's buffer, `EndOfBuffer` carries the unfinished packet
forward, `SkipCell` is the search for sync bytes and checksums after noise.
Each message's handling is one action that makes the session's and the CarPlay
handler's changes together, as one call of the packet callback does
(`Stopped`, `OfferNetwork`, ...). `announced` is whether `ready_cb` was called
and `stopped_cb` was not since; `told` what the iPhone was sent. Any write can
fail once the iPhone has closed. A header can claim any length with a right checksum:
less than a header's own is noise to what follows, and 0 leaves the parser at `"spin"`,
where it handles one packet for ever. At the end `airplay_server_stop` and the join of
its thread are a state of their own (`"stopping"`), which ends only with `AirPlayStopped`.

**AirPlayServer.** A slot has an RTSP thread (`rtspAt`) and a mirror thread
(`mirrorAt`); the acceptor finds a slot, fills it in (`Place`) and creates the
thread (`Spawn`) in separate steps, because the stop can come in between. `JoinMirror` waits for
the mirror thread, `Leave` takes `sessions_lock`, `CleanupCloses` and
`CleanupEnds` are `session_cleanup`. `airplay_server_stop` is one action per
call it makes, in its order. Descriptors are the connections themselves, except
number 0: the audio context is zeroed and never initialised, so each cleanup
closes descriptor 0 twice, and `NumberFor` lets `accept` hand it out again. A packet
the mirror cannot read (`BadPacket`) ends its thread. Phones hang up,
or fall silent for good: nothing in the code would notice that.

**AirPlaySession.** A request is a head and units of body; `ReadHead`,
`ReadBody` are `rtsp_read_request` with every split `recv` can make, and
`ReadRest` what happens to a body that was too large to read. Each handler is an
action that leaves its answer, which `Respond` sends together with the state
the handler asked for. TLV8 items are built and found as in `airplay_pair.c`
(`tlv8_encode_item`, `tlv8_find`, `tlv8_find_reassemble`), with items of two
units for 255 bytes; a secret is the pair of public values it was agreed with, so that
two ends that saw different bytes hold different secrets. `SetFairplay` writes
the mirror's key, IV and flag one at a time, in any order.

**CarPlayVideo.** `ReadPacket` is one turn of the mirror thread's loop over a
packet of any type and length (`Length` is what the header says, `Taken` what
the code reads; whether the phone counts the time stamp in it is the constant
`StampCounted`). A frame is delivered or skipped: the key is `AirPlaySession`'s.
`Lock`, `WriteHeader`, `WritePayload`, `WriteFails`, `Connect`,
`Install` are `compositor_send_video` and `compositor_connect`; a write blocks
while the socket holds `Room` units and may take a part. `BootConnect` is main's
own connection attempt, without the mutex. `Accept` to `RxEnd` are
`carplay_recv_thread`; `Crash` and `Restart` the compositor, `DaemonRestart` the
end of the daemon and its start by systemd.

Connections have names of their own; of the numbers descriptors have only 0 is kept.
`zero` is what it stands for: nothing, the connection to the compositor that was given
it, or another file. `Cleanup`, the end of an AirPlay session, closes whatever that is
(`session_cleanup` through `airplay_audio.c:539-540`), in the middle of a frame too;
`OtherOpens` and `OtherCloses` are other files of the daemon that come to have the
number, and `WriteElsewhere` is a frame that then goes to one of them. `beneath` collects
the connections closed that way.

**BabyAi.** An image is its number, a buffer two halves, so that a reader can
see one of each. `FeedLock` and `FeedDone` are a worker's copy under
`frame_lock`; `TakeY` and `Convert` the thread's two readings under it; `Motion`,
`Run`, `Publish` follow without it. `Init` covers what `baby_ai_init` and
`baby_ai_start` can leave behind: no model, no buffers, no thread. `Destroy`
joins, also a thread that never was (section 9).

## 3. Runs

| Run | States | Question and answer |
|---|---|---|
| `FrameSlot` | 2,196 | Are only whole, newest frames offered, is a held pointer good until a newer frame is published or the shutdown has freed it, and is nothing written after free (`SafeUntilFreed`)? Is the slot the mailbox its header describes (`ImplementsMailbox`)? Does it accept again (`AcceptsAgain`)? Yes. That no worker reads a freed buffer is not so (section 9). |
| `Compositor` | 4,065,024 | Is each picture composited once, by whichever phone's thread, with the layout its camera image was taken for (`PictureFits`)? Are capture buffers given back on every failing path, unless the driver refuses one, and does shutdown wait for their users (`BuffersSafe`)? Is a worker's pointer good until a later frame reaches `enc_output` (`ValidUntilNextEncode`)? Does the holder of `g_lock` always get to its release (`LockReleased`)? Yes. That the picture and the frame sent are the worker's own is not so (section 9). |
| `ProxySession` | 4,992 | Through restarts and crashes: does a session show only frames of the connection it reads, does the car never go back to an older connection, is a full socket always drained? Yes. Does a compositor that goes on sending reach the session that listens? Unless its connection is with an ended session's task. |
| `Relay` | 53,096 | When frames arrive whole and in parts in any order, is every message of a direction forwarded whole, in order (`Faithful`), and eventually (`ArrivedIsForwarded`)? Until `select!` drops one of its frames half-read, which it does (section 9); nothing else in reader or loop loses or rejects data. |
| `Control` | 2,023,715 | Whatever clients do to their connections, are commands executed whole, once, in order, and does the table hold exactly the open connections (`ClientsServed`)? Does aa-proxy handle the modes of one run of the compositor forwards, with links of two runs open (`ModesNeverGoBack`)? Yes. Do IR on and off hold, in flag and pin (`ForcedUnlessOverruled`)? The flag unless a worker that judged before the command acts after it, the pin also unless two calls overlap or a write fails. |
| `DongleLink` | 483,708 | Does what the car sends arrive in order and, within a connection, gap-free but for mode writes; is the WiFi flag truthful once events are handled; does the tunnel come back? Yes. |
| `Ota` | 110,926 | Is there always a whole image to boot? Is only what the manifest described installed, and is it newer while nobody uploads (`UpdatesForward`)? Does an update that stays on offer arrive? Yes. |
| `CarplayDaemon` | 821,916 | However reads cut the stream and whatever noise lies in it, are packets handled once and in order (`ImplementsFifo`)? Yes. Is nothing announced outside an EAP session that the daemon asked this iPhone for, and is what was announced reported over before the next call (`SessionSound`)? Yes, and the latter unless the iPhone closed first. Does a signal in a call end the daemon (`SignalInCallEnds`)? Unless a length of 0 has caught the parser, and if the AirPlay server can be stopped. |
| `AirPlayServer` | 235,468 | Is no connection forgotten (`NothingLeaks`), is a slot reused only after both its threads (`ReuseAfterThreads`)? Yes. Does a session that streamed give its slot back (`SlotComesBack`), does a stop let the daemon exit (`StopLetsExit`)? If no phone keeps a connection open and silent for ever; otherwise not (section 9). |
| `AirPlaySession` | 421,804 | Through requests in any order, repeated, refused and cut: do phone and server agree on every key (`KeysAgree`), can what is sealed be opened (`AnswersOpen`), does the mirror hold its own session's key, whole, from the moment the phone may use it (`OwnStreamKey`), is everything answered (`Answered`)? Yes. |
| `CarPlayVideo` | 108,478 | Does the compositor stay in step at every size of frame (`InStep`)? Yes. Is no descriptor lost or used after its close (`DescriptorsMatch`)? None, but for those that the end of a session closes as descriptor 0. Does the last frame arrive (`Arrives`)? Unless its connection is lost or a new daemon begins. Is no thread held for good (`SendReturns`)? None whose frame does not go to what descriptor 0 has become. |
| `BabyAi` | 105,218 | Is each reading of one whole image, is motion measured forward in time, are the buffers freed last (`BuffersSound`)? Is at most one result late (`AtMostOneLate`)? Is an image that waits judged (`Detects`)? Yes. |

Eleven further configurations are counterexamples: they state what comments and
headers in the code say, seventeen statements in all, and TLC refutes each. They are run by
hand (`tlc -config Relay_torn.cfg MCRelay.tla`, and so on; `IrLed_docs.cfg` goes with
`IrLed.tla` itself). Where a configuration holds several statements, one is active and
the others are in its comments, to be checked one at a time. Section 9 describes them.

## 4. Bounds

| Module | Bounds | Why they suffice to meet the interesting cases |
|---|---|---|
| `FrameSlot` | `MaxFrames` = 6 | each buffer is filled three times, so a held pointer is overrun and the indices swap back |
| `Compositor` | 2 buffers, 1 decoder that keeps back 1 picture, `MaxPts` = 2 | at most two buffers are worked on at a time (proved for any number), so that both can be; one picture kept back is enough for a thread to be given the other phone's; two encoded frames are the least that let one worker's output be replaced, or moved, by another's |
| `ProxySession` | 2 sessions, 1 restart, 1 crash, `Cap` = 2 (orphan configuration: none, none, 1) | an orphaned task beside a live one, three connections in all, an old buffer that still holds frames, and a full one |
| `Relay` | car sends a message of 2 chunks, phone of 3, 0 and 1 | every shape of message: empty, single, first-last, first-middle-last, with every cut of every frame and every interleaving of two directions |
| `Control` | 3 connections for 2 slots, 2 runs of the compositor, 1 restart of aa-proxy, 3 links, one client's lines torn | the table is full with one waiting, each slot is removed in each order, links of both runs and a replaced one exist at once |
| `IrLed` | none but the number of threads | its states are finite as they are; in the run of `Control` either part moves while the other is as at its start, since they share no variable |
| `DongleLink` | `MaxRetry` = 1, 3 connections, 1 outage, 3 car messages, 2 Bluetooth writes | retries are exhausted, a connection is replaced while a sender uses it, a password change meets an outage |
| `Ota` | releases 0.9.0, 1.0.0, 1.9.0, 1.10.0; 2 failures, 1 upload | orders by number and by string differ; two faults reach a torn file and record together |
| `CarplayDaemon` | `Capacity` = 4 cells, 3 packets a connection, 1 with a wrong header, 2 connections | a packet and a part of the next fit, the buffer can be full, noise can claim less or more than it is; a second connection finds what the first left |
| `AirPlayServer` | both of `AIRPLAY_MAX_SESSIONS`, 3 calls of which one opens its mirror | the table full and one refused, a slot reused, a mirror connection taken by either waiting thread |
| `AirPlaySession` | 1 value of the phone, 2 of the server, TLV items, head and body of 2 units | a long value needs two items, a request two `recv`s, a body can be too large, a second handshake draws another value; number of requests unbounded |
| `CarPlayVideo` | 2 threads with a frame each, 2 connections, socket of 2 units, 2 tries, 1 restart of the daemon; the compositor's crashes unbounded | a frame of three units fills the socket and is written in parts, one thread waits while the other writes or reconnects, tries run out, an old connection drains beside a new one, either is closed as descriptor 0 at any point |
| `BabyAi` | 2 workers, 3 images, 3 switches | two copies around one reading, three images to compare, off-on-off |

Every bound sits in the guard of the action that counts. `AtRest` in
`CarPlayVideo` is no bound but a choice of order: one packet at a time is unread, and one
that is no whole frame comes only while no frame is under way, as reading it touches nothing
the other threads see. Deadlock is checked except where the
program really stops or the environment may: `FrameSlot`, `Compositor`,
`AirPlayServer`, `CarplayDaemon` and `BabyAi` (after shutdown), `Relay` (the
session has ended), `DongleLink` (nothing left to send and the station has given
up).

## 5. Fairness

All fairness is weak, and only for steps the program takes on its own.

- `FrameSlot`: the receiver's own steps (loop test, publish, close). Not the
  sender's, nor main's.
- `Compositor`: the steps of a worker that holds `g_lock`, which only computes. With it
  `LockReleased`, a safety property, means that the lock is released.
- `ProxySession`: each task's step, and the compositor's connection attempts (its thread
  tries every second). Not its sends: its loops send what a phone or the camera
  delivers, and yield to each other. `ReconnectReachesSession` has them as
  a hypothesis (`KeepsSending`). Not the car, the phone, crashes or restarts.
- `Relay`: each side's read, because `select!` polls its branches in random
  order. Not the arrival of data.
- `DongleLink`: the WiFi driver, the keep-alive that notices a dead peer, the
  event loop, the tasks. Not the car or the outages.
- `Ota`: the servers' steps of a job in progress, the periodic timer, the
  check's steps. Not publishing, installing or uploading.
- `CarplayDaemon`: the main thread's steps. Not the iPhone, the signal, nor a
  failure of `accept`. A call that waits is a disabled action; `poll` times out;
  writes to the iPhone are assumed not to block. The end of
  `airplay_server_stop` is not fair: that it comes is the hypothesis `AirPlayStops`.
- `AirPlayServer`: the daemon's threads. Each takes boundedly many steps, so
  that fairness of all together is fairness of each. Nothing of the phones: the
  connections have no keep-alive and no timeout, so a phone that vanishes is not
  noticed. That no phone keeps a connection open and silent for ever is a
  hypothesis of the two liveness properties (`PhonesLetGo`).
- `AirPlaySession`: the session's thread, and the phone's reading of an answer
  that is there. Not its requests.
- `CarPlayVideo`: each mirror thread's next step (a read or a send), main's own attempt
  to connect, and the compositor's receiver. Not a restart of either program, nor what
  else the daemon opens, closes and writes under number 0.
- `BabyAi`: a worker's copy once it wants the lock, and the inference thread. With
  an unbounded number of images the lock would have to be fair as well: weak
  fairness suffices because feeding is bounded here, while in the program a worker waits
  for the next camera image between two copies. Not feeding, switching, stopping.
- `Control` and `IrLed` state no liveness and assume none.

## 6. Proofs

The provers check 14,221 obligations, with no unproved step, in eight modules. All
results hold for every value of the constants that satisfies the named
assumptions of the component's module. Every safety invariant, every action
property and both refinements that the runs check are theorems, and so is the
type invariant of each component. What the runs check and no theorem states is
liveness and the release of `g_lock` (section 7).

**`FrameSlot_proofs`** (`MaxFrames` a natural number). None of the properties is
inductive: that a published frame is whole depends on where the receiver
writes. The invariant `IInv` adds `IndexInv` (the two indices differ, the
receiver's copy is the write index while it uses it), `BufferInv` (the read
buffer holds the last frame published, whole and with its own length and codec)
and `HeldInv` (a held frame is older than the last published, or it is that
frame, in the read buffer, where nobody writes). From it:
`TypeCorrect`, `OnlyWholeFramesOffered`, `PointerGoodUntilReplacedOrFreed`,
`ReceiverOutlivedByBuffers`, the three together as `SlotIsSafe`, and
`SlotImplementsMailbox`, the refinement: each
publication is a `Deliver`, each `get_frame` a `Collect`, all else stutters.

**`Compositor_proofs`** (`Buffers` finite, any decoders, `Delay` and `MaxPts` natural).
`IInv` adds `LockInv` (a worker is between lock and unlock exactly when it owns `g_lock`,
hence mutual exclusion), `BufferInv` (at which steps a worker may hold a buffer, and never
more than one), `ResultInv` (a worker's frame and block are those of the output
buffer as it is, or the buffer has a later frame) and
`DownInv` (main joins before it destroys). From it: `MutualExclusion`,
`OncePerPicture`, `LayoutAgrees`, `PointerLastsOneEncode`, `WorkersGoneFirst` and
`BuffersConserved`; the last needs counting: of three workers only one is under
the lock and only the camera worker holds a buffer outside it, so at most two buffers
are being worked on whatever the number of buffers and however many the driver has
refused. `CompositionFits` and `BuffersAreSafe` put these together as the run states them.

**`ProxySession_proofs`** (natural bounds, a buffer of at least one frame). That
a session's frame is of the connection it reads follows from how connections
change hands, which no single task decides. `HomeInv` ties connections, tasks and the
listener to sessions that exist; `ReadingInv` says that a task reads its oldest
connection; `ShownInv` that no connection of the present session is older than
what the car was last shown. A new session has no connection yet, so what it
accepts later is newer than everything before it. From it: `TypeCorrect`,
`FramesAreCurrent` and the action property `ConnectionsGoForward`, for any
number of sessions, restarts and crashes.

The same module proves `RelayFaithful`, which is `Faithful` of `Relay`, for any
messages of any number of chunks on both sides, with frames cut at any time. Half of it
is about data: what the
recursive `StreamTo` builds for streams of any length. `RecursiveFunction` gives
the values of a function defined by recursion over numbers, from least
elements; `InStream` then says of every cell what stands there and what follows
it, by adding one message at a time. The invariant `RelayInv` says of each side, until
a frame of it is dropped half-read, where its reader is (`SideInv`).
`Together` says that the frames of a message read so far are the first chunks of the
message after those forwarded; `Expects` that the next cell is the header of its
next frame, or the payload of the header in hand. A message completed on one side drops
the other's future: that side's reader has read nothing of a frame, or the history
variable says so from then on. `RelayTypes` holds even then: torn
frames included, a reader stays within what has arrived and waits for a payload
only behind a header that announced one.

**`Control_proofs`** (scripts are sequences of commands; any clients, torn or
not, a table of at least one place, natural bounds). Two invariants. `ClientInv` counts
in half lines: `LineInv` says that a client's line buffer holds a half exactly
when an odd number was read, whichever slot it has been moved to, and `DoneInv`
that the commands executed are those of the whole lines read; `ChunkInv` keeps
what `recv` returned with the client it was read from, also when the table is
compacted under the loop. `ModeInv` says that a run of the compositor has one
link with a handler at a time (`OneLink`) and that the lines of every link are in order and
newer than the last one handled of its run (`LineOrder`), so that the links of former runs may
be served in between. From them `ServedInOrder`, `ModesForward`, an action property, and
`TypeCorrect`, which says among the rest that `client_add` never writes behind the table.

`ForcedModesHold` is `ForcedUnlessOverruled` of `IrLed`, which has no constants.
`WorkersLate`: in a forced mode every worker at work judged before it was forced;
`FlagForced`: past the control thread's `set_leds` the flag is as forced, unless one of them
has set it; `PinFollows`: while calls do not overlap, at most one thread is between flag and pin.

**`Ota_proofs`** (`Releases` a sequence of versions that increase numerically,
`ReleasesIncrease`; bounds natural). `BootInv` says that the running slot is
the one to boot until the switch, so that the slot being written is neither;
`DownloadInv` ties what is in that slot to what was received, and from the
verification on to the offer; `RecordInv` says that without uploads the record is never
ahead of the image in the file; `NewerInv` carries the manifest's decision to the switch. Two lemmas
show that the version comparison is asymmetric and agrees with the
order of releases. From it: `AlwaysBootable`, `InstallsTheOffer` and
`MovesForward`, the last two action properties, together `UpdatesLeadForward`.

The same module proves three theorems about the dongle's other tasks
(`DongleLink`, natural bounds). `FlagTellsTruth` is `FlagSettles`: `WifiInv` says that
the last event queued tells the state of the station, and that "start", the only
event that could be last without telling it, is the first of all.
`TunnelKeepsOrder` is `PipeInOrder`. It needs to know where a sender may be while
`tcp_rx` replaces the socket: `TunnelInv` says that the flag is up exactly while
`tcp_rx` receives, that a sender that has seen it up is gone before the delay
ends, and that no two write to one connection; `UpInv` that the connection
that is up is the last one and empty before the flag is; `ItemsInv` that what arrived was
sent, and what is being sent is newer; `LastInv` that the last item of the
connection that is up is the car's last message or the one before it, unless
a mode write is there or under way, so that the next item leaves no gap.
`LinkTypes` is the type invariant.

**`BabyAi_proofs`** (any set of workers, any number of images and commands). That
a reading is of one image follows from who holds `frame_lock`: `LockInv` says
that it has the holder its users think it has, `BufferInv` that outside a copy the two
halves agree and that the thread reads what lies there. Motion forward in time
needs `OrderInv`: no image known is newer than the last one fed, and the one
that waits is newer than those taken before; this is where clearing `frame_ready` under
the lock is needed. `LifeInv` orders the end: no feeder comes back once main has
joined the workers. `LateInv` strengthens the bound on late results: one has
been published only if the thread is at its test or about to get there, where
it stays. From them `TypeCorrect`, `BuffersAreSound` and `OneLateAtMost`.

**`CarPlayVideo_proofs`** (any set of mirror threads and descriptors, at least one
try). That the open connections are the known ones is inductive only together
with who may touch them. `Writer` says that a thread is between header and last
byte exactly when it holds the mutex, and then there is a connection; `Boot`
that no thread has or makes a connection while main may still store its own,
which it does without the mutex; `New` that a connection being installed is
nobody else's; `OneReconnects` that a thread that connects anew is the only one,
and meets no connection when it stores its own; `Owned` is `DescriptorsMatch`
connection by connection. That much needs the shape of the records only. From it
`ConnectionsAccounted`, `OneWriter` and `NoneReconnectsFirst`, which shows a branch of
`compositor_send_video` dead.

All this is about numbers the daemon knows. What descriptor 0 stands for is apart from it:
`ZeroInv` says that the connections closed beneath the daemon are still among those it
counts as its own, each closed once, so that `DescriptorsMatch` holds with their exception.

`ReadersInStep` is `InStep`, on top of it. `Continues` says that
in every connection each unit follows the one before it, and the first the
one the compositor took last: the next part of the same frame, or a header
behind a last part. To keep that, a writer has to know what it continues:
`WriterTail` says that the last unit of the connection is the one it wrote,
and `RestTail` that a connection nobody writes to ends with a whole frame, as long as
it is neither broken nor closed as descriptor 0 (`Intact`). Both rest on
there being one writer, and on such a connection never being written to again.

`NeverAhead` says that the compositor shows no frame its phone has not sent. Its
invariant `NumberInv` follows a frame's number through the places it can be in: a
mirror stream, a thread, a connection of this or an earlier daemon, the receiver.
`BoundInv` keeps tries, restarts and what sockets hold within their bounds; with the
two, `TypeCorrect`.

**`CarPlay_proofs`**, three components.

- `AirPlaySession` (public values and random values of any sets without `None`,
  any length at which TLV8 splits a value, any room for head and body; `NoneAssumption`:
  no request and no stream key is taken for the absence of one). Lemmas first: what
  `tlv8_encode_item` produces, `tlv8_find_reassemble` puts together again, for a short
  value and for one that takes two items, and it finds an item behind others. Then
  `SessionInv`: `TurnInv` (one request at a time), `FpInv` (which keys each state
  of FairPlay has), `MirrorInv` (the mirror holds this session's key and vector or
  nothing, except while they are set), `StreamInv` (what the phone keeps is what
  the server keeps), `KeysInv` (the server's secrets are the phone's, or what the phone will
  make of the answer under way) and `SealedInv`. The properties compare both ends
  when an answer has been read; the invariant has to say in between what the answer on the
  wire will do. From it `KeysAlwaysAgree`, `AnswersAlwaysOpen`, `StreamKeyOwn` and,
  with the ranges of the variables it does not speak of, `SessionTypes`.
- `CarplayDaemon` (any messages, capacity and bounds). `Untold` says which states of
  the CarPlay session still owe a `stopped_cb`, `OutOfCall` that none is started
  between connections, `InEap` that in one nothing is announced that is not started,
  nor started without a StartEAP sent, `LeftOver` what an earlier connection may have left
  announced (one the iPhone closed). From them `DaemonSessionSound`, which is `SessionSound`.
  `DaemonIsFifo` is the refinement of `Fifo` (`ImplementsFifo`). The queue it is mapped
  to is what `Packets` selects from the cells in hand and under way, a recursive
  function: `PacketsAppend` and `PacketsTail` say what a cell more at the end or
  one less at the front does to it. `FifoInv` says that a header of two cells is
  followed by its payload, in the two buffers taken as one stream, so that
  taking a packet takes one header and skipping noise takes none; and
  that nothing is in hand between connections. Each step then
  appends, takes, closes, opens or leaves the queue alone. `DaemonTypes` is the type
  invariant.
- `AirPlayServer` (any number of slots and connections). That no connection
  is lost is inductive with the knowledge of who holds it: `SlotInv` and `FdInv` for a slot
  and its two threads, `AcceptorInv` for a connection between `accept` and its thread,
  `LockInv` for `session_cleanup` under `sessions_lock`, `StopInv` for what the
  stop has passed, `ZeroInv` for descriptor 0, which belongs to one open connection at
  most. `airplay_server.c` takes the first free slot, which exists by
  the least-element lemma. From it `ConnectionsAccountedFor` (`NothingLeaks`) and
  the action property `SlotsReusedLate` (`ReuseAfterThreads`), `ServerTypes`, and
  `LocksExclude`: one thread in the mirror's `accept` and one `session_cleanup` at a time.

## 7. What is only model-checked

- Liveness: `AcceptsAgain`, `ReconnectReachesSession`,
  `SendNeverStuck`, `ArrivedIsForwarded`, `TunnelComesBack`, `UpdateArrives`,
  `SignalInCallEnds`, `SlotComesBack`, `StopLetsExit`, `Answered`, `Arrives`,
  `SendReturns`, `Detects`. Liveness under fairness is out of the proof system's
  reach.
- `LockReleased`: it says that a step is possible (`ENABLED`), which the proof system does
  not reason about.

Where a proof needs the first or last of a set of numbers it takes the least
element of a well-founded order (`WFMin`), which the provers can instantiate; the
library's induction theorems they cannot. An induction over numbers is written
the same way, for one set at a time: the least number that is not in it leads to a
contradiction (`UpTo`). The two recursive functions that theorems are about,
`StreamTo` and `Packets`, are reached through it.

## 8. What is not modelled

Assumptions about what is not in the repository, marked external in the map:
lwIP's blocking send queues everything or fails and refuses a second sender; a
task that returns from its function on FreeRTOS aborts, and the chip restarts;
a full Unix socket buffer blocks its writer; data written to a socket survives
its writer; `shutdown` wakes `accept` and `recv`; `accept` returns the lowest free
descriptor; a secret is fixed by the values it was agreed with and what is
sealed opens with its own key only.

Abstractions: pixels, codecs and NAL units (a frame is a number or the
connection it came over); TLS, whose handshake succeeds or fails; wording and
formats, except where a property is about one (`TouchFollowsDisplay`); descriptor
reuse between `close` and the clearing of `s_sock` in the dongle; the one-second
`CONNECT_RETRY` delay is taken to be longer than a sender's step from check to
call.

Left out:

- In the CarPlay daemon: the Bluetooth adapter and its SDP record, the registers of the
  MFi chip (a certificate can be unreadable, a signature can fail), iAP2 sequence
  numbers (sent, never checked). `iap2_auth.c`, with its timer, is built
  and never called.
- In the inputs: a worker that decodes from a buffer the shutdown has freed is shown
  (section 9), not what it then does.
- In the compositor: the initialisation and its failures, and the LEDs' limit of one look
  a second.
- In the AirPlay server: an RTSP or mirror connection has the number 0 in
  `AirPlayServer`, one to the compositor in `CarPlayVideo`, never both at once; audio,
  which is never started (section 9), touch, which has
  no caller, mDNS, and the arithmetic of pairing and FairPlay.
- In the detector: the arithmetic (`nv12_to_nchw_resize`, `compute_motion`,
  `parse_yolov5_head`, `awnn_quantize.c`) and the vendor's driver.
- The update of the Radxa itself, the video tap, the patching and swallowing of messages
  and the touch remapping of `mitm.rs`, a writer that blocks in the relay, camera zoom: planned.
- `overlay.c`, `nal_detect.c`, `touch.c`:
  sequential arithmetic; pixel drawing.
- `aa_emulator.c`, `aa_protocol.c`, `fragmentation.c`: not called by `main.c` any more.
- LED colours, web pages, the baby monitor (its commands are clients of
  `Control`), shell scripts, root file system, enclosure.

## 9. Divergences between code and documents

Refuted by TLC, each with the configuration that shows it:

- `FrameSlot_pointer` (`PointerValid`): `aa_video_input.h:21` and `:42` promise a pointer that is
  good until the next call of `get_frame`. It is good until the next frame is
  published; and main destroys the inputs (`main.c:487-495`) before it joins the
  workers, so at the end one may read a buffer that has been freed.
- `Compositor_docs`, `ComposesOwnPicture`: `main.c:143-144` has each frame decoded, composited,
  encoded and sent. Both phones' threads decode with the same contexts
  (`pipeline.c:223-236`), and what `receive_frame` brings out after one phone's packet
  can be the picture it kept back of the other's. What holds is `ComposesOnce`.
- `Compositor_docs`, `SendsOwnFrame`: `main.c:208` sends through the pipeline's
  one output buffer after unlocking. `main.c:80-82` calls a stale `g_aa_active`
  harmless; with it, two workers encode in turn and one can send what the other is
  writing, with its own length, or from memory that `realloc` has moved
  (`pipeline.c:314-317`). What does hold is `ValidUntilNextEncode`.
- `ProxySession_orphan` (`CompositorReachesCar`): `mitm.rs:557` says a new
  connection replaces the old one. Each session binds a listener of its own and no
  task ends with its session; the compositor stays connected to the first
  session's task, whose reads keep its sends succeeding, so it never reconnects to
  a later session.
- `Relay_torn` (`ForwardedAsSent`): `proxy.rs:7-8` says frames are read
  concurrently from both sides with `select!`. The read is not cancellation-safe:
  a header consumed by a dropped future is gone, and the payload is then read as a
  header.
- `Control_touch` (`TouchFollowsDisplay`): `control_channel.c:272-274` forwards
  MODE lines so that aa-proxy can remap touch; it sends plain text, and `mitm.rs`
  parses JSON.
- `IrLed_docs`, `ForcedStateStays`: `ir_led.h:57` says that in on and off mode
  `ir_led_update` does nothing. A worker that tested the mode before the command sets the
  LEDs after it, and the same command again returns early (`ir_led.c:137`).
- `IrLed_docs`, `FlagTellsPin`: `ir_led.h:44` says that `ir_led_is_on` tells whether the LEDs are
  on. Two calls of `set_leds` can write flag and pin in opposite orders, and the flag is set
  although the pin could not be written.
- `DongleLink_retry` (`WifiComesBack`): `wifi_sta.c:36` says retries continue by
  Bluetooth or a periodic timer. There is no such timer.
- `AirPlayServer_silent` (`StopDisconnectsAll`): `airplay_server.h:147-148` says that the stop
  disconnects all sessions. It shuts down their RTSP connections only
  (`airplay_server.c:449-452`) and then joins: a phone that vanished with its mirror
  connection up keeps main waiting. Between the shutdown and the read of the slot's thread
  the acceptor can also fill the slot anew.
- `CarPlayVideo_docs`, `NoneClosedBeneath`: only `compositor_send_video` has reason to close the
  connections of `compositor_connect`. If one was given the number 0, the end of
  any AirPlay session closes it, as `airplay_audio.c:539-540` closes two sockets
  that are 0 because audio was never initialised; the next file opened
  then gets the frames.
- `CarPlayVideo_docs`, `LinkComesBack`: `carplay/main.c:564` says
  `compositor_send_video` retries on each frame. It reconnects only after a write
  that failed; with no connection at all it drops the frame, so that a compositor
  that comes up after the 30 seconds of tries never gets video.
- `CarPlayVideo_header` (`MirrorInStep`): `airplay_mirror.h:11-21` and `airplay_mirror.c:13` have a
  video header of 16 bytes, with the time stamp in it, in front of `payload_length` bytes;
  the code takes the time stamp out of `payload_length` (`airplay_mirror.c:277`). With a phone
  that counts as the comments say the stream is lost after one frame. Which is
  right the repository does not tell; the run takes the code's.
- `CarplayDaemon_docs`, `StoppedAlwaysTold`: `iap2_carplay.h:104` says that `stopped_cb` is
  called when the session ends. When StopEAP cannot be sent, which is so whenever the
  iPhone has gone first, it is not (`iap2_carplay.c:404-408`).
- `CarplayDaemon_docs`, `CallerSeesSignal`: `iap2_link.c:107` has the link return "so callers can
  check shutdown flags". A packet with a length of 0 and a right checksum keeps
  it in its loop for ever (`iap2_link.c:148` and `:197`).
- `CarplayDaemon_docs`, `SignalEnds`: `carplay/main.c:23` promises a clean
  shutdown. A signal between the loop's test and `accept` is lost until an iPhone
  calls.
- `CarplayDaemon_docs`, `CarplayAfterAuth`: `carplay/main.c:458-461` starts EAP
  after identification and authentication. A StartEAP message starts it in any
  state.

Met while modelling and not the subject of a configuration:

- `camera_enqueue` can fail (`camera.c:147`), and `main.c:151` and `:311` ignore it: the buffer
  is gone until the program restarts (`"lost"` in `Compositor`).
- `baby_ai.h:69` says that feeding a frame "does not block"; it takes `frame_lock`, which the
  inference thread holds while it copies and converts. No property depends on it.
- `ir_led.c:137` returns early when the mode is the present one, so that a command repeated
  does not repair what a late check has set.
- A MODE line that a crashed compositor left on its link may be handled after lines of the
  next run; `ModesNeverGoBack` speaks of the lines of one run.
- `ota_update.h:61-62` promises to return without rebooting, and on error without
  modifying flash. The check runs as a task function that returns, which
  restarts the chip, and the image is written before it is verified. `Ota`
  models both as they are.
- `ota_update.h:28` and the dongle's `main.c:109` mention an update started over
  Bluetooth; nothing starts one.
- `ota_server.py:79` compares versions as strings: a record of 1.9.0 hides a
  release 1.10.0. `Ota` compares likewise, and `UpdateArrives` is
  stated for what is recorded.
- The upload in `config_server.py` leaves the version record alone, so an
  uploaded image can be older than the one recorded; `OnlyForward` therefore
  speaks of runs without uploads.
- `baby-monitor/server.py` sends IR and ZOOM arguments in upper case, which
  `dispatch_command` does not know; the command is accepted without effect.
- `tcp_tunnel.c:62` has an 8192-byte buffer on a stack of 4096 bytes
  (`tcp_tunnel.c:108`); stack sizes are not modelled.
- A torn `versions.json` makes every later request of `ota_server.py` fail until the
  next successful save (`NoVersions`).
- The compositor's `main.c:86-88` says that camera access is serialised by `g_lock`;
  `camera_only_thread` dequeues without it (`CameraGrab`). `CameraConserved`
  holds all the same.

CarPlay daemon and AirPlay server:

- A session that ends before its mirror connection was opened leaves its RTSP
  thread joining a mirror thread in `accept`, and its slot taken, until the stop
  (`airplay_server.c:158`); `SlotComesBack` speaks of sessions that streamed.
  Whichever mirror thread waits takes the next connection, although the comment at
  `airplay_server.c:155-157` speaks of preventing races.
- `session_cleanup` closes descriptor 0 twice, because the audio context is zeroed
  and never initialised: `airplay_server.c:223-227` tests `audio_active` before
  any request has been read, so audio never starts.
- A stop between `Place` and `Spawn` joins a zeroed `pthread_t` (`StopJoins`); a stop
  before the airplay thread has set `running` is undone by it, and main waits
  for good. `StopLetsExit` speaks of a stop after the start.
- `airplay_pair.h:146-152` offers the session key once the state is
  `PAIR_STATE_VERIFIED`; M3 of pair-verify without M1 gives that state without a
  key. The Ed25519 key, "generated once at startup" (`airplay_pair.h:88`), is
  generated for each session.
- A FairPlay request out of order ends FairPlay for its session; SETUP after RECORD
  leaves `RECORDING`; a body of more than 256 KB is taken for the next head and
  ends the session, and bytes of a next request that came with a head are lost.
- Frames between 2 and 8 MB pass the mirror, and `carplay_input.c:99` answers them by
  closing the connection. Two phones' frames share one connection. A compositor that
  does not read holds the writer, and with it the mutex.
- The branch "another thread reconnected first" (`carplay/main.c:226`) cannot be
  reached: while one thread reconnects no other has a connection to lose
  (`NoneReconnectsFirst`). The
  codec data is cached and never put before a frame.
- `carplay_input_destroy` and the receiver both close the client's descriptor.

Baby detector:

- `AI on` after an initialisation that failed for want of buffers feeds into them
  (`FeedCrashes`); `baby_ai_destroy` joins a thread that was never created.
- Without a model the thread idles, though `baby_ai.c:431` says that motion
  detection works without one.
- A result under way overwrites `unknown` after the detector is switched off, and
  stays (`AtMostOneLate`). A run that fails publishes the last outputs
  with a fresh time, or before the first success what `malloc` returned (`Run`).
- With two workers, images may be fed in another order than they were captured in.

## 10. Plan

Order: what carries the product's promise (a whole, current picture in the car)
first, then what brings commands and firmware to it, then the CarPlay side.

Done: all the modules of section 2; the proofs of section 6.

Next, extensions: the Radxa's own update in `Ota`; blocked writers in `Relay`; the
video tap and touch mapping as operators against a reference mapping; camera zoom
in `Compositor`.
