-------------------------------- MODULE Ota --------------------------------
(***************************************************************************)
(* The dongle's firmware updates: the OTA server on the Radxa              *)
(* (ota_server.py), which fetches a release and serves it, the config      *)
(* server (config_server.py), which writes uploads to the same file, and   *)
(* the client on the dongle (ota_update.c), which asks for a manifest,     *)
(* downloads the image into the partition it does not run from, verifies   *)
(* it and reboots.                                                         *)
(*                                                                         *)
(* Releases are numbered as they are published.  An image is known by the  *)
(* release it holds and by being whole, which its own checksum shows to    *)
(* esp_ota_end; equal contents are equal SHA-256 sums.  Power can fail on  *)
(* either side between any two steps.                                      *)
(***************************************************************************)
EXTENDS Integers, Sequences

CONSTANTS
  Releases,     \* the versions published, oldest first, as <<major, minor, patch>>
  MaxFailures,  \* bound on failed requests, broken downloads and power cuts
  MaxUploads    \* bound on the uploads to the config server

ASSUME ReleasesAssumption == Releases \in Seq(Nat \X Nat \X Nat) /\ Len(Releases) > 1
ASSUME BoundsAssumption == MaxFailures \in Nat /\ MaxUploads \in Nat

Images == DOMAIN Releases
Content == [image : Images \cup {0}, whole : BOOLEAN]
None == [image |-> 0, whole |-> FALSE]
Slots == 0 .. 1

VARIABLES
  published, \* the newest release, the one in the remote manifest
  staged,    \* t-dongle-s3.bin in FW_DIR, with who opened it last; None when missing
  record,    \* "dongle" in versions.json; 0 when the file does not parse
  job,       \* the OTA server's /api/ota/install/dongle: idle, or where it is
  target,    \* the release that job fetches
  upload,    \* the release being uploaded, or 0
  uploads,
  slots,     \* contents of ota_0 and ota_1
  boot,      \* the slot otadata names
  running,   \* the slot the dongle runs from
  pc,        \* the check holding s_ota_mutex, or "idle"
  waiting,   \* a second ota_check task waits for the mutex
  offer,     \* version and sha256 of the manifest
  got,       \* content of the response to /dongle/firmware.bin
  failures

serverVars == <<record, job, target>>
uploadVars == <<upload, uploads>>
flashVars  == <<slots, boot, running>>
checkVars  == <<pc, waiting, offer, got>>
vars == <<published, staged, serverVars, uploadVars, flashVars, checkVars, failures>>

Fail == failures < MaxFailures /\ failures' = failures + 1

-----------------------------------------------------------------------------
(* Versions.                                                               *)

\* version_is_newer: by number, the first component that differs decides.
VersionIsNewer(local, remote) ==
  \E i \in 1 .. 3 : remote[i] > local[i] /\ \A j \in 1 .. i - 1 : remote[j] = local[j]

\* A later release has a greater number.
ASSUME ReleasesIncrease ==
  \A i, j \in 1 .. Len(Releases) : i < j => VersionIsNewer(Releases[i], Releases[j])

\* Python's > on the version strings: a component is compared digit by digit (for
\* components below 100; the dot sorts before every digit).
Digits(n) == IF n < 10 THEN <<n, -1>> ELSE <<n \div 10, n % 10>>
DigitsAfter(a, b) == a[1] > b[1] \/ (a[1] = b[1] /\ a[2] > b[2])
StringAfter(a, b) ==
  \E i \in 1 .. 3 : /\ DigitsAfter(Digits(a[i]), Digits(b[i]))
                    /\ \A j \in 1 .. i - 1 : a[j] = b[j]

\* Mutation of NewerThanRunning: only the major number counts.
MajorNewerThanRunning(version) == Releases[version][1] > Releases[slots[running].image][1]

NewerThanRunning(version) == VersionIsNewer(Releases[slots[running].image], Releases[version])

-----------------------------------------------------------------------------
\* esp_ota_get_next_update_partition.
Target == 1 - running

TypeOK ==
  /\ published \in Images /\ record \in 0 .. published /\ target \in Images
  /\ staged \in [content : Content, by : {"nobody", "install", "upload", "both"}]
  /\ job \in {"idle", "fetch", "fetched", "saving"} /\ (job = "saving" => record = 0)
  /\ upload \in Images \cup {0} /\ uploads \in 0 .. MaxUploads
  /\ slots \in [Slots -> Content] /\ boot \in Slots /\ running \in Slots /\ Target \in Slots
  /\ pc \in {"idle", "manifest", "request", "write", "body", "verify", "end", "switch", "restart"}
  /\ waiting \in BOOLEAN
  /\ offer \in [version : Images, sha256 : Content] /\ got \in Content
  /\ failures \in 0 .. MaxFailures

\* The servers start with the record main() writes (DONGLE_VERSION) and without a
\* file; the dongle was flashed with the release before.
Init ==
  /\ published = 2 /\ record = 2 /\ job = "idle" /\ target = 1
  /\ staged = [content |-> None, by |-> "nobody"]
  /\ upload = 0 /\ uploads = 0
  /\ slots = [s \in Slots |-> IF s = 0 THEN [image |-> 1, whole |-> TRUE] ELSE None]
  /\ boot = 0 /\ running = 0
  /\ pc = "idle" /\ waiting = FALSE
  /\ offer = [version |-> 1, sha256 |-> None] /\ got = None
  /\ failures = 0

-----------------------------------------------------------------------------
(* The Radxa.                                                              *)

Publish ==
  /\ published < Len(Releases)
  /\ published' = published + 1
  /\ UNCHANGED <<staged, serverVars, uploadVars, flashVars, checkVars, failures>>

\* Opening the file truncates it; the content is whole if nobody else opened it
\* before the writer was done.
Open(image, who) ==
  staged' = [content |-> [image |-> image, whole |-> FALSE], by |-> who]
Written(who) ==
  staged' = IF staged.by = who THEN [staged EXCEPT !.content.whole = TRUE]
                               ELSE [staged EXCEPT !.content.whole = FALSE, !.by = "both"]

\* POST /api/ota/install/dongle: check_remote_updates, then urlretrieve over the
\* file that is served.  With an unreadable versions.json the check fails.
Install ==
  /\ job = "idle" /\ record # 0
  /\ StringAfter(Releases[published], Releases[record])
  /\ job' = "fetch" /\ target' = published
  /\ Open(published, "install")
  /\ UNCHANGED <<published, record, uploadVars, flashVars, checkVars, failures>>

FetchDone ==
  /\ job = "fetch"
  /\ job' = "fetched"
  /\ Written("install")
  /\ UNCHANGED <<published, record, target, uploadVars, flashVars, checkVars, failures>>

\* urlretrieve raises; what it has written stays.
FetchFails ==
  /\ job = "fetch" /\ Fail
  /\ job' = "idle"
  /\ UNCHANGED <<published, staged, record, target, uploadVars, flashVars, checkVars>>

\* save_versions: opening versions.json truncates it.
SaveOpen ==
  /\ job = "fetched"
  /\ job' = "saving" /\ record' = 0
  /\ UNCHANGED <<published, staged, target, uploadVars, flashVars, checkVars, failures>>

SaveDone ==
  /\ job = "saving"
  /\ job' = "idle" /\ record' = target
  /\ UNCHANGED <<published, staged, target, uploadVars, flashVars, checkVars, failures>>

\* POST /ota/upload, in another process: the version record is not touched.
UploadOpen(image) ==
  /\ upload = 0 /\ uploads < MaxUploads
  /\ upload' = image /\ uploads' = uploads + 1
  /\ Open(image, "upload")
  /\ UNCHANGED <<published, serverVars, flashVars, checkVars, failures>>

UploadDone ==
  /\ upload # 0
  /\ upload' = 0
  /\ Written("upload")
  /\ UNCHANGED <<published, uploads, serverVars, flashVars, checkVars, failures>>

\* The Radxa loses power: both servers start anew with the files as they are.
RadxaPowerCut ==
  /\ Fail
  /\ job # "idle" \/ upload # 0
  /\ job' = "idle" /\ upload' = 0
  /\ UNCHANGED <<published, staged, record, target, uploads, flashVars, checkVars>>

-----------------------------------------------------------------------------
(* The dongle.                                                             *)

\* The boot loader starts the slot otadata names; memory is lost.
Reboot ==
  /\ running' = boot
  /\ pc' = "idle" /\ waiting' = FALSE
  /\ offer' = [version |-> 1, sha256 |-> None] /\ got' = None
  /\ UNCHANGED <<published, staged, serverVars, uploadVars, slots, boot>>

\* ota_check_and_update returns.  It is the function of the task that the timer
\* created, and FreeRTOS aborts when a task function returns.
Return == Reboot

DonglePowerCut == pc # "idle" /\ Fail /\ Reboot

\* ota_timer_callback, every six hours.
TimerFires ==
  /\ ~waiting
  /\ waiting' = TRUE
  /\ UNCHANGED <<published, staged, serverVars, uploadVars, flashVars, pc, offer, got, failures>>

TakeMutex ==
  /\ waiting /\ pc = "idle"
  /\ waiting' = FALSE /\ pc' = "manifest"
  /\ UNCHANGED <<published, staged, serverVars, uploadVars, flashVars, offer, got, failures>>

\* 100 ms without the mutex: another check is in progress.
MutexTimesOut == waiting /\ pc # "idle" /\ Fail /\ Return

\* GET /dongle/latest, answered between two other requests (one thread).  With an
\* unreadable versions.json there is no answer.
Manifest ==
  /\ pc = "manifest" /\ job = "idle" /\ record # 0
  /\ NewerThanRunning(record)
  /\ offer' = [version |-> record, sha256 |-> staged.content]
  /\ pc' = "request"
  /\ UNCHANGED <<published, staged, serverVars, uploadVars, flashVars, waiting, got, failures>>

UpToDate ==
  /\ pc = "manifest" /\ job = "idle" /\ record # 0
  /\ ~NewerThanRunning(record)
  /\ Return /\ UNCHANGED failures

NoVersions == pc = "manifest" /\ job = "idle" /\ record = 0 /\ Return /\ UNCHANGED failures

\* No answer within the timeout, to either request, or an error from the flash.
RequestFails == pc \in {"manifest", "request", "write", "body"} /\ Fail /\ Return

\* GET /dongle/firmware.bin: the server reads the file of that moment.  Without a
\* staged file the manifest's URL is empty, and the server answers 404.
Request ==
  /\ pc = "request" /\ job = "idle" /\ offer.sha256 # None
  /\ got' = staged.content
  /\ pc' = "write"
  /\ UNCHANGED <<published, staged, serverVars, uploadVars, flashVars, waiting, offer, failures>>

NotFound == pc = "request" /\ offer.sha256 = None /\ Return /\ UNCHANGED failures

\* esp_ota_write erases and fills the other slot from its start.
Write ==
  /\ pc = "write"
  /\ slots' = [slots EXCEPT ![Target] = [image |-> got.image, whole |-> FALSE]]
  /\ pc' = "body"
  /\ UNCHANGED <<published, staged, serverVars, uploadVars, boot, running, waiting, offer, got,
                 failures>>

WriteRest ==
  /\ pc = "body"
  /\ slots' = [slots EXCEPT ![Target] = got]
  /\ pc' = "verify"
  /\ UNCHANGED <<published, staged, serverVars, uploadVars, boot, running, waiting, offer, got,
                 failures>>

\* The connection closes early: to esp_http_client_read that is the end.
EarlyEnd ==
  /\ pc = "body" /\ Fail
  /\ got' = None
  /\ pc' = "verify"
  /\ UNCHANGED <<published, staged, serverVars, uploadVars, flashVars, waiting, offer>>

Goto(next) ==
  /\ pc' = next
  /\ UNCHANGED <<published, staged, serverVars, uploadVars, flashVars, waiting, offer, got, failures>>

\* Mutation of Verify: the checksum is not compared.
VerifySkip == pc = "verify" /\ Goto("end")

\* The SHA-256 of what was downloaded against the manifest's.
Verify ==
  /\ pc = "verify"
  /\ \/ got = offer.sha256 /\ Goto("end")
     \/ got # offer.sha256 /\ Return /\ UNCHANGED failures

\* Mutation of End: the image is not validated.
EndUnchecked == pc = "end" /\ Goto("switch")

\* esp_ota_end validates the image in the slot.
End ==
  /\ pc = "end"
  /\ \/ slots[Target].whole /\ Goto("switch")
     \/ ~slots[Target].whole /\ Return /\ UNCHANGED failures

\* esp_ota_set_boot_partition.
Switch ==
  /\ pc = "switch"
  /\ boot' = Target
  /\ pc' = "restart"
  /\ UNCHANGED <<published, staged, serverVars, uploadVars, slots, running, waiting, offer, got,
                 failures>>

Restart == pc = "restart" /\ Reboot /\ UNCHANGED failures

-----------------------------------------------------------------------------
Server == FetchDone \/ SaveOpen \/ SaveDone \/ UploadDone

Check ==
  \/ TakeMutex \/ Manifest \/ UpToDate \/ NoVersions \/ Request \/ NotFound
  \/ Write \/ WriteRest \/ Verify \/ End \/ Switch \/ Restart

Failure ==
  FetchFails \/ RadxaPowerCut \/ DonglePowerCut \/ MutexTimesOut \/ RequestFails \/ EarlyEnd

Next ==
  \/ Publish \/ Install \/ Server \/ TimerFires \/ Check \/ Failure
  \/ \E image \in 1 .. published : UploadOpen(image)

Fairness == WF_vars(Server) /\ WF_vars(TimerFires) /\ WF_vars(Check)

Spec == Init /\ [][Next]_vars /\ Fairness

-----------------------------------------------------------------------------
(* Properties.                                                             *)

\* Whenever the power fails, the slot otadata names and the slot the dongle runs
\* from hold whole images: the order write, verify, validate, switch, and the
\* choice of the slot, never leave the dongle without firmware.
BootsWholeImage == slots[boot].whole /\ slots[running].whole

\* A new boot slot holds exactly what the manifest described, even if an install or
\* an upload replaced the file between the two requests.
InstallsWhatWasOffered == [][boot' # boot => slots[boot'] = offer.sha256]_flashVars

Forward ==
  running' # running =>
    VersionIsNewer(Releases[slots[running].image], Releases[slots[running'].image])

\* As long as nobody uploads a file, every update brings a newer release, whatever
\* install, fetch or save was interrupted: the record is never ahead of the image,
\* so the dongle never flashes one image again and again.
OnlyForward == [][uploads = 0 => Forward]_flashVars

\* An update is the one offered, and leads forward.
UpdatesForward == InstallsWhatWasOffered /\ OnlyForward

\* A whole image, recorded as newer than what the dongle runs and not older than its
\* record, does not stay on offer forever: the dongle installs it.
Offered ==
  /\ job = "idle" /\ upload = 0 /\ record # 0
  /\ staged.content.whole /\ staged.content.image >= record
  /\ VersionIsNewer(Releases[slots[running].image], Releases[record])
UpdateArrives == Offered ~> ~Offered
=============================================================================
