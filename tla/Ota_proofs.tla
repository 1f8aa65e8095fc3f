----------------------------- MODULE Ota_proofs -----------------------------
(***************************************************************************)
(* A firmware update never leaves the dongle without a bootable image,     *)
(* installs exactly what the manifest described and, as long as nobody     *)
(* uploads an image by hand, only moves forward: for any sequence of       *)
(* releases and any number of failures.                                    *)
(*                                                                         *)
(* Of the dongle's other tasks (DongleLink), the theorems at the end       *)
(* show that the WiFi flag settles on the truth and that the tunnel keeps  *)
(* what the car sends in order.                                            *)
(***************************************************************************)
EXTENDS Ota, DongleLink, TLAPS

USE BoundsAssumption

\* The slot being written is neither the running one nor, until the switch, the
\* one to boot.
BootInv ==
  /\ BootsWholeImage
  /\ slots[boot].image # 0 /\ slots[running].image # 0
  /\ pc # "restart" => boot = running
  /\ pc = "restart" => boot = Target

\* What is checked is what was downloaded, and what was downloaded is what is in
\* the slot, or nothing.
DownloadInv ==
  /\ offer.sha256.image = 0 => offer.sha256 = None
  /\ pc \in {"write", "body", "verify", "end", "switch"} => offer.sha256 # None
  /\ pc = "verify" => got = slots[Target] \/ got = None
  /\ pc \in {"end", "switch"} => slots[Target] = got /\ got = offer.sha256
  /\ pc = "switch" => slots[Target].whole

\* The server's files: the record is never ahead of the image, unless an upload
\* put another image under it.
RecordInv ==
  /\ target <= published
  /\ staged.content.image = 0 => staged.content = None /\ job = "idle" /\ upload = 0
  /\ uploads = 0 =>
       /\ staged.content.image = 0 \/ staged.content.image >= record
       /\ job # "idle" => staged.content.image = target

\* The dongle's side of it: what it was offered is newer than what it runs.
NewerInv ==
  uploads = 0 =>
    /\ pc \in {"request", "write", "body", "verify", "end", "switch"} =>
         offer.sha256 = None \/ offer.sha256.image > slots[running].image
    /\ pc = "restart" => slots[boot].image > slots[running].image

IInv == TypeOK /\ BootInv /\ DownloadInv /\ RecordInv /\ NewerInv

-----------------------------------------------------------------------------
\* The order of versions is asymmetric, so it agrees with the order of releases.
LEMMA Asymmetric ==
  ASSUME NEW a, NEW b, \A i \in 1 .. 3 : a[i] \in Nat /\ b[i] \in Nat,
         VersionIsNewer(a, b)
  PROVE  ~VersionIsNewer(b, a)
<1>1. PICK i \in 1 .. 3 : b[i] > a[i] /\ \A j \in 1 .. i - 1 : b[j] = a[j]
  BY DEF VersionIsNewer
<1>2. SUFFICES ASSUME NEW k \in 1 .. 3, a[k] > b[k], \A j \in 1 .. k - 1 : a[j] = b[j]
               PROVE FALSE
  BY DEF VersionIsNewer
<1>3. CASE k < i
  <2>1. k \in 1 .. i - 1 BY <1>3
  <2> QED BY <1>1, <1>2, <2>1
<1>4. CASE k > i
  <2>1. i \in 1 .. k - 1 BY <1>4
  <2> QED BY <1>1, <1>2, <2>1
<1>5. CASE k = i BY <1>1, <1>2, <1>5
<1> QED BY <1>3, <1>4, <1>5

LEMMA ImagesFromOne ==
  Images = 1 .. Len(Releases) /\ Len(Releases) \in Nat /\ 1 \in Images /\ 2 \in Images
<1>1. Images = 1 .. Len(Releases) /\ Len(Releases) \in Nat
  BY ReleasesAssumption DEF Images
<1> QED BY <1>1, ReleasesAssumption

LEMMA NewerIsLater ==
  ASSUME NEW i \in Images, NEW j \in Images, VersionIsNewer(Releases[i], Releases[j])
  PROVE  i < j
<1>1. Images = 1 .. Len(Releases) /\ Len(Releases) \in Nat
  BY ImagesFromOne
<1>2. \A k \in 1 .. 3 : Releases[i][k] \in Nat /\ Releases[j][k] \in Nat
  <2>1. Releases[i] \in Nat \X Nat \X Nat /\ Releases[j] \in Nat \X Nat \X Nat
    BY ReleasesAssumption DEF Images
  <2>2. /\ Releases[i][1] \in Nat /\ Releases[i][2] \in Nat /\ Releases[i][3] \in Nat
        /\ Releases[j][1] \in Nat /\ Releases[j][2] \in Nat /\ Releases[j][3] \in Nat
    BY <2>1
  <2>3. 1 .. 3 = {1, 2, 3}
    OBVIOUS
  <2> QED BY <2>2, <2>3, Zenon
<1>3. ~VersionIsNewer(Releases[j], Releases[i])
  BY <1>2, Asymmetric
<1>4. ~(j < i)
  BY <1>1, <1>3, ReleasesIncrease
<1>5. i # j
  BY <1>3
<1> QED BY <1>1, <1>4, <1>5

-----------------------------------------------------------------------------
LEMMA InitIInv == Init => IInv
<1> SUFFICES ASSUME Init PROVE IInv
  OBVIOUS
<1> USE DEF Init, Slots, None
<1>1. Images = 1 .. Len(Releases) /\ Len(Releases) \in Nat /\ 1 \in Images /\ 2 \in Images
  BY ImagesFromOne
<1>2. TypeOK
  <2>1. None \in Content /\ [image |-> 1, whole |-> TRUE] \in Content
    BY <1>1 DEF Content
  <2>2. slots \in [Slots -> Content]
    BY <2>1
  <2> QED BY <1>1, <2>1, <2>2 DEF TypeOK, Target
<1>3. BootInv BY DEF BootInv, BootsWholeImage
<1>4. DownloadInv BY DEF DownloadInv
<1>5. RecordInv BY DEF RecordInv
<1>6. NewerInv BY DEF NewerInv
<1> QED BY <1>2, <1>3, <1>4, <1>5, <1>6 DEF IInv

\* What the actions of one side leave alone.
LEMMA RadxaLeavesDongle ==
  ASSUME \/ Publish \/ Install \/ Server \/ FetchFails \/ RadxaPowerCut
         \/ \E image \in 1 .. published : UploadOpen(image)
  PROVE  UNCHANGED <<flashVars, checkVars>>
BY DEF Publish, Install, Server, FetchDone, SaveOpen, SaveDone, UploadDone, FetchFails,
       RadxaPowerCut, UploadOpen

LEMMA DongleLeavesRadxa ==
  ASSUME TimerFires \/ Check \/ DonglePowerCut \/ MutexTimesOut \/ RequestFails \/ EarlyEnd
  PROVE  UNCHANGED <<published, staged, serverVars, uploadVars>>
BY DEF TimerFires, Check, TakeMutex, Manifest, UpToDate, NoVersions, Request, NotFound, Write,
       WriteRest, Verify, End, Switch, Restart, Return, Reboot, Goto, DonglePowerCut,
       MutexTimesOut, RequestFails, EarlyEnd

LEMMA NextTypeOK == TypeOK /\ RecordInv /\ [Next]_vars => TypeOK'
<1> SUFFICES ASSUME TypeOK, RecordInv, [Next]_vars PROVE TypeOK'
  OBVIOUS
<1>1. Images = 1 .. Len(Releases) /\ Len(Releases) \in Nat /\ 1 \in Images
  BY ImagesFromOne
<1>2. published \in Nat /\ record \in Nat /\ target \in Nat /\ \A i \in 1 .. published : i \in Images
  BY <1>1 DEF TypeOK
<1>3. None \in Content
  BY DEF Content, None
<1>4. Fail => failures' \in 0 .. MaxFailures
  BY DEF Fail, TypeOK
<1>5. ASSUME Reboot, failures' \in 0 .. MaxFailures PROVE TypeOK'
  <2>1. [version |-> 1, sha256 |-> None] \in [version : Images, sha256 : Content]
    BY <1>1, <1>3
  <2>2. running' \in Slots /\ (1 - running)' \in Slots
    BY <1>5 DEF TypeOK, Reboot, Slots
  <2>3. pc' = "idle" /\ offer' \in [version : Images, sha256 : Content] /\ got' \in Content
    BY <1>3, <1>5, <2>1 DEF Reboot
  <2>4. waiting' = FALSE /\ UNCHANGED <<published, staged, record, job, target, upload, uploads,
                                         slots, boot>>
    BY <1>5 DEF Reboot, serverVars, uploadVars
  <2> QED BY <1>5, <2>2, <2>3, <2>4 DEF TypeOK, Target
<1>6. ASSUME NEW who, Written(who)
       PROVE  staged' \in [content : Content, by : {"nobody", "install", "upload", "both"}]
  BY <1>6 DEF Written, Content, TypeOK
<1> USE <1>1, <1>2, <1>3
        DEF TypeOK, serverVars, uploadVars, flashVars, checkVars, Slots, Target
<1>7. CASE Publish BY <1>7 DEF Publish
<1>8. CASE Install BY <1>8 DEF Install, Open, Content
<1>9. CASE Server
  <2>1. CASE FetchDone BY <2>1, <1>6 DEF FetchDone
  <2>2. CASE SaveOpen BY <2>2 DEF SaveOpen
  <2>3. CASE SaveDone BY <2>3 DEF SaveDone, RecordInv
  <2>4. CASE UploadDone BY <2>4, <1>6 DEF UploadDone
  <2> QED BY <1>9, <2>1, <2>2, <2>3, <2>4 DEF Server
<1>10. CASE FetchFails \/ RadxaPowerCut BY <1>10, <1>4 DEF FetchFails, RadxaPowerCut
<1>11. ASSUME NEW image \in 1 .. published, UploadOpen(image) PROVE TypeOK'
  BY <1>11 DEF UploadOpen, Open, Content
<1>12. CASE TimerFires BY <1>12 DEF TimerFires
<1>13. CASE Check
  <2>1. CASE TakeMutex BY <2>1 DEF TakeMutex
  <2>2. CASE Manifest BY <2>2 DEF Manifest
  <2>3. CASE UpToDate \/ NoVersions \/ NotFound \/ Restart
    BY <2>3, <1>5 DEF UpToDate, NoVersions, NotFound, Restart, Return
  <2>4. CASE Request BY <2>4 DEF Request
  <2>5. CASE Write BY <2>5 DEF Write, Content
  <2>6. CASE WriteRest BY <2>6 DEF WriteRest
  <2>7. CASE Verify BY <2>7, <1>5 DEF Verify, Goto, Return
  <2>8. CASE End BY <2>8, <1>5 DEF End, Goto, Return
  <2>9. CASE Switch BY <2>9 DEF Switch
  <2> QED
    BY <1>13, <2>1, <2>2, <2>3, <2>4, <2>5, <2>6, <2>7, <2>8, <2>9 DEF Check
<1>14. CASE DonglePowerCut \/ MutexTimesOut \/ RequestFails
  BY <1>14, <1>4, <1>5 DEF DonglePowerCut, MutexTimesOut, RequestFails, Return
<1>15. CASE EarlyEnd BY <1>15, <1>4 DEF EarlyEnd
<1>16. CASE UNCHANGED vars BY <1>16 DEF vars
<1> QED
  BY <1>7, <1>8, <1>9, <1>10, <1>11, <1>12, <1>13, <1>14, <1>15, <1>16 DEF Next, Failure

LEMMA NextBootInv == TypeOK /\ BootInv /\ DownloadInv /\ [Next]_vars => BootInv'
<1> SUFFICES ASSUME TypeOK, BootInv, DownloadInv, [Next]_vars PROVE BootInv'
  OBVIOUS
<1> USE DEF TypeOK, BootInv, BootsWholeImage, Slots, Target, flashVars, checkVars
<1>1. CASE Write \/ WriteRest
  <2>1. running # Target /\ boot = running
    BY <1>1 DEF Write, WriteRest
  <2> QED BY <1>1, <2>1 DEF Write, WriteRest
<1>2. CASE Switch BY <1>2 DEF Switch, DownloadInv
<1>3. ASSUME Reboot PROVE BootInv'
  BY <1>3 DEF Reboot
<1>4. ASSUME UNCHANGED flashVars, pc # "restart", pc' # "restart" PROVE BootInv'
  BY <1>4
<1>5. CASE TimerFires BY <1>5 DEF TimerFires
<1>6. TakeMutex \/ Manifest \/ Request \/ EarlyEnd =>
        UNCHANGED flashVars /\ pc # "restart" /\ pc' # "restart"
  BY DEF TakeMutex, Manifest, Request, EarlyEnd
<1>7. UpToDate \/ NoVersions \/ NotFound \/ Restart \/ DonglePowerCut \/ MutexTimesOut
      \/ RequestFails => Reboot
  BY DEF UpToDate, NoVersions, NotFound, Restart, DonglePowerCut, MutexTimesOut,
         RequestFails, Return
<1>8. Verify \/ End => Reboot \/ (UNCHANGED flashVars /\ pc # "restart" /\ pc' # "restart")
  BY DEF Verify, End, Goto, Return
<1>9. CASE UNCHANGED <<flashVars, checkVars>> BY <1>9
<1> QED
  BY <1>1, <1>2, <1>3, <1>4, <1>5, <1>6, <1>7, <1>8, <1>9, RadxaLeavesDongle
  DEF Next, Check, Failure, vars

LEMMA NextDownloadInv == TypeOK /\ RecordInv /\ DownloadInv /\ [Next]_vars => DownloadInv'
<1> SUFFICES ASSUME TypeOK, RecordInv, DownloadInv, [Next]_vars PROVE DownloadInv'
  OBVIOUS
<1> USE DEF TypeOK, DownloadInv, Slots, Target, flashVars, checkVars
<1>1. CASE Write BY <1>1 DEF Write
<1>2. CASE WriteRest BY <1>2 DEF WriteRest
<1>3. CASE EarlyEnd BY <1>3 DEF EarlyEnd
<1>4. CASE Verify BY <1>4 DEF Verify, Goto, Return, Reboot
<1>5. CASE End BY <1>5 DEF End, Goto, Return, Reboot
<1>6. CASE Request BY <1>6 DEF Request
<1>7. CASE Manifest BY <1>7 DEF Manifest, RecordInv
<1>8. CASE TimerFires \/ TakeMutex \/ Switch
  BY <1>8 DEF TimerFires, TakeMutex, Switch
<1>9. UpToDate \/ NoVersions \/ NotFound \/ Restart \/ DonglePowerCut \/ MutexTimesOut
      \/ RequestFails => Reboot
  BY DEF UpToDate, NoVersions, NotFound, Restart, DonglePowerCut, MutexTimesOut,
         RequestFails, Return
<1>10. CASE Reboot BY <1>10 DEF Reboot, None
<1>11. CASE UNCHANGED <<flashVars, checkVars>> BY <1>11
<1> QED
  BY <1>1, <1>2, <1>3, <1>4, <1>5, <1>6, <1>7, <1>9, <1>10, <1>11, <1>8, RadxaLeavesDongle
  DEF Next, Check, Failure, vars

LEMMA NextRecordInv == TypeOK /\ RecordInv /\ [Next]_vars => RecordInv'
<1> SUFFICES ASSUME TypeOK, RecordInv, [Next]_vars PROVE RecordInv'
  OBVIOUS
<1>1. /\ published \in Nat \ {0} /\ record \in 0 .. published /\ target \in Nat
      /\ staged.content.image \in Nat /\ uploads \in Nat
  BY ImagesFromOne DEF TypeOK, Content
<1> USE <1>1 DEF RecordInv, serverVars, uploadVars
<1>2. CASE Publish BY <1>2 DEF Publish
<1>3. CASE Install
  <2>1. /\ staged' = [content |-> [image |-> published, whole |-> FALSE], by |-> "install"]
        /\ target' = published /\ job' = "fetch"
        /\ UNCHANGED <<published, record, uploadVars>>
    BY <1>3 DEF Install, Open
  <2> QED BY <2>1
<1>4. ASSUME staged \in [content : Content, by : {"nobody", "install", "upload", "both"}],
             NEW who, Written(who)
      PROVE  staged'.content.image = staged.content.image
  BY <1>4 DEF Written, Content
<1>5. CASE FetchDone
  <2>1. staged'.content.image = staged.content.image
    BY <1>4, <1>5 DEF FetchDone, TypeOK
  <2>2. job = "fetch" /\ job' = "fetched" /\ UNCHANGED <<published, record, target, uploadVars>>
    BY <1>5 DEF FetchDone
  <2> QED BY <2>1, <2>2
<1>6. CASE UploadDone
  <2>1. staged'.content.image = staged.content.image
    BY <1>4, <1>6 DEF UploadDone, TypeOK
  <2>2. upload # 0 /\ UNCHANGED <<published, uploads, serverVars>>
    BY <1>6 DEF UploadDone
  <2> QED BY <2>1, <2>2
<1>7. CASE SaveOpen BY <1>7 DEF SaveOpen
<1>8. CASE SaveDone BY <1>8 DEF SaveDone
<1>9. CASE FetchFails \/ RadxaPowerCut BY <1>9 DEF FetchFails, RadxaPowerCut
<1>10. ASSUME NEW image \in 1 .. published, UploadOpen(image) PROVE RecordInv'
  BY <1>10 DEF UploadOpen, Open
<1>11. CASE UNCHANGED <<published, staged, serverVars, uploadVars>> BY <1>11
<1> QED
  BY <1>2, <1>3, <1>5, <1>6, <1>7, <1>8, <1>9, <1>10, <1>11, DongleLeavesRadxa
  DEF Next, Server, Failure, vars

LEMMA NextNewerInv == IInv /\ [Next]_vars => NewerInv'
<1> SUFFICES ASSUME IInv, [Next]_vars PROVE NewerInv'
  OBVIOUS
<1>1. /\ slots[running].image \in Nat /\ slots[running].whole
      /\ uploads \in Nat /\ running \in Slots /\ Target \in Slots /\ Target # running
      /\ staged.content.image \in Nat /\ record \in Nat /\ published \in Images
  <2>1. running \in {0, 1} /\ Target \in {0, 1} /\ Target # running
    BY DEF IInv, TypeOK, Slots, Target
  <2>2. slots[running] \in Content /\ slots[running].whole
    BY DEF IInv, TypeOK, BootInv, BootsWholeImage
  <2>3. \A c \in Content : c.image \in Nat
    BY ImagesFromOne DEF Content
  <2> QED BY <2>1, <2>2, <2>3, ImagesFromOne DEF IInv, TypeOK, Slots
<1> USE <1>1 DEF NewerInv, flashVars, checkVars, uploadVars
<1>2. CASE Manifest
  <2>1. VersionIsNewer(Releases[slots[running].image], Releases[record]) /\ record # 0
    BY <1>2 DEF Manifest, NewerThanRunning
  <2>2. slots[running].image < record
    <3>1. slots[running].image \in Images
      BY DEF IInv, TypeOK, BootInv, Content
    <3>2. record \in Images
      BY <2>1, ImagesFromOne DEF IInv, TypeOK
    <3> QED BY <2>1, <3>1, <3>2, NewerIsLater
  <2>3. uploads = 0 => staged.content = None \/ staged.content.image >= record
    BY DEF IInv, RecordInv
  <2>4. offer'.sha256 = staged.content /\ pc' = "request" /\ UNCHANGED <<flashVars, uploadVars>>
    BY <1>2 DEF Manifest
  <2> QED BY <2>2, <2>3, <2>4
<1>3. CASE Request \/ EarlyEnd \/ TakeMutex \/ TimerFires
  BY <1>3 DEF Request, EarlyEnd, TakeMutex, TimerFires, IInv
<1>4. CASE Write \/ WriteRest
  <2>1. slots'[running] = slots[running] /\ UNCHANGED <<running, offer, uploadVars>>
    BY <1>4 DEF Write, WriteRest, IInv, TypeOK
  <2>2. pc \in {"write", "body"} /\ pc' \in {"body", "verify"}
    BY <1>4 DEF Write, WriteRest
  <2> QED BY <2>1, <2>2 DEF IInv
<1>5. CASE Verify \/ End
  <2>1. CASE pc' = "idle" BY <2>1
  <2>2. CASE pc' \in {"end", "switch"} /\ UNCHANGED <<flashVars, offer, uploadVars>>
    BY <1>5, <2>2 DEF Verify, End, IInv
  <2> QED BY <1>5, <2>1, <2>2 DEF Verify, End, Goto, Return, Reboot
<1>6. CASE Switch BY <1>6 DEF Switch, IInv, DownloadInv
<1>7. UpToDate \/ NoVersions \/ NotFound \/ Restart \/ DonglePowerCut \/ MutexTimesOut
      \/ RequestFails => pc' = "idle"
  BY DEF UpToDate, NoVersions, NotFound, Restart, DonglePowerCut, MutexTimesOut,
         RequestFails, Return, Reboot
<1>8. CASE pc' = "idle" BY <1>8
<1>9. ASSUME UNCHANGED <<flashVars, checkVars>>, uploads' = 0 => uploads = 0 PROVE NewerInv'
  BY <1>9 DEF IInv
<1>10. \/ Publish \/ Install \/ Server \/ FetchFails \/ RadxaPowerCut
       \/ (\E image \in 1 .. published : UploadOpen(image)) \/ UNCHANGED vars
       => (uploads' = 0 => uploads = 0)
  BY DEF Publish, Install, Server, FetchDone, SaveOpen, SaveDone, UploadDone, FetchFails,
         RadxaPowerCut, UploadOpen, vars
<1> QED
  BY <1>2, <1>3, <1>4, <1>5, <1>6, <1>7, <1>8, <1>9, <1>10, RadxaLeavesDongle
  DEF Next, Check, Failure, vars

\* Every step of the servers, of the dongle and of a failure preserves the
\* inductive invariant.
THEOREM Inductive == Spec => []IInv
<1>1. IInv /\ [Next]_vars => IInv'
  BY NextTypeOK, NextBootInv, NextDownloadInv, NextRecordInv, NextNewerInv DEF IInv
<1> QED BY <1>1, InitIInv, PTL DEF Spec

-----------------------------------------------------------------------------
\* Every variable keeps the values the code gives it.
THEOREM TypeCorrect == Spec => []TypeOK
<1>1. IInv => TypeOK BY DEF IInv
<1> QED BY <1>1, Inductive, PTL

\* Power may fail at any step: there is always a whole image to boot.
THEOREM AlwaysBootable == Spec => []BootsWholeImage
<1>1. IInv => BootsWholeImage BY DEF IInv, BootInv
<1> QED BY <1>1, Inductive, PTL

\* The switch to a new slot implies that the slot holds what the manifest described.
THEOREM InstallsTheOffer == Spec => InstallsWhatWasOffered
<1>1. IInv /\ [Next]_vars => [boot' # boot => slots[boot'] = offer.sha256]_flashVars
  <2> SUFFICES ASSUME IInv, [Next]_vars, boot' # boot PROVE slots[boot'] = offer.sha256
    OBVIOUS
  <2>1. Switch
    BY RadxaLeavesDongle
    DEF Next, Check, Failure, vars, TimerFires, TakeMutex, Manifest, UpToDate, NoVersions,
        Request, NotFound, Write, WriteRest, Verify, End, Restart, Return, Reboot, Goto,
        DonglePowerCut, MutexTimesOut, RequestFails, EarlyEnd, flashVars
  <2> QED BY <2>1 DEF Switch, IInv, DownloadInv
<1> QED BY <1>1, Inductive, PTL DEF Spec, InstallsWhatWasOffered

\* Without uploads the dongle only ever moves to a newer release.
THEOREM MovesForward == Spec => OnlyForward
<1>1. IInv /\ [Next]_vars => [uploads = 0 => Forward]_flashVars
  <2> SUFFICES ASSUME IInv, [Next]_vars, uploads = 0, running' # running
               PROVE VersionIsNewer(Releases[slots[running].image],
                                    Releases[slots[running'].image])
    BY DEF Forward
  <2>1. Reboot
    BY RadxaLeavesDongle
    DEF Next, Check, Failure, vars, TimerFires, TakeMutex, Manifest, UpToDate, NoVersions,
        Request, NotFound, Write, WriteRest, Verify, End, Switch, Restart, Return, Goto,
        DonglePowerCut, MutexTimesOut, RequestFails, EarlyEnd, flashVars
  <2>2. running' = boot /\ pc = "restart"
    BY <2>1 DEF Reboot, IInv, BootInv
  <2>3. slots[boot].image > slots[running].image
    BY <2>2 DEF IInv, NewerInv
  <2>4. slots[boot].image \in Images /\ slots[running].image \in Images
    BY DEF IInv, BootInv, TypeOK, Content, Slots
  <2> QED BY <2>2, <2>3, <2>4, ImagesFromOne, ReleasesIncrease
<1> QED BY <1>1, Inductive, PTL DEF Spec, OnlyForward

\* An update is the one the manifest described, and leads forward.
THEOREM UpdatesLeadForward == Spec => UpdatesForward
BY InstallsTheOffer, MovesForward DEF UpdatesForward

-----------------------------------------------------------------------------
(* The dongle's WiFi station: its events and its flag.                      *)

\* The last event queued tells the state of the station; "start" is the first of
\* all.
WifiInv ==
  /\ events \in Seq({"start", "disconnected", "got ip"}) /\ sta \in {"idle", "joining", "joined"}
  /\ wifiUp \in BOOLEAN
  /\ events = <<>> => (wifiUp <=> sta = "joined")
  /\ events # <<>> => (events[Len(events)] = "got ip" <=> sta = "joined")
  /\ \A i \in 1..Len(events) : events[i] = "start" => i = 1 /\ ~wifiUp

LEMMA EmptySeq == ASSUME NEW S, NEW q \in Seq(S) PROVE Len(q) \in Nat /\ (q = <<>> <=> Len(q) = 0)
OBVIOUS

LEMMA TailOf ==
  ASSUME NEW S, NEW q \in Seq(S), q # <<>>
  PROVE  /\ Tail(q) \in Seq(S) /\ (Tail(q) = <<>> <=> Len(q) = 1)
         /\ Tail(q) # <<>> => Tail(q)[Len(Tail(q))] = q[Len(q)]
         /\ \A i \in 1..Len(Tail(q)) : i + 1 \in 1..Len(q) /\ i + 1 # 1 /\ Tail(q)[i] = q[i + 1]
         /\ Head(q) = q[1] /\ 1 \in 1..Len(q)
<1>1. /\ Tail(q) \in Seq(S) /\ Len(q) \in Nat /\ Len(q) > 0 /\ Len(Tail(q)) = Len(q) - 1
      /\ \A i \in 1..Len(Tail(q)) : Tail(q)[i] = q[i + 1]
  OBVIOUS
<1>2. Tail(q) = <<>> <=> Len(q) = 1
  <2> DEFINE t == Tail(q)
  <2>1. t \in Seq(S) /\ Len(t) = Len(q) - 1
    BY <1>1
  <2> HIDE DEF t
  <2>2. t = <<>> <=> Len(t) = 0
    BY <2>1, EmptySeq
  <2> QED
    BY <1>1, <2>1, <2>2 DEF t
<1>3. Tail(q) # <<>> => Tail(q)[Len(Tail(q))] = q[Len(q)]
  BY <1>1
<1>4. \A i \in 1..Len(Tail(q)) : i + 1 \in 1..Len(q) /\ i + 1 # 1
  BY <1>1
<1>5. Head(q) = q[1] /\ 1 \in 1..Len(q)
  BY <1>1
<1> QED
  BY <1>1, <1>2, <1>3, <1>4, <1>5

LEMMA AppendOf ==
  ASSUME NEW S, NEW q \in Seq(S), NEW e \in S
  PROVE  /\ Append(q, e) \in Seq(S) /\ Append(q, e) # <<>> /\ Len(Append(q, e)) = Len(q) + 1
         /\ Append(q, e)[Len(q) + 1] = e
         /\ \A i \in 1..Len(Append(q, e)) : i = Len(q) + 1 \/ (i \in 1..Len(q) /\ Append(q, e)[i] = q[i])
         /\ \A i \in 1..Len(q) : i \in 1..Len(Append(q, e)) /\ i # Len(q) + 1
OBVIOUS

\* The station joins, or leaves: an event tells it.
LEMMA QueueKeeps ==
  ASSUME WifiInv, NEW e \in {"disconnected", "got ip"}, events' = Append(events, e),
         sta' \in {"idle", "joining", "joined"}, sta' = "joined" <=> e = "got ip", UNCHANGED wifiUp
  PROVE  WifiInv'
<1> DEFINE S == {"start", "disconnected", "got ip"}
<1>1. events \in Seq(S) /\ e \in S
  BY DEF WifiInv
<1>2. /\ events' \in Seq(S) /\ events' # <<>> /\ Len(events') = Len(events) + 1
      /\ events'[Len(events')] = e
      /\ \A i \in 1..Len(events') : i = Len(events') \/ (i \in 1..Len(events) /\ events'[i] = events[i])
  <2> HIDE DEF S
  <2> QED
    <3>1. Len(events) \in Nat
      BY <1>1, EmptySeq
    <3>2. events' \in Seq(S) /\ events' # <<>> /\ Len(events') = Len(events) + 1
      BY <1>1, AppendOf
    <3>5. /\ Append(events, e)[Len(events) + 1] = e
          /\ \A i \in 1..Len(Append(events, e)) :
               i = Len(events) + 1 \/ (i \in 1..Len(events) /\ Append(events, e)[i] = events[i])
      BY <1>1, AppendOf
    <3>6. events' = Append(events, e)
      OBVIOUS
    <3>3. events'[Len(events')] = e
      BY <3>2, <3>5, <3>6, Zenon
    <3>4. \A i \in 1..Len(events') : i = Len(events') \/ (i \in 1..Len(events) /\ events'[i] = events[i])
      BY <3>2, <3>5, <3>6, Zenon
    <3> QED
      BY <3>2, <3>3, <3>4
<1>3. \A i \in 1..Len(events') : events'[i] = "start" => i = 1 /\ ~wifiUp'
  BY <1>2 DEF WifiInv
<1> QED
  BY <1>2, <1>3 DEF WifiInv

LEMMA HandlerKeeps == ASSUME WifiInv, EventHandler PROVE WifiInv'
<1> DEFINE S == {"start", "disconnected", "got ip"}
<1>1. /\ events # <<>> /\ events' = Tail(events) /\ events \in Seq(S)
      /\ Started \/ Disconnected \/ GotIp
  BY DEF EventHandler, WifiInv
<1>2. /\ Tail(events) \in Seq(S) /\ (Tail(events) = <<>> <=> Len(events) = 1)
      /\ Tail(events) # <<>> => Tail(events)[Len(Tail(events))] = events[Len(events)]
      /\ \A i \in 1..Len(Tail(events)) : i + 1 \in 1..Len(events) /\ i + 1 # 1
                                         /\ Tail(events)[i] = events[i + 1]
      /\ NextEvent = events[1] /\ 1 \in 1..Len(events)
  <2> HIDE DEF S
  <2> QED
    BY <1>1, TailOf DEF NextEvent
<1>3. /\ sta' \in {"idle", "joining", "joined"} /\ (sta' = "joined" <=> sta = "joined")
      /\ wifiUp' \in BOOLEAN
  BY <1>1 DEF Started, Disconnected, GotIp, WifiConnect, WifiInv
<1>4. \A i \in 1..Len(events') : events'[i] # "start"
  BY <1>1, <1>2 DEF WifiInv
<1>5. Len(events) = 1 => (wifiUp' <=> sta = "joined")
  BY <1>1, <1>2 DEF Started, Disconnected, GotIp, WifiInv
<1>6. events' # <<>> => (events'[Len(events')] = "got ip" <=> sta = "joined")
  BY <1>1, <1>2 DEF WifiInv
<1> QED
  BY <1>1, <1>2, <1>3, <1>4, <1>5, <1>6 DEF WifiInv

LEMMA NextWifi == ASSUME WifiInv, [LinkNext]_linkVars PROVE WifiInv'
<1>1. ASSUME UNCHANGED <<events, wifiUp>>, sta' \in {"idle", "joining", "joined"},
             sta' = "joined" <=> sta = "joined"
      PROVE  WifiInv'
  BY <1>1 DEF WifiInv
<1>2. CASE Joins
  BY <1>2, QueueKeeps DEF Joins
<1>3. CASE Loses
  BY <1>3, QueueKeeps DEF Loses
<1>4. ASSUME NEW v \in Writable, WritePassword(v) PROVE WifiInv'
  <2>1. CASE newSsid # "none" /\ sta # "idle"
    BY <1>4, <2>1, QueueKeeps DEF WritePassword
  <2>2. CASE newSsid = "none" \/ sta = "idle"
    <3>1. UNCHANGED <<events, wifiUp, sta>>
      BY <1>4, <2>2 DEF WritePassword
    <3> QED
      BY <3>1 DEF WifiInv
  <2> QED
    BY <2>1, <2>2
<1>5. CASE ApplyCredentials
  BY <1>1, <1>5 DEF ApplyCredentials, WifiConnect, WifiInv
<1>6. CASE EventHandler
  BY <1>6, HandlerKeeps
<1>7. ASSUME UNCHANGED wifiVars PROVE WifiInv'
  BY <1>7 DEF wifiVars, WifiInv
<1>8. ASSUME NEW v \in Writable, WriteSsid(v) PROVE WifiInv'
  BY <1>8 DEF WriteSsid, WifiInv
<1>9. ASSUME NEW s \in Senders, BeginSend(s) \/ CallSend(s) \/ FinishSend(s)
      PROVE  WifiInv'
  BY <1>7, <1>9 DEF BeginSend, CallSend, Send, FinishSend
<1>10. CASE RxTask
  BY <1>7, <1>10
  DEF RxTask, WaitForWifi, Connect, ConnectFails, SetConnected,
  Receive, Lost, Close, Clear, Delay
<1>11. CASE RadxaStops \/ RadxaStarts \/ Notice \/ Mount
  BY <1>7, <1>11 DEF RadxaStops, RadxaStarts, Notice, Mount
<1>12. CASE UNCHANGED linkVars
  BY <1>7, <1>12 DEF linkVars
<1> QED
  BY <1>2, <1>3, <1>4, <1>5, <1>6, <1>8, <1>9, <1>10, <1>11, <1>12 DEF LinkNext, Driver,
     Ble

LEMMA WifiStarts == ASSUME LinkInit PROVE WifiInv
<1>1. events = <<"start">> /\ sta = "idle" /\ wifiUp = FALSE
  BY DEF LinkInit
<1>2. events \in Seq({"start", "disconnected", "got ip"}) /\ Len(events) = 1
      /\ events[1] = "start" /\ events # <<>>
  BY <1>1
<1>3. \A i \in 1..1 : i = 1
  OBVIOUS
<1> QED
  BY <1>1, <1>2, <1>3 DEF WifiInv

\* When the event loop has caught up, wifi_sta_connected tells the truth
\* (event_handler of wifi_sta.c), for any losses, retries and new credentials.
THEOREM FlagTellsTruth == LinkSpec => []FlagSettles
<1>1. LinkInit => WifiInv
  BY WifiStarts
<1>2. WifiInv => FlagSettles
  BY DEF WifiInv, FlagSettles
<1> QED
  BY <1>1, <1>2, NextWifi, PTL DEF LinkSpec

-----------------------------------------------------------------------------
(* The tunnel.                                                              *)

Sending(s, c) == sender[s] = "writing" /\ on[s] = c

TunnelType ==
  /\ MaxConns \in Nat /\ MaxCar \in Nat
  /\ rxAt \in {"wait", "connect", "opened", "recv", "close", "clear", "delay"}
  /\ conns \in 0 .. MaxConns /\ sock \in 0 .. conns /\ tcpUp \in BOOLEAN
  /\ rxAt \in {"opened", "recv", "close", "clear"} <=> sock # 0
  /\ conn \in [Conns -> {"none", "up", "broken", "error", "closed"}]
  /\ sender \in [Senders -> {"idle", "checked", "writing"}]
  /\ on \in [Senders -> 0 .. conns]
  /\ carSent \in 0 .. MaxCar /\ streams \in [Conns -> Seq(0 .. MaxCar)]

\* The flag is up while tcp_rx receives.  A sender that has seen it up may come
\* to its call when the connection is lost, but not when there is a new one, for
\* before that lies the delay; and no two write to one connection.
TunnelInv ==
  /\ tcpUp <=> rxAt = "recv"
  /\ \A s \in Senders : /\ sender[s] = "checked" => rxAt \in {"recv", "close", "clear", "delay"}
                        /\ on[s] # 0 <=> sender[s] = "writing"
  /\ on["usb"] = on["ble"] => on["usb"] = 0

\* The connection that is up is the last one; nothing is written to it before
\* the flag is up.
UpInv ==
  /\ \A c \in Conns : /\ conn[c] = "up" => c = sock /\ c = conns /\ rxAt \in {"opened", "recv"}
                      /\ c > conns => streams[c] = <<>>
  /\ rxAt = "opened" => streams[sock] = <<>> /\ \A s \in Senders : on[s] # sock

\* What has arrived has been sent, and what is being sent has not arrived.
ItemsInv ==
  /\ \A c \in Conns : \A i \in DOMAIN streams[c] :
       streams[c][i] <= carSent /\ (sender["usb"] # "idle" => streams[c][i] < carSent)
  /\ sender["usb"] # "idle" => carSent > 0

\* The last item of the connection that is up: the car's next will come behind
\* it, unless a mode write stands there or is about to.
LastInv ==
  \A c \in Conns : conn[c] = "up" /\ streams[c] # <<>> =>
    LET last == streams[c][Len(streams[c])] IN
    \/ last = Mode \/ Sending("ble", c)
    \/ sender["usb"] = "idle" /\ last = carSent
    \/ (sender["usb"] = "checked" \/ Sending("usb", c)) /\ last + 1 = carSent

PipeInv == TunnelType /\ TunnelInv /\ UpInv /\ ItemsInv /\ LastInv /\ PipeInOrder

\* No item arrives and none is sent.
LEMMA StreamsStay ==
  ASSUME PipeInv, UNCHANGED <<streams, carSent, sender, on>>,
         \A c \in Conns : conn'[c] = "up" => conn[c] = "up" \/ streams[c] = <<>>
  PROVE  ItemsInv' /\ LastInv' /\ PipeInOrder'
<1>1. ItemsInv'
  BY DEF PipeInv, ItemsInv
<1>2. LastInv'
  BY DEF PipeInv, LastInv, Sending
<1>3. PipeInOrder'
  BY DEF PipeInv, PipeInOrder
<1> QED
  BY <1>1, <1>2, <1>3

\* What the Radxa, the driver and the keep-alive do to a connection.
LEMMA ConnKeeps ==
  ASSUME PipeInv, UNCHANGED <<tunnelVars, sendVars>>,
         conn' \in [Conns -> {"none", "up", "broken", "error", "closed"}],
         \A c \in Conns : conn'[c] = "up" => conn[c] = "up"
  PROVE  PipeInv'
<1>1. UNCHANGED <<rxAt, sock, tcpUp, conns, sender, on, carSent, streams>>
  BY DEF tunnelVars, sendVars
<1>2. TunnelType'
  BY <1>1 DEF PipeInv, TunnelType
<1>3. TunnelInv'
  BY <1>1 DEF PipeInv, TunnelInv
<1>4. UpInv'
  BY <1>1 DEF PipeInv, UpInv
<1>5. ItemsInv' /\ LastInv' /\ PipeInOrder'
  BY <1>1, StreamsStay
<1> QED
  BY <1>2, <1>3, <1>4, <1>5 DEF PipeInv

LEMMA FaultsKeep ==
  ASSUME PipeInv, RadxaStops \/ Notice \/ \E v \in Writable : WritePassword(v)
  PROVE  PipeInv'
<1>1. conn \in [Conns -> {"none", "up", "broken", "error", "closed"}]
  BY DEF PipeInv, TunnelType
<1>2. UNCHANGED <<tunnelVars, sendVars>>
  BY DEF RadxaStops, Notice, WritePassword
<1>3. /\ conn' \in [Conns -> {"none", "up", "broken", "error", "closed"}]
      /\ \A c \in Conns : conn'[c] = "up" => conn[c] = "up"
  BY <1>1 DEF RadxaStops, Notice, WritePassword, Reset
<1> QED
  BY <1>2, <1>3, ConnKeeps

-----------------------------------------------------------------------------
(* tcp_rx_task.                                                             *)

\* It moves on, nothing else changes.
LEMMA MovesKeeps ==
  ASSUME PipeInv, WaitForWifi \/ ConnectFails \/ Delay PROVE PipeInv'
<1>1. /\ UNCHANGED <<sock, tcpUp, conns, conn, sender, on, carSent, streams>>
      /\ \/ rxAt = "wait" /\ rxAt' = "connect"
         \/ rxAt = "connect" /\ rxAt' = "delay"
         \/ rxAt = "delay" /\ rxAt' = "wait" /\ \A s \in Senders : sender[s] # "checked"
  BY DEF WaitForWifi, ConnectFails, Delay, sendVars
<1>2. TunnelType'
  BY <1>1 DEF PipeInv, TunnelType
<1>3. TunnelInv'
  BY <1>1 DEF PipeInv, TunnelInv
<1>4. UpInv'
  BY <1>1 DEF PipeInv, UpInv
<1>5. ItemsInv' /\ LastInv' /\ PipeInOrder'
  BY <1>1, StreamsStay
<1> QED
  BY <1>2, <1>3, <1>4, <1>5 DEF PipeInv

LEMMA ConnectKeeps == ASSUME PipeInv, Connect PROVE PipeInv'
<1>1. /\ rxAt = "connect" /\ rxAt' = "opened" /\ conns < MaxConns
      /\ conns' = conns + 1 /\ sock' = conns + 1
      /\ conn' = [conn EXCEPT ![conns + 1] = "up"]
      /\ UNCHANGED <<tcpUp, sender, on, carSent, streams>>
  BY DEF Connect, sendVars
<1>2. /\ conns \in 0 .. MaxConns /\ conns \in Nat /\ MaxConns \in Nat
      /\ conns + 1 \in Conns /\ Conns \subseteq Nat
      /\ conn \in [Conns -> {"none", "up", "broken", "error", "closed"}]
      /\ on \in [Senders -> 0 .. conns]
  BY <1>1 DEF PipeInv, TunnelType, Conns
<1>3. \A c \in Conns : c # conns + 1 => conn'[c] # "up"
  BY <1>1, <1>2 DEF PipeInv, UpInv
<1>4. streams[conns + 1] = <<>> /\ \A s \in Senders : on[s] # conns + 1
  BY <1>2 DEF PipeInv, UpInv
<1>5. TunnelType'
  <2>1. /\ conns' \in 0 .. MaxConns /\ sock' \in 0 .. conns' /\ sock' # 0
        /\ conn' \in [Conns -> {"none", "up", "broken", "error", "closed"}]
    BY <1>1, <1>2
  <2>2. on' \in [Senders -> 0 .. conns']
    BY <1>1, <1>2
  <2> QED
    BY <1>1, <2>1, <2>2 DEF PipeInv, TunnelType
<1>6. TunnelInv'
  BY <1>1 DEF PipeInv, TunnelInv
<1>7. UpInv'
  BY <1>1, <1>2, <1>3, <1>4 DEF PipeInv, UpInv
<1>8. ItemsInv' /\ LastInv' /\ PipeInOrder'
  BY <1>1, <1>3, <1>4, StreamsStay
<1> QED
  BY <1>5, <1>6, <1>7, <1>8 DEF PipeInv

\* The flag goes up, and goes down before the socket is closed and forgotten.
LEMMA TaskKeeps == ASSUME PipeInv, SetConnected \/ Lost \/ Close \/ Clear
  PROVE  PipeInv'
<1>1. /\ UNCHANGED <<conns, sender, on, carSent, streams>>
      /\ \/ rxAt = "opened" /\ rxAt' = "recv" /\ tcpUp' = TRUE /\ UNCHANGED <<sock, conn>>
         \/ rxAt = "recv" /\ rxAt' = "close" /\ tcpUp' = FALSE /\ UNCHANGED <<sock, conn>>
            /\ conn[sock] = "error"
         \/ rxAt = "close" /\ rxAt' = "clear" /\ UNCHANGED <<sock, tcpUp>>
            /\ conn' = [conn EXCEPT ![sock] = "closed"]
         \/ rxAt = "clear" /\ rxAt' = "delay" /\ sock' = 0 /\ UNCHANGED <<tcpUp, conn>>
  BY DEF SetConnected, Lost, Close, Clear, sendVars
<1>2. TunnelType'
  <2>1. /\ conn \in [Conns -> {"none", "up", "broken", "error", "closed"}]
        /\ conns \in 0 .. MaxConns /\ sock \in 0 .. conns /\ MaxConns \in Nat
    BY DEF PipeInv, TunnelType
  <2>2. conn' \in [Conns -> {"none", "up", "broken", "error", "closed"}]
    BY <1>1, <2>1
  <2>3. sock' \in 0 .. conns'
    BY <1>1, <2>1
  <2>4. rxAt' \in {"opened", "recv", "close", "clear"} <=> sock' # 0
    BY <1>1 DEF PipeInv, TunnelType
  <2> QED
    BY <1>1, <2>2, <2>3, <2>4 DEF PipeInv, TunnelType
<1>3. TunnelInv'
  BY <1>1 DEF PipeInv, TunnelInv
<1>4. \A c \in Conns : conn'[c] = "up" => conn[c] = "up" /\ rxAt' \in {"opened", "recv"} /\ sock' = sock
  BY <1>1 DEF PipeInv, TunnelType, UpInv
<1>5. UpInv'
  BY <1>1, <1>4 DEF PipeInv, UpInv
<1>6. ItemsInv' /\ LastInv' /\ PipeInOrder'
  BY <1>1, <1>4, StreamsStay
<1> QED
  BY <1>2, <1>3, <1>5, <1>6 DEF PipeInv

-----------------------------------------------------------------------------
(* The senders.                                                             *)

\* The elements of a sequence over a set are in that set.
LEMMA ElementsOf == ASSUME NEW S, NEW q \in Seq(S) PROVE \A i \in DOMAIN q : q[i] \in S
OBVIOUS

\* While the last connection is up and holds something, a message of the car is
\* not dropped at the check.
LEMMA BeginKeeps == ASSUME PipeInv, NEW s \in Senders, BeginSend(s) PROVE PipeInv'
<1>1. /\ sender[s] = "idle"
      /\ sender' = [sender EXCEPT ![s] = IF tcpUp /\ sock # 0 THEN "checked" ELSE "idle"]
      /\ IF s = "usb" THEN carSent < MaxCar /\ carSent' = carSent + 1 ELSE carSent' = carSent
      /\ UNCHANGED <<rxAt, sock, tcpUp, conns, conn, on, streams>>
  BY DEF BeginSend, tunnelVars
<1>2. /\ sender \in [Senders -> {"idle", "checked", "writing"}]
      /\ carSent \in Nat /\ MaxCar \in Nat /\ carSent \in 0 .. MaxCar
      /\ "usb" \in Senders /\ "ble" \in Senders
  BY DEF PipeInv, TunnelType, Senders
<1>3. /\ \A x \in Senders : x # s => sender'[x] = sender[x]
      /\ sender'[s] = IF tcpUp /\ sock # 0 THEN "checked" ELSE "idle"
  BY <1>1, <1>2
<1>4. TunnelType'
  <2>1. sender' \in [Senders -> {"idle", "checked", "writing"}]
    BY <1>1, <1>2
  <2>2. carSent' \in 0 .. MaxCar
    BY <1>1, <1>2
  <2> QED
    BY <1>1, <2>1, <2>2 DEF PipeInv, TunnelType
<1>5. TunnelInv'
  BY <1>1, <1>3 DEF PipeInv, TunnelInv
<1>6. UpInv'
  BY <1>1 DEF PipeInv, UpInv
<1>7. \A c \in Conns : \A i \in DOMAIN streams[c] : streams[c][i] \in Nat
  <2>1. \A c \in Conns : streams[c] \in Seq(0 .. MaxCar)
    BY DEF PipeInv, TunnelType
  <2>2. \A c \in Conns : \A i \in DOMAIN streams[c] : streams[c][i] \in 0 .. MaxCar
    BY <2>1, ElementsOf
  <2> QED
    BY <2>2
<1>8. ItemsInv'
  <2>1. CASE s = "usb"
    <3>1. \A c \in Conns : \A i \in DOMAIN streams[c] : streams[c][i] < carSent'
      BY <2>1, <1>1, <1>2, <1>7 DEF PipeInv, ItemsInv
    <3>2. carSent' > 0 /\ carSent' \in Nat
      BY <2>1, <1>1, <1>2
    <3> QED
      BY <1>1, <1>7, <3>1, <3>2 DEF ItemsInv
  <2>2. CASE s # "usb"
    BY <2>2, <1>1, <1>2, <1>3 DEF PipeInv, ItemsInv
  <2> QED
    BY <2>1, <2>2
<1>9. LastInv'
  <2> SUFFICES ASSUME NEW c \in Conns, conn[c] = "up", streams[c] # <<>>,
                      NEW last, last = streams[c][Len(streams[c])]
               PROVE  \/ last = Mode \/ Sending("ble", c)'
                      \/ sender'["usb"] = "idle" /\ last = carSent'
                      \/ (sender'["usb"] = "checked" \/ Sending("usb", c)') /\ last + 1 = carSent'
    BY <1>1 DEF LastInv
  <2>1. \/ last = Mode \/ Sending("ble", c)
        \/ sender["usb"] = "idle" /\ last = carSent
        \/ (sender["usb"] = "checked" \/ Sending("usb", c)) /\ last + 1 = carSent
    BY DEF PipeInv, LastInv
  <2>2. Sending("ble", c) => Sending("ble", c)'
    BY <1>1, <1>2, <1>3 DEF Sending
  <2>3. CASE s = "usb"
    <3>1. tcpUp /\ sock # 0
      BY DEF PipeInv, UpInv, TunnelInv, TunnelType
    <3>2. sender'["usb"] = "checked"
      BY <2>3, <3>1, <1>3
    <3>3. last = carSent => last + 1 = carSent'
      BY <2>3, <1>1
    <3> QED
      BY <2>1, <2>2, <2>3, <3>2, <3>3, <1>1 DEF Sending
  <2>4. CASE s = "ble"
    <3>1. sender'["usb"] = sender["usb"] /\ carSent' = carSent /\ on' = on
      BY <2>4, <1>1, <1>2, <1>3
    <3> QED
      BY <2>1, <2>2, <3>1 DEF Sending
  <2> QED
    BY <2>3, <2>4 DEF Senders
<1>10. PipeInOrder'
  BY <1>1 DEF PipeInv, PipeInOrder
<1> QED
  BY <1>4, <1>5, <1>6, <1>8, <1>9, <1>10 DEF PipeInv

\* A message the call refuses on a connection that is up is refused because a
\* mode write is going on there.
LEMMA CallKeeps == ASSUME PipeInv, NEW s \in Senders, CallSend(s) PROVE PipeInv'
<1> DEFINE accepted == CanWrite /\ ~Busy
<1>1. /\ sender[s] = "checked"
      /\ sender' = [sender EXCEPT ![s] = IF accepted THEN "writing" ELSE "idle"]
      /\ on' = IF accepted THEN [on EXCEPT ![s] = sock] ELSE on
      /\ UNCHANGED <<rxAt, sock, tcpUp, conns, conn, carSent, streams>>
  BY DEF CallSend, Send, tunnelVars
<1>2. /\ sender \in [Senders -> {"idle", "checked", "writing"}]
      /\ on \in [Senders -> 0 .. conns]
      /\ sock \in 0 .. conns /\ conns \in Nat /\ Senders = {"usb", "ble"}
  BY DEF PipeInv, TunnelType, Senders
<1>3. /\ \A x \in Senders : x # s => sender'[x] = sender[x] /\ on'[x] = on[x]
      /\ \/ accepted /\ sender'[s] = "writing" /\ on'[s] = sock /\ sock # 0
         \/ ~accepted /\ sender'[s] = "idle" /\ on'[s] = on[s]
  BY <1>1, <1>2 DEF CanWrite
<1>4. TunnelType'
  <2>1. sender' \in [Senders -> {"idle", "checked", "writing"}]
    BY <1>1, <1>2
  <2>2. on' \in [Senders -> 0 .. conns]
    BY <1>1, <1>2
  <2> QED
    BY <1>1, <2>1, <2>2 DEF PipeInv, TunnelType
<1>5. on[s] = 0
  BY <1>1 DEF PipeInv, TunnelInv
<1>6. accepted => \A x \in Senders : on[x] # sock
  BY <1>3 DEF Busy, PipeInv, TunnelInv
<1>7. TunnelInv'
  <2>1. \A x \in Senders : /\ sender'[x] = "checked" => rxAt \in {"recv", "close", "clear", "delay"}
                           /\ on'[x] # 0 <=> sender'[x] = "writing"
    BY <1>3, <1>5 DEF PipeInv, TunnelInv
  <2>2. on'["usb"] = on'["ble"] => on'["usb"] = 0
    BY <1>2, <1>3, <1>5, <1>6 DEF PipeInv, TunnelInv
  <2> QED
    BY <1>1, <2>1, <2>2 DEF PipeInv, TunnelInv
<1>8. rxAt # "opened"
  BY <1>1 DEF PipeInv, TunnelInv
<1>9. UpInv'
  BY <1>1, <1>8 DEF PipeInv, UpInv
<1>10. ItemsInv'
  <2>1. sender'["usb"] # "idle" => sender["usb"] # "idle"
    BY <1>1, <1>2, <1>3
  <2> QED
    BY <1>1, <2>1 DEF PipeInv, ItemsInv
<1>11. LastInv'
  <2> SUFFICES ASSUME NEW c \in Conns, conn[c] = "up", streams[c] # <<>>,
                      NEW last, last = streams[c][Len(streams[c])]
               PROVE  \/ last = Mode \/ Sending("ble", c)'
                      \/ sender'["usb"] = "idle" /\ last = carSent'
                      \/ (sender'["usb"] = "checked" \/ Sending("usb", c)') /\ last + 1 = carSent'
    BY <1>1 DEF LastInv
  <2>1. \/ last = Mode \/ Sending("ble", c)
        \/ sender["usb"] = "idle" /\ last = carSent
        \/ (sender["usb"] = "checked" \/ Sending("usb", c)) /\ last + 1 = carSent
    BY DEF PipeInv, LastInv
  <2>2. c = sock /\ sock # 0 /\ CanWrite
    BY DEF PipeInv, UpInv, Conns, CanWrite
  <2>3. Sending("ble", c) => Sending("ble", c)'
    BY <1>1, <1>2, <1>3 DEF Sending
  <2>4. CASE s = "usb"
    <3>1. CASE accepted
      BY <2>1, <2>2, <2>3, <2>4, <3>1, <1>1, <1>3 DEF Sending
    <3>2. CASE ~accepted
      <4>1. Sending("ble", c)
        BY <2>2, <2>4, <3>2, <1>1, <1>2 DEF Busy, Sending
      <4> QED
        BY <4>1, <2>3
    <3> QED
      BY <3>1, <3>2
  <2>5. CASE s = "ble"
    <3>1. sender'["usb"] = sender["usb"] /\ carSent' = carSent /\ on'["usb"] = on["usb"]
      BY <2>5, <1>1, <1>2, <1>3
    <3> QED
      BY <2>1, <2>3, <3>1 DEF Sending
  <2> QED
    BY <2>4, <2>5, <1>2
<1>12. PipeInOrder'
  BY <1>1 DEF PipeInv, PipeInOrder
<1> QED
  BY <1>4, <1>7, <1>9, <1>10, <1>11, <1>12 DEF PipeInv

\* What is added to a sequence comes last.
LEMMA AddedLast ==
  ASSUME NEW S, NEW q \in Seq(S), NEW e \in S, NEW r, r = Append(q, e)
  PROVE  /\ r \in Seq(S) /\ Len(q) \in Nat /\ Len(r) = Len(q) + 1 /\ r # <<>> /\ r[Len(r)] = e
         /\ DOMAIN r = 1..(Len(q) + 1) /\ DOMAIN q = 1..Len(q)
         /\ \A i \in 1..Len(q) : r[i] = q[i]
OBVIOUS

\* The item goes to the connection that is up, behind everything that came
\* before it: to no connection that is replaced.
LEMMA FinishKeeps == ASSUME PipeInv, NEW s \in Senders, FinishSend(s) PROVE PipeInv'
<1> DEFINE d == on[s]
           item == Item(s)
<1>1. /\ sender[s] = "writing"
      /\ streams' = IF conn[d] = "up" THEN [streams EXCEPT ![d] = Append(@, item)] ELSE streams
      /\ sender' = [sender EXCEPT ![s] = "idle"] /\ on' = [on EXCEPT ![s] = 0]
      /\ UNCHANGED <<rxAt, sock, tcpUp, conns, conn, carSent>>
  BY DEF FinishSend, tunnelVars
<1>2. /\ sender \in [Senders -> {"idle", "checked", "writing"}]
      /\ on \in [Senders -> 0 .. conns]
      /\ conns \in 0 .. MaxConns /\ conns \in Nat /\ MaxConns \in Nat
      /\ Senders = {"usb", "ble"}
      /\ carSent \in 0 .. MaxCar /\ carSent \in Nat /\ MaxCar \in Nat
      /\ Conns = 1 .. MaxConns
  BY DEF PipeInv, TunnelType, Senders, Conns
<1>3. /\ \A x \in Senders : x # s => sender'[x] = sender[x] /\ on'[x] = on[x]
      /\ sender'[s] = "idle" /\ on'[s] = 0
  BY <1>1, <1>2
<1>4. d \in Conns /\ d # 0
  BY <1>1, <1>2 DEF PipeInv, TunnelInv
<1>5. \A c \in Conns : streams[c] \in Seq(0 .. MaxCar)
  BY DEF PipeInv, TunnelType
<1>6. item \in 0 .. MaxCar /\ (item # Mode => s = "usb" /\ item = carSent)
  BY <1>2 DEF Item, Mode
<1>7. /\ \A c \in Conns : c # d \/ conn[c] # "up" => streams'[c] = streams[c]
      /\ conn[d] = "up" => streams'[d] = Append(streams[d], item)
  BY <1>1, <1>4 DEF PipeInv, TunnelType
<1> HIDE DEF item
<1>8. ASSUME conn[d] = "up"
      PROVE  /\ streams'[d] \in Seq(0 .. MaxCar) /\ Len(streams[d]) \in Nat
             /\ Len(streams'[d]) = Len(streams[d]) + 1 /\ streams'[d] # <<>>
             /\ streams'[d][Len(streams'[d])] = item
             /\ DOMAIN streams'[d] = 1..(Len(streams[d]) + 1)
             /\ DOMAIN streams[d] = 1..Len(streams[d])
             /\ \A i \in 1..Len(streams[d]) : streams'[d][i] = streams[d][i]
  <2>1. streams[d] \in Seq(0 .. MaxCar) /\ streams'[d] = Append(streams[d], item)
    BY <1>4, <1>5, <1>7, <1>8
  <2> HIDE DEF d
  <2> QED
    BY <2>1, <1>6, AddedLast
<1>9. \/ d = sock /\ d = conns /\ rxAt = "recv"
      \/ conn[d] # "up"
  BY <1>4 DEF PipeInv, UpInv
<1>10. TunnelType'
  <2>1. streams' \in [Conns -> Seq(0 .. MaxCar)]
    <3>1. DOMAIN streams' = Conns /\ streams' = [c \in Conns |-> streams'[c]]
      BY <1>1, <1>4 DEF PipeInv, TunnelType
    <3>2. \A c \in Conns : streams'[c] \in Seq(0 .. MaxCar)
      BY <1>5, <1>7, <1>8
    <3> QED
      BY <3>1, <3>2
  <2>2. /\ sender' \in [Senders -> {"idle", "checked", "writing"}]
        /\ on' \in [Senders -> 0 .. conns]
    BY <1>1, <1>2
  <2> QED
    BY <1>1, <2>1, <2>2 DEF PipeInv, TunnelType
<1>11. TunnelInv'
  <2>1. \A x \in Senders : /\ sender'[x] = "checked" => rxAt \in {"recv", "close", "clear", "delay"}
                           /\ on'[x] # 0 <=> sender'[x] = "writing"
    BY <1>3 DEF PipeInv, TunnelInv
  <2>2. on'["usb"] = on'["ble"] => on'["usb"] = 0
    BY <1>2, <1>3
  <2> QED
    BY <1>1, <2>1, <2>2 DEF PipeInv, TunnelInv
<1>12. UpInv'
  <2>1. \A c \in Conns : c > conns => streams'[c] = <<>>
    BY <1>2, <1>7, <1>9 DEF PipeInv, UpInv
  <2>2. ASSUME rxAt = "opened" PROVE streams'[sock] = <<>> /\ \A x \in Senders : on'[x] # sock
    <3>1. sock \in Conns /\ sock # 0 /\ streams[sock] = <<>> /\ \A x \in Senders : on[x] # sock
      BY <1>2, <2>2 DEF PipeInv, TunnelType, UpInv
    <3> QED
      BY <3>1, <1>3, <1>7
  <2> QED
    BY <1>1, <2>1, <2>2 DEF PipeInv, UpInv
<1>13. \A c \in Conns : \A i \in DOMAIN streams[c] :
         /\ streams[c][i] \in Nat /\ streams[c][i] <= carSent
         /\ s = "usb" => streams[c][i] < carSent
  <2>1. \A c \in Conns : \A i \in DOMAIN streams[c] : streams[c][i] \in 0 .. MaxCar
    BY <1>5, ElementsOf
  <2> QED
    BY <2>1, <1>1, <1>2 DEF PipeInv, ItemsInv
<1>14. s = "usb" => item = carSent /\ carSent > 0
  BY <1>1 DEF PipeInv, ItemsInv, item, Item
<1>15. ItemsInv'
  <2>1. ASSUME NEW c \in Conns, NEW i \in DOMAIN streams'[c]
        PROVE  streams'[c][i] <= carSent /\ (sender'["usb"] # "idle" => streams'[c][i] < carSent)
    <3>1. CASE streams'[c] = streams[c]
      BY <3>1, <2>1, <1>1, <1>2, <1>3 DEF PipeInv, ItemsInv
    <3>2. CASE c = d /\ conn[d] = "up"
      <4>1. CASE i \in 1..Len(streams[d])
        BY <4>1, <3>2, <1>1, <1>2, <1>3, <1>8 DEF PipeInv, ItemsInv
      <4>2. CASE i = Len(streams'[d])
        <5>1. streams'[c][i] = item
          BY <4>2, <3>2, <1>8
        <5>2. CASE s = "usb"
          BY <5>1, <5>2, <1>2, <1>3, <1>14
        <5>3. CASE s = "ble"
          <6>1. item = 0 /\ sender'["usb"] = sender["usb"]
            BY <5>3, <1>2, <1>3, <1>6 DEF Mode
          <6> QED
            BY <5>1, <6>1, <1>2 DEF PipeInv, ItemsInv
        <5> QED
          BY <5>2, <5>3, <1>2
      <4> QED
        BY <4>1, <4>2, <3>2, <2>1, <1>8
    <3> QED
      BY <3>1, <3>2, <1>7
  <2>2. sender'["usb"] # "idle" => carSent > 0
    BY <1>2, <1>3 DEF PipeInv, ItemsInv
  <2> QED
    BY <1>1, <2>1, <2>2 DEF ItemsInv
<1>16. LastInv'
  <2> SUFFICES ASSUME NEW c \in Conns, conn[c] = "up", streams'[c] # <<>>,
                      NEW last, last = streams'[c][Len(streams'[c])]
               PROVE  \/ last = Mode \/ Sending("ble", c)'
                      \/ sender'["usb"] = "idle" /\ last = carSent
                      \/ (sender'["usb"] = "checked" \/ Sending("usb", c)') /\ last + 1 = carSent
    BY <1>1 DEF LastInv
  <2>1. CASE c = d
    <3>1. last = item
      BY <2>1, <1>8
    <3> QED
      BY <3>1, <1>3, <1>6
  <2>2. CASE c # d
    <3>1. last = streams[c][Len(streams[c])] /\ streams[c] # <<>>
      BY <2>2, <1>7
    <3>2. \/ last = Mode \/ Sending("ble", c)
          \/ sender["usb"] = "idle" /\ last = carSent
          \/ (sender["usb"] = "checked" \/ Sending("usb", c)) /\ last + 1 = carSent
      BY <3>1 DEF PipeInv, LastInv
    <3>3. \A x \in Senders : Sending(x, c) => x # s
      BY <2>2 DEF Sending
    <3>4. CASE s = "usb"
      BY <3>2, <3>3, <3>4, <1>1, <1>2, <1>3 DEF Sending
    <3>5. CASE s = "ble"
      BY <3>2, <3>3, <3>5, <1>1, <1>2, <1>3 DEF Sending
    <3> QED
      BY <3>4, <3>5, <1>2
  <2> QED
    BY <2>1, <2>2
<1>17. PipeInOrder'
  <2>1. ASSUME NEW c \in Conns, NEW e \in Conns, NEW i \in DOMAIN streams'[c],
               NEW j \in DOMAIN streams'[e], c < e \/ (c = e /\ i < j),
               Mode \notin {streams'[c][i], streams'[e][j]}
        PROVE  streams'[c][i] < streams'[e][j]
    <3>1. CASE e = d /\ conn[d] = "up" /\ j = Len(streams'[d])
      <4>1. streams'[e][j] = carSent /\ s = "usb"
        BY <3>1, <2>1, <1>6, <1>8
      <4>2. i \in DOMAIN streams[c] /\ streams'[c][i] = streams[c][i]
        <5>1. CASE c = d
          <6>1. ~(c < e)
            BY <5>1, <3>1, <1>2
          <6>2. i < j
            BY <6>1, <2>1
          <6>3. i \in 1..(Len(streams[d]) + 1) /\ j = Len(streams[d]) + 1 /\ Len(streams[d]) \in Nat
            BY <5>1, <3>1, <1>8
          <6>4. i \in 1..Len(streams[d])
            BY <6>2, <6>3
          <6> QED
            BY <6>4, <5>1, <3>1, <1>8
        <5>2. CASE c # d
          BY <5>2, <2>1, <1>7
        <5> QED
          BY <5>1, <5>2
      <4> QED
        BY <4>1, <4>2, <1>13
    <3>2. CASE ~(e = d /\ conn[d] = "up" /\ j = Len(streams'[d]))
      <4>1. j \in DOMAIN streams[e] /\ streams'[e][j] = streams[e][j]
        <5>1. CASE streams'[e] = streams[e]
          BY <5>1, <2>1
        <5>2. CASE e = d /\ conn[d] = "up"
          <6>1. /\ j \in 1..(Len(streams[d]) + 1) /\ j # Len(streams[d]) + 1
                /\ Len(streams[d]) \in Nat
            BY <5>2, <3>2, <1>8
          <6>2. j \in 1..Len(streams[d])
            BY <6>1
          <6> QED
            BY <6>2, <5>2, <1>8
        <5> QED
          BY <5>1, <5>2, <1>7
      <4>2. i \in DOMAIN streams[c] /\ streams'[c][i] = streams[c][i]
        <5>1. CASE streams'[c] = streams[c]
          BY <5>1, <2>1
        <5>2. CASE c = d /\ conn[d] = "up"
          <6>1. c = e
            <7>1. d = conns
              BY <5>2, <1>9
            <7>2. e > conns => streams[e] = <<>>
              BY DEF PipeInv, UpInv
            <7>3. ~(e > conns)
              BY <7>2, <4>1
            <7> QED
              BY <7>1, <7>3, <5>2, <2>1, <1>2
          <6>2. ~(c < e)
            BY <6>1, <1>2
          <6>3. i < j
            BY <6>2, <2>1
          <6>4. /\ j \in 1..Len(streams[d]) /\ i \in 1..(Len(streams[d]) + 1)
                /\ Len(streams[d]) \in Nat
            BY <6>1, <5>2, <4>1, <1>8
          <6>5. i \in 1..Len(streams[d])
            BY <6>3, <6>4
          <6> QED
            BY <6>5, <5>2, <1>8
        <5> QED
          BY <5>1, <5>2, <1>7
      <4> QED
        BY <4>1, <4>2, <2>1 DEF PipeInv, PipeInOrder
    <3> QED
      BY <3>1, <3>2
  <2>2. ASSUME NEW c \in Conns, NEW i \in 1 .. Len(streams'[c]) - 1
        PROVE  \/ Mode \in {streams'[c][i], streams'[c][i + 1]}
               \/ streams'[c][i + 1] = streams'[c][i] + 1
    <3>1. CASE streams'[c] = streams[c]
      BY <3>1, <2>2 DEF PipeInv, PipeInOrder
    <3>2. CASE c = d /\ conn[d] = "up"
      <4>1. i \in 1..Len(streams[d]) /\ streams'[d][i] = streams[d][i]
        BY <3>2, <2>2, <1>8
      <4>2. CASE i < Len(streams[d])
        <5>1. /\ i \in 1 .. Len(streams[d]) - 1 /\ i + 1 \in 1..Len(streams[d])
              /\ streams'[d][i + 1] = streams[d][i + 1]
          BY <4>1, <4>2, <3>2, <1>8
        <5> QED
          BY <5>1, <4>1, <3>2, <1>4 DEF PipeInv, PipeInOrder
      <4>3. CASE i = Len(streams[d])
        <5>1. streams'[d][i + 1] = item
          BY <4>3, <3>2, <1>8
        <5>2. CASE item # Mode
          <6>1. s = "usb" /\ item = carSent /\ streams[d] # <<>> /\ sender["usb"] = "writing"
            BY <5>2, <4>1, <1>1, <1>6
          <6>2. ~Sending("ble", d)
            BY <6>1, <1>4 DEF Sending, PipeInv, TunnelInv
          <6>3. streams[d][i] = Mode \/ streams[d][i] + 1 = carSent
            BY <6>1, <6>2, <4>3, <3>2, <1>4 DEF PipeInv, LastInv
          <6> QED
            BY <6>1, <6>3, <5>1, <4>1, <3>2
        <5> QED
          BY <5>1, <5>2, <3>2
      <4> QED
        BY <4>1, <4>2, <4>3, <3>2, <1>8
    <3> QED
      BY <3>1, <3>2, <1>7
  <2> QED
    BY <2>1, <2>2 DEF PipeInOrder
<1> QED
  BY <1>10, <1>11, <1>12, <1>15, <1>16, <1>17 DEF PipeInv

-----------------------------------------------------------------------------
LEMMA InitPipe == ASSUME LinkInit PROVE PipeInv
<1>1. /\ rxAt = "wait" /\ sock = 0 /\ tcpUp = FALSE /\ conns = 0 /\ carSent = 0
      /\ conn = [c \in Conns |-> "none"]
      /\ sender = [s \in Senders |-> "idle"] /\ on = [s \in Senders |-> 0]
      /\ streams = [c \in Conns |-> <<>>]
  BY DEF LinkInit
<1>2. \A c \in Conns : streams[c] = <<>> /\ conn[c] = "none"
  BY <1>1
<1>3. TunnelType
  <2>1. MaxConns \in Nat /\ MaxCar \in Nat
    BY LinkBoundsAssumption
  <2>2. <<>> \in Seq(0 .. MaxCar)
    OBVIOUS
  <2>3. streams \in [Conns -> Seq(0 .. MaxCar)]
    BY <1>1, <2>2
  <2>4. conn \in [Conns -> {"none", "up", "broken", "error", "closed"}]
    BY <1>1
  <2>5. /\ sender \in [Senders -> {"idle", "checked", "writing"}]
        /\ on \in [Senders -> 0 .. conns]
    BY <1>1
  <2>6. conns \in 0 .. MaxConns /\ sock \in 0 .. conns /\ carSent \in 0 .. MaxCar
    BY <1>1, <2>1
  <2> QED
    BY <1>1, <2>1, <2>3, <2>4, <2>5, <2>6 DEF TunnelType
<1>4. TunnelInv /\ UpInv
  BY <1>1, <1>2 DEF TunnelInv, UpInv, Senders
<1>5. ItemsInv /\ LastInv
  BY <1>1, <1>2 DEF ItemsInv, LastInv, Senders
<1>6. PipeInOrder
  BY <1>2 DEF PipeInOrder
<1> QED
  BY <1>3, <1>4, <1>5, <1>6 DEF PipeInv

LEMMA NextPipe == ASSUME PipeInv, [LinkNext]_linkVars PROVE PipeInv'
<1>1. ASSUME UNCHANGED <<tunnelVars, conn, sendVars>> PROVE PipeInv'
  <2>1. /\ conn' \in [Conns -> {"none", "up", "broken", "error", "closed"}]
        /\ \A c \in Conns : conn'[c] = "up" => conn[c] = "up"
    BY <1>1 DEF PipeInv, TunnelType
  <2> QED
    BY <1>1, <2>1, ConnKeeps
<1>2. CASE RadxaStarts \/ Joins \/ Loses \/ EventHandler \/ ApplyCredentials
  BY <1>1, <1>2 DEF RadxaStarts, Joins, Loses, EventHandler,
     ApplyCredentials
<1>3. CASE (\E v \in Writable : WriteSsid(v)) \/ Receive \/ Mount \/ UNCHANGED linkVars
  BY <1>1, <1>3 DEF WriteSsid, Receive, Mount, linkVars
<1>4. CASE RadxaStops \/ Notice \/ \E v \in Writable : WritePassword(v)
  BY <1>4, FaultsKeep
<1>5. CASE WaitForWifi \/ ConnectFails \/ Delay
  BY <1>5, MovesKeeps
<1>6. CASE Connect
  BY <1>6, ConnectKeeps
<1>7. CASE SetConnected \/ Lost \/ Close \/ Clear
  BY <1>7, TaskKeeps
<1>8. ASSUME NEW s \in Senders, BeginSend(s) \/ CallSend(s) \/ FinishSend(s)
      PROVE  PipeInv'
  BY <1>8, BeginKeeps, CallKeeps, FinishKeeps
<1> QED
  BY <1>2, <1>3, <1>4, <1>5, <1>6, <1>7, <1>8 DEF LinkNext, Driver, Ble, RxTask

\* What aa-proxy receives of the car is in order, over the connections too, and
\* whole but for a mode write within one (tcp_tunnel_send and tcp_rx_task of
\* tcp_tunnel.c, which share s_sock and s_connected without a lock): for any number
\* of connections, outages, messages and writes.
THEOREM TunnelKeepsOrder == LinkSpec => []PipeInOrder
<1>1. LinkInit => PipeInv
  BY InitPipe
<1>2. PipeInv => PipeInOrder
  BY DEF PipeInv
<1> QED
  BY <1>1, <1>2, NextPipe, PTL DEF LinkSpec

-----------------------------------------------------------------------------
(* The types of what neither the flag nor the tunnel is about.              *)

StationType ==
  /\ radxa \in BOOLEAN /\ outages \in 0 .. MaxOutages
  /\ using \in Writable /\ config \in Writable /\ retry \in 0 .. MaxRetry
  /\ newSsid \in Writable \cup {"none"} /\ applying \in Writable \cup {"no"}
  /\ writes \in 0 .. MaxWrites /\ intact \in BOOLEAN /\ mounted \in BOOLEAN

LEMMA BoundsType == MaxRetry \in Nat /\ MaxOutages \in Nat /\ MaxWrites \in Nat
BY LinkBoundsAssumption

LEMMA ZeroBounds == 0 \in 0 .. MaxRetry /\ 0 \in 0 .. MaxOutages /\ 0 \in 0 .. MaxWrites
BY BoundsType

LEMMA ConnectType ==
  ASSUME using \in Writable, NEW now, NEW credentials \in Writable, WifiConnect(now, credentials)
  PROVE  using' \in Writable
BY DEF WifiConnect

LEMMA HandlerTypes == ASSUME StationType, EventHandler PROVE StationType'
<1>1. using' \in Writable /\ retry' \in 0 .. MaxRetry
  <2> USE BoundsType DEF StationType
  <2>1. CASE Started
    BY <2>1, ConnectType DEF Started
  <2>2. CASE Disconnected
    <3>1. CASE retry < MaxRetry
      BY <2>2, <3>1, ConnectType DEF Disconnected
    <3>2. CASE ~(retry < MaxRetry)
      BY <2>2, <3>2 DEF Disconnected
    <3> QED
      BY <3>1, <3>2
  <2>3. CASE GotIp
    BY <2>3, ZeroBounds DEF GotIp
  <2> QED
    BY <2>1, <2>2, <2>3 DEF EventHandler
<1> QED
  BY <1>1 DEF EventHandler, StationType, carVars

LEMMA BleTypes == ASSUME StationType, Ble PROVE StationType'
<1> USE BoundsType DEF StationType
<1>1. ASSUME NEW v \in Writable, WriteSsid(v) PROVE StationType'
  BY <1>1 DEF WriteSsid, BleFree, carVars
<1>2. ASSUME NEW v \in Writable, WritePassword(v) PROVE StationType'
  <2>1. writes' \in 0 .. MaxWrites
    BY <1>2 DEF WritePassword, BleFree
  <2>2. applying' \in Writable \cup {"no"}
    BY <1>2 DEF WritePassword, Writable
  <2> QED
    BY <1>2, <2>1, <2>2 DEF WritePassword, carVars
<1>3. CASE ApplyCredentials
  <2>1. applying \in Writable
    BY <1>3 DEF ApplyCredentials
  <2>2. using' \in Writable
    BY <1>3, <2>1, ConnectType DEF ApplyCredentials
  <2> QED
    BY <1>3, <2>1, <2>2 DEF ApplyCredentials, carVars
<1> QED
  BY <1>1, <1>2, <1>3 DEF Ble

LEMMA StationKeeps == StationType /\ [LinkNext]_linkVars => StationType'
<1> SUFFICES ASSUME StationType, [LinkNext]_linkVars PROVE StationType'
  OBVIOUS
<1>1. CASE RadxaStops \/ RadxaStarts
  <2>1. outages' \in 0 .. MaxOutages
    BY <1>1, BoundsType DEF RadxaStops, RadxaStarts, StationType
  <2>2. radxa' \in BOOLEAN /\ UNCHANGED <<wifiVars, writes, carVars>>
    BY <1>1 DEF RadxaStops, RadxaStarts
  <2> QED
    BY <2>1, <2>2 DEF StationType, wifiVars, carVars
<1>2. CASE Driver
  BY <1>2 DEF Driver, Joins, Loses, Notice, StationType, wifiVars, carVars
<1>3. CASE RxTask
  <2>1. UNCHANGED <<radxa, outages, wifiVars, writes, mounted>> /\ intact' \in BOOLEAN
    BY <1>3 DEF RxTask, WaitForWifi, Connect, ConnectFails, SetConnected, Receive, Lost, Close,
       Clear, Delay, StationType, carVars
  <2> QED
    BY <2>1 DEF StationType, wifiVars
<1>4. ASSUME NEW s \in Senders, BeginSend(s) \/ CallSend(s) \/ FinishSend(s) PROVE StationType'
  <2>1. writes' \in 0 .. MaxWrites
    BY <1>4, BoundsType DEF BeginSend, CallSend, Send, FinishSend, BleFree, StationType
  <2>2. UNCHANGED <<radxa, outages, wifiVars, carVars>>
    BY <1>4 DEF BeginSend, CallSend, Send, FinishSend
  <2> QED
    BY <2>1, <2>2 DEF StationType, wifiVars, carVars
<1>5. CASE Mount
  BY <1>5 DEF Mount, StationType, wifiVars
<1>6. CASE UNCHANGED linkVars
  BY <1>6 DEF linkVars, StationType, wifiVars, carVars
<1> QED
  BY <1>1, <1>2, <1>3, <1>4, <1>5, <1>6, HandlerTypes, BleTypes DEF LinkNext

\* Every variable of the dongle's tasks keeps its type (wifi_sta.c, tcp_tunnel.c,
\* ble_control.c, main.c).
THEOREM LinkTypes == LinkSpec => []LinkTypeOK
<1>1. LinkInit => StationType
  BY ZeroBounds DEF LinkInit, StationType, Writable
<1>2. PipeInv /\ WifiInv /\ StationType => LinkTypeOK
  <2> SUFFICES ASSUME TunnelType, WifiInv, StationType PROVE LinkTypeOK
    BY DEF PipeInv
  <2>1. (rxAt \in {"opened", "recv", "close", "clear"}) = (sock # 0)
    BY DEF TunnelType
  <2> QED
    BY <2>1 DEF LinkTypeOK, TunnelType, WifiInv, StationType
<1> QED
  BY <1>1, <1>2, WifiStarts, InitPipe, NextWifi, NextPipe, StationKeeps, PTL DEF LinkSpec
=============================================================================
