------------------------------ MODULE Mailbox ------------------------------
(***************************************************************************)
(* What aa_video_input.h and carplay_input.h promise the compositor: a     *)
(* mailbox that holds at most one complete video frame, the newest one.  A *)
(* new frame replaces an unread one, and a frame is handed out once.       *)
(* Frames are numbered in the order in which they were delivered.          *)
(***************************************************************************)
EXTENDS Naturals

CONSTANT MaxFrames  \* bound on the number of frames delivered

VARIABLES
  delivered,  \* number of frames delivered so far
  box,        \* the number of the unread frame, 0 when there is none
  taken       \* the number of the last frame handed out, 0 at first

mailboxVars == <<delivered, box, taken>>

MailboxInit == delivered = 0 /\ box = 0 /\ taken = 0

\* A complete frame arrives and becomes the one to read.
Deliver ==
  /\ delivered < MaxFrames
  /\ delivered' = delivered + 1
  /\ box' = delivered + 1
  /\ UNCHANGED taken

\* The consumer takes the unread frame.
Collect ==
  /\ box # 0
  /\ taken' = box
  /\ box' = 0
  /\ UNCHANGED delivered

MailboxNext == Deliver \/ Collect

MailboxSpec == MailboxInit /\ [][MailboxNext]_mailboxVars
=============================================================================
