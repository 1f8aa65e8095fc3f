------------------------------- MODULE IrLed -------------------------------
(***************************************************************************)
(* The infrared LEDs of the compositor (ir_led.c): the control thread sets *)
(* their mode (dispatch_command, ir_control in main.c) while the video     *)
(* workers judge the brightness of camera pictures in auto mode.           *)
(*                                                                         *)
(* Nothing locks ir_led.c.  The workers of Android Auto and CarPlay call   *)
(* ir_led_update under g_lock, so one of the two at a time; the worker of  *)
(* the camera alone and the control thread hold no lock.  set_leds writes  *)
(* the flag leds_on and then the pin, and does nothing when the flag is    *)
(* already as asked.  That the workers look once a second is left out: two *)
(* of them can read last_check_ns before either writes it.                 *)
(***************************************************************************)
EXTENDS Naturals

Workers == {"locked", "camera"}
Threads == Workers \cup {"control"}
Modes   == {"off", "on", "auto"}
Levels  == {"off", "on"}

VARIABLES
  irState,     \* g_ir_state, what STATUS reports
  irMode,      \* current_mode
  leds,        \* leds_on
  pin,         \* the GPIO's value
  ready,       \* gpio_ready
  phase,       \* per thread: "idle", at the top of set_leds ("set"), about to write the
               \* "flag", or about to "write" the pin
  to,          \* per thread: the level it sets or writes
  late,        \* per worker: the mode has been changed since it judged (history)
  overruled,   \* such a worker has gone against the mode since (history)
  astray       \* the last set_leds began while another was not through, or did not
               \* reach the pin (history)

ledVars == <<irState, irMode, leds, pin, ready, phase, to, late, overruled, astray>>

LedTypeOK ==
  /\ irState \in Modes /\ irMode \in Modes /\ leds \in Levels /\ pin \in Levels
  /\ ready \in BOOLEAN /\ overruled \in BOOLEAN /\ astray \in BOOLEAN
  /\ phase \in [Threads -> {"idle", "set", "flag", "write"}] /\ to \in [Threads -> Levels]
  /\ late \in [Workers -> BOOLEAN]

\* ir_led_init, before any thread runs; without the GPIO it is a dry run.
LedInit ==
  /\ irState = "off" /\ irMode = "auto"
  /\ leds = "off" /\ pin = "off" /\ ready \in BOOLEAN
  /\ phase = [t \in Threads |-> "idle"] /\ to = [t \in Threads |-> "off"]
  /\ late = [w \in Workers |-> FALSE] /\ overruled = FALSE /\ astray = FALSE

-----------------------------------------------------------------------------
(* ir_led_update and ir_led_set_mode, up to set_leds.                      *)

\* The picture is dark or bright: the LEDs are to be turned on or off.
Look(w) ==
  /\ phase[w] = "idle"
  /\ phase' = [phase EXCEPT ![w] = "set"]
  /\ \E l \in Levels : to' = [to EXCEPT ![w] = l]
  /\ late' = [late EXCEPT ![w] = FALSE]
  /\ UNCHANGED <<irState, irMode, leds, pin, ready, overruled, astray>>

\* Mutation of Judge: pictures are judged in any mode.
JudgeAlways(w) == Look(w)

Judge(w) == irMode = "auto" /\ Look(w)

\* IR with a known argument.  ir_led_set_mode returns early when the mode is the
\* present one, whatever the LEDs are at.
IrCommand(m) ==
  /\ phase["control"] = "idle"
  /\ irState' = m
  /\ irMode' = m
  /\ \/ m = irMode /\ UNCHANGED <<phase, to, late, overruled>>
     \/ /\ m # irMode
        /\ overruled' = FALSE /\ late' = [w \in Workers |-> phase[w] # "idle"]
        /\ IF m = "auto" THEN UNCHANGED <<phase, to>>
           ELSE phase' = [phase EXCEPT !["control"] = "set"] /\ to' = [to EXCEPT !["control"] = m]
  /\ UNCHANGED <<leds, pin, ready, astray>>

-----------------------------------------------------------------------------
(* set_leds and gpio_write.                                                *)

Overrules(t) == t \in Workers /\ late[t] /\ to[t] # irMode

\* The flag is so already.
NothingToSet(t) ==
  /\ phase[t] = "set" /\ leds = to[t]
  /\ phase' = [phase EXCEPT ![t] = "idle"]
  /\ UNCHANGED <<irState, irMode, leds, pin, ready, to, late, overruled, astray>>

Differs(t) ==
  /\ phase[t] = "set" /\ leds # to[t]
  /\ phase' = [phase EXCEPT ![t] = "flag"]
  /\ astray' = (\E u \in Threads : phase[u] \in {"flag", "write"})
  /\ UNCHANGED <<irState, irMode, leds, pin, ready, to, late, overruled>>

SetFlag(t) ==
  /\ phase[t] = "flag"
  /\ leds' = to[t]
  /\ phase' = [phase EXCEPT ![t] = "write"]
  /\ overruled' = (overruled \/ Overrules(t))
  /\ UNCHANGED <<irState, irMode, pin, ready, to, late, astray>>

\* gpio_write, which does nothing in a dry run or when the file cannot be opened.
WritePin(t) ==
  /\ phase[t] = "write"
  /\ \/ ready /\ pin' = to[t] /\ UNCHANGED astray
     \/ UNCHANGED pin /\ astray' = TRUE
  /\ phase' = [phase EXCEPT ![t] = "idle"]
  /\ overruled' = (overruled \/ Overrules(t))
  /\ UNCHANGED <<irState, irMode, leds, ready, to, late>>

LedNext ==
  \/ \E w \in Workers : Judge(w)
  \/ \E m \in Modes : IrCommand(m)
  \/ \E t \in Threads : NothingToSet(t) \/ Differs(t) \/ SetFlag(t) \/ WritePin(t)

LedSpec == LedInit /\ [][LedNext]_ledVars

-----------------------------------------------------------------------------
(* Properties.                                                             *)

Idle == \A t \in Threads : phase[t] = "idle"

\* IR on and IR off hold: once every thread is out of ir_led.c the LEDs are as
\* commanded, however often the mode has been changed and whatever the workers were
\* doing.  There are two exceptions: a worker that judged a picture before the command
\* came went against it afterwards, which the same command repeated does not undo; and
\* the pin alone may disagree, if two calls of set_leds overlapped or a write failed.
ForcedUnlessOverruled ==
  Idle /\ irMode # "auto" /\ ~overruled =>
    /\ leds = irMode
    /\ ready /\ ~astray => pin = irMode

\* ir_led.h:57: "In on/off mode, this is a no-op (LEDs stay in forced state)".
ForcedStateStays == Idle /\ irMode # "auto" => leds = irMode

\* ir_led.h:44: ir_led_is_on "returns 1 if LEDs are currently on, 0 if off".
FlagTellsPin == Idle /\ ready => (pin = leds)
=============================================================================
