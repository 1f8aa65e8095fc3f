-------------------------- MODULE MCAirPlaySession --------------------------
(* One value a phone draws, two the server draws; TLV8 items of two units.  *)
EXTENDS AirPlaySession
=============================================================================
