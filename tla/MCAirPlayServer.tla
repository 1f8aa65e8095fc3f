--------------------------- MODULE MCAirPlayServer ---------------------------
(* AirPlayServer with both of AIRPLAY_MAX_SESSIONS' slots and one connection *)
(* more than they hold.                                                    *)
EXTENDS AirPlayServer
=============================================================================
