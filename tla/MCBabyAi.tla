------------------------------ MODULE MCBabyAi ------------------------------
(* Two workers that feed at once, three images, the detector switched off,  *)
(* on and off again.                                                        *)
EXTENDS BabyAi
=============================================================================
