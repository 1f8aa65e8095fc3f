-------------------------- MODULE MCCarplayDaemon --------------------------
\* CarplayDaemon on a small instance: a buffer of four cells, in which a packet, and what
\* has arrived of a second one, fit together.
EXTENDS CarplayDaemon

MCMessages == {"syn", "rst", "accepted", "certRequest", "challenge", "startEap", "eapStarted",
               "stopEap", "startWireless", "ownNetwork"}
=============================================================================
