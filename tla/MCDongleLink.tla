---------------------------- MODULE MCDongleLink ----------------------------
\* DongleLink on a small instance: one retry, one outage, three connections and as
\* many messages of the car, so that a sender can meet a replaced socket, and two
\* Bluetooth writes, enough for both credentials.
EXTENDS DongleLink
=============================================================================
