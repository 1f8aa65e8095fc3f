-------------------------- MODULE MCProxySession --------------------------
\* ProxySession on a small instance: an orphaned session beside a live one, and
\* room for one fault on either side of the socket.
EXTENDS ProxySession
=============================================================================
