--------------------------- MODULE MCLanListener ---------------------------
(* Four sockets for three connections, of which two may have a request.    *)
EXTENDS LanListener
CONSTANTS c1, c2, c3, c4

=============================================================================
