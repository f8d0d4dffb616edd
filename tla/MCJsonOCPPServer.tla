-------------------------- MODULE MCJsonOCPPServer --------------------------
(* One station with two sockets: three or four tasks use the lock.          *)
EXTENDS JsonOCPPServer
=============================================================================
