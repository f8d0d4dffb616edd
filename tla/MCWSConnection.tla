--------------------------- MODULE MCWSConnection ---------------------------
(* Two requests of the server, two message IDs of the peer, one of which    *)
(* collides with an ID of the server.                                       *)
EXTENDS WSConnection

CONSTANTS u1, u2, p1

MCCallIDs == {u1, u2}
MCPeerIDs == {u2, p1}
=============================================================================
