--------------------------- MODULE MCSocketProxy ----------------------------
(* Model-checking instance of SocketProxy: the client's application writes *)
(* two bytes and the server's one, which with the EOF frames is enough to  *)
(* fill a window of one frame and a socket of one byte both ways.          *)
EXTENDS SocketProxy

MCMaxBytes == [s \in Side |-> IF s = "client" THEN 2 ELSE 1]
=============================================================================
