--------------------------- MODULE MCStreamSocket ---------------------------
(* Small instances of StreamSocket: an empty body, a body of two cells, and *)
(* one that is refused.  The socket holds less than one long message, so    *)
(* that send() has to wait in the middle of it.                             *)
EXTENDS StreamSocket

MCObjects == {Ping, BinaryData(<<2>>), BinaryData(<<2, 2>>)}
=============================================================================
