--------------------------- MODULE MCMessageQueue ---------------------------
(* Objects for the queue: without a body, with one, and one that does not   *)
(* fit.                                                                      *)
EXTENDS MessageQueue

MCObjects == {Ping, BinaryData(<<8, 9>>), BinaryData(<<7, 8, 9, 7>>)}

=============================================================================
