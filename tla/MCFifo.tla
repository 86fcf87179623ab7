------------------------------- MODULE MCFifo -------------------------------
(* Objects for the pipe: without a body, with one, and one that does not    *)
(* fit.                                                                      *)
EXTENDS Fifo

MCObjects == {Ping, BinaryData(<<7>>), BinaryData(<<7, 8, 9, 7>>)}

=============================================================================
