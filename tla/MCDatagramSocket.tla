-------------------------- MODULE MCDatagramSocket --------------------------
(* An object that fits and one that does not, and datagrams of strangers: half *)
(* a header, a length that points behind the body, and one that is in order,   *)
(* longer than what the writing processes send.                                *)
EXTENDS DatagramSocket

MCObjects == {BinaryData(<<1, 1>>), BinaryData(<<1, 1, 1, 1, 1>>)}

MCForeign == {<<7, 2>>, <<7, 2, 4, 1, 1, 1, 1>>, <<7, 2, 5, 1, 1, 1, 1, 9>>}

=============================================================================
