------------------------------- MODULE MCDBus -------------------------------
(* An object that fits and one that does not.                                *)
EXTENDS DBus

MCObjects == {BinaryData(<<1>>), BinaryData(<<1, 1, 1>>)}

=============================================================================
