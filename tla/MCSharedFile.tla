---------------------------- MODULE MCSharedFile ----------------------------
(* Small instances of SharedFile: an empty body, a short one, one that      *)
(* fills the slot and one that is refused.                                  *)
EXTENDS SharedFile

MCObjects == {Ping, BinaryData(<<5>>), BinaryData(<<6, 7>>), BinaryData(<<7, 8, 9>>)}

\* The calls whose failure the code looks at.
MCChecked == {"seekp", "write", "seekg", "read"}
MCAll     == MCChecked \cup {"flush"}
=============================================================================
