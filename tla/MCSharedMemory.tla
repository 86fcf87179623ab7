--------------------------- MODULE MCSharedMemory ---------------------------
(* Small instances of SharedMemory: objects of 0, 3, 4 and 5 cells for a    *)
(* body of 4 cells, so that a slot and both buffers hold the rest of a      *)
(* longer message under a shorter one, and one object is refused.           *)
EXTENDS SharedMemory

MCObjects == {Ping,
              JavaSymbol(<<1, 2>>, 3, << >>),
              BinaryData(<<5, 6>>),
              BinaryData(<<7, 8, 9, 10>>)}

=============================================================================
