--------------------------- MODULE MCRuntimeMemory ---------------------------
(* Small instances of the allocator: blocks of 1, 2 and 4 units.             *)
EXTENDS RuntimeMemory

MCSizes == {1, 4, 5, 8}
=============================================================================
