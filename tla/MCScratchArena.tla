--------------------------- MODULE MCScratchArena ----------------------------
(***************************************************************************)
(* A small arena: blocks of 4 bytes, words of 2, sizes of 3 bits.          *)
(***************************************************************************)
EXTENDS ScratchArena

CONSTANTS b1, b2, b3

=============================================================================
