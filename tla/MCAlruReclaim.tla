--------------------------- MODULE MCAlruReclaim ---------------------------
(* Small instances of AlruReclaim for TLC, with the sets of MCAlruCache. *)
EXTENDS AlruReclaim, MCAlruCache
=============================================================================
