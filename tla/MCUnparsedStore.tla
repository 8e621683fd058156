--------------------------- MODULE MCUnparsedStore ---------------------------
(* Small instances of UnparsedStore. *)
EXTENDS UnparsedStore

=============================================================================
