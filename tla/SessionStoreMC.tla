--------------------------- MODULE SessionStoreMC ---------------------------
(* SessionStore on a few entries and files, for TLC. *)
EXTENDS SessionStore
=============================================================================
