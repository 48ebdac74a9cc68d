--------------------------- MODULE MCDeclaredWork ---------------------------
(* A small instance of DeclaredWork: declared.cfg gives the constants.       *)
EXTENDS DeclaredWork
=============================================================================
