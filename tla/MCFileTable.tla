---------------------------- MODULE MCFileTable -----------------------------
(* Small instances of FileTable.                                           *)
EXTENDS FileTable

CONSTANTS u, v, n1, n2
=============================================================================
