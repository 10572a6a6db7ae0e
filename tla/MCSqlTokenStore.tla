--------------------------- MODULE MCSqlTokenStore ---------------------------
(* Instances of SqlTokenStore for TLC; the values are in the .cfg files.    *)
EXTENDS SqlTokenStore
=============================================================================
