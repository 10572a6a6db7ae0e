---------------------------- MODULE MCLifecycle ----------------------------
(* All three programs; the requests are in the .cfg file.                  *)
EXTENDS Lifecycle

AllPrograms == {"gateway", "auth", "user"}
=============================================================================
