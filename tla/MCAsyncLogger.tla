--------------------------- MODULE MCAsyncLogger ---------------------------
(* Instances of AsyncLogger for model checking. *)
EXTENDS AsyncLogger
=============================================================================
