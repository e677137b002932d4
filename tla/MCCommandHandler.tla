-------------------------- MODULE MCCommandHandler --------------------------
(* One command and the two coroutines that overlap in the build as shipped:  *)
(* the poll loop and MDMWorker.                                             *)
EXTENDS CommandHandler

OneCmd     == {1}
TwoWorkers == {"poll", "MDMWorker"}
=============================================================================
