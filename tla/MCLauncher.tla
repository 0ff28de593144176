---------------------------- MODULE MCLauncher ----------------------------
(* One payload of either kind, with and without durable metrics: Launcher  *)
(* has no constants and no counters, so TLC explores all of it.            *)
EXTENDS Launcher

=============================================================================
