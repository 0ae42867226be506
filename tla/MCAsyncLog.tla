----------------------------- MODULE MCAsyncLog -----------------------------
(* A small instance of AsyncLog for TLC: two threads log, as the event loop
   and a worker do. *)
EXTENDS AsyncLog

Threads == {"event loop", "worker"}
=============================================================================
