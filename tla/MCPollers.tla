------------------------------ MODULE MCPollers -------------------------------
(* Pollers for TLC: the callbacks of a pool, and of a queue.                *)
EXTENDS Pollers

PoolCallbacks == <<"active", "idle", "waiting">>
QueueCallbacks == <<"depth">>
=============================================================================
