---------------------------- MODULE MCTimerWheel ----------------------------
(* Small instances of TimerWheel for TLC.  A flat program's timeouts stay below
   one turn of level 0, as the server's 60000 ms do on 1000 slots of 1000 ms, and
   include one shorter than a slot; SlotTimeouts are whole slots; those of a deep
   program reach every level. *)
EXTENDS TimerWheel

FlatOrDeep   == {{1, 3}, {3, 6, 10}}
SlotTimeouts == {{2, 4}}
DeepTimeouts == {{3, 10, 18}}
=============================================================================
