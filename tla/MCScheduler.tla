---------------------------- MODULE MCScheduler -----------------------------
(* A small scheduler: two function slots, one command slot, three ids.     *)
EXTENDS Scheduler

MCFuncJobs == {[id |-> 0, delay |-> 1, period |-> 1, reps |-> RepsInfinite],
               [id |-> 1, delay |-> 0, period |-> 0, reps |-> 1]}

MCCmdJobs == {[id |-> 1, delay |-> 1, period |-> 1, reps |-> 2],
              [id |-> 2, delay |-> 0, period |-> 1, reps |-> 2]}
=============================================================================
