----------------------- MODULE MCPersistentScheduler ------------------------
(* One function slot, two command slots, three ids.                        *)
EXTENDS PersistentScheduler

(* Id 0 stands for the periodic housekeeping tasks.                        *)
MCBootJobs == {<<[id |-> 0, delay |-> 1, period |-> 1, reps |-> RepsInfinite]>>}

MCCmdJobs == {[id |-> 1, delay |-> 0, period |-> 1, reps |-> 2],
              [id |-> 2, delay |-> 1, period |-> 1, reps |-> RepsInfinite]}
=============================================================================
