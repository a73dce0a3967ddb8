----------------------------- MODULE MCQueuePoller -----------------------------
(* QueuePoller on small instances: producers, pollers and the value that   *)
(* dequeue() invents are model values, given in the .cfg files.            *)
EXTENDS QueuePoller, TLC

================================================================================
