----------------------------- MODULE BackgroundLoop -----------------------------
(***************************************************************************)
(* The cleanup or update loop that SessionManager, DeviceManager,          *)
(* TrafficManager, Monitor and AlertManager each run in a task of its own: *)
(*   start: unless _running, set it and create the task;                   *)
(*   stop:  clear _running and cancel the task last created;               *)
(*   loop:  while _running, sleep, then do the work.                       *)
(* stop may be called and start called again before the cancelled task has *)
(* run, and a task that is not cancelled notices _running only after its   *)
(* sleep.                                                                  *)
(***************************************************************************)
CONSTANTS LoopIds, NoTask

VARIABLE loop   \* _running, the tasks that exist, and the one last created

Init == loop = [running |-> FALSE, task |-> [i \in LoopIds |-> "none"], current |-> NoTask]

Asleep(i) == loop.task[i] = "asleep"

Start ==
  /\ ~loop.running
  /\ \E i \in LoopIds :
       /\ loop.task[i] = "none"
       /\ loop' = [running |-> TRUE, task |-> [loop.task EXCEPT ![i] = "asleep"],
                   current |-> i]

\* Faulty: the loop is left to notice by itself.
StopFlagOnly ==
  /\ loop.running
  /\ loop' = [loop EXCEPT !.running = FALSE]

\* The task ends by itself at its next step; stop waits for that, others do not.
Stop ==
  /\ loop.running
  /\ loop' = [loop EXCEPT !.running = FALSE, !.task[loop.current] = "cancelled"]

Cancelled == \E i \in LoopIds :
  /\ loop.task[i] = "cancelled"
  /\ loop' = [loop EXCEPT !.task[i] = "none"]

\* A task wakes up; whoever uses the loop says what it does then.
Turn == \E i \in LoopIds :
  /\ Asleep(i)
  /\ loop' = IF loop.running THEN loop ELSE [loop EXCEPT !.task[i] = "none"]

Life == Start \/ Stop \/ Cancelled

\* Whatever the order of starts and stops, exactly the last task created goes on
\* while _running is set, and none after a stop.
OneLoop == {i \in LoopIds : Asleep(i)} = IF loop.running THEN {loop.current} ELSE {}
=============================================================================
