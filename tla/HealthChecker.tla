------------------------------ MODULE HealthChecker ------------------------------
(***************************************************************************)
(* HealthChecker: one check task per server, started when the server is    *)
(* added and cancelled when it is removed or the checker stops.            *)
(***************************************************************************)
EXTENDS Naturals, Functions, Dictionaries

CONSTANTS
  Servers,
  MaxFailures,   \* max_consecutive_failures
  FailureBound,  \* bound on consecutive_failures
  TaskIds

VARIABLES
  checking,     \* _running
  status,       \* _servers: is_healthy and consecutive_failures
  checkTasks,   \* _check_tasks: server to task
  task,         \* every task not yet over: its server and where it is
  told          \* (history) what the alert callbacks were last told of a server

vars == <<checking, status, checkTasks, task, told>>

Init == checking = FALSE /\ status = <<>> /\ checkTasks = <<>> /\ task = <<>> /\ told = <<>>

Cancelling(T) == [i \in DOMAIN task |-> IF i \in T THEN [task[i] EXCEPT !.at = "cancelled"] ELSE task[i]]

\* Servers known from before get no task.
Start ==
  /\ ~checking
  /\ checking' = TRUE
  /\ UNCHANGED <<status, checkTasks, task, told>>

Stop ==
  /\ checking
  /\ checking' = FALSE
  /\ task' = Cancelling({checkTasks[s] : s \in DOMAIN checkTasks})
  /\ checkTasks' = <<>>
  /\ UNCHANGED <<status, told>>

AddServer(s) ==
  /\ s \notin DOMAIN status
  /\ status' = Put(status, s, [healthy |-> TRUE, failures |-> 0])
  /\ told' = Put(told, s, TRUE)
  /\ \E i \in TaskIds \ (DOMAIN task \cup Range(checkTasks)) :
       /\ task' = Put(task, i, [server |-> s, at |-> "loop"])
       /\ checkTasks' = Put(checkTasks, s, i)
  /\ UNCHANGED checking

\* Faulty: the task is left to find the server gone.
RemoveServerOnly(s) ==
  /\ s \in DOMAIN status
  /\ status' = Restrict(status, DOMAIN status \ {s})
  /\ checkTasks' = Restrict(checkTasks, DOMAIN checkTasks \ {s})
  /\ UNCHANGED <<checking, task, told>>

RemoveServer(s) ==
  /\ s \in DOMAIN status
  /\ status' = Restrict(status, DOMAIN status \ {s})
  /\ task' = Cancelling({checkTasks[x] : x \in {s} \cap DOMAIN checkTasks})
  /\ checkTasks' = Restrict(checkTasks, DOMAIN checkTasks \ {s})
  /\ UNCHANGED <<checking, told>>

\* The top of the loop: go on to a check, or leave.
BeginCheck(i) ==
  /\ i \in DOMAIN task /\ task[i].at = "loop"
  /\ task' = IF checking /\ task[i].server \in DOMAIN status
             THEN [task EXCEPT ![i].at = "check"] ELSE Restrict(task, DOMAIN task \ {i})
  /\ UNCHANGED <<checking, status, checkTasks, told>>

\* The check is back, and no await comes before the callbacks are called.
EndCheck(i, healthy) ==
  LET s == task[i].server
      old == status[s]
      failures == IF healthy THEN 0 ELSE old.failures + 1
      new == [healthy |-> healthy \/ (old.healthy /\ failures < MaxFailures),
              failures |-> failures]
  IN /\ failures <= FailureBound
     /\ status' = [status EXCEPT ![s] = new]
     /\ told' = IF new.healthy # old.healthy THEN [told EXCEPT ![s] = new.healthy] ELSE told
     /\ task' = [task EXCEPT ![i].at = "loop"]
     /\ UNCHANGED <<checking, checkTasks>>

CancelledTask(i) ==
  /\ i \in DOMAIN task /\ task[i].at = "cancelled"
  /\ task' = Restrict(task, DOMAIN task \ {i})
  /\ UNCHANGED <<checking, status, checkTasks, told>>

Check(i) == i \in DOMAIN task /\ task[i].at = "check" /\ \E healthy \in BOOLEAN : EndCheck(i, healthy)

Next ==
  \/ Start \/ Stop
  \/ \E s \in Servers : AddServer(s) \/ RemoveServer(s)
  \/ \E i \in TaskIds : BeginCheck(i) \/ Check(i) \/ CancelledTask(i)

\* However servers are removed and added again and the checker stopped and started
\* while checks are out, a task that goes on is the one registered for a server
\* that is still there, so no server has two and removal reaches it; and the
\* callbacks have heard of every change of a server's health.
ChecksReachable ==
  /\ \A i \in DOMAIN task : task[i].at # "cancelled" =>
       LET s == task[i].server IN
       /\ s \in DOMAIN status
       /\ s \in DOMAIN checkTasks /\ checkTasks[s] = i
  /\ \A s \in DOMAIN status :
       /\ told[s] = status[s].healthy
       /\ status[s].healthy <=> status[s].failures < MaxFailures
=============================================================================
