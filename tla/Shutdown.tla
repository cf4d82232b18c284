------------------------------ MODULE Shutdown ------------------------------
(***************************************************************************)
(* How the gateway stops (main.go): the goroutine that waits for a signal, *)
(* shuts the server down and drains what runs in the background, and main  *)
(* itself, which serves until the listener is closed.  A handler may leave *)
(* a best-effort task behind (background_tasks.go).                        *)
(***************************************************************************)
CONSTANT Requests

VARIABLES
  main,      \* "serving", or "exited" and with it the process
  drainer,   \* the goroutine: "waiting", then "shutdown", "draining", "done"
  handler,   \* each request: "new", "served", "answered"
  task,      \* the task it left behind: "none", "running", "done"
  timedOut   \* Shutdown gave up on requests after its ten seconds

vars == <<main, drainer, handler, task, timedOut>>

Init ==
  /\ main = "serving" /\ drainer = "waiting" /\ timedOut = FALSE
  /\ handler = [r \in Requests |-> "new"]
  /\ task = [r \in Requests |-> "none"]

Up == main = "serving"

Accept(r) ==
  /\ Up /\ drainer = "waiting" /\ handler[r] = "new"
  /\ handler' = [handler EXCEPT ![r] = "served"]
  /\ UNCHANGED <<main, drainer, task, timedOut>>

(* The handler answers, and runBestEffort may have started a task. *)
Answer(r) ==
  /\ Up /\ handler[r] = "served"
  /\ handler' = [handler EXCEPT ![r] = "answered"]
  /\ \E left \in {"none", "running"} : task' = [task EXCEPT ![r] = left]
  /\ UNCHANGED <<main, drainer, timedOut>>

RunTask(r) ==
  /\ Up /\ task[r] = "running" /\ task' = [task EXCEPT ![r] = "done"]
  /\ UNCHANGED <<main, drainer, handler, timedOut>>

(* SIGINT or SIGTERM: Shutdown closes the listener and waits for handlers. *)
Signal ==
  /\ Up /\ drainer = "waiting" /\ drainer' = "shutdown"
  /\ UNCHANGED <<main, handler, task, timedOut>>

ShutdownReturns ==
  /\ Up /\ drainer = "shutdown" /\ drainer' = "draining"
  /\ timedOut' = (\E r \in Requests : handler[r] = "served")
  /\ UNCHANGED <<main, handler, task>>

(* waitForBackgroundTasks *)
Drained ==
  /\ Up /\ drainer = "draining" /\ drainer' = "done"
  /\ \A r \in Requests : task[r] # "running"
  /\ UNCHANGED <<main, handler, task, timedOut>>

(* ListenAndServe returns as soon as the listener is closed, main after it,*)
(* and the process ends whatever its goroutines were doing.                *)
Exit ==
  /\ Up /\ drainer # "waiting" /\ main' = "exited"
  /\ UNCHANGED <<drainer, handler, task, timedOut>>

Next ==
  \/ \E r \in Requests : Accept(r) \/ Answer(r) \/ RunTask(r)
  \/ Signal \/ ShutdownReturns \/ Drained \/ Exit

Spec == Init /\ [][Next]_vars

(* The gateway does not stop before every request it accepted is answered, *)
(* and every task these left behind is done, but for requests that take    *)
(* longer than Shutdown waits (main.go: otherwise what has happened        *)
(* already is lost without a word).                                        *)
NothingLost ==
  main = "exited" /\ ~timedOut =>
    \A r \in Requests : handler[r] # "served" /\ task[r] # "running"
=============================================================================
