------------------------------ MODULE McpTasks ------------------------------
(***************************************************************************)
(* The MCP Tasks extension: a durable handle per long operation, created   *)
(* and cancelled through the API, advanced by a job of the worker, polled  *)
(* by the client.  The handle, the enqueueing, the work and the report of  *)
(* its outcome are separate transactions, so any of them can be the last.  *)
(*                                                                         *)
(* tasks/update is left out: nothing in the source sets "input_required",  *)
(* so it always answers 409.                                               *)
(***************************************************************************)
EXTENDS Naturals

CONSTANTS
    Task,
    Worker,
    Loadings,    \* ways the worker module may have been loaded
    MaxCrashes,  \* bound: processes that die
    NULL

\* "import" runs the module to its end, which registers the mcp_task_*
\* handlers; "main" (python -m memory_platform.worker, the image's command)
\* enters main() before the lines that register them.
McpTasksAssumption ==
    /\ Loadings \subseteq {"import", "main"}
    /\ MaxCrashes \in Nat
    /\ NULL \notin {"working", "completed", "failed", "cancelled"}

VARIABLES
    loading,
    status,      \* mem.mcp_tasks.status
    request,     \* where the handler of tasks/create is
    given,       \* handles a client holds
    queue,       \* the queue's job for the handle
    job,         \* what each worker is doing
    done,        \* handles whose work has been committed
    crashes

vars == <<loading, status, request, given, queue, job, done, crashes>>

Terminal == {"completed", "failed", "cancelled"}

TypeOK ==
    /\ loading \in Loadings
    /\ status \in [Task -> {NULL, "working"} \cup Terminal]
    /\ request \in [Task -> {NULL, "created", "raised"}]
    /\ given \subseteq Task
    /\ queue \in [Task -> {NULL, "todo", "doing", "finished"}]
    /\ job \in [Worker -> {NULL} \cup
                    [task : Task, at : {"run", "completed", "failed"}]]
    /\ done \subseteq Task
    /\ crashes \in 0..MaxCrashes

Init ==
    /\ loading \in Loadings
    /\ status = [t \in Task |-> NULL]
    /\ request = [t \in Task |-> NULL]
    /\ given = {}
    /\ queue = [t \in Task |-> NULL]
    /\ job = [w \in Worker |-> NULL]
    /\ done = {}
    /\ crashes = 0

\* Mutant of Ended: the update does not ask for the current status.
EndedAnyhow(t, outcome) == [status EXCEPT ![t] = outcome]

\* mcp_tasks.finish and cancel: UPDATE ... WHERE status NOT IN (terminal).
Ended(t, outcome) ==
    IF status[t] \in Terminal THEN status ELSE [status EXCEPT ![t] = outcome]
-----------------------------------------------------------------------------
(***************************************************************************)
(* routes_tasks.                                                           *)
(***************************************************************************)
\* Mutant of Create: the queue's word for it.
CreateQueued(t) ==
    /\ status[t] = NULL
    /\ status' = [status EXCEPT ![t] = "todo"]
    /\ request' = [request EXCEPT ![t] = "created"]
    /\ UNCHANGED <<loading, given, queue, job, done, crashes>>

Create(t) ==
    /\ status[t] = NULL
    /\ status' = [status EXCEPT ![t] = "working"]
    /\ request' = [request EXCEPT ![t] = "created"]
    /\ UNCHANGED <<loading, given, queue, job, done, crashes>>

Enqueue(t) ==
    /\ request[t] = "created"
    /\ queue' = [queue EXCEPT ![t] = "todo"]
    /\ request' = [request EXCEPT ![t] = NULL]
    /\ given' = given \cup {t}
    /\ UNCHANGED <<loading, status, job, done, crashes>>

\* The queue raises; the job may have been stored before the error.
EnqueueRaises(t) ==
    /\ request[t] = "created"
    /\ queue' \in {queue, [queue EXCEPT ![t] = "todo"]}
    /\ request' = [request EXCEPT ![t] = "raised"]
    /\ UNCHANGED <<loading, status, given, job, done, crashes>>

\* The handle is failed, if the database lets it, and the client gets an error.
GiveUp(t) ==
    /\ request[t] = "raised"
    /\ status' \in {status, Ended(t, "failed")}
    /\ request' = [request EXCEPT ![t] = NULL]
    /\ UNCHANGED <<loading, given, queue, job, done, crashes>>

ApiCrash(t) ==
    /\ request[t] # NULL
    /\ crashes < MaxCrashes
    /\ crashes' = crashes + 1
    /\ request' = [request EXCEPT ![t] = NULL]
    /\ UNCHANGED <<loading, status, given, queue, job, done>>

\* tasks/list and tasks/get show every stored handle, to whoever asks.
Listed == {t \in Task : status[t] # NULL}

\* Any of them can be cancelled.  The job is not told.
Cancel(t) ==
    /\ t \in Listed
    /\ status' = Ended(t, "cancelled")
    /\ UNCHANGED <<loading, request, given, queue, job, done, crashes>>
-----------------------------------------------------------------------------
(***************************************************************************)
(* The job queue and the worker.                                           *)
(***************************************************************************)
\* A handler is registered for the job's name: the job starts.
Take(w, t) ==
    /\ loading = "import"
    /\ job[w] = NULL
    /\ queue[t] = "todo"
    /\ queue' = [queue EXCEPT ![t] = "doing"]
    /\ job' = [job EXCEPT ![w] = [task |-> t, at |-> "run"]]
    /\ UNCHANGED <<loading, status, request, given, done, crashes>>

\* No handler is registered: the queue ends the job as failed, and no code of
\* this program runs.
TakeUnknown(w, t) ==
    /\ loading = "main"
    /\ job[w] = NULL
    /\ queue[t] = "todo"
    /\ queue' = [queue EXCEPT ![t] = "finished"]
    /\ UNCHANGED <<loading, status, request, given, job, done, crashes>>

\* The job of a dead worker is put back by hand.
Requeue(t) ==
    /\ queue[t] = "doing"
    /\ \A w \in Worker : job[w] # NULL => job[w].task # t
    /\ queue' = [queue EXCEPT ![t] = "todo"]
    /\ UNCHANGED <<loading, status, request, given, job, done, crashes>>

\* _run_mcp_task: the work commits in its own transaction ...
Run(w) ==
    /\ job[w] # NULL
    /\ job[w].at = "run"
    /\ done' = done \cup {job[w].task}
    /\ job' = [job EXCEPT ![w].at = "completed"]
    /\ UNCHANGED <<loading, status, request, given, queue, crashes>>

\* ... or raises and is rolled back.
RunRaises(w) ==
    /\ job[w] # NULL
    /\ job[w].at = "run"
    /\ job' = [job EXCEPT ![w].at = "failed"]
    /\ UNCHANGED <<loading, status, request, given, queue, done, crashes>>

EndJob(w) ==
    /\ job' = [job EXCEPT ![w] = NULL]
    /\ queue' = [queue EXCEPT ![job[w].task] = "finished"]

\* _finish_task reports the outcome, if the database lets it.
Report(w) ==
    /\ job[w] # NULL
    /\ job[w].at # "run"
    /\ status' \in {status, Ended(job[w].task, job[w].at)}
    /\ EndJob(w)
    /\ UNCHANGED <<loading, request, given, done, crashes>>

Crash(w) ==
    /\ job[w] # NULL
    /\ crashes < MaxCrashes
    /\ crashes' = crashes + 1
    /\ job' = [job EXCEPT ![w] = NULL]
    /\ UNCHANGED <<loading, status, request, given, queue, done>>
-----------------------------------------------------------------------------
TakeAny(w) == \E t \in Task : Take(w, t) \/ TakeUnknown(w, t)

Next ==
    \/ \E t \in Task :
        \/ Create(t)
        \/ Enqueue(t)
        \/ EnqueueRaises(t)
        \/ GiveUp(t)
        \/ ApiCrash(t)
        \/ Cancel(t)
        \/ Requeue(t)
    \/ \E w \in Worker :
        \/ TakeAny(w)
        \/ Run(w)
        \/ RunRaises(w)
        \/ Report(w)
        \/ Crash(w)

\* A live worker takes jobs and goes on with them.
Spec ==
    /\ Init
    /\ [][Next]_vars
    /\ \A w \in Worker : WF_vars(TakeAny(w)) /\ WF_vars(Run(w) \/ RunRaises(w))
                         /\ WF_vars(Report(w))
-----------------------------------------------------------------------------
(***************************************************************************)
(* Properties.                                                             *)
(***************************************************************************)
\* A poller that has read a terminal status never reads another, and one that
\* reads "completed" finds the work committed: a cancel, a late report, a failed
\* enqueue and a job run twice may meet in any order.
TerminalIsFinal ==
    [][\A t \in Task :
        /\ status[t] \in Terminal => status'[t] = status[t]
        /\ status'[t] = "completed" => t \in done']_vars

\* No client is left with a handle that stays "working" for ever.
HandleEnds == \A t \in Task : t \in given ~> status[t] \in Terminal
=============================================================================
