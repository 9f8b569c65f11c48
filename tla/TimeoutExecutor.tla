--------------------------- MODULE TimeoutExecutor ---------------------------
(***************************************************************************)
(* Query execution with a timeout on Postgres (postgres/_pg.py).           *)
(*                                                                         *)
(* PostgresDatabase.execute_query(..., timeout) hands the query to a       *)
(* worker process, follows its progress through a pipe and, if the query   *)
(* is not finished in time, cancels the worker's server session over a     *)
(* second connection, the watchdog, and kills the worker.  Four actors     *)
(* interleave: the calling process ("parent"), the worker of each call,    *)
(* the server session of each worker, and the network that may take the    *)
(* watchdog's connection away.                                             *)
(*                                                                         *)
(* A call is identified by its number.  Query texts, result sets and       *)
(* durations are abstracted to what the caller can tell apart: whether a   *)
(* result has rows, and which call a runtime was measured for.             *)
(***************************************************************************)
EXTENDS Integers, Sequences

CONSTANTS
  MaxCalls,     \* bound on the number of calls of execute_query
  WorkerCrash,  \* may a worker process die on its own (OOM kill, segfault)?
  WatchdogLoss  \* may the server drop the watchdog's idle connection?

ASSUME MaxCallsAssumption == MaxCalls \in Nat
ASSUME FaultAssumption == WorkerCrash \in BOOLEAN /\ WatchdogLoss \in BOOLEAN

Calls == 1 .. MaxCalls

VARIABLES
  cur,       \* number of the latest call of execute_query, 0 before the first
  parent,    \* where the calling process is inside that call
  read,      \* how many events of the current worker the parent has received
  result,    \* status of the _ResultEvent the state machine ended with
  outcome,   \* what each call gave its caller
  runtime,   \* _last_query_runtime: the call it was measured for, and how
  watchdog,  \* the executor's _timeout_watchdog connection
  worker,    \* where the worker process of each call is
  sent,      \* all events each worker put into its status pipe
  session    \* the server session (backend) of each worker

vars == << cur, parent, read, result, outcome, runtime, watchdog, worker, sent, session >>
parentVars == << cur, parent, read, result, outcome, runtime, watchdog >>

ParentStates == {"idle", "ctl", "prep", "run_query", "await_result", "abort",
                 "terminate", "join", "state_error"}
WorkerStates == {"none", "connecting", "connected", "ready", "executing",
                 "fetching", "null_sent", "closing", "exited", "killed"}
Events == {"Connected", "Ready", "Finished", "Rows", "Null", "Error"}
Results == {"none", "rows", "null", "timeout", "failure"}
Outcomes == {"none", "rows", "null", "timeout", "failure", "raised"}
SessionStates == {"none", "idle", "running", "done", "failed", "cancelled", "orphan", "gone"}
Nan == [of |-> 0, kind |-> "nan"]
Runtimes == [of : 0 .. MaxCalls, kind : {"nan", "measured", "timeout"}]

TypeOK ==
  /\ cur \in 0 .. MaxCalls
  /\ parent \in ParentStates
  /\ read \in 0 .. 4
  /\ result \in Results
  /\ outcome \in [Calls -> Outcomes]
  /\ runtime \in Runtimes
  /\ watchdog \in {"none", "open", "lost"}
  /\ worker \in [Calls -> WorkerStates]
  /\ sent \in [Calls -> Seq(Events)]
  /\ session \in [Calls -> SessionStates]

Init ==
  /\ cur = 0
  /\ parent = "idle"
  /\ read = 0
  /\ result = "none"
  /\ outcome = [q \in Calls |-> "none"]
  /\ runtime = Nan
  /\ watchdog = "none"
  /\ worker = [q \in Calls |-> "none"]
  /\ sent = [q \in Calls |-> << >>]
  /\ session = [q \in Calls |-> "none"]

------------------------------------------------------------------------------
(* The server, as the client library sees it. *)

\* pg_cancel_backend: interrupts a running statement, does nothing otherwise.
Cancelled(s) == CASE s = "running" -> "cancelled"
                  [] s = "orphan"  -> "gone"
                  [] OTHER         -> s

\* The client's socket is closed: an idle backend ends, a backend in the middle
\* of a statement does not notice and keeps running it.
Dropped(s) == CASE s = "running"          -> "orphan"
                [] s \in {"none", "orphan"} -> s
                [] OTHER                    -> "gone"

\* A statement ends by itself, well or with an error.
ServerFinish(q) ==
  /\ session[q] \in {"running", "orphan"}
  /\ session' = [session EXCEPT ![q] = IF @ = "orphan" THEN "gone" ELSE "done"]
  /\ UNCHANGED << parentVars, worker, sent >>

ServerFail(q) ==
  /\ session[q] = "running"
  /\ session' = [session EXCEPT ![q] = "failed"]
  /\ UNCHANGED << parentVars, worker, sent >>

\* The idle watchdog connection is lost; the client notices on the next use only.
LoseWatchdog ==
  /\ WatchdogLoss
  /\ watchdog = "open"
  /\ watchdog' = "lost"
  /\ UNCHANGED << cur, parent, read, result, outcome, runtime, worker, sent, session >>

------------------------------------------------------------------------------
(* The worker process: _timeout_query_worker. *)

Send(q, event) == sent' = [sent EXCEPT ![q] = Append(@, event)]
WorkerStep(q, from, to) == worker[q] = from /\ worker' = [worker EXCEPT ![q] = to]

WorkerConnect(q) ==
  /\ WorkerStep(q, "connecting", "connected")
  /\ session' = [session EXCEPT ![q] = "idle"]
  /\ Send(q, "Connected")
  /\ UNCHANGED parentVars

\* No connection: the error is reported and there is nothing to close.
WorkerConnectFails(q) ==
  /\ WorkerStep(q, "connecting", "exited")
  /\ Send(q, "Error")
  /\ UNCHANGED << parentVars, session >>

\* apply_configuration and the preparatory statements of the query
WorkerPrepare(q) ==
  /\ WorkerStep(q, "connected", "ready")
  /\ Send(q, "Ready")
  /\ UNCHANGED << parentVars, session >>

WorkerPrepareFails(q) ==
  /\ WorkerStep(q, "connected", "closing")
  /\ Send(q, "Error")
  /\ UNCHANGED << parentVars, session >>

\* cursor.execute: the statement reaches the server only after Ready was sent.
WorkerExecute(q) ==
  /\ WorkerStep(q, "ready", "executing")
  /\ session' = [session EXCEPT ![q] = "running"]
  /\ UNCHANGED << parentVars, sent >>

WorkerQueryFinished(q) ==
  /\ session[q] = "done"
  /\ WorkerStep(q, "executing", "fetching")
  /\ session' = [session EXCEPT ![q] = "idle"]
  /\ Send(q, "Finished")
  /\ UNCHANGED parentVars

\* A server error and a cancellation both surface as psycopg errors.
WorkerQueryFails(q) ==
  /\ session[q] \in {"failed", "cancelled"}
  /\ WorkerStep(q, "executing", "closing")
  /\ session' = [session EXCEPT ![q] = "idle"]
  /\ Send(q, "Error")
  /\ UNCHANGED parentVars

WorkerFetchRows(q) ==
  /\ WorkerStep(q, "fetching", "closing")
  /\ Send(q, "Rows")
  /\ UNCHANGED << parentVars, session >>

\* A statement without a result: the missing return after sending it makes the
\* worker go on to fetchall(), which raises, so that an error follows.
WorkerSendNull(q) ==
  /\ WorkerStep(q, "fetching", "null_sent")
  /\ Send(q, "Null")
  /\ UNCHANGED << parentVars, session >>

WorkerFetchFails(q) ==
  /\ \/ WorkerStep(q, "fetching", "closing")
     \/ WorkerStep(q, "null_sent", "closing")
  /\ Send(q, "Error")
  /\ UNCHANGED << parentVars, session >>

WorkerClose(q) ==
  /\ WorkerStep(q, "closing", "exited")
  /\ session' = [session EXCEPT ![q] = "gone"]
  /\ UNCHANGED << parentVars, sent >>

Alive(q) == worker[q] \notin {"none", "exited", "killed"}

Kill(q) ==
  IF Alive(q)
  THEN /\ worker' = [worker EXCEPT ![q] = "killed"]
       /\ session' = [session EXCEPT ![q] = Dropped(@)]
  ELSE UNCHANGED << worker, session >>

WorkerDies(q) ==
  /\ WorkerCrash
  /\ Alive(q)
  /\ Kill(q)
  /\ UNCHANGED << parentVars, sent >>

------------------------------------------------------------------------------
(* The calling process: _TimeoutQueryExecutor.execute_query and the state    *)
(* functions _timeout_worker_*.                                              *)

WatchdogReady == IF watchdog = "none" THEN "open" ELSE watchdog

StartCall ==
  /\ parent = "idle" /\ cur < MaxCalls
  /\ cur' = cur + 1
  /\ parent' = "ctl"
  /\ read' = 0
  /\ result' = "none"
  /\ watchdog' = WatchdogReady
  /\ worker' = [worker EXCEPT ![cur + 1] = "connecting"]
  /\ UNCHANGED << outcome, runtime, sent, session >>

\* _init_watchdog cannot connect, or _pg_fingerprint cannot read the settings.
StartCallFails ==
  /\ parent = "idle" /\ cur < MaxCalls
  /\ cur' = cur + 1
  /\ outcome' = [outcome EXCEPT ![cur + 1] = "raised"]
  /\ watchdog' \in {watchdog, WatchdogReady}
  /\ UNCHANGED << parent, read, result, runtime, worker, sent, session >>

\* execute_query without a timeout, on the connection of the parent itself
DirectQuery ==
  /\ parent = "idle" /\ cur < MaxCalls
  /\ cur' = cur + 1
  /\ \/ \E o \in {"rows", "null"} : outcome' = [outcome EXCEPT ![cur + 1] = o]
        /\ runtime' = [of |-> cur + 1, kind |-> "measured"]
     \/ /\ outcome' = [outcome EXCEPT ![cur + 1] = "raised"]
        /\ runtime' \in {runtime, [of |-> cur + 1, kind |-> "measured"]}
  /\ UNCHANGED << parent, read, result, watchdog, worker, sent, session >>

\* reset_connection: closes the old executor; a new one comes with a NaN runtime,
\* unless the server refuses the new connection.
ResetConnection ==
  /\ parent = "idle"
  /\ watchdog' = "none"
  /\ runtime' \in {Nan, runtime}
  /\ UNCHANGED << cur, parent, read, result, outcome, worker, sent, session >>

EventAvailable == read < Len(sent[cur])
Event == sent[cur][read + 1]

\* Variant: the preparation state forgets about errors of the worker.
TransitionPrepWithoutError(state, event) ==
  CASE state = "ctl" /\ event = "Connected"            -> << "prep", "none" >>
    [] state = "ctl" /\ event = "Error"                -> << "join", "failure" >>
    [] state = "prep" /\ event = "Ready"               -> << "run_query", "none" >>
    [] state = "run_query" /\ event = "Finished"       -> << "await_result", "none" >>
    [] state = "await_result" /\ event = "Rows"        -> << "join", "rows" >>
    [] state = "await_result" /\ event = "Null"        -> << "join", "null" >>
    [] state \notin {"ctl", "prep"} /\ event = "Error" -> << "abort", "failure" >>
    [] OTHER                                           -> << "state_error", "none" >>

\* What a state function does with an event: (next state, status it returns).
Transition(state, event) ==
  CASE state = "ctl" /\ event = "Connected"         -> << "prep", "none" >>
    [] state = "ctl" /\ event = "Error"             -> << "join", "failure" >>
    [] state = "prep" /\ event = "Ready"            -> << "run_query", "none" >>
    [] state = "run_query" /\ event = "Finished"    -> << "await_result", "none" >>
    [] state = "await_result" /\ event = "Rows"     -> << "join", "rows" >>
    [] state = "await_result" /\ event = "Null"     -> << "join", "null" >>
    [] state # "ctl" /\ event = "Error"             -> << "abort", "failure" >>
    [] OTHER                                        -> << "state_error", "none" >>

Receive ==
  /\ parent \in {"ctl", "prep", "run_query", "await_result"}
  /\ EventAvailable
  /\ read' = read + 1
  /\ parent' = Transition(parent, Event)[1]
  /\ result' = Transition(parent, Event)[2]
  /\ UNCHANGED << cur, outcome, runtime, watchdog, worker, sent, session >>

\* Variant: poll() without its timeout waits until there is an event.
PollForever ==
  /\ parent = "run_query"
  /\ EventAvailable
  /\ UNCHANGED vars

\* Variant: the timeout is reported as an ordinary failure.
PollTimeoutAsFailure ==
  /\ parent = "run_query"
  /\ ~EventAvailable
  /\ parent' = "abort"
  /\ result' = "failure"
  /\ UNCHANGED << cur, read, outcome, runtime, watchdog, worker, sent, session >>

\* status_pipe.poll(timeout) gives up: only ever on an empty pipe
PollTimeout ==
  /\ parent = "run_query"
  /\ ~EventAvailable
  /\ parent' = "abort"
  /\ result' = "timeout"
  /\ UNCHANGED << cur, read, outcome, runtime, watchdog, worker, sent, session >>

\* _abort_backend over the watchdog
AbortBackend ==
  /\ parent = "abort"
  /\ watchdog = "open"
  /\ session' = [session EXCEPT ![cur] = Cancelled(@)]
  /\ parent' = IF result = "timeout" THEN "terminate" ELSE "join"
  /\ UNCHANGED << cur, read, result, outcome, runtime, watchdog, worker, sent >>

\* The watchdog is gone: its psycopg error leaves execute_query at once, before
\* the worker is terminated or joined and before the runtime is updated.
AbortBackendFails ==
  /\ parent = "abort"
  /\ watchdog = "lost"
  /\ parent' = "idle"
  /\ outcome' = [outcome EXCEPT ![cur] = "raised"]
  /\ UNCHANGED << cur, read, result, runtime, watchdog, worker, sent, session >>

TerminateWorker ==
  /\ parent = "terminate"
  /\ Kill(cur)
  /\ parent' = "join"
  /\ UNCHANGED << cur, read, result, outcome, runtime, watchdog, sent >>

Published(res) == CASE res = "timeout" -> [of |-> cur, kind |-> "timeout"]
                    [] res = "failure" -> Nan
                    [] OTHER           -> [of |-> cur, kind |-> "measured"]

\* Variant: the worker is not joined.
ReturnWithoutJoin ==
  /\ parent = "join"
  /\ parent' = "idle"
  /\ outcome' = [outcome EXCEPT ![cur] = result]
  /\ runtime' = Published(result)
  /\ UNCHANGED << cur, read, result, watchdog, worker, sent, session >>

\* Variant: a failed call leaves the runtime alone.
ReturnKeepingRuntime ==
  /\ parent = "join"
  /\ ~Alive(cur)
  /\ parent' = "idle"
  /\ outcome' = [outcome EXCEPT ![cur] = result]
  /\ runtime' = IF result = "failure" THEN runtime ELSE Published(result)
  /\ UNCHANGED << cur, read, result, watchdog, worker, sent, session >>

\* join, close the pipe, publish the runtime and hand the result to the caller
JoinAndReturn ==
  /\ parent = "join"
  /\ ~Alive(cur)
  /\ parent' = "idle"
  /\ outcome' = [outcome EXCEPT ![cur] = result]
  /\ runtime' = Published(result)
  /\ UNCHANGED << cur, read, result, watchdog, worker, sent, session >>

------------------------------------------------------------------------------
ParentNext ==
  \/ StartCall \/ StartCallFails \/ DirectQuery \/ ResetConnection
  \/ Receive \/ PollTimeout \/ AbortBackend \/ AbortBackendFails
  \/ TerminateWorker \/ JoinAndReturn

WorkerNext(q) ==
  \/ WorkerConnect(q) \/ WorkerConnectFails(q)
  \/ WorkerPrepare(q) \/ WorkerPrepareFails(q)
  \/ WorkerExecute(q) \/ WorkerQueryFinished(q) \/ WorkerQueryFails(q)
  \/ WorkerFetchRows(q) \/ WorkerSendNull(q) \/ WorkerFetchFails(q)
  \/ WorkerClose(q)

ServerNext(q) == ServerFinish(q) \/ ServerFail(q)

Next ==
  \/ ParentNext
  \/ \E q \in Calls : WorkerNext(q) \/ ServerNext(q) \/ WorkerDies(q)
  \/ LoseWatchdog

Spec == Init /\ [][Next]_vars

(* The parent's own statements, the timer and the worker's code keep running; *)
(* how long the server takes for the query itself is left open.               *)
ParentFairness == WF_vars(Receive \/ PollTimeout \/ AbortBackend \/ AbortBackendFails
                          \/ TerminateWorker \/ JoinAndReturn)
WorkerFairness == \A q \in Calls : WF_vars(WorkerNext(q))

FairSpec == Spec /\ ParentFairness /\ WorkerFairness

------------------------------------------------------------------------------
(* Properties *)

\* The state functions never meet an event they do not expect: StateError
\* ("Unexpected event") is dead code, whatever the worker, its crash, the server
\* and the timer do (_pg.py 2419-2494).
NoUnexpectedEvent == parent # "state_error"

\* A call that returned a result or a worker's error is over on every side: its
\* worker process is gone and its server session is closed (join in
\* execute_query, close in the worker's finally).
ReturnedCallIsOver ==
  \A q \in Calls :
    outcome[q] \in {"rows", "null", "failure"} => ~Alive(q) /\ session[q] \in {"none", "gone"}

\* Two worker processes run at the same time only after a call that left
\* execute_query with the watchdog's error instead of joining its worker.
WorkersDoNotOverlap ==
  \A q \in Calls : Alive(q) => (q = cur /\ parent # "idle") \/ outcome[q] = "raised"

\* last_query_runtime is never that of an earlier query once a timed call came
\* back with a result, a timeout or the worker's error.
RuntimeOfLatestCall ==
  parent = "idle" /\ cur > 0 /\ outcome[cur] # "raised" => runtime.of = cur \/ runtime = Nan

\* A statement is interrupted only for a timeout, and only the current call's:
\* the cancellations sent after an error never hit a running statement.
OnlyTimeoutCancels ==
  [][\A q \in Calls :
       session[q] = "running" /\ session'[q] = "cancelled"
         => q = cur /\ parent = "abort" /\ result = "timeout"]_vars

\* The documentation's claim: a query that takes longer than the timeout is
\* cancelled (class docstring, _pg.py 2610), so a call that raised TimeoutError
\* leaves no statement running.
TimeoutCancelsQuery ==
  \A q \in Calls : outcome[q] = "timeout" => session[q] # "orphan"

\* Every call comes back to its caller, unless its worker died while the parent was
\* in one of the states that wait for an event without a time limit.
CallReturnsUnlessWorkerDied ==
  \A q \in Calls :
    (cur = q) ~> \/ outcome[q] # "none"
                 \/ worker[q] = "killed" /\ parent \in {"ctl", "prep", "await_result"}

\* What the executor promises to its callers, see TimedExecution.
Promise == INSTANCE TimedExecution WITH
  calls  <- cur,
  active <- IF parent = "idle" THEN 0 ELSE cur,
  busy   <- {q \in Calls : session[q] \in {"running", "orphan"}}
ImplementsTimedExecution == Promise!Spec

------------------------------------------------------------------------------
(* The inductive invariant behind NoUnexpectedEvent, ReturnedCallIsOver,     *)
(* WorkersDoNotOverlap and OnlyTimeoutCancels.                               *)

\* The undisturbed course of events; every event but the last of a trace is on it.
Course == << "Connected", "Ready", "Finished", "Null" >>
OnCourse(t) == \A i \in 1 .. Len(t) : i < Len(t) => i \in 1 .. 4 /\ t[i] = Course[i]
Trace(t, n, last) == Len(t) = n /\ OnCourse(t) /\ t[n] = last
Failed(t) == Len(t) > 0 /\ t[Len(t)] = "Error"
Complete(t) == OnCourse(t) /\ (Trace(t, 4, "Rows") \/ (Failed(t) /\ Len(t) \in 2 .. 5))

\* Worker, session and the events sent so far agree at every point of the worker.
WorkerConsistent(q) ==
  CASE worker[q] \in {"none", "connecting"} -> Len(sent[q]) = 0 /\ session[q] = "none"
    [] worker[q] = "connected" -> Trace(sent[q], 1, "Connected") /\ session[q] = "idle"
    [] worker[q] = "ready"     -> Trace(sent[q], 2, "Ready") /\ session[q] = "idle"
    [] worker[q] = "executing" -> /\ Trace(sent[q], 2, "Ready")
                                  /\ session[q] \in {"running", "done", "failed", "cancelled"}
    [] worker[q] = "fetching"  -> Trace(sent[q], 3, "Finished") /\ session[q] = "idle"
    [] worker[q] = "null_sent" -> Trace(sent[q], 4, "Null") /\ session[q] = "idle"
    [] worker[q] = "closing"   -> Complete(sent[q]) /\ session[q] = "idle"
    [] worker[q] = "exited"    -> \/ Trace(sent[q], 1, "Error") /\ session[q] = "none"
                                  \/ Complete(sent[q]) /\ session[q] = "gone"
    [] worker[q] = "killed"    -> /\ \/ Len(sent[q]) = 0
                                     \/ \E n \in 1 .. 4 : Trace(sent[q], n, Course[n])
                                     \/ Complete(sent[q])
                                  /\ session[q] \in {"none", "orphan", "gone"}
                                  /\ session[q] = "orphan" => Trace(sent[q], 2, "Ready")

\* The events the parent has read are those its state stands for.
ReadOnCourse(n) ==
  read = n /\ Len(sent[cur]) >= n /\ \A i \in 1 .. n : sent[cur][i] = Course[i]

ParentConsistent ==
  /\ parent # "idle" => cur # 0 /\ outcome[cur] = "none" /\ worker[cur] # "none"
  /\ parent = "ctl" => read = 0
  /\ parent = "prep" => ReadOnCourse(1)
  /\ parent = "run_query" => ReadOnCourse(2)
  /\ parent = "await_result" => ReadOnCourse(3)
  /\ parent = "abort" => result \in {"timeout", "failure"}
  /\ parent = "terminate" => result = "timeout"
  /\ parent = "join" => result # "none"
  /\ parent \in {"abort", "join"} /\ result = "failure" => Failed(sent[cur])
  /\ parent = "join" /\ result \in {"rows", "null"} => Len(sent[cur]) >= 4
  /\ parent = "join" /\ result = "timeout" => ~Alive(cur)

CallConsistent(q) ==
  /\ q > cur => worker[q] = "none" /\ outcome[q] = "none"
  /\ Alive(q) => (q = cur /\ parent # "idle") \/ outcome[q] = "raised"
  /\ outcome[q] \in {"rows", "null", "failure"} => ~Alive(q) /\ session[q] \in {"none", "gone"}

\* Inductive: every event the parent finds in the pipe is one its state handles,
\* an error is reported only by a worker without a running statement, and workers
\* survive their call only after the watchdog failed.
IndInv ==
  /\ TypeOK
  /\ parent # "state_error"
  /\ \A q \in Calls : WorkerConsistent(q)
  /\ ParentConsistent
  /\ \A q \in Calls : CallConsistent(q)
==============================================================================
