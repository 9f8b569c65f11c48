--------------------------- MODULE DuckdbTimeout ----------------------------
(***************************************************************************)
(* Queries with a timeout on DuckDB (class DuckDBDatabase): a call hands   *)
(* its statement to a helper thread, waits for the thread's promise and    *)
(* interrupts the connection if the timeout passes first.  Caller and      *)
(* helper share the connection with its pending result and the field with  *)
(* the runtime of the last query.                                          *)
(*                                                                         *)
(* A connection executes one statement at a time.  An interrupt makes the  *)
(* statement that is executing raise an error and is forgotten when none   *)
(* is: the next statement clears it.                                       *)
(***************************************************************************)
EXTENDS Integers

CONSTANT MaxCalls  \* bound on the number of calls

ASSUME MaxCallsAssumption == MaxCalls \in Nat

VARIABLES
  calls,        \* number of calls so far
  active,       \* the call in progress, 0 if there is none
  pc,           \* where the caller is
  promise,      \* what the helper thread did for each call
  interrupted,  \* the statement being executed was interrupted
  missed,       \* calls whose interrupt came before their statement
  open,         \* the connection is open
  pending,      \* the statement whose rows the connection holds, 0 for none
  runtime,      \* _last_query_runtime
  published,    \* what it was when no call was in progress
  fetched,      \* the statement whose rows each call returned
  outcome       \* what each call gave its caller

vars == << calls, active, pc, promise, interrupted, missed, open, pending,
           runtime, published, fetched, outcome >>

Calls == 1 .. MaxCalls
Nan == [of |-> 0, kind |-> "nan"]
Measured(q) == [of |-> q, kind |-> "measured"]
TimedOut(q) == [of |-> q, kind |-> "timeout"]

Done == {"finished", "failed"}
Executing(q) == promise[q] = "executing"
Busy == {q \in Calls : Executing(q)}

Init ==
  /\ calls = 0 /\ active = 0 /\ pc = "idle"
  /\ promise = [q \in Calls |-> "none"]
  /\ interrupted = FALSE /\ missed = {}
  /\ open = TRUE /\ pending = 0
  /\ runtime = Nan /\ published = Nan
  /\ fetched = [q \in Calls |-> 0]
  /\ outcome = [q \in Calls |-> "none"]

-------------------------------------------------------------------------------
(* The caller. *)

Begin(next) ==
  /\ pc = "idle" /\ calls < MaxCalls
  /\ calls' = calls + 1 /\ active' = calls + 1
  /\ pc' = next

Return(what, measured, rows) ==
  /\ outcome' = [outcome EXCEPT ![active] = what]
  /\ fetched' = [fetched EXCEPT ![active] = rows]
  /\ runtime' = measured /\ published' = measured
  /\ pc' = "idle" /\ active' = 0

\* execute_with_timeout: submit and wait.
ExecuteWithTimeout ==
  /\ Begin("waiting")
  /\ promise' = [promise EXCEPT ![calls + 1] = "queued"]
  /\ UNCHANGED << interrupted, missed, open, pending, runtime, published, fetched, outcome >>

\* The promise is kept in time: the caller fetches what the connection holds.
ResultArrives ==
  /\ pc = "waiting" /\ promise[active] = "finished"
  /\ Return("rows", runtime, pending)
  /\ pending' = 0
  /\ UNCHANGED << calls, promise, interrupted, missed, open >>

ErrorArrives ==
  /\ pc = "waiting" /\ promise[active] = "failed"
  /\ Return("raised", runtime, 0)
  /\ UNCHANGED << calls, promise, interrupted, missed, open, pending >>

TimeoutExpires ==
  /\ pc = "waiting" /\ promise[active] \notin Done
  /\ pc' = "expired"
  /\ UNCHANGED << calls, active, promise, interrupted, missed, open, pending, runtime, published, fetched, outcome >>

\* Variant: the caller does not wait for the helper thread.
InterruptAndReturn ==
  /\ pc = "expired"
  /\ interrupted' = (Busy # {})
  /\ Return("timeout", TimedOut(active), 0)
  /\ UNCHANGED << calls, promise, missed, open, pending >>

\* Variant: nothing is interrupted.
InterruptNothing ==
  /\ pc = "expired"
  /\ pc' = "settling"
  /\ UNCHANGED << calls, active, promise, interrupted, missed, open, pending, runtime, published, fetched, outcome >>

\* The helper thread may not have started the statement or just have finished it.
Interrupt ==
  /\ pc = "expired"
  /\ interrupted' = (Busy # {})
  /\ missed' = IF promise[active] = "queued" THEN missed \union {active} ELSE missed
  /\ pc' = "settling"
  /\ UNCHANGED << calls, active, promise, open, pending, runtime, published, fetched, outcome >>

\* Variant: the measurement of the helper thread stays.
SettledKeeping(measured) == measured

\* The runtime is overwritten after the helper thread's measurement.
Settled(measured) == TimedOut(active)

\* The caller waits once more, without a timeout.  An error of the statement, that it was
\* interrupted included, is raised here and leaves the runtime as it is.
Settle ==
  /\ pc = "settling" /\ promise[active] \in Done
  /\ IF promise[active] = "finished" THEN Return("timeout", Settled(runtime), 0)
                                     ELSE Return("raised", runtime, 0)
  /\ UNCHANGED << calls, promise, interrupted, missed, open, pending >>

\* execute_query without a timeout, on the caller's own thread.
ExecuteQuery ==
  /\ Begin("direct")
  /\ UNCHANGED << promise, interrupted, missed, open, pending, runtime, published, fetched, outcome >>

DirectStatement ==
  /\ pc = "direct" /\ Busy = {} /\ open
  /\ pending' = active
  /\ pc' = "fetching"
  /\ UNCHANGED << calls, active, promise, interrupted, missed, open, runtime, published, fetched, outcome >>

DirectError ==
  /\ pc = "direct" /\ Busy = {}
  /\ Return("raised", runtime, 0)
  /\ pending' = 0
  /\ UNCHANGED << calls, promise, interrupted, missed, open >>

DirectFetch ==
  /\ pc = "fetching"
  /\ Return("rows", Measured(active), pending)
  /\ pending' = 0
  /\ UNCHANGED << calls, promise, interrupted, missed, open >>

Close ==
  /\ pc = "idle"
  /\ open' = FALSE /\ pending' = 0
  /\ UNCHANGED << calls, active, pc, promise, interrupted, missed, runtime, published, fetched, outcome >>

\* reset_connection, and connect for a pooled connection that was closed.
ResetConnection ==
  /\ pc = "idle"
  /\ open' = TRUE /\ pending' = 0
  /\ UNCHANGED << calls, active, pc, promise, interrupted, missed, runtime, published, fetched, outcome >>

-------------------------------------------------------------------------------
(* The helper thread, _execute_worker. *)

StatementStarts(q) ==
  /\ promise[q] = "queued" /\ open
  /\ \A p \in Calls : promise[p] \notin {"executing", "executed"}
  /\ promise' = [promise EXCEPT ![q] = "executing"]
  /\ interrupted' = FALSE
  /\ pending' = 0
  /\ UNCHANGED << calls, active, pc, missed, open, runtime, published, fetched, outcome >>

\* The connection was closed before.
StatementRejected(q) ==
  /\ promise[q] = "queued" /\ ~open
  /\ promise' = [promise EXCEPT ![q] = "failed"]
  /\ UNCHANGED << calls, active, pc, interrupted, missed, open, pending, runtime, published, fetched, outcome >>

StatementEnds(q) ==
  /\ Executing(q)
  /\ \/ promise' = [promise EXCEPT ![q] = "executed"] /\ pending' = q
     \/ promise' = [promise EXCEPT ![q] = "failed"] /\ pending' = 0
  /\ UNCHANGED << calls, active, pc, interrupted, missed, open, runtime, published, fetched, outcome >>

StatementStops(q) ==
  /\ Executing(q) /\ interrupted
  /\ promise' = [promise EXCEPT ![q] = "failed"]
  /\ UNCHANGED << calls, active, pc, interrupted, missed, open, pending, runtime, published, fetched, outcome >>

HelperMeasures(q) ==
  /\ promise[q] = "executed"
  /\ runtime' = Measured(q)
  /\ promise' = [promise EXCEPT ![q] = "finished"]
  /\ UNCHANGED << calls, active, pc, interrupted, missed, open, pending, published, fetched, outcome >>

Next ==
  \/ ExecuteWithTimeout \/ ResultArrives \/ ErrorArrives
  \/ TimeoutExpires \/ Interrupt \/ Settle
  \/ ExecuteQuery \/ DirectStatement \/ DirectError \/ DirectFetch
  \/ Close \/ ResetConnection
  \/ \E q \in Calls : \/ StatementStarts(q) \/ StatementRejected(q) \/ StatementEnds(q)
                      \/ StatementStops(q) \/ HelperMeasures(q)

Spec == Init /\ [][Next]_vars

\* Threads go on and the timeout passes; a statement may run forever.
Fairness ==
  /\ WF_vars(ResultArrives) /\ WF_vars(ErrorArrives) /\ WF_vars(TimeoutExpires)
  /\ WF_vars(Interrupt) /\ WF_vars(Settle)
  /\ \A q \in Calls : /\ WF_vars(StatementStarts(q)) /\ WF_vars(StatementRejected(q))
                      /\ WF_vars(StatementStops(q)) /\ WF_vars(HelperMeasures(q))

FairSpec == Spec /\ Fairness

-------------------------------------------------------------------------------
(* Properties. *)

\* A call that returns rows returns those of its own statement, although they are fetched
\* from the connection it shares with the helper thread (_duckdb.py:147).
RowsAreOfTheCall == \A q \in Calls : outcome[q] = "rows" => fetched[q] = q

\* Between calls the runtime is the one of the latest call that did not raise: measured
\* if it returned rows, infinite if it ran into its timeout, whatever the helper thread
\* wrote in the meantime (_duckdb.py:153).
RuntimeIsOfTheCall ==
  pc = "idle" /\ runtime # Nan =>
    /\ outcome[runtime.of] = CASE runtime.kind = "measured" -> "rows"
                               [] runtime.kind = "timeout" -> "timeout"
    /\ \A q \in Calls : q > runtime.of => outcome[q] \in {"none", "raised"}

\* DuckDB keeps the promise PostgreSQL keeps: one statement at a time on behalf of the
\* call in progress, a runtime published with its outcome (TimedExecution.tla).
T == INSTANCE TimedExecution WITH busy <- Busy, runtime <- published
ImplementsTimedExecution == T!Spec

\* A call with a timeout returns, however long its statement takes, unless the timeout
\* passed before the helper thread got to the statement: then nobody interrupts it
\* (_duckdb.py:150).
CallReturnsUnlessInterruptMissed ==
  \A q \in Calls : (active = q /\ pc = "waiting") ~> (active # q \/ q \in missed)
===============================================================================
