--------------------------- MODULE TimedExecution ----------------------------
(***************************************************************************)
(* What executing queries with a timeout promises to the caller, without   *)
(* worker processes, pipes and watchdog: one call at a time, a statement   *)
(* on the server only on behalf of the call in progress, and a runtime     *)
(* that is published together with the outcome it belongs to.              *)
(***************************************************************************)
EXTENDS Integers

CONSTANT MaxCalls  \* bound on the number of calls

VARIABLES
  calls,    \* number of calls so far
  active,   \* the call in progress, 0 if there is none
  busy,     \* calls whose statement the server is executing
  outcome,  \* what each call gave its caller
  runtime   \* what last_query_runtime() answers

vars == << calls, active, busy, outcome, runtime >>

Calls == 1 .. MaxCalls
Nan == [of |-> 0, kind |-> "nan"]

Init ==
  /\ calls = 0
  /\ active = 0
  /\ busy = {}
  /\ outcome = [q \in Calls |-> "none"]
  /\ runtime = Nan

Begin ==
  /\ active = 0 /\ calls < MaxCalls
  /\ calls' = calls + 1
  /\ active' = calls + 1
  /\ UNCHANGED << busy, outcome, runtime >>

\* A call that is answered without the timeout machinery or before it starts:
\* a direct query, or an error in setting the machinery up.
Immediate ==
  /\ active = 0 /\ calls < MaxCalls
  /\ calls' = calls + 1
  /\ \E o \in {"rows", "null", "raised"} :
       /\ outcome' = [outcome EXCEPT ![calls + 1] = o]
       /\ \/ runtime' = [of |-> calls + 1, kind |-> "measured"]
          \/ o = "raised" /\ UNCHANGED runtime
  /\ UNCHANGED << active, busy >>

\* The statement starts while its call is in progress; only a call that raised
\* because it could not cancel may see its statement start afterwards.
StatementStarts(q) ==
  /\ q \notin busy
  /\ active = q \/ outcome[q] = "raised"
  /\ busy' = busy \union {q}
  /\ UNCHANGED << calls, active, outcome, runtime >>

StatementEnds(q) ==
  /\ q \in busy
  /\ busy' = busy \ {q}
  /\ UNCHANGED << calls, active, outcome, runtime >>

Return ==
  /\ active # 0
  /\ active' = 0
  /\ \/ /\ active \notin busy
        /\ \E o \in {"rows", "null"} : outcome' = [outcome EXCEPT ![active] = o]
        /\ runtime' = [of |-> active, kind |-> "measured"]
     \/ /\ active \notin busy
        /\ outcome' = [outcome EXCEPT ![active] = "failure"]
        /\ runtime' = Nan
     \/ /\ outcome' = [outcome EXCEPT ![active] = "timeout"]
        /\ runtime' = [of |-> active, kind |-> "timeout"]
     \/ /\ outcome' = [outcome EXCEPT ![active] = "raised"]
        /\ UNCHANGED runtime
  /\ UNCHANGED << calls, busy >>

Reset ==
  /\ active = 0
  /\ runtime' = Nan
  /\ UNCHANGED << calls, active, busy, outcome >>

Next ==
  \/ Begin \/ Immediate \/ Return \/ Reset
  \/ \E q \in Calls : StatementStarts(q) \/ StatementEnds(q)

Spec == Init /\ [][Next]_vars
==============================================================================
