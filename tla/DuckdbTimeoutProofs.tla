------------------------ MODULE DuckdbTimeoutProofs -------------------------
(***************************************************************************)
(* For any number of calls: rows and runtimes belong to the call that      *)
(* answers them, and DuckDB implements TimedExecution.                     *)
(***************************************************************************)
EXTENDS DuckdbTimeout, TLAPS

Waiting == {"waiting", "expired", "settling"}
Underway == {"queued", "executing", "executed"}

Runtimes == [of : 0 .. MaxCalls, kind : {"nan", "measured", "timeout"}]

\* The types of everything but the two flags, which take no part in the argument.
TypeInv ==
  /\ calls \in 0 .. MaxCalls /\ active \in 0 .. MaxCalls
  /\ pc \in {"idle", "waiting", "expired", "settling", "direct", "fetching"}
  /\ promise \in [Calls -> {"none", "queued", "executing", "executed", "finished", "failed"}]
  /\ pending \in 0 .. MaxCalls
  /\ runtime \in Runtimes
  /\ published \in Runtimes
  /\ fetched \in [Calls -> 0 .. MaxCalls]
  /\ outcome \in [Calls -> {"none", "rows", "timeout", "raised"}]

\* The caller works for the latest call or for none.
ActiveInv ==
  /\ pc = "idle" <=> active = 0
  /\ active # 0 => active = calls

\* The helper thread only works for the call that waits for it.
HelperInv ==
  /\ \A q \in Calls : promise[q] \in Underway => active = q /\ pc \in Waiting
  /\ pc \in Waiting => promise[active] # "none"
  /\ \A q \in Calls : q > calls => promise[q] = "none"

\* What the connection holds and what the helper thread measured while the caller waits.
PendingInv ==
  /\ \A q \in Calls : promise[q] = "executed" => pending = q
  /\ pc \in Waiting /\ promise[active] = "finished" => pending = active /\ runtime = Measured(active)
  /\ pc = "fetching" => pending = active
  /\ ~(pc \in Waiting /\ promise[active] = "finished") => runtime = published

\* Outcomes are those of earlier calls.
OutcomeInv ==
  /\ \A q \in Calls : outcome[q] # "none" => q <= calls /\ q # active
  /\ \A q \in Calls : outcome[q] = "rows" => fetched[q] = q

\* The runtime between calls belongs to the latest call that did not raise.
PublishedInv ==
  published # Nan =>
    /\ published.of \in Calls /\ published.of <= calls /\ published.of # active
    /\ published.kind \in {"measured", "timeout"}
    /\ published.kind = "measured" => outcome[published.of] = "rows"
    /\ published.kind = "timeout" => outcome[published.of] = "timeout"
    /\ \A q \in Calls : q > published.of => outcome[q] \in {"none", "raised"}

IInv ==
  TypeInv /\ ActiveInv /\ HelperInv /\ PendingInv /\ OutcomeInv /\ PublishedInv

LEMMA InitIInv == Init => IInv
<1> SUFFICES ASSUME Init PROVE IInv
  OBVIOUS
<1>1. TypeInv
  BY MaxCallsAssumption DEF MaxCallsAssumption, Init, TypeInv, Runtimes, Calls, Nan
<1>2. ActiveInv /\ HelperInv
  BY DEF Init, ActiveInv, HelperInv, Waiting, Underway
<1>3. PendingInv /\ OutcomeInv
  BY DEF Init, PendingInv, OutcomeInv, Waiting
<1>4. PublishedInv
  BY DEF Init, PublishedInv
<1> QED
  BY <1>1, <1>2, <1>3, <1>4 DEF IInv

LEMMA ReturnTypes ==
  ASSUME TypeInv,
         NEW what \in {"rows", "timeout", "raised"},
         NEW measured \in Runtimes,
         NEW rows \in 0 .. MaxCalls,
         Return(what, measured, rows)
  PROVE  /\ outcome' \in [Calls -> {"none", "rows", "timeout", "raised"}]
         /\ fetched' \in [Calls -> 0 .. MaxCalls]
         /\ runtime' \in Runtimes /\ published' \in Runtimes
         /\ pc' = "idle" /\ active' = 0
<1>1. outcome' \in [Calls -> {"none", "rows", "timeout", "raised"}]
  BY DEF TypeInv, Return
<1>2. fetched' \in [Calls -> 0 .. MaxCalls]
  BY DEF TypeInv, Return
<1> QED
  BY <1>1, <1>2 DEF Return

LEMMA ExecuteWithTimeoutIInv ==
  ASSUME IInv, ExecuteWithTimeout
  PROVE  IInv'
<1>1. IInv /\ ExecuteWithTimeout
  OBVIOUS
<1>2. TypeInv /\ ActiveInv /\ HelperInv /\ PendingInv /\ OutcomeInv /\ PublishedInv
  BY DEF IInv
<1>3. TypeInv'
  BY <1>1, <1>2, MaxCallsAssumption DEF MaxCallsAssumption, ExecuteWithTimeout, Begin, TypeInv, Calls
<1>4. ActiveInv'
  BY <1>1, <1>2, MaxCallsAssumption DEF MaxCallsAssumption, ExecuteWithTimeout, Begin, TypeInv, ActiveInv, Calls
<1>5. HelperInv'
  BY <1>1, <1>2, MaxCallsAssumption DEF MaxCallsAssumption, ExecuteWithTimeout, Begin, TypeInv, ActiveInv, HelperInv, Waiting, Underway, Calls
<1>6. PendingInv'
  BY <1>1, <1>2, MaxCallsAssumption DEF MaxCallsAssumption, ExecuteWithTimeout, Begin, TypeInv, ActiveInv, HelperInv, PendingInv, Waiting, Underway, Calls, Measured
<1>7. OutcomeInv'
  BY <1>1, <1>2, MaxCallsAssumption DEF MaxCallsAssumption, ExecuteWithTimeout, Begin, TypeInv, ActiveInv, PendingInv, OutcomeInv, Waiting, Calls
<1>8. PublishedInv'
  BY <1>1, <1>2, MaxCallsAssumption DEF MaxCallsAssumption, ExecuteWithTimeout, Begin, TypeInv, ActiveInv, PendingInv, OutcomeInv, PublishedInv, Waiting, Calls, Measured, Nan
<1> QED
  BY <1>3, <1>4, <1>5, <1>6, <1>7, <1>8 DEF IInv

LEMMA ResultArrivesIInv ==
  ASSUME IInv, ResultArrives
  PROVE  IInv'
<1>1. IInv /\ ResultArrives
  OBVIOUS
<1>2. TypeInv /\ ActiveInv /\ HelperInv /\ PendingInv /\ OutcomeInv /\ PublishedInv
  BY DEF IInv
<1>3. TypeInv'
  <2>1. runtime \in Runtimes /\ pending \in 0 .. MaxCalls
    BY <1>2, MaxCallsAssumption DEF MaxCallsAssumption, TypeInv, Runtimes, Measured, TimedOut
  <2>2. Return("rows", runtime, pending)
    BY <1>1 DEF ResultArrives
  <2>3. calls' = calls /\ promise' = promise /\ pending' \in 0 .. MaxCalls
    BY <1>1, <1>2, MaxCallsAssumption DEF MaxCallsAssumption, TypeInv, ResultArrives
  <2> QED
    BY <1>2, <2>1, <2>2, <2>3, ReturnTypes, MaxCallsAssumption DEF MaxCallsAssumption, TypeInv
<1>4. ActiveInv'
  BY <1>1, <1>2, MaxCallsAssumption DEF MaxCallsAssumption, ResultArrives, Return, TimedOut, Measured, TypeInv, ActiveInv, Calls, Done
<1>5. HelperInv'
  BY <1>1, <1>2, MaxCallsAssumption DEF MaxCallsAssumption, ResultArrives, Return, TimedOut, Measured, TypeInv, ActiveInv, HelperInv, Waiting, Underway, Calls, Done
<1>6. PendingInv'
  BY <1>1, <1>2, MaxCallsAssumption DEF MaxCallsAssumption, ResultArrives, Return, TimedOut, Measured, TypeInv, ActiveInv, HelperInv, PendingInv, Waiting, Underway, Calls, Done
<1>7. OutcomeInv'
  BY <1>1, <1>2, MaxCallsAssumption DEF MaxCallsAssumption, ResultArrives, Return, TimedOut, Measured, TypeInv, ActiveInv, PendingInv, OutcomeInv, Waiting, Calls, Done
<1>8. PublishedInv'
  BY <1>1, <1>2, MaxCallsAssumption DEF MaxCallsAssumption, ResultArrives, Return, TimedOut, Measured, TypeInv, ActiveInv, PendingInv, OutcomeInv, PublishedInv, Waiting, Calls, Done, Nan
<1> QED
  BY <1>3, <1>4, <1>5, <1>6, <1>7, <1>8 DEF IInv

LEMMA ErrorArrivesIInv ==
  ASSUME IInv, ErrorArrives
  PROVE  IInv'
<1>1. IInv /\ ErrorArrives
  OBVIOUS
<1>2. TypeInv /\ ActiveInv /\ HelperInv /\ PendingInv /\ OutcomeInv /\ PublishedInv
  BY DEF IInv
<1>3. TypeInv'
  <2>1. runtime \in Runtimes /\ 0 \in 0 .. MaxCalls
    BY <1>2, MaxCallsAssumption DEF MaxCallsAssumption, TypeInv, Runtimes, Measured, TimedOut
  <2>2. Return("raised", runtime, 0)
    BY <1>1 DEF ErrorArrives
  <2>3. calls' = calls /\ promise' = promise /\ pending' \in 0 .. MaxCalls
    BY <1>1, <1>2, MaxCallsAssumption DEF MaxCallsAssumption, TypeInv, ErrorArrives
  <2> QED
    BY <1>2, <2>1, <2>2, <2>3, ReturnTypes, MaxCallsAssumption DEF MaxCallsAssumption, TypeInv
<1>4. ActiveInv'
  BY <1>1, <1>2, MaxCallsAssumption DEF MaxCallsAssumption, ErrorArrives, Return, TimedOut, Measured, TypeInv, ActiveInv, Calls, Done
<1>5. HelperInv'
  BY <1>1, <1>2, MaxCallsAssumption DEF MaxCallsAssumption, ErrorArrives, Return, TimedOut, Measured, TypeInv, ActiveInv, HelperInv, Waiting, Underway, Calls, Done
<1>6. PendingInv'
  BY <1>1, <1>2, MaxCallsAssumption DEF MaxCallsAssumption, ErrorArrives, Return, TimedOut, Measured, TypeInv, ActiveInv, HelperInv, PendingInv, Waiting, Underway, Calls, Done
<1>7. OutcomeInv'
  BY <1>1, <1>2, MaxCallsAssumption DEF MaxCallsAssumption, ErrorArrives, Return, TimedOut, Measured, TypeInv, ActiveInv, PendingInv, OutcomeInv, Waiting, Calls, Done
<1>8. PublishedInv'
  BY <1>1, <1>2, MaxCallsAssumption DEF MaxCallsAssumption, ErrorArrives, Return, TimedOut, Measured, TypeInv, ActiveInv, PendingInv, OutcomeInv, PublishedInv, Waiting, Calls, Done, Nan
<1> QED
  BY <1>3, <1>4, <1>5, <1>6, <1>7, <1>8 DEF IInv

LEMMA TimeoutExpiresIInv ==
  ASSUME IInv, TimeoutExpires
  PROVE  IInv'
<1>1. IInv /\ TimeoutExpires
  OBVIOUS
<1>2. TypeInv /\ ActiveInv /\ HelperInv /\ PendingInv /\ OutcomeInv /\ PublishedInv
  BY DEF IInv
<1>3. TypeInv'
  BY <1>1, <1>2, MaxCallsAssumption DEF MaxCallsAssumption, TimeoutExpires, TypeInv, Calls, Done
<1>4. ActiveInv'
  BY <1>1, <1>2, MaxCallsAssumption DEF MaxCallsAssumption, TimeoutExpires, TypeInv, ActiveInv, Calls, Done
<1>5. HelperInv'
  BY <1>1, <1>2, MaxCallsAssumption DEF MaxCallsAssumption, TimeoutExpires, TypeInv, ActiveInv, HelperInv, Waiting, Underway, Calls, Done
<1>6. PendingInv'
  BY <1>1, <1>2, MaxCallsAssumption DEF MaxCallsAssumption, TimeoutExpires, TypeInv, ActiveInv, HelperInv, PendingInv, Waiting, Underway, Calls, Measured, Done
<1>7. OutcomeInv'
  BY <1>1, <1>2, MaxCallsAssumption DEF MaxCallsAssumption, TimeoutExpires, TypeInv, ActiveInv, PendingInv, OutcomeInv, Waiting, Calls, Done
<1>8. PublishedInv'
  BY <1>1, <1>2, MaxCallsAssumption DEF MaxCallsAssumption, TimeoutExpires, TypeInv, ActiveInv, PendingInv, OutcomeInv, PublishedInv, Waiting, Calls, Measured, Done, Nan
<1> QED
  BY <1>3, <1>4, <1>5, <1>6, <1>7, <1>8 DEF IInv

LEMMA InterruptIInv ==
  ASSUME IInv, Interrupt
  PROVE  IInv'
<1>1. IInv /\ Interrupt
  OBVIOUS
<1>2. TypeInv /\ ActiveInv /\ HelperInv /\ PendingInv /\ OutcomeInv /\ PublishedInv
  BY DEF IInv
<1>3. TypeInv'
  BY <1>1, <1>2, MaxCallsAssumption DEF MaxCallsAssumption, Interrupt, TypeInv, Calls
<1>4. ActiveInv'
  BY <1>1, <1>2, MaxCallsAssumption DEF MaxCallsAssumption, Interrupt, TypeInv, ActiveInv, Calls
<1>5. HelperInv'
  BY <1>1, <1>2, MaxCallsAssumption DEF MaxCallsAssumption, Interrupt, TypeInv, ActiveInv, HelperInv, Waiting, Underway, Calls
<1>6. PendingInv'
  BY <1>1, <1>2, MaxCallsAssumption DEF MaxCallsAssumption, Interrupt, TypeInv, ActiveInv, HelperInv, PendingInv, Waiting, Underway, Calls, Measured
<1>7. OutcomeInv'
  BY <1>1, <1>2, MaxCallsAssumption DEF MaxCallsAssumption, Interrupt, TypeInv, ActiveInv, PendingInv, OutcomeInv, Waiting, Calls
<1>8. PublishedInv'
  BY <1>1, <1>2, MaxCallsAssumption DEF MaxCallsAssumption, Interrupt, TypeInv, ActiveInv, PendingInv, OutcomeInv, PublishedInv, Waiting, Calls, Measured, Nan
<1> QED
  BY <1>3, <1>4, <1>5, <1>6, <1>7, <1>8 DEF IInv

LEMMA SettleIInv ==
  ASSUME IInv, Settle
  PROVE  IInv'
<1>1. IInv /\ Settle
  OBVIOUS
<1>2. TypeInv /\ ActiveInv /\ HelperInv /\ PendingInv /\ OutcomeInv /\ PublishedInv
  BY DEF IInv
<1>3. TypeInv'
  <2>1. runtime \in Runtimes /\ TimedOut(active) \in Runtimes /\ 0 \in 0 .. MaxCalls
    BY <1>2, MaxCallsAssumption DEF MaxCallsAssumption, TypeInv, Runtimes, TimedOut
  <2>2. \/ Return("timeout", TimedOut(active), 0)
        \/ Return("raised", runtime, 0)
    BY <1>1 DEF Settle, Settled
  <2>3. calls' = calls /\ promise' = promise /\ pending' = pending
    BY <1>1 DEF Settle
  <2> QED
    BY <1>2, <2>1, <2>2, <2>3, ReturnTypes, MaxCallsAssumption DEF MaxCallsAssumption, TypeInv
<1>4. ActiveInv'
  BY <1>1, <1>2, MaxCallsAssumption DEF MaxCallsAssumption, Settle, Return, TimedOut, Measured, Settled, TypeInv, ActiveInv, Calls, Done
<1>5. HelperInv'
  BY <1>1, <1>2, MaxCallsAssumption DEF MaxCallsAssumption, Settle, Return, TimedOut, Measured, Settled, TypeInv, ActiveInv, HelperInv, Waiting, Underway, Calls, Done
<1>6. PendingInv'
  BY <1>1, <1>2, MaxCallsAssumption DEF MaxCallsAssumption, Settle, Return, TimedOut, Measured, Settled, TypeInv, ActiveInv, HelperInv, PendingInv, Waiting, Underway, Calls, Done
<1>7. OutcomeInv'
  <2>1. active \in Calls /\ active' = 0 /\ calls' = calls /\ active = calls
    BY <1>1, <1>2 DEF Settle, Return, ActiveInv, TypeInv, Calls
  <2>2. PICK what \in {"timeout", "raised"} :
          /\ outcome' = [outcome EXCEPT ![active] = what]
          /\ fetched' = [fetched EXCEPT ![active] = 0]
    BY <1>1 DEF Settle, Return
  <2> QED
    BY <1>2, <2>1, <2>2 DEF OutcomeInv, TypeInv, Calls
<1>8. PublishedInv'
  BY <1>1, <1>2, MaxCallsAssumption DEF MaxCallsAssumption, Settle, Return, TimedOut, Measured, Settled, TypeInv, Runtimes, ActiveInv, PendingInv, OutcomeInv, PublishedInv, Waiting, Calls, Done, Nan
<1> QED
  BY <1>3, <1>4, <1>5, <1>6, <1>7, <1>8 DEF IInv

LEMMA ExecuteQueryIInv ==
  ASSUME IInv, ExecuteQuery
  PROVE  IInv'
<1>1. IInv /\ ExecuteQuery
  OBVIOUS
<1>2. TypeInv /\ ActiveInv /\ HelperInv /\ PendingInv /\ OutcomeInv /\ PublishedInv
  BY DEF IInv
<1>3. TypeInv'
  BY <1>1, <1>2, MaxCallsAssumption DEF MaxCallsAssumption, ExecuteQuery, Begin, TypeInv, Calls
<1>4. ActiveInv'
  BY <1>1, <1>2, MaxCallsAssumption DEF MaxCallsAssumption, ExecuteQuery, Begin, TypeInv, ActiveInv, Calls
<1>5. HelperInv'
  BY <1>1, <1>2, MaxCallsAssumption DEF MaxCallsAssumption, ExecuteQuery, Begin, TypeInv, ActiveInv, HelperInv, Waiting, Underway, Calls
<1>6. PendingInv'
  BY <1>1, <1>2, MaxCallsAssumption DEF MaxCallsAssumption, ExecuteQuery, Begin, TypeInv, ActiveInv, HelperInv, PendingInv, Waiting, Underway, Calls, Measured
<1>7. OutcomeInv'
  BY <1>1, <1>2, MaxCallsAssumption DEF MaxCallsAssumption, ExecuteQuery, Begin, TypeInv, ActiveInv, PendingInv, OutcomeInv, Waiting, Calls
<1>8. PublishedInv'
  BY <1>1, <1>2, MaxCallsAssumption DEF MaxCallsAssumption, ExecuteQuery, Begin, TypeInv, ActiveInv, PendingInv, OutcomeInv, PublishedInv, Waiting, Calls, Measured, Nan
<1> QED
  BY <1>3, <1>4, <1>5, <1>6, <1>7, <1>8 DEF IInv

LEMMA DirectStatementIInv ==
  ASSUME IInv, DirectStatement
  PROVE  IInv'
<1>1. IInv /\ DirectStatement
  OBVIOUS
<1>2. TypeInv /\ ActiveInv /\ HelperInv /\ PendingInv /\ OutcomeInv /\ PublishedInv
  BY DEF IInv
<1>3. TypeInv'
  BY <1>1, <1>2, MaxCallsAssumption DEF MaxCallsAssumption, DirectStatement, Busy, Executing, TypeInv, Calls
<1>4. ActiveInv'
  BY <1>1, <1>2, MaxCallsAssumption DEF MaxCallsAssumption, DirectStatement, Busy, Executing, TypeInv, ActiveInv, Calls
<1>5. HelperInv'
  BY <1>1, <1>2, MaxCallsAssumption DEF MaxCallsAssumption, DirectStatement, Busy, Executing, TypeInv, ActiveInv, HelperInv, Waiting, Underway, Calls
<1>6. PendingInv'
  BY <1>1, <1>2, MaxCallsAssumption DEF MaxCallsAssumption, DirectStatement, Busy, Executing, TypeInv, ActiveInv, HelperInv, PendingInv, Waiting, Underway, Calls, Measured
<1>7. OutcomeInv'
  BY <1>1, <1>2, MaxCallsAssumption DEF MaxCallsAssumption, DirectStatement, Busy, Executing, TypeInv, ActiveInv, PendingInv, OutcomeInv, Waiting, Calls
<1>8. PublishedInv'
  BY <1>1, <1>2, MaxCallsAssumption DEF MaxCallsAssumption, DirectStatement, Busy, Executing, TypeInv, ActiveInv, PendingInv, OutcomeInv, PublishedInv, Waiting, Calls, Measured, Nan
<1> QED
  BY <1>3, <1>4, <1>5, <1>6, <1>7, <1>8 DEF IInv

LEMMA DirectErrorIInv ==
  ASSUME IInv, DirectError
  PROVE  IInv'
<1>1. IInv /\ DirectError
  OBVIOUS
<1>2. TypeInv /\ ActiveInv /\ HelperInv /\ PendingInv /\ OutcomeInv /\ PublishedInv
  BY DEF IInv
<1>3. TypeInv'
  <2>1. runtime \in Runtimes /\ 0 \in 0 .. MaxCalls
    BY <1>2, MaxCallsAssumption DEF MaxCallsAssumption, TypeInv, Runtimes, Measured, TimedOut
  <2>2. Return("raised", runtime, 0)
    BY <1>1 DEF DirectError
  <2>3. calls' = calls /\ promise' = promise /\ pending' \in 0 .. MaxCalls
    BY <1>1, <1>2, MaxCallsAssumption DEF MaxCallsAssumption, TypeInv, DirectError
  <2> QED
    BY <1>2, <2>1, <2>2, <2>3, ReturnTypes, MaxCallsAssumption DEF MaxCallsAssumption, TypeInv
<1>4. ActiveInv'
  BY <1>1, <1>2, MaxCallsAssumption DEF MaxCallsAssumption, DirectError, Return, TimedOut, Measured, Busy, Executing, TypeInv, ActiveInv, Calls
<1>5. HelperInv'
  BY <1>1, <1>2, MaxCallsAssumption DEF MaxCallsAssumption, DirectError, Return, TimedOut, Measured, Busy, Executing, TypeInv, ActiveInv, HelperInv, Waiting, Underway, Calls
<1>6. PendingInv'
  BY <1>1, <1>2, MaxCallsAssumption DEF MaxCallsAssumption, DirectError, Return, TimedOut, Measured, Busy, Executing, TypeInv, ActiveInv, HelperInv, PendingInv, Waiting, Underway, Calls
<1>7. OutcomeInv'
  BY <1>1, <1>2, MaxCallsAssumption DEF MaxCallsAssumption, DirectError, Return, TimedOut, Measured, Busy, Executing, TypeInv, ActiveInv, PendingInv, OutcomeInv, Waiting, Calls
<1>8. PublishedInv'
  BY <1>1, <1>2, MaxCallsAssumption DEF MaxCallsAssumption, DirectError, Return, TimedOut, Measured, Busy, Executing, TypeInv, ActiveInv, PendingInv, OutcomeInv, PublishedInv, Waiting, Calls, Nan
<1> QED
  BY <1>3, <1>4, <1>5, <1>6, <1>7, <1>8 DEF IInv

LEMMA DirectFetchIInv ==
  ASSUME IInv, DirectFetch
  PROVE  IInv'
<1>1. IInv /\ DirectFetch
  OBVIOUS
<1>2. TypeInv /\ ActiveInv /\ HelperInv /\ PendingInv /\ OutcomeInv /\ PublishedInv
  BY DEF IInv
<1>3. TypeInv'
  <2>1. Measured(active) \in Runtimes /\ pending \in 0 .. MaxCalls
    BY <1>2, MaxCallsAssumption DEF MaxCallsAssumption, TypeInv, Runtimes, Measured, TimedOut
  <2>2. Return("rows", Measured(active), pending)
    BY <1>1 DEF DirectFetch
  <2>3. calls' = calls /\ promise' = promise /\ pending' \in 0 .. MaxCalls
    BY <1>1, <1>2, MaxCallsAssumption DEF MaxCallsAssumption, TypeInv, DirectFetch
  <2> QED
    BY <1>2, <2>1, <2>2, <2>3, ReturnTypes, MaxCallsAssumption DEF MaxCallsAssumption, TypeInv
<1>4. ActiveInv'
  BY <1>1, <1>2, MaxCallsAssumption DEF MaxCallsAssumption, DirectFetch, Return, TimedOut, Measured, TypeInv, ActiveInv, Calls
<1>5. HelperInv'
  BY <1>1, <1>2, MaxCallsAssumption DEF MaxCallsAssumption, DirectFetch, Return, TimedOut, Measured, TypeInv, ActiveInv, HelperInv, Waiting, Underway, Calls
<1>6. PendingInv'
  BY <1>1, <1>2, MaxCallsAssumption DEF MaxCallsAssumption, DirectFetch, Return, TimedOut, Measured, TypeInv, ActiveInv, HelperInv, PendingInv, Waiting, Underway, Calls
<1>7. OutcomeInv'
  BY <1>1, <1>2, MaxCallsAssumption DEF MaxCallsAssumption, DirectFetch, Return, TimedOut, Measured, TypeInv, ActiveInv, PendingInv, OutcomeInv, Waiting, Calls
<1>8. PublishedInv'
  BY <1>1, <1>2, MaxCallsAssumption DEF MaxCallsAssumption, DirectFetch, Return, TimedOut, Measured, TypeInv, ActiveInv, PendingInv, OutcomeInv, PublishedInv, Waiting, Calls, Nan
<1> QED
  BY <1>3, <1>4, <1>5, <1>6, <1>7, <1>8 DEF IInv

LEMMA CloseIInv ==
  ASSUME IInv, Close
  PROVE  IInv'
<1>1. IInv /\ Close
  OBVIOUS
<1>2. TypeInv /\ ActiveInv /\ HelperInv /\ PendingInv /\ OutcomeInv /\ PublishedInv
  BY DEF IInv
<1>3. TypeInv'
  BY <1>1, <1>2, MaxCallsAssumption DEF MaxCallsAssumption, Close, TypeInv, Calls
<1>4. ActiveInv'
  BY <1>1, <1>2, MaxCallsAssumption DEF MaxCallsAssumption, Close, TypeInv, ActiveInv, Calls
<1>5. HelperInv'
  BY <1>1, <1>2, MaxCallsAssumption DEF MaxCallsAssumption, Close, TypeInv, ActiveInv, HelperInv, Waiting, Underway, Calls
<1>6. PendingInv'
  BY <1>1, <1>2, MaxCallsAssumption DEF MaxCallsAssumption, Close, TypeInv, ActiveInv, HelperInv, PendingInv, Waiting, Underway, Calls, Measured
<1>7. OutcomeInv'
  BY <1>1, <1>2, MaxCallsAssumption DEF MaxCallsAssumption, Close, TypeInv, ActiveInv, PendingInv, OutcomeInv, Waiting, Calls
<1>8. PublishedInv'
  BY <1>1, <1>2, MaxCallsAssumption DEF MaxCallsAssumption, Close, TypeInv, ActiveInv, PendingInv, OutcomeInv, PublishedInv, Waiting, Calls, Measured, Nan
<1> QED
  BY <1>3, <1>4, <1>5, <1>6, <1>7, <1>8 DEF IInv

LEMMA ResetConnectionIInv ==
  ASSUME IInv, ResetConnection
  PROVE  IInv'
<1>1. IInv /\ ResetConnection
  OBVIOUS
<1>2. TypeInv /\ ActiveInv /\ HelperInv /\ PendingInv /\ OutcomeInv /\ PublishedInv
  BY DEF IInv
<1>3. TypeInv'
  BY <1>1, <1>2, MaxCallsAssumption DEF MaxCallsAssumption, ResetConnection, TypeInv, Calls
<1>4. ActiveInv'
  BY <1>1, <1>2, MaxCallsAssumption DEF MaxCallsAssumption, ResetConnection, TypeInv, ActiveInv, Calls
<1>5. HelperInv'
  BY <1>1, <1>2, MaxCallsAssumption DEF MaxCallsAssumption, ResetConnection, TypeInv, ActiveInv, HelperInv, Waiting, Underway, Calls
<1>6. PendingInv'
  BY <1>1, <1>2, MaxCallsAssumption DEF MaxCallsAssumption, ResetConnection, TypeInv, ActiveInv, HelperInv, PendingInv, Waiting, Underway, Calls, Measured
<1>7. OutcomeInv'
  BY <1>1, <1>2, MaxCallsAssumption DEF MaxCallsAssumption, ResetConnection, TypeInv, ActiveInv, PendingInv, OutcomeInv, Waiting, Calls
<1>8. PublishedInv'
  BY <1>1, <1>2, MaxCallsAssumption DEF MaxCallsAssumption, ResetConnection, TypeInv, ActiveInv, PendingInv, OutcomeInv, PublishedInv, Waiting, Calls, Measured, Nan
<1> QED
  BY <1>3, <1>4, <1>5, <1>6, <1>7, <1>8 DEF IInv

LEMMA StatementStartsIInv ==
  ASSUME IInv, NEW q \in Calls, StatementStarts(q)
  PROVE  IInv'
<1>1. IInv /\ StatementStarts(q)
  OBVIOUS
<1>2. TypeInv /\ ActiveInv /\ HelperInv /\ PendingInv /\ OutcomeInv /\ PublishedInv
  BY DEF IInv
<1>3. TypeInv'
  BY <1>1, <1>2, MaxCallsAssumption DEF MaxCallsAssumption, StatementStarts, TypeInv, Calls
<1>4. ActiveInv'
  BY <1>1, <1>2, MaxCallsAssumption DEF MaxCallsAssumption, StatementStarts, TypeInv, ActiveInv, Calls
<1>5. HelperInv'
  BY <1>1, <1>2, MaxCallsAssumption DEF MaxCallsAssumption, StatementStarts, TypeInv, ActiveInv, HelperInv, Waiting, Underway, Calls
<1>6. PendingInv'
  BY <1>1, <1>2, MaxCallsAssumption DEF MaxCallsAssumption, StatementStarts, TypeInv, ActiveInv, HelperInv, PendingInv, Waiting, Underway, Calls, Measured
<1>7. OutcomeInv'
  BY <1>1, <1>2, MaxCallsAssumption DEF MaxCallsAssumption, StatementStarts, TypeInv, ActiveInv, PendingInv, OutcomeInv, Waiting, Calls
<1>8. PublishedInv'
  BY <1>1, <1>2, MaxCallsAssumption DEF MaxCallsAssumption, StatementStarts, TypeInv, ActiveInv, PendingInv, OutcomeInv, PublishedInv, Waiting, Calls, Measured, Nan
<1> QED
  BY <1>3, <1>4, <1>5, <1>6, <1>7, <1>8 DEF IInv

LEMMA StatementRejectedIInv ==
  ASSUME IInv, NEW q \in Calls, StatementRejected(q)
  PROVE  IInv'
<1>1. IInv /\ StatementRejected(q)
  OBVIOUS
<1>2. TypeInv /\ ActiveInv /\ HelperInv /\ PendingInv /\ OutcomeInv /\ PublishedInv
  BY DEF IInv
<1>3. TypeInv'
  BY <1>1, <1>2, MaxCallsAssumption DEF MaxCallsAssumption, StatementRejected, TypeInv, Calls
<1>4. ActiveInv'
  BY <1>1, <1>2, MaxCallsAssumption DEF MaxCallsAssumption, StatementRejected, TypeInv, ActiveInv, Calls
<1>5. HelperInv'
  BY <1>1, <1>2, MaxCallsAssumption DEF MaxCallsAssumption, StatementRejected, TypeInv, ActiveInv, HelperInv, Waiting, Underway, Calls
<1>6. PendingInv'
  BY <1>1, <1>2, MaxCallsAssumption DEF MaxCallsAssumption, StatementRejected, TypeInv, ActiveInv, HelperInv, PendingInv, Waiting, Underway, Calls, Measured
<1>7. OutcomeInv'
  BY <1>1, <1>2, MaxCallsAssumption DEF MaxCallsAssumption, StatementRejected, TypeInv, ActiveInv, PendingInv, OutcomeInv, Waiting, Calls
<1>8. PublishedInv'
  BY <1>1, <1>2, MaxCallsAssumption DEF MaxCallsAssumption, StatementRejected, TypeInv, ActiveInv, PendingInv, OutcomeInv, PublishedInv, Waiting, Calls, Measured, Nan
<1> QED
  BY <1>3, <1>4, <1>5, <1>6, <1>7, <1>8 DEF IInv

LEMMA StatementEndsIInv ==
  ASSUME IInv, NEW q \in Calls, StatementEnds(q)
  PROVE  IInv'
<1>1. IInv /\ StatementEnds(q)
  OBVIOUS
<1>2. TypeInv /\ ActiveInv /\ HelperInv /\ PendingInv /\ OutcomeInv /\ PublishedInv
  BY DEF IInv
<1>3. TypeInv'
  BY <1>1, <1>2, MaxCallsAssumption DEF MaxCallsAssumption, StatementEnds, Executing, TypeInv, Calls
<1>4. ActiveInv'
  BY <1>1, <1>2, MaxCallsAssumption DEF MaxCallsAssumption, StatementEnds, Executing, TypeInv, ActiveInv, Calls
<1>5. HelperInv'
  BY <1>1, <1>2, MaxCallsAssumption DEF MaxCallsAssumption, StatementEnds, Executing, TypeInv, ActiveInv, HelperInv, Waiting, Underway, Calls
<1>6. PendingInv'
  BY <1>1, <1>2, MaxCallsAssumption DEF MaxCallsAssumption, StatementEnds, Executing, TypeInv, ActiveInv, HelperInv, PendingInv, Waiting, Underway, Calls, Measured
<1>7. OutcomeInv'
  BY <1>1, <1>2, MaxCallsAssumption DEF MaxCallsAssumption, StatementEnds, Executing, TypeInv, ActiveInv, PendingInv, OutcomeInv, Waiting, Calls
<1>8. PublishedInv'
  BY <1>1, <1>2, MaxCallsAssumption DEF MaxCallsAssumption, StatementEnds, Executing, TypeInv, ActiveInv, PendingInv, OutcomeInv, PublishedInv, Waiting, Calls, Measured, Nan
<1> QED
  BY <1>3, <1>4, <1>5, <1>6, <1>7, <1>8 DEF IInv

LEMMA StatementStopsIInv ==
  ASSUME IInv, NEW q \in Calls, StatementStops(q)
  PROVE  IInv'
<1>1. IInv /\ StatementStops(q)
  OBVIOUS
<1>2. TypeInv /\ ActiveInv /\ HelperInv /\ PendingInv /\ OutcomeInv /\ PublishedInv
  BY DEF IInv
<1>3. TypeInv'
  BY <1>1, <1>2, MaxCallsAssumption DEF MaxCallsAssumption, StatementStops, Executing, TypeInv, Calls
<1>4. ActiveInv'
  BY <1>1, <1>2, MaxCallsAssumption DEF MaxCallsAssumption, StatementStops, Executing, TypeInv, ActiveInv, Calls
<1>5. HelperInv'
  BY <1>1, <1>2, MaxCallsAssumption DEF MaxCallsAssumption, StatementStops, Executing, TypeInv, ActiveInv, HelperInv, Waiting, Underway, Calls
<1>6. PendingInv'
  BY <1>1, <1>2, MaxCallsAssumption DEF MaxCallsAssumption, StatementStops, Executing, TypeInv, ActiveInv, HelperInv, PendingInv, Waiting, Underway, Calls, Measured
<1>7. OutcomeInv'
  BY <1>1, <1>2, MaxCallsAssumption DEF MaxCallsAssumption, StatementStops, Executing, TypeInv, ActiveInv, PendingInv, OutcomeInv, Waiting, Calls
<1>8. PublishedInv'
  BY <1>1, <1>2, MaxCallsAssumption DEF MaxCallsAssumption, StatementStops, Executing, TypeInv, ActiveInv, PendingInv, OutcomeInv, PublishedInv, Waiting, Calls, Measured, Nan
<1> QED
  BY <1>3, <1>4, <1>5, <1>6, <1>7, <1>8 DEF IInv

LEMMA HelperMeasuresIInv ==
  ASSUME IInv, NEW q \in Calls, HelperMeasures(q)
  PROVE  IInv'
<1>1. IInv /\ HelperMeasures(q)
  OBVIOUS
<1>2. TypeInv /\ ActiveInv /\ HelperInv /\ PendingInv /\ OutcomeInv /\ PublishedInv
  BY DEF IInv
<1>3. TypeInv'
  BY <1>1, <1>2, MaxCallsAssumption DEF MaxCallsAssumption, HelperMeasures, Measured, TypeInv, Runtimes, Calls
<1>4. ActiveInv'
  BY <1>1, <1>2, MaxCallsAssumption DEF MaxCallsAssumption, HelperMeasures, Measured, TypeInv, ActiveInv, Calls
<1>5. HelperInv'
  BY <1>1, <1>2, MaxCallsAssumption DEF MaxCallsAssumption, HelperMeasures, Measured, TypeInv, ActiveInv, HelperInv, Waiting, Underway, Calls
<1>6. PendingInv'
  BY <1>1, <1>2, MaxCallsAssumption DEF MaxCallsAssumption, HelperMeasures, Measured, TypeInv, ActiveInv, HelperInv, PendingInv, Waiting, Underway, Calls
<1>7. OutcomeInv'
  BY <1>1, <1>2, MaxCallsAssumption DEF MaxCallsAssumption, HelperMeasures, Measured, TypeInv, ActiveInv, PendingInv, OutcomeInv, Waiting, Calls
<1>8. PublishedInv'
  BY <1>1, <1>2, MaxCallsAssumption DEF MaxCallsAssumption, HelperMeasures, Measured, TypeInv, ActiveInv, PendingInv, OutcomeInv, PublishedInv, Waiting, Calls, Nan
<1> QED
  BY <1>3, <1>4, <1>5, <1>6, <1>7, <1>8 DEF IInv

LEMMA StutterIInv == ASSUME IInv, UNCHANGED vars PROVE IInv'
<1>1. TypeInv' /\ ActiveInv'
  BY DEF vars, IInv, TypeInv, ActiveInv
<1>2. HelperInv' /\ PendingInv'
  BY DEF vars, IInv, HelperInv, PendingInv
<1>3. OutcomeInv' /\ PublishedInv'
  BY DEF vars, IInv, OutcomeInv, PublishedInv
<1> QED
  BY <1>1, <1>2, <1>3 DEF IInv

LEMMA NextIInv == IInv /\ [Next]_vars => IInv'
  BY StutterIInv, ExecuteWithTimeoutIInv, ResultArrivesIInv, ErrorArrivesIInv, TimeoutExpiresIInv, InterruptIInv, SettleIInv,
     ExecuteQueryIInv, DirectStatementIInv, DirectErrorIInv, DirectFetchIInv, CloseIInv, ResetConnectionIInv,
     StatementStartsIInv, StatementRejectedIInv, StatementEndsIInv, StatementStopsIInv, HelperMeasuresIInv DEF Next

LEMMA IInvHolds == Spec => []IInv
  BY InitIInv, NextIInv, PTL DEF Spec

\* The rows a call fetches from the connection it shares with the helper thread are its
\* own, for any number of calls (_duckdb.py:147).
THEOREM RowsOfTheCall == Spec => []RowsAreOfTheCall
<1>1. IInv => RowsAreOfTheCall
  BY DEF IInv, OutcomeInv, RowsAreOfTheCall
<1> QED
  BY <1>1, IInvHolds, PTL

\* Between calls the runtime belongs to the latest call that did not raise
\* (_duckdb.py:153).
THEOREM RuntimeOfTheCall == Spec => []RuntimeIsOfTheCall
<1>1. ASSUME IInv, pc = "idle", runtime # Nan
      PROVE  /\ outcome[runtime.of] = CASE runtime.kind = "measured" -> "rows"
                                        [] runtime.kind = "timeout" -> "timeout"
             /\ \A q \in Calls : q > runtime.of => outcome[q] \in {"none", "raised"}
  <2>1. runtime = published /\ PublishedInv
    BY <1>1 DEF IInv, PendingInv, Waiting
  <2> QED
    BY <1>1, <2>1 DEF PublishedInv
<1>2. IInv => RuntimeIsOfTheCall
  BY <1>1 DEF RuntimeIsOfTheCall
<1> QED
  BY <1>2, IInvHolds, PTL

-------------------------------------------------------------------------------
(* Refinement. *)

LEMMA InitImplements == Init => T!Init
  BY DEF Init, T!Init, T!Nan, Nan, T!Calls, Calls, Busy, Executing

LEMMA BusyUnchanged == promise' = promise => Busy' = Busy
  BY DEF Busy, Executing

\* A promise that does not concern the executing state leaves the busy calls alone.
LEMMA BusyOfPromise ==
  ASSUME TypeInv, NEW q \in Calls, NEW state, state # "executing", promise[q] # "executing",
         promise' = [promise EXCEPT ![q] = state]
  PROVE  Busy' = Busy
  BY DEF TypeInv, Busy, Executing

LEMMA CallerImplements ==
  ASSUME IInv,
         \/ ExecuteWithTimeout \/ ResultArrives \/ ErrorArrives \/ TimeoutExpires \/ Interrupt \/ Settle
         \/ ExecuteQuery \/ DirectStatement \/ DirectError \/ DirectFetch \/ Close \/ ResetConnection
  PROVE  [T!Next]_T!vars
<1>1. CASE ExecuteWithTimeout
  <2>1. calls + 1 \in Calls /\ active = 0 /\ promise[calls + 1] # "executing"
    BY <1>1, MaxCallsAssumption DEF MaxCallsAssumption, IInv, TypeInv, ActiveInv, HelperInv, Underway, Calls, ExecuteWithTimeout, Begin
  <2>2. Busy' = Busy
    BY <1>1, <2>1, BusyOfPromise DEF IInv, ExecuteWithTimeout
  <2>3. T!Begin
    BY <1>1, <2>1, <2>2 DEF ExecuteWithTimeout, Begin, T!Begin
  <2> QED
    BY <2>3 DEF T!Next
<1>2. CASE ExecuteQuery
  <2>1. T!Begin
    BY <1>2, BusyUnchanged DEF ExecuteQuery, Begin, IInv, ActiveInv, T!Begin
  <2> QED
    BY <2>1 DEF T!Next
<1>3. CASE ResultArrives \/ DirectFetch
  <2>1. active \in Calls /\ active \notin Busy
    BY <1>3 DEF ResultArrives, DirectFetch, IInv, TypeInv, ActiveInv, HelperInv, Underway, Waiting, Busy, Executing, Calls
  <2>2. runtime' = published' /\ published' = Measured(active)
    BY <1>3 DEF ResultArrives, DirectFetch, Return, IInv, PendingInv, Waiting
  <2>3. active' = 0 /\ calls' = calls /\ Busy' = Busy
    BY <1>3, BusyUnchanged DEF ResultArrives, DirectFetch, Return
  <2>4. outcome' = [outcome EXCEPT ![active] = "rows"] /\ active # 0
    BY <1>3, <2>1 DEF ResultArrives, DirectFetch, Return, Calls
  <2>5. T!Return
    BY <2>1, <2>2, <2>3, <2>4 DEF T!Return, Measured
  <2> QED
    BY <2>5 DEF T!Next
<1>4. CASE ErrorArrives \/ DirectError \/ Settle
  <2>1. active # 0
    BY <1>4 DEF ErrorArrives, DirectError, Settle, IInv, ActiveInv
  <2>2. promise' = promise /\ calls' = calls /\ active' = 0
    BY <1>4 DEF ErrorArrives, DirectError, Settle, Return
  <2>3. \/ outcome' = [outcome EXCEPT ![active] = "raised"] /\ published' = published
        \/ outcome' = [outcome EXCEPT ![active] = "timeout"] /\ published' = TimedOut(active)
    <3>1. CASE ErrorArrives \/ DirectError
      BY <3>1 DEF ErrorArrives, DirectError, Return, IInv, PendingInv, Waiting
    <3>2. CASE Settle
      BY <3>2 DEF Settle, Settled, Return, IInv, PendingInv, Waiting, Done
    <3> QED
      BY <1>4, <3>1, <3>2
  <2>4. T!Return
    BY <2>1, <2>2, <2>3, BusyUnchanged DEF T!Return, TimedOut
  <2> QED
    BY <2>4 DEF T!Next
<1>5. CASE TimeoutExpires \/ Interrupt \/ DirectStatement \/ Close \/ ResetConnection
  <2>1. UNCHANGED << calls, active, promise, outcome, published >>
    BY <1>5 DEF TimeoutExpires, Interrupt, DirectStatement, Close, ResetConnection
  <2> QED
    BY <2>1, BusyUnchanged DEF T!vars
<1> QED
  BY <1>1, <1>2, <1>3, <1>4, <1>5

LEMMA HelperImplements ==
  ASSUME IInv, NEW q \in Calls,
         \/ StatementStarts(q) \/ StatementRejected(q) \/ StatementEnds(q)
         \/ StatementStops(q) \/ HelperMeasures(q)
  PROVE  [T!Next]_T!vars
<1>1. q \in T!Calls /\ active = q /\ UNCHANGED << calls, active, outcome, published >>
  BY DEF IInv, HelperInv, Underway, Executing, T!Calls, Calls,
         StatementStarts, StatementRejected, StatementEnds, StatementStops, HelperMeasures
<1>2. CASE StatementStarts(q)
  <2>1. q \notin Busy /\ Busy' = Busy \union {q}
    BY <1>2 DEF StatementStarts, IInv, TypeInv, Busy, Executing
  <2>2. T!StatementStarts(q)
    BY <1>1, <2>1 DEF T!StatementStarts
  <2> QED
    BY <1>1, <2>2 DEF T!Next
<1>3. CASE StatementEnds(q) \/ StatementStops(q)
  <2>1. q \in Busy /\ Busy' = Busy \ {q}
    BY <1>3 DEF StatementEnds, StatementStops, IInv, TypeInv, Busy, Executing
  <2>2. T!StatementEnds(q)
    BY <1>1, <2>1 DEF T!StatementEnds
  <2> QED
    BY <1>1, <2>2 DEF T!Next
<1>4. CASE StatementRejected(q) \/ HelperMeasures(q)
  <2>1. Busy' = Busy
    BY <1>4, BusyOfPromise DEF IInv, StatementRejected, HelperMeasures
  <2> QED
    BY <1>1, <2>1 DEF T!vars
<1> QED
  BY <1>2, <1>3, <1>4

LEMMA NextImplements == IInv /\ [Next]_vars => [T!Next]_T!vars
<1>1. ASSUME IInv, UNCHANGED vars PROVE [T!Next]_T!vars
  BY <1>1, BusyUnchanged DEF vars, T!vars
<1>2. ASSUME IInv, Next PROVE [T!Next]_T!vars
  BY <1>2, CallerImplements, HelperImplements DEF Next
<1> QED
  BY <1>1, <1>2

\* Caller, helper thread and interrupts together keep what TimedExecution promises, for
\* any number of calls (_duckdb.py:140).
THEOREM Implements == Spec => ImplementsTimedExecution
  BY InitImplements, NextImplements, IInvHolds, PTL DEF Spec, ImplementsTimedExecution, T!Spec
===============================================================================
