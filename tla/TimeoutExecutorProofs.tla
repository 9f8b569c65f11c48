------------------------ MODULE TimeoutExecutorProofs ------------------------
(***************************************************************************)
(* TimeoutExecutor for every number of calls, with and without crashing    *)
(* workers and a lost watchdog: the inductive invariant, the safety        *)
(* properties it implies, and the refinement of TimedExecution.            *)
(***************************************************************************)
EXTENDS TimeoutExecutor, SequenceTheorems, TLAPS

\* What a worker can have sent, whatever its state.
LEMMA WorkerTrace ==
  ASSUME NEW q \in Calls, TypeOK, WorkerConsistent(q)
  PROVE  \/ Len(sent[q]) = 0
         \/ Trace(sent[q], 1, "Error")
         \/ \E n \in 1 .. 4 : Trace(sent[q], n, Course[n])
         \/ Complete(sent[q])
<1>1. worker[q] \in WorkerStates
  BY DEF TypeOK
<1>2. CASE worker[q] \in {"none", "connecting", "closing", "exited", "killed"}
  BY <1>2 DEF WorkerConsistent
<1>3. CASE worker[q] = "connected"
  <2>1. Trace(sent[q], 1, Course[1])
    BY <1>3 DEF WorkerConsistent, Course
  <2> QED BY <2>1
<1>4. CASE worker[q] \in {"ready", "executing"}
  <2>1. Trace(sent[q], 2, Course[2])
    BY <1>4 DEF WorkerConsistent, Course
  <2> QED BY <2>1
<1>5. CASE worker[q] = "fetching"
  <2>1. Trace(sent[q], 3, Course[3])
    BY <1>5 DEF WorkerConsistent, Course
  <2> QED BY <2>1
<1>6. CASE worker[q] = "null_sent"
  <2>1. Trace(sent[q], 4, Course[4])
    BY <1>6 DEF WorkerConsistent, Course
  <2> QED BY <2>1
<1> QED BY <1>1, <1>2, <1>3, <1>4, <1>5, <1>6 DEF WorkerStates

LEMMA WorkerOnCourse ==
  ASSUME NEW q \in Calls, TypeOK, WorkerConsistent(q), Len(sent[q]) > 0
  PROVE  OnCourse(sent[q])
BY WorkerTrace DEF Trace, Complete

\* Which event can stand at which place of what a worker has sent.
LEMMA TraceEvents ==
  ASSUME NEW q \in Calls, TypeOK, WorkerConsistent(q), NEW n \in 1 .. 4, n <= Len(sent[q])
  PROVE  /\ n < 4 => sent[q][n] \in {Course[n], "Error"}
         /\ n = 4 => sent[q][n] \in {"Rows", "Null", "Error"}
<1> DEFINE t == sent[q]
<1>1. t \in Seq(Events) /\ Len(t) \in Nat
  BY LenProperties DEF TypeOK
<1>2. CASE n < Len(t)
  <2>1. t[n] = Course[n]
    BY <1>1, <1>2, WorkerOnCourse DEF OnCourse
  <2> QED BY <2>1 DEF Course
<1>3. CASE n = Len(t)
  <2>1. Complete(t) => t[n] = "Error" \/ (n = 4 /\ t[n] = "Rows")
    BY <1>1, <1>3 DEF Complete, Trace, Failed
  <2>2. Trace(t, 1, "Error") => t[n] = "Error"
    BY <1>1, <1>3 DEF Trace
  <2>3. ASSUME NEW k \in 1 .. 4, Trace(t, k, Course[k]) PROVE t[n] = Course[n]
    BY <1>1, <1>3, <2>3 DEF Trace
  <2>4. Course[4] = "Null"
    BY DEF Course
  <2>5. t[n] = Course[n] \/ t[n] = "Error" \/ (n = 4 /\ t[n] = "Rows")
    <3>1. CASE Trace(t, 1, "Error")
      BY <2>2, <3>1
    <3>2. CASE \E k \in 1 .. 4 : Trace(t, k, Course[k])
      BY <2>3, <3>2
    <3>3. CASE Complete(t)
      BY <2>1, <3>3
    <3>5. n # 0
      OBVIOUS
    <3>4. Len(t) # 0
      BY <1>3, <3>5, Zenon
    <3> QED BY <3>1, <3>2, <3>3, <3>4, WorkerTrace, Zenon
  <2> QED BY <2>4, <2>5
<1> QED BY <1>1, <1>2, <1>3

\* The state the initial predicate describes satisfies the inductive invariant.
LEMMA InitIndInv == Init => IndInv
<1> SUFFICES ASSUME Init PROVE IndInv
  OBVIOUS
<1>1. TypeOK
  BY MaxCallsAssumption DEF Init, TypeOK, ParentStates, Results, Outcomes, Runtimes, Nan,
     WorkerStates, SessionStates
<1>2. ParentConsistent
  BY DEF Init, ParentConsistent
<1>3. ASSUME NEW q \in Calls PROVE WorkerConsistent(q) /\ CallConsistent(q)
  BY <1>3 DEF Init, WorkerConsistent, CallConsistent, Alive
<1> QED
  BY <1>1, <1>2, <1>3 DEF Init, IndInv

\* Every state function handles every event that can be next in the pipe.
LEMMA ReceiveKnowsEvent ==
  ASSUME IndInv, Receive
  PROVE  /\ parent' # "state_error" /\ read' \in 0 .. 4
         /\ parent' \in ParentStates /\ result' \in Results
         /\ ParentConsistent'
<1>1. cur \in Calls /\ TypeOK /\ WorkerConsistent(cur)
  BY MaxCallsAssumption DEF IndInv, Receive, TypeOK, ParentConsistent, Calls
<1> DEFINE t == sent[cur]
<1>2. /\ read \in 0 .. 4 /\ read < Len(t) /\ Event = t[read + 1]
      /\ t \in Seq(Events) /\ Len(t) \in Nat
  BY <1>1, LenProperties DEF TypeOK, Receive, EventAvailable, Event
<1>3. UNCHANGED << cur, outcome, worker, sent >> /\ read' = read + 1
  BY DEF Receive
<1>4. cur # 0 /\ outcome[cur] = "none" /\ worker[cur] # "none"
  BY DEF IndInv, ParentConsistent, Receive
<1>5. ASSUME t[read + 1] = "Error", result' = "failure" PROVE Failed(t)
  <2>1. CASE read + 1 = Len(t)
    BY <1>2, <1>5, <2>1 DEF Failed
  <2>2. CASE read + 1 < Len(t)
    <3>1. OnCourse(t)
      BY <1>1, <1>2, WorkerOnCourse
    <3> QED BY <1>2, <1>5, <2>2, <3>1 DEF OnCourse, Course
  <2> QED BY <1>2, <2>1, <2>2
<1>6. CASE parent = "ctl"
  <2>1. read = 0 /\ t[1] \in {"Connected", "Error"}
    BY <1>1, <1>2, <1>6, TraceEvents DEF IndInv, ParentConsistent, Course
  <2>2. CASE t[1] = "Connected"
    <3>1. parent' = "prep" /\ result' = "none"
      BY <1>2, <1>6, <2>1, <2>2 DEF Receive, Transition
    <3> QED
      BY <3>1, <1>2, <1>3, <1>4, <2>1, <2>2 DEF ParentConsistent, ReadOnCourse, Course, ParentStates, Results
  <2>3. CASE t[1] = "Error"
    <3>1. parent' = "join" /\ result' = "failure"
      BY <1>2, <1>6, <2>1, <2>3 DEF Receive, Transition
    <3> QED
      BY <3>1, <1>2, <1>3, <1>4, <1>5, <2>1, <2>3 DEF ParentConsistent, ParentStates, Results
  <2> QED BY <2>1, <2>2, <2>3
<1>7. CASE parent = "prep"
  <2>1. read = 1 /\ t[1] = "Connected" /\ t[2] \in {"Ready", "Error"}
    BY <1>1, <1>2, <1>7, TraceEvents DEF IndInv, ParentConsistent, ReadOnCourse, Course
  <2>2. CASE t[2] = "Ready"
    <3>1. parent' = "run_query" /\ result' = "none"
      BY <1>2, <1>7, <2>1, <2>2 DEF Receive, Transition
    <3> QED
      BY <3>1, <1>2, <1>3, <1>4, <2>1, <2>2 DEF ParentConsistent, ReadOnCourse, Course, ParentStates, Results
  <2>3. CASE t[2] = "Error"
    <3>1. parent' = "abort" /\ result' = "failure"
      BY <1>2, <1>7, <2>1, <2>3 DEF Receive, Transition
    <3> QED
      BY <3>1, <1>2, <1>3, <1>4, <1>5, <2>1, <2>3 DEF ParentConsistent, ParentStates, Results
  <2> QED BY <2>1, <2>2, <2>3
<1>8. CASE parent = "run_query"
  <2>1. /\ read = 2 /\ t[3] \in {"Finished", "Error"}
        /\ t[1] = "Connected" /\ t[2] = "Ready"
    BY <1>1, <1>2, <1>8, TraceEvents DEF IndInv, ParentConsistent, ReadOnCourse, Course
  <2>2. CASE t[3] = "Finished"
    <3>1. parent' = "await_result" /\ result' = "none"
      BY <1>2, <1>8, <2>1, <2>2 DEF Receive, Transition
    <3> QED
      BY <3>1, <1>2, <1>3, <1>4, <2>1, <2>2 DEF ParentConsistent, ReadOnCourse, Course, ParentStates, Results
  <2>3. CASE t[3] = "Error"
    <3>1. parent' = "abort" /\ result' = "failure"
      BY <1>2, <1>8, <2>1, <2>3 DEF Receive, Transition
    <3> QED
      BY <3>1, <1>2, <1>3, <1>4, <1>5, <2>1, <2>3 DEF ParentConsistent, ParentStates, Results
  <2> QED BY <2>1, <2>2, <2>3
<1>9. CASE parent = "await_result"
  <2>1. read = 3 /\ t[4] \in {"Rows", "Null", "Error"}
    BY <1>1, <1>2, <1>9, TraceEvents DEF IndInv, ParentConsistent, ReadOnCourse, Course
  <2>2. CASE t[4] \in {"Rows", "Null"}
    <3>1. parent' = "join" /\ result' \in {"rows", "null"}
      BY <1>2, <1>9, <2>1, <2>2 DEF Receive, Transition
    <3> QED
      BY <3>1, <1>2, <1>3, <1>4, <2>1, <2>2 DEF ParentConsistent, ParentStates, Results
  <2>3. CASE t[4] = "Error"
    <3>1. parent' = "abort" /\ result' = "failure"
      BY <1>2, <1>9, <2>1, <2>3 DEF Receive, Transition
    <3> QED
      BY <3>1, <1>2, <1>3, <1>4, <1>5, <2>1, <2>3 DEF ParentConsistent, ParentStates, Results
  <2> QED BY <2>1, <2>2, <2>3
<1> QED BY <1>6, <1>7, <1>8, <1>9 DEF Receive

\* What all steps of a worker have in common.
WorkerFrame(q) ==
  /\ Alive(q)
  /\ worker' = [worker EXCEPT ![q] = worker'[q]]
  /\ worker'[q] \in WorkerStates \ {"none", "killed"}
  /\ session' = [session EXCEPT ![q] = session'[q]]
  /\ session'[q] \in SessionStates
  /\ \/ UNCHANGED sent
     \/ ~Failed(sent[q]) /\ \E e \in Events : Send(q, e)
  /\ UNCHANGED parentVars

\* A worker that may still send something has not reported an error.
LEMMA SendersDidNotFail ==
  ASSUME TypeOK, NEW q \in Calls, WorkerConsistent(q), Alive(q), worker[q] # "closing"
  PROVE  ~Failed(sent[q])
<1>1. \A n \in 1 .. 4, e \in Events \ {"Error"} : Trace(sent[q], n, e) => ~Failed(sent[q])
  BY DEF Trace, Failed
<1>2. Len(sent[q]) = 0 => ~Failed(sent[q])
  BY DEF Failed
<1>3. worker[q] \in {"connecting", "connected", "ready", "executing", "fetching", "null_sent"}
  BY DEF TypeOK, Alive, WorkerStates
<1>4. \/ Len(sent[q]) = 0
      \/ Trace(sent[q], 1, "Connected") \/ Trace(sent[q], 2, "Ready")
      \/ Trace(sent[q], 3, "Finished") \/ Trace(sent[q], 4, "Null")
  BY <1>3 DEF WorkerConsistent
<1> QED BY <1>1, <1>2, <1>4 DEF Events

LEMMA WorkerStepFrame ==
  ASSUME TypeOK, NEW q \in Calls, WorkerConsistent(q), WorkerNext(q)
  PROVE  WorkerFrame(q)
<1> USE SendersDidNotFail DEF WorkerFrame, TypeOK, WorkerStep, Alive, Events, WorkerStates, SessionStates
<1>1. CASE WorkerConnect(q) \/ WorkerConnectFails(q)
  BY <1>1 DEF WorkerConnect, WorkerConnectFails
<1>2. CASE WorkerPrepare(q) \/ WorkerPrepareFails(q)
  BY <1>2 DEF WorkerPrepare, WorkerPrepareFails
<1>3. CASE WorkerExecute(q) \/ WorkerClose(q)
  BY <1>3 DEF WorkerExecute, WorkerClose
<1>4. CASE WorkerQueryFinished(q) \/ WorkerQueryFails(q)
  BY <1>4 DEF WorkerQueryFinished, WorkerQueryFails
<1>5. CASE WorkerFetchRows(q) \/ WorkerSendNull(q) \/ WorkerFetchFails(q)
  BY <1>5 DEF WorkerFetchRows, WorkerSendNull, WorkerFetchFails
<1> QED BY <1>1, <1>2, <1>3, <1>4, <1>5 DEF WorkerNext

\* Sending appends one event and leaves what was sent before alone.
LEMMA SendAppends ==
  ASSUME TypeOK, NEW q \in Calls, NEW e \in Events, Send(q, e)
  PROVE  /\ sent' \in [Calls -> Seq(Events)]
         /\ \A r \in Calls : r # q => sent'[r] = sent[r]
         /\ Len(sent'[q]) = Len(sent[q]) + 1 /\ Len(sent[q]) \in Nat
         /\ \A i \in 1 .. Len(sent[q]) : sent'[q][i] = sent[q][i]
         /\ sent'[q][Len(sent[q]) + 1] = e
<1>1. sent[q] \in Seq(Events) /\ Len(sent[q]) \in Nat
  BY LenProperties DEF TypeOK
<1>2. Append(sent[q], e) \in Seq(Events)
  BY <1>1, AppendProperties
<1>3. sent' \in [Calls -> Seq(Events)] /\ sent'[q] = Append(sent[q], e)
  BY <1>2 DEF TypeOK, Send
<1> QED BY <1>1, <1>3, AppendProperties DEF TypeOK, Send

\* A worker's step leaves the state machine of the parent undisturbed.
LEMMA WorkerStepParent ==
  ASSUME IndInv, NEW q \in Calls, WorkerFrame(q)
  PROVE  TypeOK' /\ ParentConsistent' /\ \A r \in Calls : CallConsistent(r)'
<1>1. UNCHANGED parentVars /\ ParentConsistent /\ TypeOK
  BY DEF WorkerFrame, IndInv
<1>2. /\ sent' \in [Calls -> Seq(Events)]
      /\ \A r \in Calls : /\ Len(sent[r]) \in Nat /\ Len(sent'[r]) \in Nat
                          /\ Len(sent[r]) <= Len(sent'[r])
                          /\ \A i \in 1 .. Len(sent[r]) : sent'[r][i] = sent[r][i]
                          /\ Failed(sent[r]) => sent'[r] = sent[r]
  <2>1. CASE UNCHANGED sent
    BY <2>1, <1>1, LenProperties DEF TypeOK
  <2>2. CASE ~Failed(sent[q]) /\ \E e \in Events : Send(q, e)
    <3>1. PICK e \in Events : Send(q, e)
      BY <2>2
    <3>2. sent \in [Calls -> Seq(Events)]
      BY <1>1 DEF TypeOK
    <3> QED BY <1>1, <2>2, <3>1, <3>2, SendAppends, LenProperties
  <2> QED BY <2>1, <2>2 DEF WorkerFrame
<1>3. worker' \in [Calls -> WorkerStates] /\ session' \in [Calls -> SessionStates]
  BY <1>1 DEF WorkerFrame, TypeOK
<1>4. TypeOK'
  BY <1>1, <1>2, <1>3 DEF TypeOK, parentVars
<1>5. ParentConsistent'
  <2>1. CASE parent = "idle"
    BY <1>1, <2>1 DEF ParentConsistent, parentVars
  <2>2. CASE parent # "idle"
    <3>1. cur \in Calls /\ UNCHANGED << cur, parent, read, result, outcome >>
      BY <1>1, <2>2, MaxCallsAssumption DEF ParentConsistent, TypeOK, Calls, parentVars
    <3>2. \A n \in 0 .. 3 : ReadOnCourse(n) => ReadOnCourse(n)'
      BY <1>2, <3>1 DEF ReadOnCourse
    <3>3. worker'[cur] # "none" \/ worker'[cur] = worker[cur]
      BY <1>1, <3>1 DEF WorkerFrame, TypeOK
    <3>4. ~Alive(cur) => worker'[cur] = worker[cur]
      BY <1>1, <3>1 DEF WorkerFrame, TypeOK
    <3> QED BY <1>1, <1>2, <3>1, <3>2, <3>3, <3>4 DEF ParentConsistent, Alive
  <2> QED BY <2>1, <2>2
<1>6. ASSUME NEW r \in Calls PROVE CallConsistent(r)'
  BY <1>1, <1>6 DEF IndInv, CallConsistent, WorkerFrame, parentVars, TypeOK, Alive
<1> QED BY <1>4, <1>5, <1>6

\* A sent event continues a trace that was on course.
LEMMA SendExtendsTrace ==
  ASSUME TypeOK, NEW q \in Calls, NEW e \in Events, Send(q, e), NEW n \in 0 .. 4,
         n = 0 => Len(sent[q]) = 0,
         n > 0 => Trace(sent[q], n, Course[n])
  PROVE  Trace(sent[q], n + 1, e)'
<1>1. Len(sent'[q]) = n + 1 /\ sent'[q][n + 1] = e /\ \A i \in 1 .. n : sent'[q][i] = sent[q][i]
  BY SendAppends DEF Trace
<1>2. \A i \in 1 .. n : sent[q][i] = Course[i]
  BY DEF Trace, OnCourse
<1> QED BY <1>1, <1>2 DEF Trace, OnCourse

\* Worker, session and trace stay in agreement.
LEMMA WorkerStepConsistent ==
  ASSUME IndInv, NEW q \in Calls, WorkerNext(q)
  PROVE  \A r \in Calls : WorkerConsistent(r)'
<1>1. TypeOK /\ WorkerConsistent(q) /\ WorkerFrame(q)
  BY WorkerStepFrame DEF IndInv
<1>2. ASSUME NEW r \in Calls, r # q PROVE WorkerConsistent(r)'
  <2>1. worker'[r] = worker[r] /\ session'[r] = session[r] /\ sent'[r] = sent[r]
    BY <1>1, <1>2 DEF WorkerFrame, TypeOK, Send
  <2> QED BY <2>1 DEF IndInv, WorkerConsistent
<1>3. ASSUME NEW n \in 0 .. 4, NEW e \in Events, Send(q, e),
             n = 0 => Len(sent[q]) = 0, n > 0 => Trace(sent[q], n, Course[n])
      PROVE  Trace(sent'[q], n + 1, e)
  BY <1>1, <1>3, SendExtendsTrace
<1>4. Course[1] = "Connected" /\ Course[2] = "Ready" /\ Course[3] = "Finished" /\ Course[4] = "Null"
  BY DEF Course
<1>5. \A t, n : n \in 2 .. 5 /\ Trace(t, n, "Error") => Complete(t)
  BY DEF Trace, Complete, Failed
<1>6. \A t : Trace(t, 4, "Rows") => Complete(t)
  BY DEF Trace, Complete
<1>7. WorkerConsistent(q)'
  <2> USE DEF WorkerStep, TypeOK
  <2>1. CASE WorkerConnect(q) \/ WorkerConnectFails(q)
    <3>1. Len(sent[q]) = 0 /\ session[q] = "none"
      BY <1>1, <2>1 DEF WorkerConnect, WorkerConnectFails, WorkerConsistent
    <3>2. \A e \in Events : Send(q, e) => Trace(sent'[q], 1, e)
      BY <1>3, <3>1
    <3> QED BY <1>1, <2>1, <3>1, <3>2 DEF WorkerConnect, WorkerConnectFails, WorkerConsistent, Events
  <2>2. CASE WorkerPrepare(q) \/ WorkerPrepareFails(q)
    <3>1. Trace(sent[q], 1, Course[1]) /\ session[q] = "idle"
      BY <1>1, <1>4, <2>2 DEF WorkerPrepare, WorkerPrepareFails, WorkerConsistent
    <3>2. \A e \in Events : Send(q, e) => Trace(sent'[q], 2, e)
      BY <1>3, <3>1
    <3>3. CASE WorkerPrepare(q)
      <4>1. worker'[q] = "ready" /\ session'[q] = "idle" /\ Trace(sent'[q], 2, "Ready")
        BY <1>1, <3>1, <3>2, <3>3 DEF WorkerPrepare, Events
      <4> QED BY <4>1 DEF WorkerConsistent
    <3>4. CASE WorkerPrepareFails(q)
      <4>1. worker'[q] = "closing" /\ session'[q] = "idle" /\ Complete(sent'[q])
        BY <1>1, <1>5, <3>1, <3>2, <3>4 DEF WorkerPrepareFails, Events
      <4> QED BY <4>1 DEF WorkerConsistent
    <3> QED BY <2>2, <3>3, <3>4
  <2>3. CASE WorkerExecute(q)
    <3>1. worker'[q] = "executing" /\ session'[q] = "running" /\ Trace(sent'[q], 2, "Ready")
      BY <1>1, <2>3 DEF WorkerExecute, WorkerConsistent
    <3> QED BY <3>1 DEF WorkerConsistent
  <2>4. CASE WorkerQueryFinished(q) \/ WorkerQueryFails(q)
    <3>1. Trace(sent[q], 2, Course[2])
      BY <1>1, <1>4, <2>4 DEF WorkerQueryFinished, WorkerQueryFails, WorkerConsistent
    <3>2. \A e \in Events : Send(q, e) => Trace(sent'[q], 3, e)
      BY <1>3, <3>1
    <3>3. CASE WorkerQueryFinished(q)
      <4>1. worker'[q] = "fetching" /\ session'[q] = "idle" /\ Trace(sent'[q], 3, "Finished")
        BY <1>1, <3>2, <3>3 DEF WorkerQueryFinished, Events
      <4> QED BY <4>1 DEF WorkerConsistent
    <3>4. CASE WorkerQueryFails(q)
      <4>1. worker'[q] = "closing" /\ session'[q] = "idle" /\ Complete(sent'[q])
        BY <1>1, <1>5, <3>2, <3>4 DEF WorkerQueryFails, Events
      <4> QED BY <4>1 DEF WorkerConsistent
    <3> QED BY <2>4, <3>3, <3>4
  <2>5. CASE WorkerFetchRows(q) \/ WorkerSendNull(q) \/ (WorkerFetchFails(q) /\ worker[q] = "fetching")
    <3>1. Trace(sent[q], 3, Course[3]) /\ session[q] = "idle"
      BY <1>1, <1>4, <2>5 DEF WorkerFetchRows, WorkerSendNull, WorkerConsistent
    <3>2. \A e \in Events : Send(q, e) => Trace(sent'[q], 4, e)
      BY <1>3, <3>1
    <3>3. CASE WorkerSendNull(q)
      <4>1. worker'[q] = "null_sent" /\ session'[q] = "idle" /\ Trace(sent'[q], 4, "Null")
        BY <1>1, <3>1, <3>2, <3>3 DEF WorkerSendNull, Events
      <4> QED BY <4>1 DEF WorkerConsistent
    <3>4. CASE WorkerFetchRows(q) \/ WorkerFetchFails(q)
      <4>1. worker'[q] = "closing" /\ session'[q] = "idle" /\ Complete(sent'[q])
        BY <1>1, <1>5, <1>6, <3>1, <3>2, <3>4 DEF WorkerFetchRows, WorkerFetchFails, Events
      <4> QED BY <4>1 DEF WorkerConsistent
    <3> QED BY <2>5, <3>3, <3>4
  <2>6. CASE WorkerFetchFails(q) /\ worker[q] = "null_sent"
    <3>1. Trace(sent[q], 4, Course[4]) /\ session[q] = "idle"
      BY <1>1, <1>4, <2>6 DEF WorkerConsistent
    <3>2. \A e \in Events : Send(q, e) => Trace(sent'[q], 5, e)
      BY <1>3, <3>1
    <3>3. worker'[q] = "closing" /\ session'[q] = "idle" /\ Complete(sent'[q])
      BY <1>1, <1>5, <2>6, <3>1, <3>2 DEF WorkerFetchFails, Events
    <3> QED BY <3>3 DEF WorkerConsistent
  <2>7. CASE WorkerClose(q)
    BY <1>1, <2>7 DEF WorkerClose, WorkerConsistent
  <2> QED
    BY <2>1, <2>2, <2>3, <2>4, <2>5, <2>6, <2>7 DEF WorkerNext, WorkerFetchFails
<1> QED BY <1>2, <1>7

\* What the server can do to a session without the client's doing.
SessionFrame(q) ==
  /\ session' = [session EXCEPT ![q] = session'[q]]
  /\ \/ session[q] = "running" /\ session'[q] \in {"done", "failed", "cancelled"}
     \/ session[q] = "orphan" /\ session'[q] = "gone"
     \/ session'[q] = session[q]
  /\ UNCHANGED << worker, sent >>

LEMMA SessionStepConsistent ==
  ASSUME TypeOK, \A r \in Calls : WorkerConsistent(r), NEW q \in Calls, SessionFrame(q)
  PROVE  /\ \A r \in Calls : WorkerConsistent(r)'
         /\ session' \in [Calls -> SessionStates]
<1>1. ASSUME NEW r \in Calls, session'[r] = session[r] PROVE WorkerConsistent(r)'
  BY <1>1 DEF SessionFrame, WorkerConsistent
<1>2. CASE session[q] = "running" /\ session'[q] \in {"done", "failed", "cancelled"}
  <2>1. worker[q] = "executing" /\ Trace(sent[q], 2, "Ready")
    BY <1>2 DEF TypeOK, WorkerStates, WorkerConsistent
  <2>2. worker'[q] = "executing" /\ Trace(sent'[q], 2, "Ready")
    BY <2>1 DEF SessionFrame
  <2>3. WorkerConsistent(q)'
    BY <1>2, <2>2 DEF WorkerConsistent
  <2> QED BY <1>1, <1>2, <2>3 DEF SessionFrame, TypeOK, SessionStates
<1>3. CASE session[q] = "orphan" /\ session'[q] = "gone"
  <2>1. worker[q] = "killed"
    BY <1>3 DEF TypeOK, WorkerStates, WorkerConsistent
  <2>2. WorkerConsistent(q)'
    BY <1>3, <2>1 DEF SessionFrame, WorkerConsistent
  <2> QED BY <1>1, <1>3, <2>2 DEF SessionFrame, TypeOK, SessionStates
<1>4. CASE session'[q] = session[q]
  <2>1. session' = session
    BY <1>4 DEF SessionFrame, TypeOK
  <2> QED BY <1>1, <2>1 DEF TypeOK
<1> QED BY <1>2, <1>3, <1>4 DEF SessionFrame

\* The server's own steps keep the invariant.
LEMMA ServerStep ==
  ASSUME IndInv, NEW q \in Calls, ServerNext(q)
  PROVE  IndInv'
<1>1. TypeOK /\ SessionFrame(q) /\ UNCHANGED parentVars
  BY DEF IndInv, TypeOK, SessionFrame, ServerNext, ServerFinish, ServerFail
<1>2. TypeOK' /\ \A r \in Calls : WorkerConsistent(r)'
  BY <1>1, SessionStepConsistent DEF IndInv, TypeOK, SessionFrame, parentVars
<1>3. ParentConsistent'
  BY <1>1 DEF IndInv, ParentConsistent, ReadOnCourse, Alive, SessionFrame, parentVars
<1>4. ASSUME NEW r \in Calls PROVE CallConsistent(r)'
  <2>1. session[r] \in {"none", "gone"} => session'[r] = session[r]
    BY <1>1 DEF SessionFrame, TypeOK
  <2> QED BY <1>1, <2>1 DEF IndInv, CallConsistent, Alive, SessionFrame, parentVars
<1> QED BY <1>1, <1>2, <1>3, <1>4 DEF IndInv, parentVars

\* A worker that is killed, by the parent or by the operating system.
LEMMA KillConsistent ==
  ASSUME TypeOK, \A r \in Calls : WorkerConsistent(r), NEW q \in Calls, Kill(q), UNCHANGED sent
  PROVE  /\ \A r \in Calls : WorkerConsistent(r)'
         /\ worker' \in [Calls -> WorkerStates] /\ session' \in [Calls -> SessionStates]
         /\ ~Alive(q)' /\ (worker[q] # "none" => worker'[q] # "none")
         /\ \A r \in Calls : r # q => worker'[r] = worker[r] /\ session'[r] = session[r]
         /\ \A r \in Calls : ~Alive(r) => worker'[r] = worker[r] /\ session'[r] = session[r]
<1>1. CASE ~Alive(q)
  BY <1>1 DEF Kill, TypeOK, WorkerConsistent, Alive
<1>2. CASE Alive(q)
  <2>1. /\ worker' = [worker EXCEPT ![q] = "killed"]
        /\ session' = [session EXCEPT ![q] = Dropped(session[q])]
    BY <1>2 DEF Kill
  <2>2. Dropped(session[q]) \in SessionStates
    BY DEF TypeOK, Dropped, SessionStates
  <2>3. /\ Len(sent[q]) = 0 \/ (\E n \in 1 .. 4 : Trace(sent[q], n, Course[n])) \/ Complete(sent[q])
        /\ Dropped(session[q]) \in {"none", "orphan", "gone"}
        /\ Dropped(session[q]) = "orphan" => Trace(sent[q], 2, "Ready")
    <3>1. Course[1] = "Connected" /\ Course[2] = "Ready" /\ Course[3] = "Finished" /\ Course[4] = "Null"
      BY DEF Course
    <3>2. worker[q] \in {"connecting", "connected", "ready", "executing", "fetching", "null_sent", "closing"}
      BY <1>2 DEF Alive, TypeOK, WorkerStates
    <3>3. CASE worker[q] = "connecting"
      BY <3>3 DEF WorkerConsistent, Dropped
    <3>4. CASE worker[q] = "connected"
      <4>1. Trace(sent[q], 1, Course[1]) /\ session[q] = "idle"
        BY <3>1, <3>4 DEF WorkerConsistent
      <4> QED BY <4>1 DEF Dropped
    <3>5. CASE worker[q] \in {"ready", "executing"}
      <4>1. Trace(sent[q], 2, "Ready")
        BY <3>5 DEF WorkerConsistent
      <4>2. session[q] \in {"idle", "running", "done", "failed", "cancelled"}
        BY <3>5 DEF WorkerConsistent
      <4> QED BY <3>1, <4>1, <4>2 DEF Dropped
    <3>6. CASE worker[q] = "fetching"
      <4>1. Trace(sent[q], 3, Course[3]) /\ session[q] = "idle"
        BY <3>1, <3>6 DEF WorkerConsistent
      <4> QED BY <4>1 DEF Dropped
    <3>7. CASE worker[q] = "null_sent"
      <4>1. Trace(sent[q], 4, Course[4]) /\ session[q] = "idle"
        BY <3>1, <3>7 DEF WorkerConsistent
      <4> QED BY <4>1 DEF Dropped
    <3>8. CASE worker[q] = "closing"
      BY <3>8 DEF WorkerConsistent, Dropped
    <3> QED BY <3>2, <3>3, <3>4, <3>5, <3>6, <3>7, <3>8
  <2>4. WorkerConsistent(q)'
    <3>1. worker'[q] = "killed" /\ session'[q] = Dropped(session[q]) /\ sent'[q] = sent[q]
      BY <2>1 DEF TypeOK
    <3> QED BY <2>3, <3>1 DEF WorkerConsistent
  <2>5. \A r \in Calls : r # q => worker'[r] = worker[r] /\ session'[r] = session[r]
    BY <2>1 DEF TypeOK
  <2>6. \A r \in Calls : r # q => WorkerConsistent(r)'
    BY <2>5 DEF WorkerConsistent
  <2> QED BY <1>2, <2>1, <2>2, <2>4, <2>5, <2>6 DEF TypeOK, Alive, WorkerStates
<1> QED BY <1>1, <1>2

LEMMA WorkerDiesStep ==
  ASSUME IndInv, NEW q \in Calls, WorkerDies(q)
  PROVE  IndInv'
<1>1. TypeOK /\ Kill(q) /\ UNCHANGED sent /\ UNCHANGED parentVars
  BY DEF IndInv, WorkerDies
<1>2. TypeOK' /\ \A r \in Calls : WorkerConsistent(r)'
  BY <1>1, KillConsistent DEF IndInv, TypeOK, parentVars
<1>3. /\ \A r \in Calls : ~Alive(r) => worker'[r] = worker[r] /\ session'[r] = session[r]
      /\ \A r \in Calls : worker[r] # "none" => worker'[r] # "none"
      /\ \A r \in Calls : Alive(r)' => Alive(r)
  BY <1>1, KillConsistent DEF IndInv, Alive
<1>4. ParentConsistent'
  <2>1. parent # "idle" => cur \in Calls
    BY MaxCallsAssumption DEF IndInv, ParentConsistent, TypeOK, Calls
  <2> QED BY <1>1, <1>3, <2>1 DEF IndInv, ParentConsistent, ReadOnCourse, parentVars
<1>5. ASSUME NEW r \in Calls PROVE CallConsistent(r)'
  BY <1>1, <1>3 DEF IndInv, CallConsistent, Alive, parentVars
<1> QED BY <1>1, <1>2, <1>4, <1>5 DEF IndInv, parentVars

\* What stays as it is stays in agreement.
LEMMA SameWorker ==
  ASSUME NEW r \in Calls, WorkerConsistent(r),
         worker'[r] = worker[r], session'[r] = session[r], sent'[r] = sent[r]
  PROVE  WorkerConsistent(r)'
BY DEF WorkerConsistent

LEMMA SameCall ==
  ASSUME NEW r \in Calls, CallConsistent(r),
         worker'[r] = worker[r], session'[r] = session[r], outcome'[r] = outcome[r],
         r > cur' => r > cur,
         Alive(r) /\ r = cur /\ parent # "idle" => r = cur' /\ parent' # "idle"
  PROVE  CallConsistent(r)'
BY DEF CallConsistent, Alive

\* A call that has not started has no worker, no events and no session.
LEMMA NextCallIsFresh ==
  ASSUME IndInv, cur < MaxCalls
  PROVE  /\ cur + 1 \in Calls /\ worker[cur + 1] = "none" /\ outcome[cur + 1] = "none"
         /\ Len(sent[cur + 1]) = 0 /\ session[cur + 1] = "none"
<1>1. cur \in Nat /\ cur + 1 \in Calls
  BY MaxCallsAssumption DEF IndInv, TypeOK, Calls
<1>2. CallConsistent(cur + 1) /\ WorkerConsistent(cur + 1)
  BY <1>1 DEF IndInv
<1>3. worker[cur + 1] = "none" /\ outcome[cur + 1] = "none"
  BY <1>1, <1>2 DEF CallConsistent
<1> QED BY <1>1, <1>2, <1>3 DEF WorkerConsistent

\* A worker that has just been started, and a call that has just begun.
LEMMA FreshWorker ==
  ASSUME NEW n \in Calls, worker'[n] = "connecting", session'[n] = "none", Len(sent'[n]) = 0
  PROVE  WorkerConsistent(n)'
BY DEF WorkerConsistent

LEMMA FreshCall ==
  ASSUME NEW n \in Calls, ~(n > cur'), session'[n] = "none",
         \/ worker'[n] = "none"
         \/ n = cur' /\ parent' = "ctl" /\ outcome'[n] = "none"
  PROVE  CallConsistent(n)'
BY DEF CallConsistent, Alive

\* Starting a call: the new worker is the only one on behalf of the call in progress.
LEMMA StartStep ==
  ASSUME IndInv, StartCall \/ StartCallFails \/ DirectQuery \/ ResetConnection
  PROVE  IndInv'
<1>1. TypeOK /\ parent = "idle"
  BY DEF IndInv, StartCall, StartCallFails, DirectQuery, ResetConnection
<1>2. CASE StartCall
  <2>1. /\ cur + 1 \in Calls /\ worker[cur + 1] = "none" /\ outcome[cur + 1] = "none"
        /\ Len(sent[cur + 1]) = 0 /\ session[cur + 1] = "none"
    BY <1>2, NextCallIsFresh DEF StartCall
  <2>2. /\ cur' = cur + 1 /\ parent' = "ctl" /\ read' = 0
        /\ worker' = [worker EXCEPT ![cur + 1] = "connecting"]
        /\ UNCHANGED << sent, session, outcome >>
    BY <1>2 DEF StartCall
  <2>3. /\ worker'[cur + 1] = "connecting"
        /\ \A r \in Calls : r # cur + 1 => worker'[r] = worker[r]
    BY <1>1, <2>1, <2>2 DEF TypeOK
  <2>4. TypeOK'
    BY <1>1, <1>2, <2>1 DEF StartCall, TypeOK, ParentStates, Results, WorkerStates, WatchdogReady, Calls
  <2>5. PICK n \in Calls : n = cur + 1
    BY <2>1
  <2>9. /\ worker'[n] = "connecting" /\ session'[n] = "none" /\ outcome'[n] = "none"
        /\ Len(sent'[n]) = 0 /\ cur' = n /\ ~(n > cur')
    <3>1. cur' = n /\ ~(n > cur')
      BY <2>2, <2>5 DEF Calls
    <3> QED BY <2>1, <2>2, <2>3, <2>5, <3>1
  <2>6. ParentConsistent'
    BY <1>1, <2>1, <2>2, <2>3 DEF ParentConsistent, TypeOK, Calls
  <2>7. ASSUME NEW r \in Calls, r # cur + 1 PROVE WorkerConsistent(r)' /\ CallConsistent(r)'
    <3>1. r > cur' => r > cur
      BY <1>1, <2>2 DEF TypeOK, Calls
    <3> QED BY <1>1, <2>2, <2>3, <2>7, <3>1, SameWorker, SameCall DEF IndInv
  <2>8. WorkerConsistent(n)' /\ CallConsistent(n)'
    BY <2>2, <2>9, FreshWorker, FreshCall
  <2>10. \A r \in Calls : WorkerConsistent(r)' /\ CallConsistent(r)'
    BY <2>5, <2>7, <2>8
  <2> QED BY <2>2, <2>4, <2>6, <2>10 DEF IndInv
<1>3. CASE StartCallFails \/ DirectQuery
  <2>1. /\ cur + 1 \in Calls /\ worker[cur + 1] = "none" /\ session[cur + 1] = "none"
    BY <1>3, NextCallIsFresh DEF StartCallFails, DirectQuery
  <2>2. UNCHANGED << parent, read, result, worker, sent, session >> /\ cur' = cur + 1
    BY <1>3 DEF StartCallFails, DirectQuery
  <2>3. /\ outcome' \in [Calls -> Outcomes]
        /\ \A r \in Calls : r # cur + 1 => outcome'[r] = outcome[r]
    BY <1>1, <1>3 DEF StartCallFails, DirectQuery, TypeOK, Outcomes
  <2>4. runtime' \in Runtimes /\ watchdog' \in {"none", "open", "lost"}
    <3>1. runtime' = runtime \/ runtime' = [of |-> cur + 1, kind |-> "measured"]
      BY <1>3 DEF StartCallFails, DirectQuery
    <3>2. [of |-> cur + 1, kind |-> "measured"] \in Runtimes
      BY <1>1, <2>1 DEF Runtimes, Calls, TypeOK
    <3> QED BY <1>1, <1>3, <3>1, <3>2 DEF StartCallFails, DirectQuery, TypeOK, WatchdogReady
  <2>5. TypeOK'
    BY <1>1, <2>1, <2>2, <2>3, <2>4 DEF TypeOK, Calls
  <2>6. PICK n \in Calls : n = cur + 1
    BY <2>1
  <2>10. CallConsistent(n)'
    <3>1. ~(n > cur')
      BY <2>2, <2>6 DEF Calls
    <3>2. worker'[n] = "none" /\ session'[n] = "none"
      BY <2>1, <2>2, <2>6
    <3> QED BY <3>1, <3>2, FreshCall
  <2>7. ASSUME NEW r \in Calls PROVE WorkerConsistent(r)'
    BY <2>2, SameWorker DEF IndInv
  <2>8. ASSUME NEW r \in Calls, r # cur + 1 PROVE CallConsistent(r)'
    <3>1. r > cur' => r > cur
      BY <1>1, <2>2 DEF TypeOK, Calls
    <3> QED BY <1>1, <2>2, <2>3, <2>8, <3>1, SameCall DEF IndInv
  <2>9. ParentConsistent'
    BY <1>1, <2>2 DEF ParentConsistent
  <2>11. \A r \in Calls : CallConsistent(r)'
    BY <2>6, <2>8, <2>10
  <2> QED BY <1>1, <2>2, <2>5, <2>7, <2>9, <2>11 DEF IndInv
<1>4. CASE ResetConnection
  <2>1. UNCHANGED << cur, parent, read, result, outcome, worker, sent, session >>
    BY <1>4 DEF ResetConnection
  <2>2. TypeOK'
    <3>1. Nan \in Runtimes
      BY MaxCallsAssumption DEF Runtimes, Nan
    <3>2. runtime' \in Runtimes /\ watchdog' = "none"
      BY <1>1, <1>4, <3>1 DEF ResetConnection, TypeOK
    <3> QED BY <1>1, <2>1, <3>2 DEF TypeOK
  <2>3. ParentConsistent' /\ \A r \in Calls : WorkerConsistent(r)' /\ CallConsistent(r)'
    BY <1>1, <2>1, SameWorker, SameCall DEF IndInv, ParentConsistent
  <2> QED BY <2>1, <2>2, <2>3 DEF IndInv
<1> QED BY <1>2, <1>3, <1>4

\* The state machine's moves that do not end the call.
LEMMA ProgressStep ==
  ASSUME IndInv, Receive \/ PollTimeout \/ LoseWatchdog
  PROVE  IndInv'
<1>1. TypeOK /\ UNCHANGED << cur, outcome, runtime, worker, sent, session >>
  BY DEF IndInv, Receive, PollTimeout, LoseWatchdog
<1>2. \A r \in Calls : WorkerConsistent(r)'
  BY <1>1, SameWorker DEF IndInv
<1>3. (parent # "idle" => parent' # "idle") => \A r \in Calls : CallConsistent(r)'
  BY <1>1 DEF IndInv, CallConsistent, Alive
<1>4. CASE Receive
  <2>1. /\ parent' # "state_error" /\ read' \in 0 .. 4 /\ parent' \in ParentStates
        /\ result' \in Results /\ ParentConsistent'
    BY <1>4, ReceiveKnowsEvent
  <2>2. parent' # "idle"
    BY <1>4 DEF Receive, Transition
  <2>3. TypeOK'
    BY <1>1, <1>4, <2>1 DEF TypeOK, Receive
  <2> QED BY <1>2, <1>3, <2>1, <2>2, <2>3 DEF IndInv
<1>5. CASE PollTimeout
  <2>1. TypeOK'
    BY <1>1, <1>5 DEF TypeOK, PollTimeout, ParentStates, Results
  <2>2. ParentConsistent'
    BY <1>1, <1>5 DEF IndInv, ParentConsistent, PollTimeout
  <2> QED BY <1>2, <1>3, <1>5, <2>1, <2>2 DEF IndInv, PollTimeout
<1>6. CASE LoseWatchdog
  <2>1. TypeOK' /\ ParentConsistent'
    BY <1>1, <1>6 DEF IndInv, TypeOK, LoseWatchdog, ParentConsistent, ReadOnCourse, Alive
  <2> QED BY <1>2, <1>3, <1>6, <2>1 DEF IndInv, LoseWatchdog
<1> QED BY <1>4, <1>5, <1>6

\* Cancelling, terminating and returning.
LEMMA EndStep ==
  ASSUME IndInv, AbortBackend \/ AbortBackendFails \/ TerminateWorker \/ JoinAndReturn
  PROVE  IndInv'
<1>1. TypeOK /\ ParentConsistent /\ cur \in Calls /\ parent # "idle" /\ WorkerConsistent(cur)
  BY MaxCallsAssumption DEF IndInv, TypeOK, ParentConsistent, Calls, AbortBackend, AbortBackendFails,
     TerminateWorker, JoinAndReturn
<1>2. CASE AbortBackend
  <2>1. SessionFrame(cur) /\ UNCHANGED << cur, read, result, outcome, runtime, watchdog, worker, sent >>
    BY <1>1, <1>2 DEF AbortBackend, SessionFrame, Cancelled, TypeOK
  <2>2. TypeOK' /\ \A r \in Calls : WorkerConsistent(r)'
    BY <1>1, <1>2, <2>1, SessionStepConsistent DEF IndInv, TypeOK, AbortBackend, ParentStates
  <2>3. ParentConsistent'
    BY <1>1, <1>2, <2>1 DEF AbortBackend, ParentConsistent
  <2>4. ASSUME NEW r \in Calls PROVE CallConsistent(r)'
    <3>1. session[r] \in {"none", "gone"} => session'[r] = session[r]
      BY <1>1, <2>1 DEF SessionFrame, TypeOK
    <3> QED BY <1>1, <1>2, <2>1, <3>1 DEF AbortBackend, IndInv, CallConsistent, Alive
  <2> QED BY <1>2, <2>2, <2>3, <2>4 DEF IndInv, AbortBackend
<1>3. CASE AbortBackendFails
  <2>1. TypeOK'
    BY <1>1, <1>3 DEF TypeOK, AbortBackendFails, ParentStates, Outcomes
  <2>2. ParentConsistent'
    BY <1>3 DEF AbortBackendFails, ParentConsistent
  <2>3. ASSUME NEW r \in Calls PROVE WorkerConsistent(r)' /\ CallConsistent(r)'
    <3>1. /\ UNCHANGED << cur, worker, sent, session >> /\ parent' = "idle"
          /\ outcome' = [outcome EXCEPT ![cur] = "raised"]
      BY <1>3 DEF AbortBackendFails
    <3>2. CASE r = cur
      BY <1>1, <3>1, <3>2, SameWorker DEF IndInv, CallConsistent, TypeOK, Calls
    <3>3. CASE r # cur
      <4>1. outcome'[r] = outcome[r]
        BY <1>1, <3>1, <3>3 DEF TypeOK
      <4> QED BY <1>1, <3>1, <3>3, <4>1, SameWorker, SameCall DEF IndInv
    <3> QED BY <3>2, <3>3
  <2> QED BY <1>3, <2>1, <2>2, <2>3 DEF IndInv, AbortBackendFails
<1>4. CASE TerminateWorker
  <2>1. /\ Kill(cur) /\ UNCHANGED << cur, read, result, outcome, runtime, watchdog, sent >>
        /\ parent' = "join" /\ parent = "terminate"
    BY <1>4 DEF TerminateWorker
  <2>2. TypeOK' /\ \A r \in Calls : WorkerConsistent(r)'
    BY <1>1, <2>1, KillConsistent DEF IndInv, TypeOK, ParentStates
  <2>3. /\ \A r \in Calls : ~Alive(r) => worker'[r] = worker[r] /\ session'[r] = session[r]
        /\ \A r \in Calls : Alive(r)' => Alive(r)
        /\ ~Alive(cur)' /\ worker'[cur] # "none"
    BY <1>1, <2>1, KillConsistent DEF IndInv, Alive, ParentConsistent
  <2>4. ParentConsistent'
    BY <1>1, <2>1, <2>3 DEF ParentConsistent
  <2>5. ASSUME NEW r \in Calls PROVE CallConsistent(r)'
    BY <1>1, <2>1, <2>3 DEF IndInv, CallConsistent, Alive
  <2> QED BY <2>1, <2>2, <2>4, <2>5 DEF IndInv
<1>5. CASE JoinAndReturn
  <2>1. /\ parent = "join" /\ parent' = "idle" /\ ~Alive(cur) /\ result # "none"
        /\ outcome' = [outcome EXCEPT ![cur] = result]
        /\ UNCHANGED << cur, read, result, watchdog, worker, sent, session >>
    BY <1>1, <1>5 DEF JoinAndReturn, ParentConsistent
  <2>2. TypeOK'
    <3>1. runtime' \in Runtimes
      <4>1. /\ Nan \in Runtimes
            /\ [of |-> cur, kind |-> "measured"] \in Runtimes
            /\ [of |-> cur, kind |-> "timeout"] \in Runtimes
        BY <1>1, MaxCallsAssumption DEF Runtimes, Nan, TypeOK
      <4>2. runtime' = Published(result)
        BY <1>5 DEF JoinAndReturn
      <4> QED BY <4>1, <4>2 DEF Published
    <3>2. outcome' \in [Calls -> Outcomes]
      BY <1>1, <2>1 DEF TypeOK, Outcomes, Results
    <3> QED BY <1>1, <2>1, <3>1, <3>2 DEF TypeOK, ParentStates
  <2>3. ParentConsistent'
    BY <2>1 DEF ParentConsistent
  <2>4. result \in {"rows", "null", "failure"} => session[cur] \in {"none", "gone"}
    <3>1. CASE worker[cur] = "exited"
      BY <1>1, <3>1 DEF WorkerConsistent
    <3>2. CASE worker[cur] = "killed"
      <4>1. session[cur] = "orphan" => Len(sent[cur]) = 2 /\ sent[cur][2] = "Ready"
        BY <1>1, <3>2 DEF WorkerConsistent, Trace
      <4>2. result = "failure" => session[cur] # "orphan"
        BY <1>1, <2>1, <4>1 DEF ParentConsistent, Failed
      <4>3. result \in {"rows", "null"} => session[cur] # "orphan"
        <5>1. result \in {"rows", "null"} => Len(sent[cur]) >= 4
          BY <1>1, <2>1 DEF ParentConsistent
        <5>2. Len(sent[cur]) = 2 => ~(Len(sent[cur]) >= 4)
          OBVIOUS
        <5> QED BY <4>1, <5>1, <5>2
      <4> QED BY <1>1, <3>2, <4>2, <4>3 DEF WorkerConsistent
    <3>3. worker[cur] # "none"
      BY <1>1 DEF ParentConsistent
    <3> QED BY <2>1, <3>1, <3>2, <3>3 DEF Alive
  <2>5. ASSUME NEW r \in Calls PROVE WorkerConsistent(r)' /\ CallConsistent(r)'
    <3>1. WorkerConsistent(r)'
      BY <2>1, SameWorker DEF IndInv
    <3>2. CASE r = cur
      <4>1. ~(r > cur) /\ outcome'[r] = result /\ ~Alive(r)'
        BY <1>1, <2>1, <3>2 DEF TypeOK, Calls, Alive
      <4>2. result \in {"rows", "null", "failure"} => session'[r] \in {"none", "gone"}
        BY <2>1, <2>4, <3>2
      <4>3. ~(r > cur')
        BY <2>1, <4>1
      <4>4. CallConsistent(r)'
        BY <4>1, <4>2, <4>3 DEF CallConsistent
      <4> QED BY <3>1, <4>4
    <3>3. CASE r # cur
      <4>1. outcome'[r] = outcome[r]
        BY <1>1, <2>1, <3>3 DEF TypeOK
      <4>2. /\ worker'[r] = worker[r] /\ session'[r] = session[r]
            /\ r > cur' => r > cur
        BY <2>1
      <4>3. CallConsistent(r)
        BY DEF IndInv
      <4>4. CallConsistent(r)'
        BY <3>3, <4>1, <4>2, <4>3, SameCall
      <4> QED BY <3>1, <4>4
    <3> QED BY <3>2, <3>3
  <2> QED BY <2>1, <2>2, <2>3, <2>5 DEF IndInv
<1> QED BY <1>2, <1>3, <1>4, <1>5

\* The invariant is inductive.
LEMMA NextIndInv == IndInv /\ [Next]_vars => IndInv'
<1> SUFFICES ASSUME IndInv, [Next]_vars PROVE IndInv'
  OBVIOUS
<1>1. CASE ParentNext
  BY <1>1, StartStep, ProgressStep, EndStep DEF ParentNext
<1>2. ASSUME NEW q \in Calls, WorkerNext(q) PROVE IndInv'
  <2>1. TypeOK /\ WorkerConsistent(q)
    BY DEF IndInv
  <2>2. WorkerFrame(q)
    BY <1>2, <2>1, WorkerStepFrame
  <2> QED BY <1>2, <2>2, WorkerStepParent, WorkerStepConsistent DEF IndInv, WorkerFrame, parentVars
<1>3. ASSUME NEW q \in Calls, ServerNext(q) \/ WorkerDies(q) PROVE IndInv'
  BY <1>3, ServerStep, WorkerDiesStep
<1>4. CASE LoseWatchdog
  BY <1>4, ProgressStep
<1>5. CASE UNCHANGED vars
  <2>1. UNCHANGED << parentVars, worker, sent, session >>
    BY <1>5 DEF vars, parentVars
  <2>2. TypeOK' /\ ParentConsistent'
    BY <2>1 DEF IndInv, TypeOK, ParentConsistent, ReadOnCourse, Alive, parentVars
  <2>3. \A r \in Calls : WorkerConsistent(r)' /\ CallConsistent(r)'
    BY <2>1, SameWorker, SameCall DEF IndInv, parentVars
  <2> QED BY <2>1, <2>2, <2>3 DEF IndInv, parentVars
<1> QED BY <1>1, <1>2, <1>3, <1>4, <1>5 DEF Next

\* Every reachable state satisfies the inductive invariant, and with it the types.
THEOREM Invariance == Spec => []IndInv
<1> QED BY InitIndInv, NextIndInv, PTL DEF Spec

\* Type correctness of the executor's state.
THEOREM TypeCorrect == Spec => []TypeOK
<1>1. IndInv => TypeOK
  BY DEF IndInv
<1> QED BY <1>1, Invariance, PTL

\* The StateError branches of the state functions _timeout_worker_ctl, _prep,
\* _run_query and _await_result are unreachable, for any number of calls and
\* with workers that die and a watchdog that is lost at any moment.
THEOREM ProtocolSafety == Spec => []NoUnexpectedEvent
<1>1. IndInv => NoUnexpectedEvent
  BY DEF IndInv, NoUnexpectedEvent
<1> QED BY <1>1, Invariance, PTL

\* A call that came back with a result or the worker's error has no worker
\* process and no server session left.
THEOREM CallsEndCleanly == Spec => []ReturnedCallIsOver
<1>1. IndInv => ReturnedCallIsOver
  BY DEF IndInv, CallConsistent, ReturnedCallIsOver
<1> QED BY <1>1, Invariance, PTL

\* Two workers are alive at once only after a call that could not cancel.
THEOREM OneWorkerAtATime == Spec => []WorkersDoNotOverlap
<1>1. IndInv => WorkersDoNotOverlap
  BY DEF IndInv, CallConsistent, WorkersDoNotOverlap
<1> QED BY <1>1, Invariance, PTL

\* A step that cancels a running statement is AbortBackend of the call that owns it,
\* and an error was not the reason.
LEMMA CancelStep ==
  ASSUME IndInv, Next, NEW q \in Calls, session[q] = "running", session'[q] = "cancelled"
  PROVE  AbortBackend /\ q = cur
<1>1. session \in [Calls -> SessionStates]
  BY DEF IndInv, TypeOK
<1>2. ~ UNCHANGED session
  OBVIOUS
<1>3. CASE ParentNext
  <2>1. AbortBackend \/ TerminateWorker
    BY <1>2, <1>3 DEF ParentNext, StartCall, StartCallFails, DirectQuery, ResetConnection,
       Receive, PollTimeout, AbortBackendFails, JoinAndReturn
  <2>2. CASE AbortBackend
    BY <1>1, <2>2 DEF AbortBackend
  <2>3. CASE TerminateWorker
    BY <1>1, <1>2, <2>3 DEF TerminateWorker, Kill, Dropped
  <2> QED BY <2>1, <2>2, <2>3
<1>4. ASSUME NEW r \in Calls, WorkerNext(r) PROVE FALSE
  BY <1>1, <1>2, <1>4 DEF WorkerNext, WorkerConnect, WorkerConnectFails, WorkerPrepare,
     WorkerPrepareFails, WorkerExecute, WorkerQueryFinished, WorkerQueryFails, WorkerFetchRows,
     WorkerSendNull, WorkerFetchFails, WorkerClose
<1>5. ASSUME NEW r \in Calls, ServerNext(r) PROVE FALSE
  BY <1>1, <1>5 DEF ServerNext, ServerFinish, ServerFail
<1>6. ASSUME NEW r \in Calls, WorkerDies(r) PROVE FALSE
  BY <1>1, <1>6 DEF WorkerDies, Kill, Dropped
<1>7. CASE LoseWatchdog
  BY <1>2, <1>7 DEF LoseWatchdog
<1> QED BY <1>3, <1>4, <1>5, <1>6, <1>7 DEF Next

\* A running statement is interrupted only because its own call timed out, never by
\* the cancellation that follows an error and never for another call.
THEOREM CancellationOnlyOnTimeout == Spec => OnlyTimeoutCancels
<1>1. ASSUME IndInv, Next, NEW q \in Calls, session[q] = "running", session'[q] = "cancelled"
      PROVE  q = cur /\ parent = "abort" /\ result = "timeout"
  <2>1. AbortBackend /\ q = cur
    BY <1>1, CancelStep
  <2>2. parent = "abort" /\ result \in {"timeout", "failure"} /\ TypeOK /\ WorkerConsistent(cur)
    BY <1>1, <2>1 DEF AbortBackend, IndInv, ParentConsistent
  <2>3. worker[cur] = "executing"
    BY <1>1, <2>1, <2>2 DEF WorkerConsistent, TypeOK, WorkerStates
  <2>4. Len(sent[cur]) = 2 /\ sent[cur][2] = "Ready"
    BY <2>2, <2>3 DEF WorkerConsistent, Trace
  <2>5. result # "failure"
    BY <1>1, <2>2, <2>4 DEF IndInv, ParentConsistent, Failed
  <2> QED BY <2>1, <2>2, <2>5
<1>2. IndInv /\ [Next]_vars => 
        [\A q \in Calls : session[q] = "running" /\ session'[q] = "cancelled"
           => q = cur /\ parent = "abort" /\ result = "timeout"]_vars
  BY <1>1
<1> QED BY <1>2, Invariance, PTL DEF Spec, OnlyTimeoutCancels

-------------------------------------------------------------------------------
(* The runtime. *)

\* Only the return of a call, a direct query and a reset set the runtime, and the parent
\* becomes idle in no other way than by raising an error.
LEMMA RuntimeStep ==
  ASSUME IndInv, RuntimeOfLatestCall, [Next]_vars
  PROVE  RuntimeOfLatestCall'
<1>1. cur \in 0 .. MaxCalls /\ outcome \in [Calls -> Outcomes] /\ parent \in ParentStates
  BY DEF IndInv, TypeOK
<1>2. CASE StartCall \/ AbortBackend \/ TerminateWorker \/ PollTimeout
  <2>1. parent' # "idle"
    BY <1>2 DEF StartCall, AbortBackend, TerminateWorker, PollTimeout
  <2> QED BY <2>1 DEF RuntimeOfLatestCall
<1>3. CASE Receive
  <2>1. parent' # "idle"
    BY <1>3 DEF Receive, Transition
  <2> QED BY <2>1 DEF RuntimeOfLatestCall
<1>4. CASE StartCallFails \/ DirectQuery
  <2>1. cur' = cur + 1 /\ cur + 1 \in Calls
    BY <1>1, <1>4, MaxCallsAssumption DEF StartCallFails, DirectQuery, Calls
  <2>2. outcome'[cur'] = "raised" \/ runtime'.of = cur'
    <3>1. CASE StartCallFails
      BY <1>1, <2>1, <3>1 DEF StartCallFails
    <3>2. CASE DirectQuery
      BY <1>1, <2>1, <3>2 DEF DirectQuery
    <3> QED BY <1>4, <3>1, <3>2
  <2> QED BY <2>2 DEF RuntimeOfLatestCall
<1>5. CASE ResetConnection
  BY <1>5 DEF ResetConnection, RuntimeOfLatestCall
<1>6. CASE AbortBackendFails
  <2>1. cur \in Calls
    BY <1>1, <1>6, MaxCallsAssumption DEF IndInv, ParentConsistent, AbortBackendFails, Calls
  <2>2. outcome'[cur'] = "raised"
    BY <1>1, <1>6, <2>1 DEF AbortBackendFails
  <2> QED BY <2>2 DEF RuntimeOfLatestCall
<1>7. CASE JoinAndReturn
  BY <1>7 DEF JoinAndReturn, Published, Nan, RuntimeOfLatestCall
<1>8. CASE LoseWatchdog \/ (\E q \in Calls : WorkerNext(q) \/ ServerNext(q) \/ WorkerDies(q)) \/ UNCHANGED vars
  <2>1. UNCHANGED << cur, parent, outcome, runtime >>
    <3>1. CASE LoseWatchdog
      BY <3>1 DEF LoseWatchdog
    <3>2. ASSUME NEW q \in Calls, WorkerNext(q) PROVE UNCHANGED << cur, parent, outcome, runtime >>
      BY <3>2 DEF WorkerNext, WorkerConnect, WorkerConnectFails, WorkerPrepare, WorkerPrepareFails,
         WorkerExecute, WorkerQueryFinished, WorkerQueryFails, WorkerFetchRows, WorkerSendNull,
         WorkerFetchFails, WorkerClose, parentVars
    <3>3. ASSUME NEW q \in Calls, ServerNext(q) \/ WorkerDies(q)
          PROVE  UNCHANGED << cur, parent, outcome, runtime >>
      BY <3>3 DEF ServerNext, ServerFinish, ServerFail, WorkerDies, parentVars
    <3>4. CASE UNCHANGED vars
      BY <3>4 DEF vars
    <3> QED BY <1>8, <3>1, <3>2, <3>3, <3>4
  <2> QED BY <2>1 DEF RuntimeOfLatestCall
<1> QED BY <1>2, <1>3, <1>4, <1>5, <1>6, <1>7, <1>8 DEF Next, ParentNext

\* Between calls, last_query_runtime is that of the latest call or NaN unless the call
\* raised: no result, timeout or error of the worker is reported with an earlier time.
THEOREM RuntimeIsFresh == Spec => []RuntimeOfLatestCall
<1>1. Init => RuntimeOfLatestCall
  BY DEF Init, RuntimeOfLatestCall
<1> QED BY <1>1, RuntimeStep, Invariance, PTL DEF Spec

-------------------------------------------------------------------------------
(* Refinement of TimedExecution. *)

Active == IF parent = "idle" THEN 0 ELSE cur
Busy == {q \in Calls : session[q] \in {"running", "orphan"}}

\* A change of a session that neither starts nor ends a statement.
LEMMA BusyOfSession ==
  ASSUME TypeOK, NEW q \in Calls, NEW state,
         session' = [session EXCEPT ![q] = state],
         session[q] \in {"running", "orphan"} <=> state \in {"running", "orphan"}
  PROVE  Busy' = Busy
BY DEF TypeOK, Busy

LEMMA BusyOfUnchanged == UNCHANGED session => Busy' = Busy
BY DEF Busy

\* Closing a worker's socket lets a running statement run on.
LEMMA BusyOfKill ==
  ASSUME IndInv, NEW q \in Calls, Kill(q)
  PROVE  Busy' = Busy
<1>1. CASE Alive(q)
  <2>1. session' = [session EXCEPT ![q] = Dropped(session[q])]
    BY <1>1 DEF Kill
  <2>2. session[q] \in {"running", "orphan"} <=> Dropped(session[q]) \in {"running", "orphan"}
    BY DEF Dropped
  <2> QED BY <2>1, <2>2, BusyOfSession DEF IndInv
<1>2. CASE ~Alive(q)
  BY <1>2, BusyOfUnchanged DEF Kill
<1> QED BY <1>1, <1>2

LEMMA InitImplements == Init => Promise!Init
BY DEF Init, Promise!Init, Promise!Nan, Nan, Promise!Calls, Calls

\* Beginning, answering and resetting while no call is in progress.
LEMMA IdleImplements ==
  ASSUME IndInv, StartCall \/ StartCallFails \/ DirectQuery \/ ResetConnection
  PROVE  [Promise!Next]_Promise!vars
<1>1. Active = 0 /\ Busy' = Busy
  BY BusyOfUnchanged DEF Active, StartCall, StartCallFails, DirectQuery, ResetConnection
<1>2. CASE StartCall
  <2>1. Active' = cur + 1
    BY <1>2 DEF Active, StartCall
  <2>2. Promise!Begin
    BY <1>1, <1>2, <2>1 DEF Active, Busy, StartCall, Promise!Begin
  <2> QED BY <2>2 DEF Promise!Next
<1>3. CASE StartCallFails \/ DirectQuery
  <2>1. Active' = 0
    BY <1>3 DEF Active, StartCallFails, DirectQuery
  <2>2. Promise!Immediate
    <3>1. CASE StartCallFails
      BY <1>1, <2>1, <3>1 DEF Active, Busy, StartCallFails, Promise!Immediate
    <3>2. CASE DirectQuery
      BY <1>1, <2>1, <3>2 DEF Active, Busy, DirectQuery, Promise!Immediate
    <3> QED BY <1>3, <3>1, <3>2
  <2> QED BY <2>2 DEF Promise!Next
<1>4. CASE ResetConnection
  <2>1. Active' = 0
    BY <1>4 DEF Active, ResetConnection
  <2>2. CASE runtime' = Nan
    <3>1. Promise!Reset
      BY <1>1, <1>4, <2>1, <2>2 DEF Active, Busy, ResetConnection, Promise!Reset, Promise!Nan, Nan
    <3> QED BY <3>1 DEF Promise!Next
  <2>3. CASE runtime' = runtime
    BY <1>1, <1>4, <2>1, <2>3 DEF Active, Busy, ResetConnection, Promise!vars
  <2> QED BY <1>4, <2>2, <2>3 DEF ResetConnection
<1> QED BY <1>2, <1>3, <1>4

\* While the parent waits, aborts and terminates, nothing happens to its caller.
LEMMA WaitingImplements ==
  ASSUME IndInv, Receive \/ PollTimeout \/ AbortBackend \/ TerminateWorker \/ LoseWatchdog
  PROVE  [Promise!Next]_Promise!vars
<1>1. Active' = Active /\ UNCHANGED << cur, outcome, runtime >>
  <2>1. CASE Receive
    BY <2>1 DEF Active, Receive, Transition
  <2>2. CASE PollTimeout \/ AbortBackend \/ TerminateWorker \/ LoseWatchdog
    BY <2>2 DEF Active, PollTimeout, AbortBackend, TerminateWorker, LoseWatchdog
  <2> QED BY <2>1, <2>2
<1>2. Busy' = Busy => [Promise!Next]_Promise!vars
  BY <1>1 DEF Active, Busy, Promise!vars
<1>3. CASE Receive \/ PollTimeout \/ LoseWatchdog
  BY <1>2, <1>3, BusyOfUnchanged DEF Receive, PollTimeout, LoseWatchdog
<1>4. CASE TerminateWorker
  <2>1. cur \in Calls
    BY <1>4, MaxCallsAssumption DEF IndInv, TypeOK, ParentConsistent, TerminateWorker, Calls
  <2> QED BY <1>2, <1>4, <2>1, BusyOfKill DEF TerminateWorker
<1>5. CASE AbortBackend
  <2>1. cur \in Calls
    BY <1>5, MaxCallsAssumption DEF IndInv, TypeOK, ParentConsistent, AbortBackend, Calls
  <2>2. session' = [session EXCEPT ![cur] = Cancelled(session[cur])]
    BY <1>5 DEF AbortBackend
  <2>3. CASE cur \in Busy
    <3>1. Busy' = Busy \ {cur}
      BY <2>1, <2>2, <2>3 DEF IndInv, TypeOK, Busy, Cancelled
    <3>2. PICK q \in Calls : q = cur
      BY <2>1
    <3>3. Promise!StatementEnds(q)
      BY <1>1, <2>3, <3>1, <3>2 DEF Active, Busy, Promise!StatementEnds
    <3> QED BY <3>3 DEF Promise!Next, Promise!Calls, Calls
  <2>4. CASE cur \notin Busy
    <3>1. session[cur] \notin {"running", "orphan"} /\ Cancelled(session[cur]) = session[cur]
      BY <2>1, <2>4 DEF Busy, Cancelled
    <3>2. Busy' = Busy
      BY <2>1, <2>2, <3>1, BusyOfSession DEF IndInv
    <3> QED BY <1>2, <3>2
  <2> QED BY <2>3, <2>4
<1> QED BY <1>3, <1>4, <1>5

\* A call returns with the runtime that belongs to its outcome, and without a running
\* statement unless it timed out or raised.
LEMMA ReturnImplements ==
  ASSUME IndInv, IndInv', JoinAndReturn \/ AbortBackendFails
  PROVE  [Promise!Next]_Promise!vars
<1>1. cur \in Calls /\ cur # 0 /\ Active = cur /\ Active' = 0 /\ Busy' = Busy
  BY BusyOfUnchanged, MaxCallsAssumption
  DEF IndInv, TypeOK, ParentConsistent, JoinAndReturn, AbortBackendFails, Active, Calls
<1>2. CASE JoinAndReturn
  <2>1. outcome' = [outcome EXCEPT ![cur] = result] /\ result \in Results \ {"none"}
    BY <1>2 DEF JoinAndReturn, IndInv, TypeOK, ParentConsistent
  <2>2. result # "timeout" => cur \notin Busy
    <3>1. outcome'[cur] = result
      BY <1>1, <2>1 DEF IndInv, TypeOK
    <3>2. result # "timeout" => session[cur] \in {"none", "gone"}
      BY <1>1, <1>2, <2>1, <3>1 DEF IndInv, CallConsistent, JoinAndReturn, Results
    <3> QED BY <3>2 DEF Busy
  <2>3. runtime' = Published(result) /\ cur' = cur
    BY <1>2 DEF JoinAndReturn
  <2>4. Promise!Return
    <3>1. CASE result = "timeout"
      BY <1>1, <2>1, <2>3, <3>1 DEF Active, Busy, Published, Promise!Return
    <3>2. CASE result = "failure"
      BY <1>1, <2>1, <2>2, <2>3, <3>2 DEF Active, Busy, Published, Nan, Promise!Nan, Promise!Return
    <3>3. CASE result \in {"rows", "null"}
      BY <1>1, <2>1, <2>2, <2>3, <3>3 DEF Active, Busy, Published, Promise!Return
    <3> QED BY <2>1, <3>1, <3>2, <3>3 DEF Results
  <2> QED BY <2>4 DEF Promise!Next
<1>3. CASE AbortBackendFails
  <2>1. Promise!Return
    BY <1>1, <1>3 DEF Active, Busy, AbortBackendFails, Promise!Return
  <2> QED BY <2>1 DEF Promise!Next
<1> QED BY <1>2, <1>3

\* Workers and server: a statement starts only for the call in progress or for one that
\* raised the watchdog's error.
LEMMA WorkerImplements ==
  ASSUME IndInv, NEW q \in Calls, WorkerNext(q) \/ ServerNext(q) \/ WorkerDies(q)
  PROVE  [Promise!Next]_Promise!vars
<1>1. Active' = Active /\ UNCHANGED << cur, outcome, runtime >>
  <2>1. CASE WorkerNext(q)
    BY <2>1 DEF Active, parentVars, WorkerNext, WorkerConnect, WorkerConnectFails, WorkerPrepare,
       WorkerPrepareFails, WorkerExecute, WorkerQueryFinished, WorkerQueryFails, WorkerFetchRows,
       WorkerSendNull, WorkerFetchFails, WorkerClose
  <2>2. CASE ServerNext(q) \/ WorkerDies(q)
    BY <2>2 DEF Active, parentVars, ServerNext, ServerFinish, ServerFail, WorkerDies
  <2> QED BY <2>1, <2>2
<1>2. Busy' = Busy => [Promise!Next]_Promise!vars
  BY <1>1 DEF Active, Busy, Promise!vars
<1>3. TypeOK /\ WorkerConsistent(q) /\ CallConsistent(q)
  BY DEF IndInv
<1>4. CASE WorkerExecute(q)
  <2>1. session[q] = "idle" /\ session' = [session EXCEPT ![q] = "running"] /\ Alive(q)
    BY <1>3, <1>4 DEF WorkerExecute, WorkerStep, WorkerConsistent, Alive
  <2>2. q \notin Busy /\ Busy' = Busy \union {q}
    BY <1>3, <2>1 DEF TypeOK, Busy
  <2>3. Active = q \/ outcome[q] = "raised"
    BY <1>3, <2>1 DEF CallConsistent, Active
  <2>4. Promise!StatementStarts(q)
    BY <1>1, <2>2, <2>3 DEF Active, Busy, Promise!StatementStarts
  <2> QED BY <2>4 DEF Promise!Next, Promise!Calls, Calls
<1>5. CASE ServerNext(q)
  <2>1. q \in Busy /\ Busy' = Busy \ {q}
    BY <1>3, <1>5 DEF ServerNext, ServerFinish, ServerFail, TypeOK, Busy
  <2>2. Promise!StatementEnds(q)
    BY <1>1, <2>1 DEF Active, Busy, Promise!StatementEnds
  <2> QED BY <2>2 DEF Promise!Next, Promise!Calls, Calls
<1>6. CASE WorkerDies(q)
  BY <1>2, <1>6, BusyOfKill DEF WorkerDies
<1>7. CASE WorkerConnect(q) \/ WorkerQueryFinished(q) \/ WorkerQueryFails(q) \/ WorkerClose(q)
  <2>1. /\ session[q] \notin {"running", "orphan"}
        /\ \E state \in {"idle", "gone"} : session' = [session EXCEPT ![q] = state]
    BY <1>3, <1>7 DEF WorkerConnect, WorkerQueryFinished, WorkerQueryFails, WorkerClose, WorkerStep,
       WorkerConsistent
  <2>2. PICK state \in {"idle", "gone"} : session' = [session EXCEPT ![q] = state]
    BY <2>1
  <2>3. Busy' = Busy
    BY <1>3, <2>1, <2>2, BusyOfSession
  <2> QED BY <1>2, <2>3
<1>8. CASE \/ WorkerConnectFails(q) \/ WorkerPrepare(q) \/ WorkerPrepareFails(q)
           \/ WorkerFetchRows(q) \/ WorkerSendNull(q) \/ WorkerFetchFails(q)
  BY <1>2, <1>8, BusyOfUnchanged
  DEF WorkerConnectFails, WorkerPrepare, WorkerPrepareFails, WorkerFetchRows, WorkerSendNull, WorkerFetchFails
<1> QED BY <1>4, <1>5, <1>6, <1>7, <1>8 DEF WorkerNext

LEMMA NextImplements == IndInv /\ [Next]_vars => [Promise!Next]_Promise!vars
<1>1. ASSUME IndInv, UNCHANGED vars PROVE [Promise!Next]_Promise!vars
  BY <1>1 DEF vars, Promise!vars
<1>2. ASSUME IndInv, Next PROVE [Promise!Next]_Promise!vars
  <2>1. IndInv'
    BY <1>2, NextIndInv
  <2> QED
    BY <1>2, <2>1, IdleImplements, WaitingImplements, ReturnImplements, WorkerImplements
    DEF Next, ParentNext
<1> QED BY <1>1, <1>2

\* Worker process, pipe, watchdog and server together keep the promise of a timed
\* execution, for any number of calls, with workers that die and a watchdog that is lost.
THEOREM Implements == Spec => ImplementsTimedExecution
BY InitImplements, NextImplements, Invariance, PTL DEF Spec, ImplementsTimedExecution, Promise!Spec
=======
