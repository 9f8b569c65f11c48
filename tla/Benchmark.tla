------------------------------ MODULE Benchmark ------------------------------
(***************************************************************************)
(* The benchmark runner (bench.py): execute_workload with its nested       *)
(* control loops _workload_ctl_loop and _exec_ctl_loop, the samples and    *)
(* the counter of _ExecutionResults, the progressive output file, the      *)
(* feedback to an online-trained optimizer and the experiment's log entry. *)
(*                                                                         *)
(* The same measurement ends up in four places: the data frame, the        *)
(* progressive file, the post-execution callback and the optimizer's       *)
(* feedback.  What the properties relate is which of the query executions  *)
(* each of them stands for, so executions are numbered and everything      *)
(* measured of one (timestamp, result set, times) is that number.          *)
(***************************************************************************)
EXTENDS Integers, SequencesExt, FiniteSetsExt

CONSTANTS
  NQueries,      \* bound: number of queries in the workload
  WorkloadReps,  \* workload_repetitions
  QueryReps,     \* per_query_repetitions
  Configs        \* the remaining arguments of execute_workload to consider

Options == [error_action : {"raise", "log", "ignore"},
            optimizer : BOOLEAN,  \* is there an optimization pipeline?
            online : BOOLEAN,     \* does it require online training?
            post : BOOLEAN,       \* is there a post_exec_callback returning data?
            prep : BOOLEAN,       \* is there a query_preparation?
            output : BOOLEAN,     \* is there a progressive_output file?
            shuffled : BOOLEAN]

ASSUME SizeAssumption == {NQueries, WorkloadReps, QueryReps} \subseteq Nat \ {0}
ASSUME ConfigAssumption == Configs \subseteq Options /\ \A c \in Configs : c.online => c.optimizer

VARIABLES
  cfg,       \* the arguments of this call
  pc,        \* the control loop that runs next, or how the call ended
  wrep,      \* _workload_rep
  order,     \* the queries in the order of this workload repetition
  pos, rep,  \* position in that order, repetition of the query
  counter,   \* _execution_counter
  samples,   \* _samples
  file,      \* rows of the progressive output
  learned,   \* executions whose results were fed back to the optimizer
  log,       \* status of the entry in experiment_log.json
  runs,      \* every execution of a query so far, with the query it was for
  frame      \* the data frame returned to the caller

vars == << cfg, pc, wrep, order, pos, rep, counter, samples, file, learned, log, runs, frame >>

Running == {"repetition", "query", "execute", "learn"}
Errors == {"raised", "preparation_error", "assertion_error"}
Status == {"ok", "timeout", "execution-error", "optimization-error"}
Row == [index : Nat, query : 1 .. NQueries, wrep : 1 .. WorkloadReps, rep : Nat,
        status : Status, run : Nat]
Workload == [i \in 1 .. NQueries |-> i]

Init ==
  /\ cfg \in Configs
  /\ pc = "start" /\ log = "none"
  /\ wrep = 0 /\ order = Workload /\ pos = 0 /\ rep = 0
  /\ counter = 1 /\ samples = << >>
  /\ file = << >> /\ learned = << >> /\ runs = << >> /\ frame = << >>

------------------------------------------------------------------------------
(* Samples *)

\* Variant: every sample moves the counter by one.
NextIndexByOne(c) == IF samples = << >> THEN c ELSE c + 1

\* next_query: the new sample's first index follows the executions of the last sample.
NextIndex(c) == IF samples = << >> THEN c ELSE c + Len(Last(samples).rows)

NewSample ==
  [query |-> order[pos], wrep |-> wrep, start |-> NextIndex(counter),
   rows |-> << >>, stamps |-> << >>, post |-> << >>]

\* optimization_failure: as many rows as there would have been executions
FailedSample(s) ==
  [s EXCEPT !.rows = [i \in 1 .. QueryReps |-> [status |-> "optimization-error", run |-> 0]],
            !.stamps = [i \in 1 .. QueryReps |-> 0]]

\* to_df for the i-th result of a sample
RowOf(s, i) ==
  [index |-> s.start + i - 1, query |-> s.query, wrep |-> s.wrep, rep |-> i,
   status |-> s.rows[i].status, run |-> s.rows[i].run]
RowsOf(s) == [i \in 1 .. Len(s.rows) |-> RowOf(s, i)]

\* pd.concat of the samples' frames, one after the other
RowsUpTo(ss) ==
  LET upTo[k \in 0 .. Len(ss)] == IF k = 0 THEN << >> ELSE upTo[k - 1] \o RowsOf(ss[k])
  IN upTo
AllRows(ss) == RowsUpTo(ss)[Len(ss)]

LastSuccessful(s) == s.rows # << >> /\ Last(s.rows).status \in {"ok", "timeout"}

\* to_df(only_last=True): the latest entry of every column, also of columns that differ in length
LatestRow(s) ==
  [row |-> RowOf(s, Len(s.rows)), stamp |-> Last(s.stamps),
   post |-> IF s.post = << >> THEN 0 ELSE Last(s.post)]

\* write_progressive appends the sample's latest row.
Written(s) == IF cfg.output THEN Append(file, LatestRow(s)) ELSE file

\* pandas refuses columns of unequal length and a concatenation of nothing.
Uniform(s) ==
  s.rows # << >> =>
    Len(s.stamps) = Len(s.rows) /\ Len(s.post) \in {0, Len(s.rows)}
FrameExists(ss) == ss # << >> /\ \A i \in 1 .. Len(ss) : Uniform(ss[i])

------------------------------------------------------------------------------
(* execute_workload *)

\* The experiment log lies beside the progressive file: without one nothing is logged.
Entry(status) == IF cfg.output THEN status ELSE log

\* _init_benchmark_log
Begin ==
  /\ pc = "start"
  /\ pc' = "repetition"
  /\ log' = Entry("running")
  /\ UNCHANGED << cfg, wrep, order, pos, rep, counter, samples, file, learned, runs, frame >>

NextRepetition ==
  /\ pc = "repetition" /\ wrep < WorkloadReps
  /\ wrep' = wrep + 1
  /\ \E p \in IF cfg.shuffled THEN {f \in [1 .. NQueries -> 1 .. NQueries] : IsInjective(f)}
                              ELSE {Workload} : order' = p
  /\ pos' = 1
  /\ pc' = "query"
  /\ UNCHANGED << cfg, rep, counter, samples, file, learned, log, runs, frame >>

\* The log entry is completed before the frame is built.
Finish ==
  /\ pc = "repetition" /\ wrep = WorkloadReps
  /\ log' = Entry("completed")
  /\ IF FrameExists(samples)
     THEN pc' = "returned" /\ frame' = AllRows(samples)
     ELSE pc' = "raised" /\ UNCHANGED frame
  /\ UNCHANGED << cfg, wrep, order, pos, rep, counter, samples, file, learned, runs >>

\* Variant: an exception leaves the experiment's log alone.
RaiseUnlogged(kind) == pc' = kind /\ UNCHANGED log

\* Any Exception of the control loops: _failed_benchmark_log, then re-raised.
Raise(kind) == pc' = kind /\ log' = Entry("failed")

\* KeyboardInterrupt is no Exception: nothing is logged.
Interrupt ==
  /\ pc \in Running
  /\ pc' = "interrupted"
  /\ UNCHANGED << cfg, wrep, order, pos, rep, counter, samples, file, learned, log, runs, frame >>

------------------------------------------------------------------------------
(* _workload_ctl_loop *)

\* The loop over the queries is through; repetition_callback may raise.
EndOfWorkload ==
  /\ pc = "query" /\ pos > NQueries
  /\ \/ pc' = "repetition" /\ UNCHANGED log
     \/ Raise("raised")
  /\ UNCHANGED << cfg, wrep, order, pos, rep, counter, samples, file, learned, runs, frame >>

Optimize ==
  /\ pc = "query" /\ pos <= NQueries
  /\ counter' = NextIndex(counter)
  /\ samples' = Append(samples, NewSample)
  /\ rep' = 0
  /\ pc' = "execute"
  /\ UNCHANGED << cfg, wrep, order, pos, file, learned, log, runs, frame >>

OptimizeFails ==
  /\ pc = "query" /\ pos <= NQueries
  /\ cfg.optimizer
  /\ counter' = NextIndex(counter)
  /\ LET s == FailedSample(NewSample) IN
       CASE cfg.error_action = "log" ->
              /\ samples' = Append(samples, s)
              /\ \/ file' = Written(s) /\ pos' = pos + 1 /\ UNCHANGED << pc, log >>
                 \/ cfg.output /\ Raise("raised") /\ UNCHANGED << file, pos >>
         [] cfg.error_action = "raise" ->
              /\ Raise("raised")
              /\ samples' = Append(samples, s)
              /\ UNCHANGED << pos, file >>
         [] OTHER ->  \* scratch_last_sample
              /\ pos' = pos + 1 /\ UNCHANGED << samples, file, pc, log >>
  /\ UNCHANGED << cfg, wrep, order, rep, learned, runs, frame >>

\* All repetitions are done: online training, or straight to the next query.
EndOfQuery ==
  /\ pc = "execute" /\ rep = QueryReps
  /\ pc' = IF cfg.online THEN "learn" ELSE "query"
  /\ pos' = IF cfg.online THEN pos ELSE pos + 1
  /\ UNCHANGED << cfg, wrep, order, rep, counter, samples, file, learned, log, runs, frame >>

\* The rows with one of these states, in their order
SelectedUpTo(rows, states) ==
  LET upTo[k \in 0 .. Len(rows)] ==
        IF k = 0 THEN << >>
        ELSE IF rows[k].status \in states THEN Append(upTo[k - 1], rows[k]) ELSE upTo[k - 1]
  IN upTo
Selected(rows, states) == SelectedUpTo(rows, states)[Len(rows)]

\* Variant: only the last repetition is fed back.
FeedbackOfLast(s) == IF LastSuccessful(s) THEN << Last(s.rows) >> ELSE << >>

\* to_execution_results
Feedback(s) == Selected(s.rows, {"ok", "timeout"})

\* The results are fed back one by one.  It stops at a timeout, which has no result set
\* (the assertion), or at a result learn_from_feedback raises for.
Learn ==
  /\ pc = "learn"
  /\ LET results == Feedback(Last(samples)) IN
       \E taken \in 0 .. Len(results) :
         /\ \A i \in 1 .. taken : results[i].status = "ok"
         /\ learned' = learned \o [i \in 1 .. taken |-> results[i].run]
         /\ IF taken = Len(results) THEN pc' = "query" /\ pos' = pos + 1 /\ UNCHANGED log
            ELSE /\ Raise(IF results[taken + 1].status = "ok" THEN "raised" ELSE "assertion_error")
                 /\ UNCHANGED pos
  /\ UNCHANGED << cfg, wrep, order, rep, counter, samples, file, runs, frame >>

------------------------------------------------------------------------------
(* _exec_ctl_loop *)

\* Variant: an ignored failure repeats the row before.
RecordedRepeatingLast(s, status, run) ==
  LET started == [s EXCEPT !.stamps = Append(@, run)]
  IN IF status = "execution-error" /\ cfg.error_action = "ignore"
     THEN IF s.rows = << >> THEN started ELSE [started EXCEPT !.rows = Append(@, Last(@))]
     ELSE [started EXCEPT !.rows = Append(@, [status |-> status, run |-> run])]

\* The sample once the execution is recorded and the callback was called, which sees
\* the sample's latest result (last_result).  A failure is recorded only if errors are logged.
Recorded(s, status, run) ==
  LET started == [s EXCEPT !.stamps = Append(@, run)]
      measured == IF status = "execution-error" /\ cfg.error_action = "ignore" THEN started
                  ELSE [started EXCEPT !.rows = Append(@, [status |-> status, run |-> run])]
  IN IF cfg.post /\ LastSuccessful(measured)
     THEN [measured EXCEPT !.post = Append(@, Last(measured.rows).run)]
     ELSE measured

\* Variant: the row is written before the callback was called.
WrittenBeforeCallback(s) ==
  IF LastSuccessful(s) THEN Written([s EXCEPT !.post = IF @ = << >> THEN @ ELSE Front(@)]) ELSE file

WrittenIfSuccessful(s) == IF LastSuccessful(s) THEN Written(s) ELSE file

NewRun == Len(runs) + 1
Execution == [query |-> order[pos], wrep |-> wrep]

Execute(status) ==
  /\ pc = "execute" /\ rep < QueryReps
  /\ status = "execution-error" => cfg.error_action # "raise"
  /\ runs' = Append(runs, Execution)
  /\ rep' = rep + 1
  /\ LET s == Recorded(Last(samples), status, NewRun) IN
       /\ samples' = [samples EXCEPT ![Len(samples)] = s]
       /\ file' = WrittenIfSuccessful(s)
  /\ UNCHANGED << cfg, pc, wrep, order, pos, counter, learned, log, frame >>

\* prepare_query runs outside of the try block: its errors are never handled.
PrepareFails ==
  /\ pc = "execute" /\ rep < QueryReps
  /\ cfg.prep
  /\ Raise("preparation_error")
  /\ UNCHANGED << cfg, wrep, order, pos, rep, counter, samples, file, learned, runs, frame >>

\* Before the execution: the pre_exec_callback raises.  After it: the error of the
\* query is to be raised, the post_exec_callback raises, the file is not writable.
ExecuteRaises ==
  /\ pc = "execute" /\ rep < QueryReps
  /\ runs' \in {runs, Append(runs, Execution)}
  /\ Raise("raised")
  /\ UNCHANGED << cfg, wrep, order, pos, rep, counter, samples, file, learned, frame >>

Next ==
  \/ Begin \/ NextRepetition \/ Finish \/ Interrupt
  \/ EndOfWorkload \/ Optimize \/ OptimizeFails \/ EndOfQuery \/ Learn
  \/ \E status \in {"ok", "timeout", "execution-error"} : Execute(status)
  \/ PrepareFails \/ ExecuteRaises

Spec == Init /\ [][Next]_vars

------------------------------------------------------------------------------
(* Properties *)

Strict == cfg.error_action \in {"log", "raise"}

\* The frame has exactly one row per query, workload repetition and query
\* repetition, in the order of execution and indexed without gaps, unless errors
\* are ignored (_execution_counter, optimization_failure, _ResultSample.to_df).
FrameIsComplete ==
  pc = "returned" /\ Strict =>
    /\ Len(frame) = WorkloadReps * NQueries * QueryReps
    /\ \A i \in 1 .. Len(frame) : frame[i].index = i
    /\ \A i, j \in 1 .. Len(frame) : i < j =>
         \/ frame[i].wrep < frame[j].wrep
         \/ frame[i].wrep = frame[j].wrep /\ frame[i].query # frame[j].query
         \/ frame[i].wrep = frame[j].wrep /\ frame[i].rep < frame[j].rep

\* A row of the frame belongs to an execution of the same query in the same
\* workload repetition, and every execution is in the frame at most once.
RowsStandForRuns ==
  LET rows == AllRows(samples) IN
    /\ \A i \in 1 .. Len(rows) : rows[i].run # 0 =>
         rows[i].query = runs[rows[i].run].query /\ rows[i].wrep = runs[rows[i].run].wrep
    /\ \A i, j \in 1 .. Len(rows) : i # j /\ rows[i].run # 0 => rows[i].run # rows[j].run

\* The columns of a frame that is returned meet: the timestamp and the callback's data of
\* a row are those of the execution the row's status and times are of, in every mode.
\* Ignored failures and callbacks that are left out make columns of unequal length, and
\* no such frame may be returned (start_execution, add_post_exec_data, to_df).
ColumnsMeet ==
  pc = "returned" =>
    \A l \in 1 .. Len(samples) : LET s == samples[l] IN
      \A i \in 1 .. Len(s.rows) :
        s.stamps[i] = s.rows[i].run /\ (s.post # << >> => s.post[i] = s.rows[i].run)

\* Everything a row says is of one execution, of the row's query and repetition, which
\* has no other row (_ResultSample.to_df).
RowsBelongToTheirRun == RowsStandForRuns /\ ColumnsMeet

\* Unless errors are ignored, the progressive file holds the frame's rows of successful and
\* timed-out executions and one row of every failed optimization that was logged, in the
\* order of execution, each with the timestamp and callback data of its own execution.
\* At any time: what was measured before an interruption is in the file (write_progressive).
FileHoldsTheRows ==
  cfg.output /\ Strict =>
    LET rows == Range(AllRows(samples))
        due == {r \in rows : \/ r.status \in {"ok", "timeout"}
                             \/ r.status = "optimization-error" /\ r.rep = QueryReps}
    IN /\ \A i, j \in 1 .. Len(file) : i < j => file[i].row.index < file[j].row.index
       /\ \A i \in 1 .. Len(file) : LET f == file[i] IN
            f.row \in due /\ f.stamp = f.row.run /\ (cfg.post => f.post = f.row.run)
       /\ \A r \in due : (r.status = "optimization-error" => pc \notin Errors)
                         => \E i \in 1 .. Len(file) : file[i].row = r

\* By the time the next query is optimized, and when the benchmark returns, the optimizer
\* has learned from every successful execution so far exactly once, in the order of the
\* executions, and from no other (the loop over to_execution_results).
FeedbackIsExact ==
  pc \in {"query", "repetition", "returned"} /\ cfg.online =>
    LET rows == AllRows(samples) IN
      /\ Range(learned) = {rows[i].run : i \in {j \in 1 .. Len(rows) : rows[j].status = "ok"}}
      /\ \A i, j \in 1 .. Len(learned) : i < j => learned[i] < learned[j]

\* The experiment log tells how the call ended: "failed" only and always after an
\* exception, "completed" with the frame unless the frame cannot be built, and a
\* benchmark that is still listed as running was interrupted or is running.  There is
\* an entry only for a benchmark with a progressive file (_init_benchmark_log,
\* _finalize_benchmark_log, _failed_benchmark_log).
LogTellsTheEnd ==
  /\ log = "none" <=> pc = "start" \/ ~cfg.output
  /\ log = "failed" => pc \in Errors
  /\ log = "completed" => pc \in {"returned", "raised"}
  /\ pc \in Errors /\ log # "none" /\ Strict /\ ~cfg.post => log = "failed"
  /\ log = "running" => pc \in Running \union {"interrupted"}
==============================================================================
