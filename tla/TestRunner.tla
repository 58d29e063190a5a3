----------------------------- MODULE TestRunner -----------------------------
(***************************************************************************)
(* `deno test` (src/service/src/tools/test.rs).  test_specifiers spawns one *)
(* blocking thread per test file, at most concurrent_jobs at a time        *)
(* (buffer_unordered over the spawns, which happen as the stream pulls     *)
(* them), each running test_specifier with its own FailFastTracker and a  *)
(* clone of one TestEventSender.  Every file sends its events into one     *)
(* unbounded channel; a spawned handler drains it, keeps the summary and   *)
(* prints it when the channel closes.  The handler's state is read only   *)
(* when its loop ends, and its step on an event commutes with every other *)
(* thread's step, so the model applies an event when it is sent: the      *)
(* printed order is the send order.  The workers' stdout and stderr are   *)
(* the write ends of one pipe each; a redirect thread per pipe reads it    *)
(* and sends the bytes as Output events.  Before a Result or an           *)
(* UncaughtError the sender flushes both pipes: it parks a oneshot sender  *)
(* in the pipe's state, writes a zero width space to wake the redirect    *)
(* thread, and waits until the thread answers after a read.               *)
(*                                                                         *)
(* A test is abstracted to its outcome, its output to one write of the     *)
(* test's id (for the tests in Prints), the zero width space to Zwsp.  A   *)
(* pipe read takes any non-empty prefix of what is buffered (reads are at *)
(* most 512 bytes).                                                        *)
(* Test steps, filters, `only`, shuffling and coverage are left out.       *)
(***************************************************************************)
EXTENDS Naturals, Sequences, FiniteSets, Functions

CONSTANTS
  NumFiles,    \* number of test specifiers, run in order 1 .. NumFiles
  Tests,       \* the outcomes of each file's tests, in registration order
  LoadErrors,  \* files whose module throws while it is executed
  Prints,      \* tests that write to stdout
  Jobs,        \* concurrent_jobs
  FailFast,    \* the --fail-fast count; 0 is None
  Pipes,       \* the output pipes, in the order they are flushed
  RunErrors    \* tests whose run may end test_specifier with an error

Files    == 1 .. NumFiles
Outcomes == {"ok", "fail", "ignore", "throw"}
TestIds  == UNION {{<<f, i>> : i \in 1 .. Len(Tests[f])} : f \in Files}
NoTest   == <<0, 0>>
Zwsp     == NoTest   \* the zero width space flush writes to a pipe
NoFile   == 0

ASSUME /\ Tests \in [Files -> Seq(Outcomes)]
       /\ LoadErrors \subseteq Files /\ Prints \subseteq TestIds
       /\ Jobs \in Nat \ {0} /\ FailFast \in Nat
       /\ Pipes \in Seq(STRING) /\ Len(Pipes) > 0
       /\ RunErrors \subseteq TestIds

(* TestEvent, as a record of one shape: kind, test, result. *)
Event(k, t, r) == [k |-> k, t |-> t, r |-> r]
Plan(f)        == Event("plan", <<f, 0>>, "none")
Wait(t)        == Event("wait", t, "none")
Result(t, r)   == Event("result", t, r)
Uncaught(f)    == Event("uncaught", <<f, 0>>, "none")

VARIABLES
  pulled,      \* files buffer_unordered has spawned
  fpc,         \* per file: where test_specifier is
  idx,         \* per file: the test the loop is at
  fails,       \* per file: its FailFastTracker's failure_count
  hadUncaught, \* per file: had_uncaught_error
  fileErr,     \* files whose test_specifier returned Err
  out,         \* per file: a Result or UncaughtError being sent, with the
               \* events that follow it; TestEventSender::send flushes every
               \* pipe before each of them
  fk,          \* per file: pipes flushed for the head of out
  waiting,     \* per file: blocked in TestOutputPipe::flush's recv
  replied,     \* per file: its flush's oneshot has been answered
  pipe,        \* per pipe: bytes written and not read
  oneshot,     \* per pipe: the flusher whose sender is parked in state
  rstate,      \* per pipe: redirect thread "idle" (in read), "read", "exited"
  rchunk,      \* per pipe: the bytes the redirect thread has read
  rpc,         \* handler: "loop", "summary" (printed), "exited" (Sigint)
  started,     \* tests_started
  withResult,  \* tests_with_result
  summary      \* TestSummary: total, passed, failed, ignored

fileVars == <<fpc, idx, fails, hadUncaught, fileErr, out, fk, waiting, replied>>
pipeVars == <<pipe, oneshot, rstate, rchunk>>
rptVars  == <<rpc, started, withResult, summary>>
vars == <<pulled, fileVars, pipeVars, rptVars>>

PipeNames == {Pipes[k] : k \in 1 .. Len(Pipes)}

\* Mutant: should_stop compares with > instead of >= (off by one).
ShouldStopAfter(f) == FailFast > 0 /\ fails[f] > FailFast

(* FailFastTracker::should_stop of the file's own tracker. *)
ShouldStop(f) == FailFast > 0 /\ fails[f] >= FailFast

(* FailFastTracker::add_failure: counts only when fail_fast is set. *)
AddFailure(f) == IF FailFast > 0 THEN fails[f] + 1 ELSE fails[f]

(* The handler's summary after event e: Plan adds its tests to the total; *)
(* a Result counts once per test (done is tests_with_result), Cancelled   *)
(* as failed; every UncaughtError is one failure more.                    *)
Tally(s, e, done) ==
  CASE e.k = "plan"   -> [s EXCEPT !.total = @ + Len(Tests[e.t[1]])]
    [] e.k = "uncaught" -> [s EXCEPT !.failed = @ + 1]
    [] e.k = "result" /\ e.t \notin done ->
         CASE e.r = "ok"      -> [s EXCEPT !.passed = @ + 1]
           [] e.r = "ignored" -> [s EXCEPT !.ignored = @ + 1]
           [] OTHER           -> [s EXCEPT !.failed = @ + 1]
    [] OTHER -> s

(* The handler's loop body for one received event (Wait and Result are     *)
(* deduplicated by tests_started and tests_with_result).                   *)
Handle(e) ==
  /\ started' = IF e.k = "wait" THEN started \cup {e.t} ELSE started
  /\ withResult' = IF e.k = "result" THEN withResult \cup {e.t} ELSE withResult
  /\ summary' = Tally(summary, e, withResult)
  /\ UNCHANGED rpc

\* Mutant: a test that throws reports the uncaught error and no Result.
RunEventsNoResult(t, o) ==
  CASE o = "throw" -> <<Uncaught(t[1])>>
    [] o = "fail"  -> <<Result(t, "failed")>>
    [] o = "ok"    -> <<Result(t, "ok")>>

(* What a test that ran sends: a JsError is sent as UncaughtError and the  *)
(* test reported Cancelled; otherwise its result.                          *)
RunEvents(t, o) ==
  CASE o = "throw" -> <<Uncaught(t[1]), Result(t, "cancelled")>>
    [] o = "fail"  -> <<Result(t, "failed")>>
    [] o = "ok"    -> <<Result(t, "ok")>>

Running == {f \in 1 .. pulled : fpc[f] # "done"}
AllDone == \A f \in Files : fpc[f] = "done"

(* The channel's strong senders: the closure that clones the sender into  *)
(* each spawn (dropped when join_stream completes, after every file),    *)
(* the files' clones, and the redirect threads, which keep theirs until  *)
(* read() returns 0.  The ctrl-c handler only holds a weak one.          *)
SendersDropped == AllDone /\ \A p \in PipeNames : rstate[p] = "exited"

-----------------------------------------------------------------------------
Init ==
  /\ pulled = 0
  /\ fpc = [f \in Files |-> "queued"]
  /\ idx = [f \in Files |-> 1]
  /\ fails = [f \in Files |-> 0]
  /\ hadUncaught = [f \in Files |-> FALSE]
  /\ fileErr = {}
  /\ out = [f \in Files |-> << >>]
  /\ fk = [f \in Files |-> 0]
  /\ waiting = [f \in Files |-> FALSE]
  /\ replied = [f \in Files |-> FALSE]
  /\ pipe = [p \in PipeNames |-> << >>]
  /\ oneshot = [p \in PipeNames |-> NoFile]
  /\ rstate = [p \in PipeNames |-> "idle"]
  /\ rchunk = [p \in PipeNames |-> << >>]
  /\ rpc = "loop"
  /\ started = {}
  /\ withResult = {}
  /\ summary = [total |-> 0, passed |-> 0, failed |-> 0, ignored |-> 0]

(* buffer_unordered pulls the next spawn while fewer than concurrent_jobs *)
(* files run.                                                             *)
Pull ==
  /\ pulled < NumFiles
  /\ Cardinality(Running) < Jobs
  /\ pulled' = pulled + 1
  /\ fpc' = [fpc EXCEPT ![pulled + 1] = "start"]
  /\ UNCHANGED <<idx, fails, hadUncaught, fileErr, out, fk, waiting, replied,
                 pipeVars, rptVars>>

(* test_specifier's start: return when the tracker says stop; else run    *)
(* the module: when it throws, send UncaughtError and return; otherwise   *)
(* send the Plan.                                                         *)
FileStart(f) ==
  /\ fpc[f] = "start"
  /\ IF ShouldStop(f)
       THEN fpc' = [fpc EXCEPT ![f] = "done"] /\ UNCHANGED <<out, rptVars>>
     ELSE IF f \in LoadErrors
       THEN /\ out' = [out EXCEPT ![f] = <<Uncaught(f)>>]
            /\ fpc' = [fpc EXCEPT ![f] = "end"]
            /\ UNCHANGED rptVars
       ELSE /\ Handle(Plan(f))
            /\ fpc' = [fpc EXCEPT ![f] = "test"]
            /\ UNCHANGED out
  /\ UNCHANGED <<pulled, idx, fails, hadUncaught, fileErr, fk, waiting, replied,
                 pipeVars>>

(* One turn of the test loop, before the test runs: break when the        *)
(* tracker says stop; an ignored test, or any test after an uncaught      *)
(* error, gets its Result at once; otherwise Wait is sent.                *)
FileTest(f) ==
  /\ fpc[f] = "test"
  /\ out[f] = << >>
  /\ LET i == idx[f]
         t == <<f, i>>
     IN  IF i > Len(Tests[f]) \/ ShouldStop(f)
           THEN /\ fpc' = [fpc EXCEPT ![f] = "end"]
                /\ UNCHANGED <<idx, out, rptVars>>
         ELSE IF Tests[f][i] = "ignore" \/ hadUncaught[f]
           THEN /\ out' = [out EXCEPT ![f] =
                      <<Result(t, IF Tests[f][i] = "ignore" THEN "ignored"
                                                          ELSE "cancelled")>>]
                /\ idx' = [idx EXCEPT ![f] = i + 1]
                /\ UNCHANGED <<fpc, rptVars>>
           ELSE /\ Handle(Wait(t))
                /\ fpc' = [fpc EXCEPT ![f] = "run"]
                /\ UNCHANGED <<idx, out>>
  /\ UNCHANGED <<pulled, fails, hadUncaught, fileErr, fk, waiting, replied, pipeVars>>

(* call_and_await of the test function, which may print.  A JsError is    *)
(* counted as a failure and sets had_uncaught_error; a failed result is   *)
(* counted; the events of RunEvents are then sent.                        *)
FileRun(f) ==
  /\ fpc[f] = "run"
  /\ LET t == <<f, idx[f]>>
         o == Tests[f][idx[f]]
     IN  /\ pipe' = IF t \in Prints
                      THEN [pipe EXCEPT ![Pipes[1]] = Append(@, t)]
                      ELSE pipe
         /\ out' = [out EXCEPT ![f] = RunEvents(t, o)]
         /\ fails' = IF o \in {"throw", "fail"}
                       THEN [fails EXCEPT ![f] = AddFailure(f)] ELSE fails
         /\ hadUncaught' = IF o = "throw"
                             THEN [hadUncaught EXCEPT ![f] = TRUE] ELSE hadUncaught
  /\ idx' = [idx EXCEPT ![f] = @ + 1]
  /\ fpc' = [fpc EXCEPT ![f] = "test"]
  /\ UNCHANGED <<pulled, fileErr, fk, waiting, replied, oneshot, rstate,
                 rchunk, rptVars>>

(* The same call, where a `?` returns Err from test_specifier before the   *)
(* test's Result is sent: call_and_await fails with an error that is not a *)
(* JsError, serde_v8::from_v8 cannot read the result, or duration_since   *)
(* fails.  The file's worker, its sender and its pipe handles are dropped; *)
(* join_stream keeps the Err until every file is done.                    *)
FileRunErr(f) ==
  /\ fpc[f] = "run"
  /\ <<f, idx[f]>> \in RunErrors
  /\ pipe' = IF <<f, idx[f]>> \in Prints
              THEN [pipe EXCEPT ![Pipes[1]] = Append(@, <<f, idx[f]>>)]
              ELSE pipe
  /\ fpc' = [fpc EXCEPT ![f] = "done"]
  /\ fileErr' = fileErr \cup {f}
  /\ UNCHANGED <<pulled, idx, fails, hadUncaught, out, fk, waiting, replied,
                 oneshot, rstate, rchunk, rptVars>>

(* The unload events have run: test_specifier returns and drops its       *)
(* sender and its worker's pipe handles.                                  *)
FileEnd(f) ==
  /\ fpc[f] = "end"
  /\ out[f] = << >>
  /\ fpc' = [fpc EXCEPT ![f] = "done"]
  /\ UNCHANGED <<pulled, idx, fails, hadUncaught, fileErr, out, fk, waiting, replied,
                 pipeVars, rptVars>>

\* Mutant: flush parks its oneshot but writes nothing to wake the reader.
FlushBeginNoWake(f) ==
  /\ out[f] # << >> /\ ~waiting[f]
  /\ LET p   == Pipes[fk[f] + 1]
         old == oneshot[p]
     IN  /\ replied' = [replied EXCEPT ![old] = TRUE]
         /\ oneshot' = [oneshot EXCEPT ![p] = f]
         /\ UNCHANGED pipe
  /\ waiting' = [waiting EXCEPT ![f] = TRUE]
  /\ UNCHANGED <<pulled, fpc, idx, fails, hadUncaught, fileErr, out, fk,
                 rstate, rchunk, rptVars>>

(* TestOutputPipe::flush, up to the wait: park a new oneshot sender in the *)
(* pipe's state, waking the flusher whose sender it replaces ("just in    *)
(* case"), and write a zero width space so that the redirect thread's     *)
(* read returns.                                                           *)
FlushBegin(f) ==
  /\ out[f] # << >> /\ ~waiting[f]
  /\ LET p   == Pipes[fk[f] + 1]
         old == oneshot[p]
     IN  /\ replied' = [replied EXCEPT ![old] = TRUE]
         /\ oneshot' = [oneshot EXCEPT ![p] = f]
         /\ pipe' = [pipe EXCEPT ![p] = Append(@, Zwsp)]
  /\ waiting' = [waiting EXCEPT ![f] = TRUE]
  /\ UNCHANGED <<pulled, fpc, idx, fails, hadUncaught, fileErr, out, fk,
                 rstate, rchunk, rptVars>>

(* receiver.recv() returns: the pipe is flushed.  After the last pipe,   *)
(* TestEventSender::send puts the event into the channel.                 *)
FlushEnd(f) ==
  /\ waiting[f] /\ replied[f]
  /\ waiting' = [waiting EXCEPT ![f] = FALSE]
  /\ replied' = [replied EXCEPT ![f] = FALSE]
  /\ IF fk[f] + 1 = Len(Pipes)
       THEN /\ Handle(Head(out[f]))
            /\ out' = [out EXCEPT ![f] = Tail(@)]
            /\ fk' = [fk EXCEPT ![f] = 0]
       ELSE /\ fk' = [fk EXCEPT ![f] = @ + 1]
            /\ UNCHANGED <<out, rptVars>>
  /\ UNCHANGED <<pulled, fpc, idx, fails, hadUncaught, fileErr, pipeVars>>

(* start_output_redirect_thread: read() returns what is in the pipe, up to *)
(* 512 bytes: any non-empty prefix.                                        *)
ReaderRead(p) ==
  /\ rstate[p] = "idle" /\ pipe[p] # << >>
  /\ \E k \in 1 .. Len(pipe[p]) :
       /\ rchunk' = [rchunk EXCEPT ![p] = SubSeq(pipe[p], 1, k)]
       /\ pipe' = [pipe EXCEPT ![p] = SubSeq(@, k + 1, Len(@))]
  /\ rstate' = [rstate EXCEPT ![p] = "read"]
  /\ UNCHANGED <<pulled, fileVars, oneshot, rptVars>>

(* The rest of the loop body: take the parked oneshot sender, send the    *)
(* bytes as Output unless they are only the zero width space (the handler *)
(* prints them, which changes none of its state), and answer the flusher  *)
(* whatever was read.                                                      *)
ReaderForward(p) ==
  /\ rstate[p] = "read"
  /\ replied' = [replied EXCEPT ![oneshot[p]] = TRUE]
  /\ oneshot' = [oneshot EXCEPT ![p] = NoFile]
  /\ rstate' = [rstate EXCEPT ![p] = "idle"]
  /\ rchunk' = [rchunk EXCEPT ![p] = << >>]
  /\ UNCHANGED <<pulled, fpc, idx, fails, hadUncaught, fileErr, out, fk, waiting,
                 pipe, rptVars>>

(* read() returns 0 once every write end is closed and the pipe is empty: *)
(* the thread ends and drops its sender.                                   *)
ReaderEof(p) ==
  /\ rstate[p] = "idle" /\ pipe[p] = << >> /\ AllDone
  /\ rstate' = [rstate EXCEPT ![p] = "exited"]
  /\ UNCHANGED <<pulled, fileVars, pipe, oneshot, rchunk, rptVars>>

(* recv() returns None once every strong sender is gone: the handler       *)
(* aborts the ctrl-c task and prints the summary.                          *)
ReporterEnd ==
  /\ rpc = "loop" /\ SendersDropped
  /\ rpc' = "summary"
  /\ UNCHANGED <<pulled, fileVars, pipeVars, started, withResult, summary>>

(* ctrl-c: the task upgrades its weak sender, which fails once every      *)
(* strong sender is dropped, and sends Sigint; the handler reports and    *)
(* exits the process with 130.                                             *)
CtrlC ==
  /\ rpc = "loop" /\ ~SendersDropped
  /\ rpc' = "exited"
  /\ UNCHANGED <<pulled, fileVars, pipeVars, started, withResult, summary>>

FileStep(f) ==
  \/ FileStart(f) \/ FileTest(f) \/ FileRun(f) \/ FileRunErr(f) \/ FileEnd(f)
  \/ FlushBegin(f) \/ FlushEnd(f)

ReaderStep(p) == ReaderRead(p) \/ ReaderForward(p) \/ ReaderEof(p)

(* After exit(130) nothing runs. *)
Next ==
  /\ rpc # "exited"
  /\ \/ Pull
     \/ \E f \in Files : FileStep(f)
     \/ \E p \in PipeNames : ReaderStep(p)
     \/ ReporterEnd \/ CtrlC

(* Every file runs on a blocking thread, each redirect reader on its own   *)
(* thread and the handler on a tokio task: each keeps running while it     *)
(* can.  Nobody is obliged to press ctrl-c.                                *)
Fairness ==
  /\ WF_vars(Pull)
  /\ \A f \in Files : WF_vars(FileStep(f))
  /\ \A p \in PipeNames : WF_vars(ReaderStep(p))
  /\ WF_vars(ReporterEnd)

Spec == Init /\ [][Next]_vars /\ Fairness

-----------------------------------------------------------------------------
TypeOK ==
  /\ pulled \in 0 .. NumFiles
  /\ fpc \in [Files -> {"queued", "start", "test", "run", "end", "done"}]
  /\ fails \in [Files -> 0 .. FailFast]
  /\ hadUncaught \in [Files -> BOOLEAN] /\ fileErr \subseteq Files
  /\ waiting \in [Files -> BOOLEAN] /\ replied \in [Files -> BOOLEAN]
  /\ fk \in [Files -> 0 .. Len(Pipes) - 1]
  /\ oneshot \in [PipeNames -> Files \cup {NoFile}]
  /\ rstate \in [PipeNames -> {"idle", "read", "exited"}]
  /\ rpc \in {"loop", "summary", "exited"}
  /\ started \subseteq TestIds /\ withResult \subseteq TestIds

(* Every test whose Wait the handler counted has its result counted by    *)
(* the time the summary is printed, unless its file's test_specifier      *)
(* returned Err, which join_result?? reports after the summary: a test    *)
(* that throws is reported Cancelled, and no Result is held back by a     *)
(* flush that never returns.                                               *)
StartedTestsFinish ==
  rpc = "summary" => \A t \in started \ withResult : t[1] \in fileErr

(* Unless ctrl-c ends the process, the handler prints the summary: every   *)
(* flush is answered, every file returns and every redirect thread sees    *)
(* end of file, so the channel closes.                                     *)
RunCompletes == <>(rpc \in {"summary", "exited"})

(* A test's printed output is reported before its result: when the        *)
(* handler has the Result, none of the test's bytes is still in a pipe or *)
(* in a redirect thread's buffer (TestEventSender::send flushes both      *)
(* pipes before a Result so that output is printed under its test).       *)
Unforwarded == UNION {Range(pipe[p]) \cup Range(rchunk[p]) : p \in PipeNames}

OutputBeforeResult == \A t \in withResult : t \notin Unforwarded

(* `--fail-fast=N`, "Stop after N errors": once N failures have been      *)
(* counted over the whole run, no further test is started.                 *)
FailFastStopsRun ==
  [][FailFast > 0 =>
       \A f \in Files : fpc[f] = "test" /\ fpc'[f] = "run"
                          => FoldFunction(+, 0, fails) < FailFast]_vars
=============================================================================
