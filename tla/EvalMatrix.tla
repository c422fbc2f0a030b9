------------------------------- MODULE EvalMatrix -------------------------------
(***************************************************************************)
(* run_champsim_real_eval.py: a matrix of ChampSim runs, executed by a     *)
(* pool of workers, each run leaving four files beside one another: the    *)
(* JSON statistics (written by ChampSim), its output, its errors, and      *)
(* run.json, which says whether the run completed.  The script may be      *)
(* killed anywhere, and started again with or without --resume.            *)
(*                                                                         *)
(* And run_champsim_final_diagnostic.py (run_set_associative_wam.py is a   *)
(* copy of it), in which ChampSim also writes an event file, a run without *)
(* one has failed, and the summary wants a record of every job.            *)
(*                                                                         *)
(* Of the files that ChampSim writes only their existence is tested, and   *)
(* kept here.  Every other file is the number of the invocation that wrote *)
(* it: 0 if there is none, Torn if a write stopped in the middle.  Killing *)
(* the script kills the ChampSim processes it started.                     *)
(***************************************************************************)
EXTENDS Integers, FiniteSets

CONSTANTS
  Job,               \* trace and predictor, numbered in the order of the manifest
  MaxWorkers,        \* bound on --workers
  MaxInvocations     \* bound on how often the script is started

ASSUME MatrixAssumption ==
  /\ Job \subseteq Nat /\ IsFiniteSet(Job) /\ Job # {}
  /\ MaxWorkers \in Nat \ {0}
  /\ MaxInvocations \in Nat

VARIABLES
  script,       \* the script that is used: it does not change
  running,      \* the script runs
  resume,       \* --resume of the last invocation
  workers,      \* --workers of the last invocation
  invocation,   \* how many there have been
  stage,        \* where run_one() is with each job: the file it writes next
  verdict,      \* the status run_one() has settled on
  disk,         \* the files of each job
  summary,      \* run_summary.json
  fresh         \* history: the last invocation without --resume

vars == <<script, running, resume, workers, invocation, stage, verdict, disk, summary, fresh>>

Torn == -1
Version == Torn .. MaxInvocations
Scripts == {"real_eval", "diagnostic"}
Files == [stats : BOOLEAN, events : BOOLEAN, stdout : Version, stderr : Version,
          record : [at : Version, status : {"completed", "failed", "unreadable"}]]
Summaries == [at : Version, status : {"completed", "partial_or_failed", "unreadable"}]

Init ==
  /\ script \in Scripts
  /\ running = FALSE
  /\ resume = FALSE
  /\ workers = 1
  /\ invocation = 0
  /\ stage = [j \in Job |-> "idle"]
  /\ verdict = [j \in Job |-> "failed"]
  /\ disk = [j \in Job |-> [stats |-> FALSE, events |-> FALSE, stdout |-> 0, stderr |-> 0,
                            record |-> [at |-> 0, status |-> "unreadable"]]]
  /\ summary = [at |-> 0, status |-> "unreadable"]
  /\ fresh = 0

Completed(j) == disk[j].record.status = "completed"

\* Mutation of Requested: --resume is ignored.
RequestedAlways(resuming) == Job

\* The jobs main() submits: all of them, or those with no readable run.json that
\* says completed.
Requested(resuming) == {j \in Job : ~(resuming /\ Completed(j))}

\* main() up to the pool.
Start(resuming, n) ==
  /\ ~running
  /\ invocation < MaxInvocations
  /\ running' = TRUE
  /\ resume' = resuming
  /\ workers' = n
  /\ invocation' = invocation + 1
  /\ fresh' = IF resuming THEN fresh ELSE invocation + 1
  /\ stage' = [j \in Job |-> IF j \in Requested(resuming) THEN "queued" ELSE "idle"]
  /\ UNCHANGED <<script, verdict, disk, summary>>

----------------------------------------------------------------------------
(* run_one(), by the pool's workers.                                       *)

Busy == {j \in Job : stage[j] \in {"stats", "stdout", "stderr", "record"}}

\* Mutation of Begin: every job has a worker of its own.
BeginUnbounded(j) ==
  /\ stage[j] = "queued"
  /\ stage' = [stage EXCEPT ![j] = "stats"]
  /\ UNCHANGED <<script, running, resume, workers, invocation, verdict, disk, summary, fresh>>

\* A free worker takes the first job of the queue.
Begin(j) ==
  /\ stage[j] = "queued"
  /\ \A i \in Job : stage[i] = "queued" => j <= i
  /\ Cardinality(Busy) < workers
  /\ stage' = [stage EXCEPT ![j] = "stats"]
  /\ UNCHANGED <<script, running, resume, workers, invocation, verdict, disk, summary, fresh>>

\* What run_one() calls a completed run: the tests are for files of those names.
SettledCompleted(succeeds, files) == succeeds /\ files.stats
SettledTraced(succeeds, files) == succeeds /\ files.stats /\ files.events
Settled(succeeds, files) ==
  IF (script = "real_eval" /\ SettledCompleted(succeeds, files))
     \/ (script = "diagnostic" /\ SettledTraced(succeeds, files))
  THEN "completed" ELSE "failed"

\* ChampSim ends, or could not be started: it may or may not have written its
\* statistics and, for the diagnostic, its events, and succeeded or not.
ChampsimEnds(j, succeeds, writes, traces) ==
  LET files == [disk[j] EXCEPT !.stats = @ \/ writes, !.events = @ \/ traces]
  IN  /\ stage[j] = "stats"
      /\ traces => script = "diagnostic"
      /\ disk' = [disk EXCEPT ![j] = files]
      /\ verdict' = [verdict EXCEPT ![j] = Settled(succeeds, files)]
      /\ stage' = [stage EXCEPT ![j] = "stdout"]
      /\ UNCHANGED <<script, running, resume, workers, invocation, summary, fresh>>

\* Mutation of WriteStdout: run.json is written before the logs are complete.
WriteStdoutAndRecord(j) ==
  /\ stage[j] = "stdout"
  /\ disk' = [disk EXCEPT ![j].stdout = invocation,
                          ![j].record = [at |-> invocation, status |-> verdict[j]]]
  /\ stage' = [stage EXCEPT ![j] = "stderr"]
  /\ UNCHANGED <<script, running, resume, workers, invocation, verdict, summary, fresh>>

WriteStdout(j) ==
  /\ stage[j] = "stdout"
  /\ disk' = [disk EXCEPT ![j].stdout = invocation]
  /\ stage' = [stage EXCEPT ![j] = "stderr"]
  /\ UNCHANGED <<script, running, resume, workers, invocation, verdict, summary, fresh>>

WriteStderr(j) ==
  /\ stage[j] = "stderr"
  /\ disk' = [disk EXCEPT ![j].stderr = invocation]
  /\ stage' = [stage EXCEPT ![j] = "record"]
  /\ UNCHANGED <<script, running, resume, workers, invocation, verdict, summary, fresh>>

WriteRecord(j) ==
  /\ stage[j] = "record"
  /\ disk' = [disk EXCEPT ![j].record = [at |-> invocation, status |-> verdict[j]]]
  /\ stage' = [stage EXCEPT ![j] = "done"]
  /\ UNCHANGED <<script, running, resume, workers, invocation, verdict, summary, fresh>>

\* The files of job j if the write that is under way stops in the middle.
TornFiles(j) ==
  CASE stage[j] = "stats" ->
         [disk[j] EXCEPT !.stats = TRUE, !.events = @ \/ script = "diagnostic"]
    [] stage[j] \in {"stdout", "stderr"} -> [disk[j] EXCEPT ![stage[j]] = Torn]
    [] stage[j] = "record" ->
         [disk[j] EXCEPT !.record = [at |-> Torn, status |-> "unreadable"]]
    [] OTHER -> disk[j]

\* Mutation of WriteRaises: the exception is swallowed.
WriteRaisesQuietly(j) ==
  /\ stage[j] \in {"stdout", "stderr", "record"}
  /\ \E files \in {disk[j], TornFiles(j)} : disk' = [disk EXCEPT ![j] = files]
  /\ stage' = [stage EXCEPT ![j] = "done"]
  /\ UNCHANGED <<script, running, resume, workers, invocation, verdict, summary, fresh>>

\* A write of run_one() raises (a full disk): the job ends without run.json.
WriteRaises(j) ==
  /\ stage[j] \in {"stdout", "stderr", "record"}
  /\ \E files \in {disk[j], TornFiles(j)} : disk' = [disk EXCEPT ![j] = files]
  /\ stage' = [stage EXCEPT ![j] = "raised"]
  /\ UNCHANGED <<script, running, resume, workers, invocation, verdict, summary, fresh>>

\* ChampSim cannot be started, which the diagnostic does not catch.
StartRaises(j) ==
  /\ script = "diagnostic" /\ stage[j] = "stats"
  /\ stage' = [stage EXCEPT ![j] = "raised"]
  /\ UNCHANGED <<script, running, resume, workers, invocation, verdict, disk, summary, fresh>>

----------------------------------------------------------------------------
(* The end of an invocation.                                               *)

Stopped ==
  /\ running' = FALSE
  /\ stage' = [j \in Job |-> "idle"]
  /\ verdict' = [j \in Job |-> "failed"]
  /\ UNCHANGED <<script, resume, workers, invocation, fresh>>

\* Mutation of Drained: a job that raised is waited for.
DrainedNever == \A j \in Job : stage[j] \in {"idle", "done"}

\* The pool has nothing left: jobs that raised do not keep the others from running.
Drained == \A j \in Job : stage[j] \in {"idle", "done", "raised"}

Raised == \E j \in Job : stage[j] = "raised"

\* main() reads every run.json that it can and writes the summary.
Readable == {j \in Job : disk[j].record.status # "unreadable"}
NoneFailed == Readable # {} /\ \A j \in Readable : Completed(j)
AllAccounted == Readable = Job /\ \A j \in Readable : Completed(j)
Verdict ==
  IF (script = "real_eval" /\ NoneFailed) \/ (script = "diagnostic" /\ AllAccounted)
  THEN "completed" ELSE "partial_or_failed"

Summarise ==
  /\ running /\ Drained /\ ~Raised
  /\ summary' = [at |-> invocation, status |-> Verdict]
  /\ Stopped
  /\ UNCHANGED disk

\* future.result() re-raises in main() once the pool is drained: no summary.
Abort ==
  /\ running /\ Drained /\ Raised
  /\ Stopped
  /\ UNCHANGED <<disk, summary>>

\* The script is killed; any write under way may be left torn.
Crash ==
  /\ running
  /\ \E torn \in SUBSET Busy :
       disk' = [j \in Job |-> IF j \in torn THEN TornFiles(j) ELSE disk[j]]
  /\ \/ summary' = summary
     \/ Drained /\ ~Raised /\ summary' = [at |-> Torn, status |-> "unreadable"]
  /\ Stopped

Work ==
  \E j \in Job :
    \/ Begin(j)
    \/ \E succeeds, writes, traces \in BOOLEAN : ChampsimEnds(j, succeeds, writes, traces)
    \/ WriteStdout(j)
    \/ WriteStderr(j)
    \/ WriteRecord(j)

Next ==
  \/ \E resuming \in BOOLEAN, n \in 1 .. MaxWorkers : Start(resuming, n)
  \/ Work
  \/ \E j \in Job : WriteRaises(j) \/ StartRaises(j)
  \/ Summarise
  \/ Abort
  \/ Crash

\* The pool's threads run, ChampSim ends on a finite trace, main() goes on.
Fairness == WF_vars(Work \/ Summarise \/ Abort)

Spec == Init /\ [][Next]_vars /\ Fairness

----------------------------------------------------------------------------
\* Type invariant.
TypeOK ==
  /\ script \in Scripts
  /\ {running, resume} \subseteq BOOLEAN
  /\ workers \in 1 .. MaxWorkers
  /\ {invocation, fresh} \subseteq 0 .. MaxInvocations
  /\ stage \in [Job -> {"idle", "queued", "stats", "stdout", "stderr", "record",
                        "done", "raised"}]
  /\ verdict \in [Job -> {"completed", "failed"}]
  /\ disk \in [Job -> Files]
  /\ summary \in Summaries
  /\ Cardinality(Busy) <= workers

\* A summary that says completed was true when it was written: every job of the
\* matrix had a completed record, from this invocation or from an earlier one
\* that it resumed, although jobs without a readable record are not looked for.
SummaryTrue ==
  [][(summary' # summary /\ summary'.status = "completed") => \A j \in Job : Completed(j)]_vars

\* Resuming never touches a run that completed: none of its files is rewritten
\* or torn, whatever happens to the rest of the matrix.
ResumeKeepsCompleted ==
  [][\A j \in Job : (running /\ resume /\ Completed(j)) => disk'[j] = disk[j]]_vars

\* A completed record vouches for the output beside it: unless the matrix has
\* been started afresh since, both logs are those of the recorded run, through
\* crashes, failed writes and resumed invocations.
RecordVouches ==
  \A j \in Job :
    LET d == disk[j]
    IN  (Completed(j) /\ d.record.at >= fresh) =>
          d.stdout = d.record.at /\ d.stderr = d.record.at

\* An invocation ends, with a summary, an exception or a kill: a job that raised
\* leaves neither the pool nor main() waiting.
InvocationEnds == running ~> ~running
================================================================================
