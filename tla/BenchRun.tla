------------------------------- MODULE BenchRun -------------------------------
(***************************************************************************)
(* The durable run of benchmarks/run_llama_bench.py: a matrix of           *)
(* invocations recorded in an append-only journal (run.jsonl), with a      *)
(* summary (run-summary.json) and a normalized table (normalized.csv)      *)
(* derived from it.  A process may be interrupted by SIGINT, killed at any *)
(* moment, stopped by its time limit or by an I/O error, and the run       *)
(* resumed by another process, which knows only the files.                 *)
(*                                                                         *)
(* An invocation is its id; a configuration is its plan.  Environment      *)
(* metadata, parsing and elapsed times are left out.                       *)
(***************************************************************************)
EXTENDS Integers, FiniteSets, SequencesExt

CONSTANTS
  Ids,         \* invocation ids
  Warmups,     \* those of warm-up invocations
  Plans,       \* the plans of the configurations: sequences of ids
  Outcomes,    \* how an invocation may end, "success" among them
  Tears,       \* what a write cut short may leave of a line
  MaxRecords,  \* bound: no run is started that could exceed it
  MaxFaults,   \* bound on interruptions, kills, time limits and I/O errors
  None

ASSUME BenchAssumption ==
  /\ Warmups \subseteq Ids
  /\ Plans \subseteq Seq(Ids) /\ \A p \in Plans : IsInjective(p)
  /\ "success" \in Outcomes
  /\ Tears \subseteq {"missing", "truncated", "unterminated"}
  /\ MaxFaults \in Nat

VARIABLES
  journal,  \* run.jsonl, a sequence of lines, or None
  summary,  \* run-summary.json, or None
  csv,      \* normalized.csv
  run,      \* the running process, or None
  faults    \* how often a process was stopped

vars == <<journal, summary, csv, run, faults>>
disk == <<journal, summary, csv>>

Record == [id : Ids, status : Outcomes]

\* "unterminated": complete but for its newline; "garbled": two lines in one.
Line == [record : Record, form : {"whole", "unterminated", "truncated", "garbled"}]

Counts == [completed : Nat, successful : Nat, timedOut : Nat]

Summary ==
  [ plan   : Plans,    \* config_fingerprint
    counts : Counts,
    status : {"running", "interrupted", "completed", "failed"} ]

Csv == [form : {"missing", "normal", "incomplete", "torn"}, rows : SUBSET Ids]

Process ==
  [ at       : {"open", "next", "append", "note", "finish", "csv"},
    plan     : Plans,
    position : Nat,                    \* where the loop over the plan stands
    retry    : BOOLEAN,                \* options.retry_failures
    partial  : BOOLEAN,                \* options.write_csv or allow_partial_analysis
    existing : Seq(Record),            \* existing; latest is derived from it
    record   : Record \cup {None},     \* what the last invocation returned
    cause    : {"none", "interrupted", "limit", "error"} ]

\* An absent file is none of the files, and no process none of the processes.
ASSUME NoneAssumption == None \notin Seq(Line) \cup Summary \cup Record \cup Process

Init ==
  /\ journal = None /\ summary = None
  /\ csv = [form |-> "missing", rows |-> {}]
  /\ run = None /\ faults = 0

-----------------------------------------------------------------------------
(* Journals and what is derived from them *)

\* read_jsonl
Readable == journal # None =>
              \A i \in DOMAIN journal : journal[i].form \in {"whole", "unterminated"}
Records == IF journal = None THEN <<>> ELSE [i \in DOMAIN journal |-> journal[i].record]

\* The journal after `record` has been written in the given form.
Written(record, form) ==
  LET last == Last(journal)
  IN  IF form = "missing" THEN journal
      ELSE IF journal # <<>> /\ last.form # "whole"
      THEN Append(Front(journal), [last EXCEPT !.form = "garbled"])
      ELSE Append(journal, [record |-> record, form |-> form])

\* _latest: the last record of each id.
Recorded(records) == {records[i].id : i \in DOMAIN records}
Latest(records, id) == records[Max({i \in DOMAIN records : records[i].id = id})].status

\* _successful over latest
Successful(records) == {id \in Recorded(records) : Latest(records, id) = "success"}

\* Defect: records are counted, not invocations.
CountsOfRecords(records) ==
  [ completed  |-> Len(records),
    successful |-> Cardinality(Successful(records)),
    timedOut   |-> Cardinality({id \in Recorded(records) : Latest(records, id) = "timed_out"}) ]
CountsOf(records) ==
  [ completed  |-> Cardinality(Recorded(records)),
    successful |-> Cardinality(Successful(records)),
    timedOut   |-> Cardinality({id \in Recorded(records) : Latest(records, id) = "timed_out"}) ]

\* normalized_records
Rows(records) == Successful(records) \ Warmups

\* measured_ids.issubset(latest)
Complete(p) == Range(p.plan) \ Warmups \subseteq Recorded(p.existing)

\* Defect: --retry-failures runs everything again.
SkippedUnlessRetry(p, id) == id \in Recorded(p.existing) /\ ~p.retry
\* Recorded invocations are skipped; with retry_failures only successful ones.
Skipped(p, id) ==
  id \in Recorded(p.existing) /\ (p.retry => Latest(p.existing, id) = "success")

\* What the loop has still to execute.
Todo(p) == {i \in DOMAIN p.plan : i >= p.position /\ ~Skipped(p, p.plan[i])}

-----------------------------------------------------------------------------
(* run() *)

\* The summary that is written while the process runs.
Running(p) == [plan |-> p.plan, counts |-> CountsOf(p.existing), status |-> "running"]

\* Defect: a run without a journal cannot be resumed.
MayResumeJournal(plan, force) ==
  journal # None /\ Readable /\ summary # None /\ (summary.plan = plan \/ force)
\* --resume, --force-resume
MayResume(plan, force) ==
  Readable /\ summary # None /\ (summary.plan = plan \/ force)

MayStart == journal = None /\ summary = None

Begin(plan, retry, partial) ==
  LET p == [ at |-> "open", plan |-> plan, position |-> 1, retry |-> retry, partial |-> partial,
             existing |-> Records, record |-> None, cause |-> "none" ]
  IN  /\ run = None
      /\ Len(Records) + Cardinality(Todo(p)) <= MaxRecords
      /\ run' = p
      /\ summary' = Running(p)
      /\ UNCHANGED <<journal, csv, faults>>

Start(plan, partial) == MayStart /\ Begin(plan, FALSE, partial)

Resume(plan, retry, force, partial) ==
  MayResume(plan, force) /\ Begin(plan, retry, partial)

\* raw_path.open("a")
OpenJournal ==
  /\ run # None /\ run.at = "open"
  /\ journal' = IF journal = None THEN <<>> ELSE journal
  /\ run' = [run EXCEPT !.at = "next"]
  /\ UNCHANGED <<summary, csv, faults>>

\* execute: the invocation ends by itself or is killed at its time limit, and its
\* output is good or not; either way there is a record of it.
Executed(id) == {[id |-> id, status |-> outcome] : outcome \in Outcomes}

\* The loop over the plan: the next invocation is executed, or none is left.
Execute ==
  /\ run # None /\ run.at = "next"
  /\ Todo(run) # {}
  /\ LET i == Min(Todo(run))
     IN  \E record \in Executed(run.plan[i]) :
           run' = [run EXCEPT !.at = "append", !.position = i + 1, !.record = record]
  /\ UNCHANGED <<disk, faults>>

LoopEnds ==
  /\ run # None /\ run.at = "next"
  /\ Todo(run) = {}
  /\ run' = [run EXCEPT !.at = "finish"]
  /\ UNCHANGED <<disk, faults>>

\* append_record
AppendRecord ==
  /\ run # None /\ run.at = "append"
  /\ journal' = Written(run.record, "whole")
  /\ run' = [run EXCEPT !.at = "note"]
  /\ UNCHANGED <<summary, csv, faults>>

\* existing, latest, the counts and the summary follow.
NoteRecord ==
  LET p == [run EXCEPT !.at = "next", !.existing = Append(@, run.record), !.record = None]
  IN  /\ run # None /\ run.at = "note"
      /\ run' = p
      /\ summary' = Running(p)
      /\ UNCHANGED <<journal, csv, faults>>

\* Defect: what ended the loop is recorded as the status.
FinishWithCause ==
  /\ run # None /\ run.at = "finish"
  /\ summary' = [summary EXCEPT !.status = IF Complete(run) THEN "completed" ELSE run.cause]
  /\ run' = IF run.cause = "error" THEN None ELSE [run EXCEPT !.at = "csv"]
  /\ UNCHANGED <<journal, csv, faults>>

\* The finally clause.
Finish ==
  LET status == IF run.cause = "interrupted" THEN "interrupted"
                ELSE IF Complete(run) THEN "completed"
                ELSE IF run.cause = "limit" THEN "failed" ELSE "running"
  IN  /\ run # None /\ run.at = "finish"
      /\ summary' = [summary EXCEPT !.status = status]
      /\ run' = IF run.cause = "error" THEN None ELSE [run EXCEPT !.at = "csv"]
      /\ UNCHANGED <<journal, csv, faults>>

\* Defect: a table that is there is kept.
WriteCsvOnce ==
  /\ run # None /\ run.at = "csv"
  /\ csv' = IF csv.form # "missing" THEN csv
            ELSE IF Complete(run) \/ run.partial
            THEN [form |-> IF Complete(run) THEN "normal" ELSE "incomplete",
                  rows |-> Rows(run.existing)]
            ELSE [form |-> "missing", rows |-> {}]
  /\ run' = None
  /\ UNCHANGED <<journal, summary, faults>>

\* _write_csv, or the removal of a table that is out of date.
WriteCsv ==
  /\ run # None /\ run.at = "csv"
  /\ csv' = IF Complete(run) \/ run.partial
            THEN [form |-> IF Complete(run) THEN "normal" ELSE "incomplete",
                  rows |-> Rows(run.existing)]
            ELSE [form |-> "missing", rows |-> {}]
  /\ run' = None
  /\ UNCHANGED <<journal, summary, faults>>

-----------------------------------------------------------------------------
(* What stops a process *)

Fault == faults < MaxFaults /\ faults' = faults + 1

\* max_total_seconds is checked before each invocation.
TimeLimit ==
  /\ run # None /\ run.at = "next" /\ Todo(run) # {}
  /\ run' = [run EXCEPT !.at = "finish", !.cause = "limit"]
  /\ Fault /\ UNCHANGED disk

\* SIGINT: the record is absent, or appended and not yet noted.
Interrupt ==
  /\ run # None /\ run.at \in {"open", "next", "append", "note"}
  /\ run' = [run EXCEPT !.at = "finish", !.cause = "interrupted"]
  /\ Fault /\ UNCHANGED disk

\* append_record fails half-way; the finally clause still runs.
AppendFails ==
  /\ run # None /\ run.at = "append"
  /\ \E tear \in Tears : journal' = Written(run.record, tear)
  /\ run' = [run EXCEPT !.at = "finish", !.cause = "error"]
  /\ Fault /\ UNCHANGED <<summary, csv>>

\* The process is gone; what it was writing is cut short.
Kill ==
  /\ run # None
  /\ run' = None
  /\ IF run.at = "append" THEN \E tear \in Tears : journal' = Written(run.record, tear)
                          ELSE UNCHANGED journal
  /\ \/ UNCHANGED csv
     \/ /\ run.at = "csv" /\ (Complete(run) \/ run.partial)
        /\ csv' = [form |-> "torn", rows |-> {}]
  /\ Fault /\ UNCHANGED summary

-----------------------------------------------------------------------------
Step == OpenJournal \/ Execute \/ LoopEnds \/ AppendRecord \/ NoteRecord \/ Finish \/ WriteCsv

Next ==
  \/ \E plan \in Plans, partial \in BOOLEAN :
       \/ Start(plan, partial)
       \/ \E retry, force \in BOOLEAN : Resume(plan, retry, force, partial)
  \/ Step
  \/ TimeLimit \/ Interrupt \/ AppendFails \/ Kill

\* A process runs until something stops it, and whoever started a run resumes it,
\* with the same configuration, until it is completed.
Fairness ==
  /\ WF_vars(Step)
  /\ WF_vars(/\ summary # None /\ summary.status # "completed"
             /\ Resume(summary.plan, FALSE, FALSE, FALSE))

Spec == Init /\ [][Next]_vars /\ Fairness

-----------------------------------------------------------------------------
(* Properties *)

TypeOK ==
  /\ journal = None \/ journal \in Seq(Line)
  /\ summary \in Summary \cup {None}
  /\ csv \in Csv
  /\ run \in Process \cup {None}
  /\ faults \in 0 .. MaxFaults

\* The summary never claims an invocation the journal does not hold, and misses at
\* most the one that was appended last: append_record comes before _write_summary.
\* An invocation recorded twice, failed and retried, counts once.
SummaryFollowsJournal ==
  summary # None /\ Readable =>
    /\ Cardinality(Recorded(Records)) - summary.counts.completed \in {0, 1}
    /\ Cardinality(Successful(Records)) - summary.counts.successful \in {0, 1}

\* A successful invocation is never executed again, whatever was interrupted,
\* killed, retried or forced in between.
SuccessIsFinal ==
  \A i, j \in DOMAIN Records :
    Records[i].id = Records[j].id /\ Records[i].status = "success" => j <= i

\* What a process leaves as the table is never ahead of the journal, whichever
\* process appended what: a normal table covers every measured invocation, one of a
\* completed run is up to date, and a completed run has one (if no line was lost).
TableFollowsJournal ==
  [][run # None /\ run.at = "csv" /\ run' = None /\ faults' = faults /\ Readable =>
       /\ csv'.rows \subseteq Rows(Records)
       /\ csv'.form = "normal" => Range(run.plan) \ Warmups \subseteq Recorded(Records)
       /\ summary.status = "completed" =>
            csv' = [form |-> "normal", rows |-> Rows(Records)]]_vars

\* The journal survives every stop: a run that was started is completed after
\* finitely many faults, unless a write was cut short.
RunCompletes ==
  summary # None ~> (summary # None /\ summary.status = "completed") \/ ~Readable

=============================================================================
