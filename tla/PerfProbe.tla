------------------------------ MODULE PerfProbe ------------------------------
(***************************************************************************)
(* scripts/probe_perf_events.py: perf is asked for one event after the     *)
(* other, each answer is classified by its exit code and its text, and the *)
(* report is written twice, as JSON and as Markdown.  Permissions and the  *)
(* installation of perf may change at any time, perf may hang, and the     *)
(* script may be killed between any two steps, also within a write.        *)
(*                                                                         *)
(* An answer is an exit code and what the text says, as a set of phrases.  *)
(***************************************************************************)
EXTENDS Integers, SequencesExt

CONSTANTS
  Events,      \* EVENTS, a sequence of names
  Answers,     \* those of perf that occur, Hangs among them or not
  Hangs,       \* no answer
  MaxChanges,  \* bound on changes of the host
  MaxProbes,   \* bound on runs of the script
  Torn,        \* a report cut short
  Absent       \* no file, no program, no answer

\* subprocess's return codes: a negative one is the signal that ended perf.
ExitCodes == -64 .. 255
Phrases == {"permission", "not supported", "unknown event", "not counted"}

Classes ==
  {"supported", "unsupported", "permission denied", "unavailable in WSL2", "noisy or unreliable"}

\* A report knows whether perf was found, and one row per event that was probed: its
\* class, with what was heard as a witness.
Report ==
  [ number : Nat, found : BOOLEAN,
    rows   : Seq([class : Classes, heard : Answers \cup {Absent}]) ]

ASSUME ProbeAssumption ==
  /\ Events \in Seq(STRING) /\ Events # <<>> /\ IsInjective(Events)
  /\ Answers \subseteq [code : ExitCodes, says : SUBSET Phrases] \cup {Hangs}
  /\ Answers # {}
  /\ Absent \notin Nat \cup Report \cup [code : ExitCodes, says : SUBSET Phrases]

VARIABLES
  perf,      \* what perf answers for each event, or Absent if there is no perf
  prober,    \* [at, hears, report], the running script
  json,      \* the two files: a report, Torn, or Absent
  markdown,
  exitStatus,  \* of the last probe: 0, 127, 1 (a traceback), or Absent
  probes,    \* how often the script was started
  changes

probeVars == <<perf, prober, json, markdown, exitStatus, probes, changes>>

PerfStates == [Range(Events) -> Answers] \cup {Absent}

NewReport(number, found) == [number |-> number, found |-> found, rows |-> <<>>]

ProbeInit ==
  /\ perf \in PerfStates
  /\ prober = Absent /\ json = Absent /\ markdown = Absent /\ exitStatus = Absent
  /\ probes = 0 /\ changes = 0

\* Defect: the exit code is looked at first.
ClassifyByExitCode(code, says) ==
  IF code = 0 THEN "supported"
  ELSE IF "permission" \in says THEN "permission denied"
  ELSE IF "not supported" \in says THEN "unsupported"
  ELSE IF "unknown event" \in says THEN "unavailable in WSL2"
  ELSE IF "not counted" \in says THEN "noisy or unreliable"
  ELSE "unsupported"
\* classify_probe; the "<not supported>" test of the code is never reached.
Classify(code, says) ==
  IF "permission" \in says THEN "permission denied"
  ELSE IF "not supported" \in says THEN "unsupported"
  ELSE IF "unknown event" \in says THEN "unavailable in WSL2"
  ELSE IF "not counted" \in says THEN "noisy or unreliable"
  ELSE IF code = 0 THEN "supported"
  ELSE "unsupported"

-----------------------------------------------------------------------------
(* The script *)

ProberAt(step) == prober # Absent /\ prober.at = step

event == Events[Len(prober.report.rows) + 1]

\* run_probe: without perf there is nothing to ask, but a path that is given with --perf
\* is taken for found.
StartProbe(given) ==
  LET found == given \/ perf # Absent
  IN  /\ prober = Absent /\ probes < MaxProbes
      /\ probes' = probes + 1 /\ exitStatus' = Absent
      /\ prober' = [at     |-> IF found THEN "launch" ELSE "json",
                    hears  |-> Absent,
                    report |-> NewReport(probes', found)]
      /\ UNCHANGED <<perf, json, markdown, changes>>

\* perf is started; if it is gone by now, FileNotFoundError ends the script.
LaunchPerf ==
  /\ ProberAt("launch")
  /\ IF perf = Absent
     THEN prober' = Absent /\ exitStatus' = 1
     ELSE /\ prober' = [prober EXCEPT !.at = "listen", !.hears = perf[event]]
          /\ UNCHANGED exitStatus
  /\ UNCHANGED <<perf, json, markdown, probes, changes>>

\* The row of an event.
AddRow(classification, heard) ==
  LET report == [prober.report EXCEPT
                   !.rows = Append(@, [class |-> classification, heard |-> heard])]
  IN  /\ prober' = [at     |-> IF Len(report.rows) = Len(Events) THEN "json" ELSE "launch",
                    hears  |-> Absent,
                    report |-> report]
      /\ UNCHANGED <<perf, json, markdown, exitStatus, probes, changes>>

PerfAnswers ==
  /\ ProberAt("listen") /\ prober.hears # Hangs
  /\ AddRow(Classify(prober.hears.code, prober.hears.says), prober.hears)

\* Defect: there is no time limit.
PerfAnswersLate ==
  /\ ProberAt("listen") /\ prober.hears # Hangs
  /\ AddRow("noisy or unreliable", Absent)
\* After 15 seconds perf is killed.
PerfTimesOut ==
  /\ ProberAt("listen")
  /\ AddRow("noisy or unreliable", Absent)

\* Defect: a report without events leaves the JSON file as it is.
WriteJsonOfEvents ==
  /\ ProberAt("json")
  /\ json' = IF prober.report.found THEN prober.report ELSE json
  /\ prober' = [prober EXCEPT !.at = "markdown"]
  /\ UNCHANGED <<perf, markdown, exitStatus, probes, changes>>
WriteJson ==
  /\ ProberAt("json")
  /\ json' = prober.report
  /\ prober' = [prober EXCEPT !.at = "markdown"]
  /\ UNCHANGED <<perf, markdown, exitStatus, probes, changes>>

WriteMarkdown ==
  /\ ProberAt("markdown")
  /\ markdown' = prober.report
  /\ prober' = Absent
  /\ exitStatus' = IF prober.report.found THEN 0 ELSE 127
  /\ UNCHANGED <<perf, json, probes, changes>>

\* The script is killed, or a write fails; files are written in place.
ProberStops ==
  /\ prober # Absent
  /\ prober' = Absent /\ exitStatus' = 1
  /\ \/ UNCHANGED <<json, markdown>>
     \/ ProberAt("json") /\ json' = Torn /\ UNCHANGED markdown
     \/ ProberAt("markdown") /\ markdown' = Torn /\ UNCHANGED json
  /\ UNCHANGED <<perf, probes, changes>>

\* perf is installed or removed, or perf_event_paranoid or the load of the host changes.
HostChanges ==
  /\ changes < MaxChanges /\ changes' = changes + 1
  /\ perf' \in PerfStates \ {perf}
  /\ UNCHANGED <<prober, json, markdown, exitStatus, probes>>

-----------------------------------------------------------------------------
ProberStep == LaunchPerf \/ PerfAnswers \/ PerfTimesOut \/ WriteJson \/ WriteMarkdown

ProbeNext ==
  \/ \E given \in BOOLEAN : StartProbe(given)
  \/ ProberStep \/ ProberStops \/ HostChanges

-----------------------------------------------------------------------------
(* Properties *)

\* An event counts as supported only if perf ran for it, exited 0 and said nothing
\* against it, and a refusal is never mistaken for missing hardware, in every report that
\* was written, also if the host changed while it was made.
ClassesAreTrue ==
  \A report \in {json, markdown} \ {Absent, Torn} : \A i \in DOMAIN report.rows :
    LET row == report.rows[i]
    IN  /\ row.class = "supported" <=> row.heard = [code |-> 0, says |-> {}]
        /\ row.class = "permission denied" <=>
             row.heard # Absent /\ "permission" \in row.heard.says
        /\ row.heard = Absent => row.class = "noisy or unreliable"

\* The Markdown never shows a report that is newer than the JSON, whichever run was
\* stopped between the two writes or inside one; and the two are the complete report of
\* the last run when that has ended by itself, with perf (exit code 0) or without (127).
ReportsAgree ==
  /\ markdown \notin {Absent, Torn} /\ json # Torn =>
       json # Absent /\ json.number >= markdown.number
  /\ exitStatus \in {0, 127} =>
       /\ json = markdown /\ json.number = probes
       /\ Len(json.rows) = IF exitStatus = 0 THEN Len(Events) ELSE 0

=============================================================================
