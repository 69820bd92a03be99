-------------------------- MODULE BuildVerification --------------------------
(***************************************************************************)
(* scripts/verify_llama_cpp_build.py: each executable of a llama.cpp build *)
(* is looked up, checked for permission and run with --help, one after the *)
(* other and each with a time limit, while somebody may be building.       *)
(*                                                                         *)
(* An executable is known by what happens when it is looked up and run:    *)
(*   missing, plain (a file without the permission), broken (the system    *)
(*   cannot execute it), works, fails (another return code, or a signal),  *)
(*   hangs, garbled (its output is not text in the locale's encoding).     *)
(***************************************************************************)
EXTENDS Integers, SequencesExt

CONSTANTS
  Executables,  \* EXECUTABLES, a sequence of names
  Conditions,   \* those of the executables that occur
  MaxBuilds,    \* bound on changes of the build
  Null

AllConditions == {"missing", "plain", "broken", "works", "fails", "hangs", "garbled"}

ASSUME BuildAssumption ==
  /\ Executables \in Seq(STRING) /\ Executables # <<>> /\ IsInjective(Executables)
  /\ Conditions \subseteq AllConditions
  /\ Null \notin Nat

VARIABLES
  build,     \* the condition of each executable
  verifier,  \* [at, child], the running script; the child is as it was when it started
  verdicts,  \* the VerificationResults so far
  exitCode,  \* of the last verification that was not interrupted, or Null
  builds,    \* how often the build has changed
  observed   \* history of the last verification: what a bystander saw

buildVars == <<build, verifier, verdicts, exitCode, builds, observed>>

Names == Range(Executables)

\* exited: whose child returned 0; late: who worked but was not given the time;
\* touched: the build has changed since the verification began.
NothingObserved == [exited |-> {}, late |-> {}, touched |-> FALSE]

BuildInit ==
  /\ build \in [Names -> Conditions]
  /\ verifier = Null /\ verdicts = <<>> /\ exitCode = Null
  /\ builds = 0 /\ observed = NothingObserved

\* VerificationResult, without the texts: stdout and stderr are only printed.
Verdict(code, timedOut, error) == [code |-> code, timed_out |-> timedOut, error |-> error]
Failure == Verdict(Null, FALSE, TRUE)

\* Defect: whatever could be started has passed.
PassedIfStarted(verdict) == ~verdict.error /\ ~verdict.timed_out
\* VerificationResult.passed
Passed(verdict) == ~verdict.error /\ ~verdict.timed_out /\ verdict.code = 0

-----------------------------------------------------------------------------
(* The script *)

VerifierAt(step) == verifier # Null /\ verifier.at = step

\* The executable whose turn it is.
name == Executables[Len(verdicts) + 1]

\* main: a time limit that is not positive is refused by the parser.
Verify(timeout) ==
  /\ verifier = Null
  /\ verdicts' = <<>> /\ observed' = NothingObserved
  /\ IF timeout > 0
     THEN verifier' = [at |-> "look", child |-> Null] /\ exitCode' = Null
     ELSE exitCode' = 2 /\ UNCHANGED verifier
  /\ UNCHANGED <<build, builds>>

GoTo(step, child) == verifier' = [at |-> step, child |-> child] /\ UNCHANGED <<verdicts, exitCode>>

\* The result is noted, and the next executable examined or the verdict given.
Note(verdict) ==
  LET all == Append(verdicts, verdict)
  IN  /\ verdicts' = all
      /\ IF Len(all) < Len(Executables)
         THEN verifier' = [at |-> "look", child |-> Null] /\ UNCHANGED exitCode
         ELSE /\ verifier' = Null
              /\ exitCode' = IF \A i \in DOMAIN all : Passed(all[i]) THEN 0 ELSE 1

\* path.is_file()
Look ==
  /\ VerifierAt("look")
  /\ IF build[name] = "missing" THEN Note(Failure) ELSE GoTo("access", Null)
  /\ UNCHANGED <<build, builds, observed>>

\* os.access(path, os.X_OK)
Access ==
  /\ VerifierAt("access")
  /\ IF build[name] \in {"missing", "plain"} THEN Note(Failure) ELSE GoTo("run", Null)
  /\ UNCHANGED <<build, builds, observed>>

\* The child is started, or an OSError says why not.
Launch ==
  /\ VerifierAt("run")
  /\ IF build[name] \in {"missing", "plain", "broken"}
     THEN Note(Failure)
     ELSE GoTo("wait", build[name])
  /\ UNCHANGED <<build, builds, observed>>

ChildReturns ==
  /\ VerifierAt("wait") /\ verifier.child \in {"works", "fails"}
  /\ LET code == IF verifier.child = "works" THEN 0 ELSE 1
     IN  /\ Note(Verdict(code, FALSE, FALSE))
         /\ observed' = [observed EXCEPT !.exited = IF code = 0 THEN @ \cup {name} ELSE @]
  /\ UNCHANGED <<build, builds>>

\* Decoding the output raises an error that nothing catches: the script ends with a
\* traceback, also if executables are left.
ChildIsGarbled ==
  /\ VerifierAt("wait") /\ verifier.child = "garbled"
  /\ verifier' = Null /\ exitCode' = 1
  /\ UNCHANGED <<build, builds, verdicts, observed>>

\* TimeoutExpired: the child is killed.
ChildTimesOut ==
  /\ VerifierAt("wait")
  /\ Note(Verdict(Null, TRUE, TRUE))
  /\ observed' = [observed EXCEPT !.late = IF verifier.child = "works" THEN @ \cup {name} ELSE @]
  /\ UNCHANGED <<build, builds>>

\* A SIGINT.
VerifierInterrupted ==
  /\ verifier # Null
  /\ verifier' = Null
  /\ UNCHANGED <<build, verdicts, exitCode, builds, observed>>

\* A compiler, a linker or chmod changes a file.
Rebuild ==
  /\ builds < MaxBuilds /\ builds' = builds + 1
  /\ \E n \in Names : \E c \in Conditions \ {build[n]} : build' = [build EXCEPT ![n] = c]
  /\ observed' = [observed EXCEPT !.touched = TRUE]
  /\ UNCHANGED <<verifier, verdicts, exitCode>>

-----------------------------------------------------------------------------
VerifierStep ==
  Look \/ Access \/ Launch \/ ChildReturns \/ ChildIsGarbled \/ ChildTimesOut

BuildNext ==
  \/ \E timeout \in {0, 1} : Verify(timeout)
  \/ VerifierStep \/ VerifierInterrupted \/ Rebuild

-----------------------------------------------------------------------------
(* Properties *)

\* Exit code 0 means that --help of each executable was run during this verification and
\* returned 0, whatever was rebuilt, replaced or removed between the look-up and the run
\* of one of them; and if nobody touched the build, the exit code says whether it works,
\* unless an executable that does was too slow.  docs/llama_cpp_build.md: the verifier
\* checks all three files, executable permissions, and --help.
VerdictIsTrue ==
  verifier = Null =>
    /\ exitCode = 0 => observed.exited = Names
    /\ ~observed.touched =>
         /\ exitCode = 0 => \A n \in Names : build[n] = "works"
         /\ exitCode = 1 => observed.late # {} \/ \E n \in Names : build[n] # "works"

=============================================================================
