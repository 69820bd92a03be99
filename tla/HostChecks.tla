------------------------------ MODULE HostChecks ------------------------------
(***************************************************************************)
(* The two scripts that examine a host before anything is measured on it:  *)
(* the verification of the build and the probe of the perf events.  They   *)
(* share no file and no process, so a behaviour has one of them.           *)
(***************************************************************************)
EXTENDS BuildVerification, PerfProbe

VARIABLE script  \* the one that is run

hostVars == <<script, buildVars, probeVars>>

AnyBuild == CHOOSE b \in [Names -> Conditions] : TRUE

Building == script = "verify_llama_cpp_build" /\ UNCHANGED <<script, probeVars>>
Probing  == script = "probe_perf_events" /\ UNCHANGED <<script, buildVars>>

\* The host is arbitrary in what the script of the behaviour examines, and fixed in what
\* it does not.
HostInit ==
  /\ BuildInit /\ ProbeInit
  /\ \/ script = "verify_llama_cpp_build" /\ perf = Absent
     \/ script = "probe_perf_events" /\ build = AnyBuild

HostNext ==
  \/ BuildNext /\ Building
  \/ ProbeNext /\ Probing

\* The scripts go on until they end.
HostFairness == WF_hostVars(VerifierStep /\ Building) /\ WF_hostVars(ProberStep /\ Probing)

HostSpec == HostInit /\ [][HostNext]_hostVars /\ HostFairness

-----------------------------------------------------------------------------
(* Properties *)

\* Each check ends, though executables and perf may hang, change and disappear: every
\* program that is started has a time limit.
ChecksEnd == (verifier # Null ~> verifier = Null) /\ (prober # Absent ~> prober = Absent)
=============================================================================
