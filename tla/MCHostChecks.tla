----------------------------- MODULE MCHostChecks -----------------------------
(* A small instance of HostChecks for TLC. *)
EXTENDS HostChecks

TwoExecutables == <<"llama-bench", "llama-cli">>
TwoEvents == <<"cycles", "LLC-loads">>

Answer(code, says) == [code |-> code, says |-> says]

\* A plain success, an end by SIGKILL, phrases with either exit code, and several at once.
SomeAnswers ==
  { Answer(0, {}), Answer(-9, {}), Answer(0, {"not supported"}),
    Answer(255, {"permission", "not supported"}), Answer(1, {"unknown event"}),
    Answer(0, {"not counted"}), Hangs }
=============================================================================
