-------------------------------- MODULE RunSpec --------------------------------
(***************************************************************************)
(* What runs of ALGatorC over the same <io_filename_root> promise to the   *)
(* ALGator system, which sees only how far a run says it came and the two  *)
(* files it leaves.                                                        *)
(*                                                                         *)
(* A run goes from PREPARATION through the libraries (COMPILATION and      *)
(* SETUP of each, once or twice) to EXECUTION and TEARDOWN, and never back *)
(* from those.  Only in TEARDOWN does it touch the output file, and it     *)
(* reports once: OK at the very end, with its own output written, or the   *)
(* phase it failed in.                                                     *)
(***************************************************************************)
VARIABLES
  going,    \* a run is going on
  phase,    \* the phase it is in
  output,   \* the output file: "old", "cut" (truncated), "new"
  verdict   \* the status file: "none" of this run, "OK", "partial", or the
            \* phase of an error

vars == <<going, phase, output, verdict>>

Init ==
  /\ going = TRUE
  /\ phase = "PREPARATION"
  /\ output = "old" /\ verdict = "none"

\* The phases that may follow a phase.
Following(p) ==
  CASE p = "PREPARATION" -> {"COMPILATION"}
    [] p = "COMPILATION" -> {"SETUP"}
    [] p = "SETUP" -> {"COMPILATION", "EXECUTION"}
    [] p = "EXECUTION" -> {"TEARDOWN"}
    [] p = "TEARDOWN" -> {}

Advance ==
  /\ going
  /\ phase' \in Following(phase)
  /\ UNCHANGED <<going, output, verdict>>

CutOutput ==
  /\ going /\ phase = "TEARDOWN" /\ output = "old"
  /\ output' = "cut"
  /\ UNCHANGED <<going, phase, verdict>>

WriteOutput ==
  /\ going /\ phase = "TEARDOWN" /\ output = "cut"
  /\ output' = "new"
  /\ UNCHANGED <<going, phase, verdict>>

ReportOK ==
  /\ going /\ phase = "TEARDOWN" /\ output = "new"
  /\ verdict' \in {"OK", "partial"}
  /\ going' = FALSE
  /\ UNCHANGED <<phase, output>>

ReportError ==
  /\ going
  /\ verdict' = phase
  /\ going' = FALSE
  /\ UNCHANGED <<phase, output>>

\* The process is killed, or cannot open its status file, or has none yet.
EndSilently ==
  /\ going
  /\ going' = FALSE
  /\ UNCHANGED <<phase, output, verdict>>

NextRun ==
  /\ ~going
  /\ going' = TRUE
  /\ phase' = "PREPARATION"
  /\ output' = "old" /\ verdict' = "none"

Next ==
  \/ Advance \/ CutOutput \/ WriteOutput \/ ReportOK \/ ReportError
  \/ EndSilently \/ NextRun

Spec == Init /\ [][Next]_vars

================================================================================
