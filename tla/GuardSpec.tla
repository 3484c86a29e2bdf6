------------------------------- MODULE GuardSpec -------------------------------
(***************************************************************************)
(* What a guarded call of user code promises main(), without threads,      *)
(* signals or locks.  A call ends in one of the ways user code can end; it *)
(* is accepted only if the code returned, and otherwise the process ends   *)
(* with a report that names how the code failed.  The process dies without *)
(* a report only when user code escaped the guard, on a thread of its own. *)
(***************************************************************************)
VARIABLES
  status,   \* "idle", "calling", "reported", "dead"
  ending,   \* how the code of the current call ended, or "none"
  report,   \* what the process reported, or "none"
  escaped   \* user code left a thread behind that crashed or exited

vars == <<status, ending, report, escaped>>

\* What is reported for each way user code can fail.
ReportFor ==
  [threw |-> "error", exited |-> "termination", crashed |-> "signal",
   damaged |-> "untrusted"]

Init ==
  /\ status = "idle"
  /\ ending = "none"
  /\ report = "none"
  /\ escaped = FALSE

Call ==
  /\ status = "idle"
  /\ status' = "calling"
  /\ ending' = "none"
  /\ UNCHANGED <<report, escaped>>

End(e) ==
  /\ status = "calling"
  /\ ending = "none"
  /\ ending' = e
  /\ UNCHANGED <<status, report, escaped>>

Accept ==
  /\ status = "calling"
  /\ ending = "returned"
  /\ status' = "idle"
  /\ UNCHANGED <<ending, report, escaped>>

\* A stray thread that exits is reported as a termination of the call, or of a
\* later one.
Report(r) ==
  /\ status = "calling"
  /\ \/ ending \in DOMAIN ReportFor /\ r = ReportFor[ending]
     \/ ending \in {"returned", "crashed"} /\ escaped /\ r = "termination"
  /\ status' = "reported"
  /\ report' = r
  /\ UNCHANGED <<ending, escaped>>

Escape ==
  /\ status \in {"idle", "calling"}
  /\ escaped' = TRUE
  /\ UNCHANGED <<status, ending, report>>

\* Dead without a report, which takes a stray thread; the code of the current
\* call may be what the process dies in once such a thread has crashed.
Die ==
  /\ status \in {"idle", "calling"}
  /\ status' = "dead"
  /\ escaped' = TRUE
  /\ \/ ending' = ending
     \/ escaped /\ ending = "none" /\ ending' \in DOMAIN ReportFor
  /\ UNCHANGED report

Next ==
  \/ Call \/ Accept \/ Escape \/ Die
  \/ \E e \in {"returned"} \union DOMAIN ReportFor : End(e)
  \/ \E r \in {ReportFor[e] : e \in DOMAIN ReportFor} : Report(r)

Spec == Init /\ [][Next]_vars

================================================================================
