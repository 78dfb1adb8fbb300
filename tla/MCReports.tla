----------------------------- MODULE MCReports -----------------------------
(***************************************************************************)
(* Small instances of Reports for TLC.  A .cfg picks what the VTN asks for *)
(* and how the reports run: one-time (1), endless (0), for two waits (2).  *)
(***************************************************************************)
EXTENDS Reports

AnyKind   == BOOLEAN
Telemetry == {FALSE}

OnceOrEndless == {0, 1}
AnyLength     == {0, 1, 2}
Endless       == {0}

CreateAndCancel == {"create", "cancel"}
CreateAndLeave  == {"create", "leave"}
AllMessages     == {"create", "cancel", "leave"}

\* Every run has at most three report ids and three threads.
ReportsBounded == NumReports <= 3 /\ NumThreads <= 3
ASSUME SmallInstance == ReportsBounded

=============================================================================
