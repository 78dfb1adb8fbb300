--------------------------- MODULE MCRegistration ---------------------------
(***************************************************************************)
(* Small instances of Registration for TLC: which commands the HMI gives.  *)
(***************************************************************************)
EXTENDS Registration

\* Everything the HMI can ask that touches the registration.
AllCommands == HmiCommands

\* A command that talks to the VTN while the poll thread does.
JustRegister == {"startpolling", "register"}

\* Few ids, few commands.
ASSUME SmallInstance == MaxGrants <= 4 /\ MaxCommands <= 4

=============================================================================
