---------------------------- MODULE MCCea2045Link ----------------------------
(***************************************************************************)
(* Small instances of Cea2045Link for TLC.  A .cfg picks the threads, what *)
(* they ask the appliance for and what it says unasked.                    *)
(***************************************************************************)
EXTENDS Cea2045Link

\* A signal and the log thread's questions, which need all kinds of messages.
SignalAndLog == {"shed", "log"}

\* Basic messages only.
SignalAndState == {"shed", "opstate"}

\* A signal thread and a stop of the signals.
ShedAndEnd == {"shed", "endshed"}

=============================================================================
