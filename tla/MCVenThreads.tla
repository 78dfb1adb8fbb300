---------------------------- MODULE MCVenThreads ----------------------------
(***************************************************************************)
(* Small instances of VenThreads for TLC.  A .cfg picks the situation: the *)
(* commands of the HMI, the messages of the VTN and the number of threads. *)
(***************************************************************************)
EXTENDS VenThreads

\* What the HMI does in a run.
Leave    == {"startpolling", "cancelreg"}
Restart  == {"startpolling", "stoppolling", "rereg", "optevent"}
JustPoll == {"startpolling"}

\* What the intervals of the signals carry.
Sheds     == {"shed"}
SomeSheds == {"shed", "other"}

\* Every run starts at most this many threads of a service.
ThreadsBounded ==
  Cardinality(Poll) <= 2 /\ Cardinality(Event) <= 2 /\ Cardinality(Signal) <= 2
ASSUME SmallInstance == ThreadsBounded

=============================================================================
