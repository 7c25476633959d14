------------------------------ MODULE SetupOnce ------------------------------
(***************************************************************************)
(* What lock_or_validate promises its callers (fs.h: "guard one-time       *)
(* setup"): however many processes ask for the thing, one of them builds   *)
(* it, it is published once and for good, and everybody who gets an answer *)
(* gets that one.                                                          *)
(***************************************************************************)
CONSTANTS
  Procs,
  None

VARIABLES
  built,   \* what was published, named by the process that built it, or None
  result   \* result[p]: what p was given, or None

vars == << built, result >>

Init ==
  /\ built = None
  /\ result = [p \in Procs |-> None]

\* p publishes what the process m built, and returns it.
Publish(p, m) ==
  /\ built = None
  /\ built' = m
  /\ result' = [result EXCEPT ![p] = m]

\* p finds it published.
Obtain(p) ==
  /\ built # None
  /\ result' = [result EXCEPT ![p] = built]
  /\ UNCHANGED built

Next ==
  \E p \in Procs :
    \/ \E m \in Procs : Publish(p, m)
    \/ Obtain(p)

Spec == Init /\ [][Next]_vars
=============================================================================
