--------------------------- MODULE JobControlProofs ---------------------------
(***************************************************************************)
(* Theorems about JobControl, for any number of stops.                     *)
(***************************************************************************)
EXTENDS JobControl, TLAPS

\* The ends are distinct.
LEMMA EndsDiffer ==
  /\ \A code : Exit(code) # Alive /\ Exit(code)[1] = "exit"
  /\ \A sig : Killed(sig) # Alive /\ Killed(sig)[1] = "killed"
  /\ Alive[1] = "alive"
  BY DEF Exit, Killed, Alive

\* PID 1 always ends in some way.
LEMMA EndOfInitEnds ==
  ASSUME NEW end, end # Alive
  PROVE  EndOfInit(end) # Alive
  BY EndsDiffer DEF EndOfInit

\* What the rest of the system does not touch.
quiet == << jend, ipc, iend, deathsig, cend >>

LEMMA Quiet ==
  ASSUME JobInv, UNCHANGED quiet
  PROVE  JobInv'
  BY DEF quiet, JobInv, EndsPassedOn, DeathSignalAsked, Forked

LEMMA JNext ==
  ASSUME JobInv, JStep \/ CtrlZ \/ Fg \/ JKilled
  PROVE  JobInv'
<1>1. CASE WaitEnded
  BY <1>1, EndsDiffer DEF WaitEnded, JReady, iVars, cVars, JobInv, EndsPassedOn, DeathSignalAsked, Forked
<1>2. CASE JKilled
  <2>1. /\ jend = Alive /\ jend' = Killed("KILL") /\ UNCHANGED << ipc, deathsig >>
        /\ JobInv
    BY <1>2 DEF JKilled
  <2>2. CASE deathsig /\ iend = Alive
    <3>1. iend' = Killed("KILL") /\ cend' = IF Forked /\ cend = Alive THEN Killed("KILL") ELSE cend
      BY <1>2, <2>2 DEF JKilled
    <3> QED
      BY <2>1, <3>1, EndsDiffer DEF JobInv, EndsPassedOn, DeathSignalAsked, Forked
  <2>3. CASE ~(deathsig /\ iend = Alive)
    <3>1. UNCHANGED << iend, cend >>
      BY <1>2, <2>3 DEF JKilled
    <3> QED
      BY <2>1, <2>3, <3>1 DEF JobInv, EndsPassedOn, DeathSignalAsked, Forked
  <2> QED
    BY <2>2, <2>3
<1>3. CASE \/ ReadProbe \/ SetUp \/ Poll \/ WaitStopped \/ WaitNothing \/ Raise \/ Check \/ Drain
           \/ Kill \/ JHandler \/ CtrlZ \/ Fg
  <2>1. UNCHANGED quiet
    BY <1>3 DEF ReadProbe, SetUp, Poll, WaitStopped, WaitNothing, Raise, Check, Drain, Kill,
                JHandler, CtrlZ, Fg, iVars, cVars, quiet
  <2> QED
    BY <2>1, Quiet
<1> QED
  BY <1>1, <1>2, <1>3 DEF JStep

LEMMA INext ==
  ASSUME JobInv, IStep \/ IStops
  PROVE  JobInv'
<1>1. CASE Prctl
  BY <1>1 DEF Prctl, IReady, jVars, cVars, JobInv, EndsPassedOn, DeathSignalAsked, Forked
<1>1a. CASE StartFails
  <2>1. /\ ipc = "prctl" /\ iend = Alive /\ iend' = Exit("1")
        /\ UNCHANGED << ipc, jend, deathsig, cend >>
    BY <1>1a DEF StartFails, IReady, cVars
  <2> QED
    BY <2>1, EndsDiffer DEF JobInv, EndsPassedOn, DeathSignalAsked, Forked
<1>2. CASE Probe
  <2>1. ipc = "probe" /\ iend = Alive /\ UNCHANGED << jend, deathsig, cend >>
    BY <1>2 DEF Probe, IReady, cVars
  <2>2. CASE jend = Alive
    BY <1>2, <2>1, <2>2 DEF Probe, JobInv, EndsPassedOn, DeathSignalAsked, Forked
  <2>3. CASE jend # Alive
    <3>1. iend' = Exit("1") /\ UNCHANGED ipc
      BY <1>2, <2>3 DEF Probe
    <3> QED
      BY <2>1, <2>3, <3>1, EndsDiffer DEF JobInv, EndsPassedOn, DeathSignalAsked, Forked
  <2> QED
    BY <2>2, <2>3
<1>3. CASE Fork
  <2>1. /\ ipc = "fork" /\ iend = Alive /\ UNCHANGED << jend, deathsig, cend >>
        /\ \/ ipc' = "sigaction" /\ UNCHANGED iend
           \/ iend' = Exit("1") /\ UNCHANGED ipc
    BY <1>3 DEF Fork, IReady, cVars
  <2>2. jend = Alive
    BY <2>1 DEF JobInv, DeathSignalAsked
  <2> QED
    BY <2>1, <2>2, EndsDiffer DEF JobInv, EndsPassedOn, DeathSignalAsked, Forked
<1>4. CASE Sigaction \/ WaitC \/ Write
  BY <1>4 DEF Sigaction, WaitC, Write, IReady, jVars, cVars, JobInv, EndsPassedOn,
              DeathSignalAsked, Forked
<1>5. CASE WaitCEnded
  <2>1. /\ iend = Alive /\ cend # Alive /\ iend' = EndOfInit(cend)
        /\ UNCHANGED << jend, ipc, deathsig, cend >>
    BY <1>5 DEF WaitCEnded, IReady, cVars
  <2>2. iend' # Alive
    BY <2>1, EndOfInitEnds
  <2> QED
    BY <2>1, <2>2 DEF JobInv, EndsPassedOn, DeathSignalAsked, Forked
<1>6. CASE IHandler \/ IStops
  <2>1. UNCHANGED quiet
    BY <1>6 DEF IHandler, IStops, jVars, cVars, quiet
  <2> QED
    BY <2>1, Quiet
<1> QED
  BY <1>1, <1>1a, <1>2, <1>3, <1>4, <1>5, <1>6 DEF IStep

LEMMA CNext ==
  ASSUME JobInv, (\E sig \in StopSigs : CStops(sig)) \/ (\E end \in Ends : CEnds(end))
  PROVE  JobInv'
<1>1. ASSUME NEW sig \in StopSigs, CStops(sig)
      PROVE  JobInv'
  <2>1. UNCHANGED quiet
    BY <1>1 DEF CStops, jVars, iVars, quiet
  <2> QED
    BY <2>1, Quiet
<1>2. ASSUME NEW end \in Ends, CEnds(end)
      PROVE  JobInv'
  <2>1. end # Alive
    BY EndsDiffer DEF Ends
  <2>2. Forked /\ cend = Alive /\ cend' = end /\ UNCHANGED << jend, ipc, iend, deathsig >>
    BY <1>2 DEF CEnds, CRuns, jVars, iVars
  <2> QED
    BY <2>1, <2>2 DEF JobInv, EndsPassedOn, DeathSignalAsked, Forked
<1> QED
  BY <1>1, <1>2

THEOREM JobInvariant == Spec => []JobInv
<1>1. Init => JobInv
  BY DEF Init, JobInv, EndsPassedOn, DeathSignalAsked, Forked
<1>2. ASSUME JobInv, [Next]_vars
      PROVE  JobInv'
  <2>1. CASE UNCHANGED vars
    BY <1>2, <2>1, Quiet DEF vars, jVars, iVars, cVars, quiet
  <2>2. CASE Next
    <3>1. {Exit("0"), Exit("1"), Killed("TERM")} \subseteq Ends
      BY DEF Ends
    <3> QED
      BY <1>2, <2>2, <3>1, JNext, INext, CNext DEF Next
  <2> QED
    BY <1>2, <2>1, <2>2
<1> QED
  BY <1>1, <1>2, PTL DEF Spec

(***************************************************************************)
(* ExitStatusKept for any number of stops: whenever jai has ended and the  *)
(* program has exited, jai ended with the status of the program, or was    *)
(* killed itself.                                                          *)
(***************************************************************************)
THEOREM StatusKept == Spec => []ExitStatusKept
<1>1. ASSUME JobInv
      PROVE  ExitStatusKept
  <2> SUFFICES ASSUME jend # Alive, cend[1] = "exit", jend # Killed("KILL")
               PROVE  jend = cend
    BY DEF ExitStatusKept
  <2>1. cend # Alive
    BY EndsDiffer
  <2>2. jend = iend /\ iend # Alive
    BY <1>1 DEF JobInv, EndsPassedOn
  <2>3. iend = EndOfInit(cend)
    BY <1>1, <2>1, <2>2 DEF JobInv, EndsPassedOn
  <2> QED
    BY <2>2, <2>3 DEF EndOfInit
<1> QED
  BY <1>1, JobInvariant, PTL

(***************************************************************************)
(* ProgramHasJai: PID 1 forks the program only after it has asked for its  *)
(* death signal and seen that jai was still there to get the probe, so     *)
(* that the program ends with jai, also when jai is killed.                *)
(***************************************************************************)
THEOREM NeverWithoutJai == Spec => []ProgramHasJai
<1>1. JobInv => ProgramHasJai
  BY DEF JobInv, DeathSignalAsked, ProgramHasJai, Forked
<1> QED
  BY <1>1, JobInvariant, PTL

=============================================================================
