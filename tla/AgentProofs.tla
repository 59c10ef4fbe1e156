------------------------------- MODULE AgentProofs -------------------------------
(***************************************************************************)
(* Proofs about the whole agent process of Agent, with crashes and         *)
(* restarts, for every value of the constants.  The command-poll thread's  *)
(* steps are steps of ExecNext, so ExecProofs carries over; the main       *)
(* thread, the heartbeat and the faults leave the executor alone, except   *)
(* Restart, which resets it to idle.                                       *)
(***************************************************************************)
EXTENDS Agent, ExecProofs

\* The agent's own variables have their types.
AgentShape ==
    /\ mpc \in MainPCs
    /\ token \in BOOLEAN
    /\ disk \in DiskStates
    /\ enrolled \in BOOLEAN
    /\ queue \in Seq(1..MaxBeats)
    /\ lpc \in {"wait", "poll"}
    /\ woken \in 0..MaxBeats
    /\ beats \in 0..MaxBeats
    /\ starts \in 1..MaxStarts

(***************************************************************************)
(* RunningEnrolled is not inductive: start() reaches "run" from            *)
(* _load_credentials and from _save_credentials without asking the        *)
(* server.  Both are safe only because a complete credentials file, and a  *)
(* pending save, exist only for a device the server registered: the file  *)
(* is written only after a 2xx from /enroll, and the file and the server's *)
(* record both survive a crash and a restart.                              *)
(***************************************************************************)
Registered ==
    /\ mpc \in {"save", "run"} => enrolled
    /\ disk = "ok" => enrolled

AInv == EInv /\ AgentShape /\ Registered

\* A step that leaves the executor and the handler alone keeps EInv.
LEMMA ExecUnchanged ==
    ASSUME EInv, UNCHANGED vars
    PROVE  EInv'
BY ExecNextInv

LEMMA AgentInitInv == AgentInit => AInv
<1> SUFFICES ASSUME AgentInit PROVE AInv
  OBVIOUS
<1>1. EInv
  BY ExecInitInv DEF AgentInit
<1>2. queue \in Seq(1..MaxBeats)
  BY EmptySeq DEF AgentInit
<1>3. starts \in 1..MaxStarts /\ beats \in 0..MaxBeats /\ woken \in 0..MaxBeats
  BY AgentAssumption DEF AgentInit
<1>4. AgentShape
  BY <1>2, <1>3 DEF AgentInit, AgentShape, MainPCs, DiskStates
<1>5. Registered
  BY DEF AgentInit, Registered
<1>6. QED
  BY <1>1, <1>4, <1>5 DEF AInv

LEMMA AgentNextInv == AInv /\ [AgentNext]_allVars => AInv'
<1> SUFFICES ASSUME AInv, [AgentNext]_allVars PROVE AInv'
  OBVIOUS
<1>0. EInv /\ AgentShape /\ Registered
  BY DEF AInv
\* The main thread's steps and the faults other than Restart.
<1>1. ASSUME UNCHANGED vars,
             UNCHANGED <<queue, woken, beats, starts>>,
             mpc' \in MainPCs, token' \in BOOLEAN, disk' \in DiskStates,
             enrolled' \in BOOLEAN, lpc' \in {"wait", "poll"},
             Registered'
      PROVE  AInv'
  BY <1>0, <1>1, ExecUnchanged DEF AInv, AgentShape
<1>2. CASE LoadCredentials
  <2>1. Registered'
    BY <1>0, <1>2 DEF LoadCredentials, StartDuties, Registered
  <2>2. QED
    BY <1>0, <1>1, <1>2, <2>1 DEF LoadCredentials, StartDuties, AgentShape,
                                  MainPCs
<1>3. CASE Enroll
  <2>1. Registered'
    BY <1>0, <1>3 DEF Enroll, StartDuties, Registered, AgentShape
  <2>2. QED
    BY <1>0, <1>1, <1>3, <2>1 DEF Enroll, StartDuties, AgentShape, MainPCs
<1>4. CASE SaveCredentials
  <2>1. Registered'
    BY <1>0, <1>4 DEF SaveCredentials, StartDuties, Registered
  <2>2. QED
    BY <1>0, <1>1, <1>4, <2>1 DEF SaveCredentials, StartDuties, AgentShape,
                                  MainPCs, DiskStates
<1>5. CASE Stop \/ Crash
  BY <1>0, <1>1, <1>5 DEF Stop, Crash, AgentShape, MainPCs, Registered
\* A restart resets the executor and the handler to idle; installs and
\* jobs, the reports and the acknowledgements sent, remain.
<1>6. CASE Restart
  <2>1. TypeInv'
    BY <1>0, <1>6, OtaAssumption DEF Restart, EInv, IInv, TypeInv, UpdTypeOK, Phases
  <2>2. InstallIntegrity' /\ VerifiedFile'
    BY <1>0, <1>6 DEF Restart, EInv, IInv, InstallIntegrity, VerifiedFile
  <2>3. ExecShape'
    BY <1>0, <1>6, EmptySeq DEF Restart, EInv, ExecShape, CPCs
  <2>4. EInv'
    BY <2>1, <2>2, <2>3 DEF EInv, IInv
  <2>5. starts' \in 1..MaxStarts
    BY <1>0, <1>6, AgentAssumption DEF Restart, AgentShape
  <2>6. queue' \in Seq(1..MaxBeats) /\ woken' \in 0..MaxBeats
    BY <1>6, AgentAssumption, EmptySeq DEF Restart
  <2>7. AgentShape' /\ Registered'
    BY <1>0, <1>6, <2>5, <2>6 DEF Restart, AgentShape, MainPCs, Registered
  <2>8. QED
    BY <2>4, <2>7 DEF AInv
<1>7. CASE Heartbeat
  <2>1. beats + 1 \in 1..MaxBeats /\ beats' = beats + 1
    BY <1>0, <1>7, AgentAssumption DEF Heartbeat, AgentShape
  <2>2. queue' \in Seq(1..MaxBeats)
    <3>1. queue \in Seq(1..MaxBeats)
      BY <1>0 DEF AgentShape
    <3>2. Append(queue, beats + 1) \in Seq(1..MaxBeats)
      BY <2>1, <3>1, AppendProperties
    <3>3. QED
      BY <1>7, <3>1, <3>2 DEF Heartbeat
  <2>3. EInv'
    BY <1>0, <1>7, ExecUnchanged DEF Heartbeat
  <2>4. QED
    BY <1>0, <1>7, <2>1, <2>2, <2>3 DEF Heartbeat, AInv, AgentShape, Registered
<1>8. CASE CommandThread
  <2>1. CASE WaitForWake
    <3>1. queue' \in Seq(1..MaxBeats) /\ woken' \in 0..MaxBeats
      <4>1. queue \in Seq(1..MaxBeats)
        BY <1>0 DEF AgentShape
      <4>2. CASE queue # <<>>
        <5>1. Head(queue) \in 1..MaxBeats /\ Tail(queue) \in Seq(1..MaxBeats)
          BY <4>1, <4>2, HeadTailProperties
        <5>2. woken' = Head(queue) /\ queue' = Tail(queue)
          BY <2>1, <4>2 DEF WaitForWake
        <5>3. QED
          BY <5>1, <5>2
      <4>3. CASE queue = <<>>
        BY <2>1, <4>1, <4>3, AgentAssumption DEF WaitForWake
      <4>4. QED
        BY <4>2, <4>3
    <3>2. EInv'
      BY <1>0, <2>1, ExecUnchanged DEF WaitForWake
    <3>3. QED
      BY <1>0, <2>1, <3>1, <3>2 DEF WaitForWake, AInv, AgentShape, Registered
  <2>2. CASE CommandPoll
    <3>1. EInv'
      BY <1>0, <2>2, ExecNextInv DEF CommandPoll, ExecNext
    <3>2. QED
      BY <1>0, <2>2, <3>1 DEF CommandPoll, AInv, AgentShape, Registered
  <2>3. CASE ExecuteStep /\ UNCHANGED agentVars
    <3>1. EInv'
      BY <1>0, <2>3, ExecNextInv DEF ExecuteStep, ExecNext
    <3>2. QED
      BY <1>0, <2>3, <3>1 DEF agentVars, AInv, AgentShape, Registered
  <2>4. QED
    BY <1>8, <2>1, <2>2, <2>3 DEF CommandThread
<1>9. CASE UNCHANGED allVars
  <2>1. UNCHANGED vars /\ UNCHANGED agentVars
    BY <1>9 DEF allVars
  <2>2. QED
    BY <1>0, <2>1, <1>1 DEF agentVars, AgentShape, Registered
<1>10. QED
  BY <1>2, <1>3, <1>4, <1>5, <1>6, <1>7, <1>8, <1>9 DEF AgentNext

(***************************************************************************)
(* Type correctness of the whole agent: the main thread, the heartbeat     *)
(* queue, the command-poll thread and the update handler keep their types  *)
(* across every crash and restart, for every value of the constants.       *)
(***************************************************************************)
THEOREM AgentTypeCorrect == AgentSpec => []AgentTypeOK
<1>1. AgentSpec => []AInv
  BY AgentInitInv, AgentNextInv, PTL DEF AgentSpec
<1>2. AInv => AgentTypeOK
  BY DEF AInv, EInv, IInv, TypeInv, ExecShape, ExecTypeOK, AgentShape,
         AgentTypeOK
<1>3. QED
  BY <1>1, <1>2, PTL

(***************************************************************************)
(* A running agent is known to the server, for every value of the          *)
(* constants: start() reaches self.running = True from _load_credentials   *)
(* or _save_credentials without asking the server, and that is safe        *)
(* because a complete credentials file and a pending save exist only for  *)
(* a registered device, however enrollments, partial writes, crashes and   *)
(* restarts interleave.                                                    *)
(***************************************************************************)
THEOREM RunningRegistered == AgentSpec => []RunningEnrolled
<1>1. AgentSpec => []AInv
  BY AgentInitInv, AgentNextInv, PTL DEF AgentSpec
<1>2. AInv => RunningEnrolled
  BY DEF AInv, Registered, RunningEnrolled, Running
<1>3. QED
  BY <1>1, <1>2, PTL

-----------------------------------------------------------------------------
(***************************************************************************)
(* Refinement across crashes.  A restart forgets the handler's phase: a    *)
(* job it cuts short, at any phase, is a Finish of UpdateAbstract, with    *)
(* the installs already made kept; every other step of the main thread, of *)
(* the heartbeat and of a crash is a stutter.                              *)
(***************************************************************************)
LEMMA AgentNextRefines == AInv /\ [AgentNext]_allVars => [Abs!Next]_AbsVars
<1> SUFFICES ASSUME AInv, [AgentNext]_allVars PROVE [Abs!Next]_AbsVars
  OBVIOUS
<1>0. EInv
  BY DEF AInv
<1>1. CASE Restart
  <2>1. uphase' = "idle" /\ UNCHANGED <<ujob, installs>>
    BY <1>1 DEF Restart
  <2>2. CASE uphase = "idle"
    BY <2>1, <2>2 DEF AbsVars, InstalledInJob
  <2>3. CASE uphase # "idle"
    <3>1. Abs!Finish
      BY <2>1, <2>3 DEF Abs!Finish, InstalledInJob
    <3>2. QED
      BY <3>1 DEF Abs!Next
  <2>4. QED
    BY <2>2, <2>3
<1>2. CASE CommandThread
  <2>1. CASE CommandPoll \/ (ExecuteStep /\ UNCHANGED agentVars)
    <3>1. ExecNext
      BY <2>1 DEF CommandPoll, ExecuteStep, ExecNext
    <3>2. QED
      BY <1>0, <3>1, ExecNextRefines
  <2>2. CASE WaitForWake
    BY <2>2, HandlerStutter DEF WaitForWake, vars, updVars
  <2>3. QED
    BY <1>2, <2>1, <2>2 DEF CommandThread
<1>3. CASE LoadCredentials \/ Enroll \/ SaveCredentials \/ Stop \/ Crash
           \/ Heartbeat \/ UNCHANGED allVars
  BY <1>3, HandlerStutter DEF LoadCredentials, Enroll, SaveCredentials, Stop,
                              Crash, Heartbeat, allVars, vars, updVars
<1>4. QED
  BY <1>1, <1>2, <1>3 DEF AgentNext

(***************************************************************************)
(* The whole agent implements the abstract update (spec 4.2), crashes and  *)
(* restarts included: a restart may cut a job short at any phase, the      *)
(* download, the verification, the install or the reboot, yet jobs run one *)
(* at a time and each installs at most once, a verified artifact.          *)
(***************************************************************************)
THEOREM AgentRefinement == AgentSpec => UpdRefinesAbstract
<1>1. AgentInit => Abs!Init
  BY DEF AgentInit, ExecInit, UpdInit, Abs!Init, InstalledInJob
<1>2. AgentSpec => []AInv
  BY AgentInitInv, AgentNextInv, PTL DEF AgentSpec
<1>3. QED
  BY <1>1, <1>2, AgentNextRefines, PTL
     DEF AgentSpec, UpdRefinesAbstract, Abs!Spec, Abs!absVars, AbsVars

=============================================================================
