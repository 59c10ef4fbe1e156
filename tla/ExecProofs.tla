------------------------------- MODULE ExecProofs -------------------------------
(***************************************************************************)
(* Proofs about the command executor of CommandExecutor composed with the  *)
(* update handler, for every value of the constants that satisfies        *)
(* OtaAssumption and ExecAssumption.  The update handler's steps are steps *)
(* of UpdNext, so the lemmas of OtaUpdateProofs carry over; the            *)
(* executor's own steps leave the handler alone or only acknowledge.      *)
(***************************************************************************)
EXTENDS CommandExecutor, OtaUpdateProofs

\* The executor's variables have their types.
ExecShape ==
    /\ cpc \in CPCs
    /\ batch \in Seq(Cmds)
    /\ cur \in Cmds
    /\ polls \in 0..MaxPolls
    /\ delivered \in Seq(Cmds)

\* The inductive invariant: the update handler's IInv and the executor's types.
EInv == IInv /\ ExecShape

\* The fields of a command the server may return.
LEMMA CmdFields ==
    ASSUME NEW c \in Cmds
    PROVE  c.id \in CmdIds /\ c.payload \in Payloads /\ c.command \in CmdTypes
BY ExecAssumption DEF Commands

\* A batch the server returns is a sequence of commands.
LEMMA BatchIsSeq ==
    ASSUME NEW b \in Batches
    PROVE  b \in Seq(Cmds)
<1>1. PICK n \in 0..MaxBatch : b \in [1..n -> Cmds]
  BY DEF Batches
<1>2. n \in Nat
  BY ExecAssumption
<1>3. QED
  BY <1>1, <1>2, SeqDef, Zenon

(***************************************************************************)
(* A step of the executor that only sends an acknowledgement keeps the     *)
(* update handler's invariant.                                             *)
(***************************************************************************)
LEMMA AckStep ==
    ASSUME IInv, NEW a \in AckRec, acks' = Append(acks, a),
           UNCHANGED <<uphase, ujob, got, jobs, ureports, installs, rebootLaunched>>
    PROVE  IInv'
<1>1. acks \in Seq(AckRec)
  BY DEF IInv, TypeInv, UpdTypeOK, AckRec
<1>2. acks' \in Seq(AckRec)
  BY <1>1, AppendProperties
<1>3. QED
  BY <1>2 DEF IInv, TypeInv, UpdTypeOK, AckRec, InstallIntegrity,
              VerifiedFile, FileDigest

\* A step that leaves the update handler's variables alone keeps IInv.
LEMMA HandlerUnchanged ==
    ASSUME IInv, UNCHANGED updVars
    PROVE  IInv'
BY NextIInv

-----------------------------------------------------------------------------
LEMMA ExecInitInv == ExecInit => EInv
<1> SUFFICES ASSUME ExecInit PROVE EInv
  OBVIOUS
<1>1. IInv
  BY InitIInv DEF ExecInit
<1>2. cur \in Cmds
  BY ExecAssumption DEF ExecInit
<1>3. QED
  BY <1>1, <1>2, ExecAssumption DEF ExecInit, EInv, ExecShape, CPCs

LEMMA ExecNextInv == EInv /\ [ExecNext]_vars => EInv'
<1> SUFFICES ASSUME EInv, [ExecNext]_vars PROVE EInv'
  OBVIOUS
<1>0. /\ IInv
      /\ cpc \in CPCs /\ batch \in Seq(Cmds) /\ cur \in Cmds
      /\ polls \in 0..MaxPolls /\ delivered \in Seq(Cmds)
  BY DEF EInv, ExecShape
<1>1. cur.id \in CmdIds /\ cur.payload \in Payloads
  BY <1>0, CmdFields
\* The acknowledgement _acknowledge_command sends for the current command.
<1>2. \A st \in AckStatuses : [cmd |-> cur.id, status |-> st] \in AckRec
  BY <1>1 DEF AckRec
<1>3. CASE PollCommands
  <2>1. IInv'
    BY <1>0, <1>3, HandlerUnchanged DEF PollCommands
  <2>2. CASE UNCHANGED <<cpc, batch, polls, delivered>>
    BY <1>0, <2>1, <1>3, <2>2 DEF PollCommands, EInv, ExecShape
  <2>3. CASE /\ polls < MaxPolls
             /\ polls' = polls + 1
             /\ \E b \in Batches :
                   cpc' = "next" /\ batch' = b /\ delivered' = delivered \o b
    <3>1. PICK b \in Batches :
             cpc' = "next" /\ batch' = b /\ delivered' = delivered \o b
      BY <2>3
    <3>2. b \in Seq(Cmds)
      BY BatchIsSeq
    <3>3. delivered \o b \in Seq(Cmds)
      BY <1>0, <3>2, ConcatProperties
    <3>4. polls + 1 \in 0..MaxPolls
      BY <1>0, <2>3, ExecAssumption
    <3>5. QED
      BY <1>0, <1>3, <2>1, <2>3, <3>1, <3>2, <3>3, <3>4
         DEF PollCommands, EInv, ExecShape, CPCs
  <2>4. QED
    BY <1>3, <2>2, <2>3 DEF PollCommands
<1>4. CASE NextCommand
  <2>1. CASE batch = <<>>
    <3>1. cpc' = "idle" /\ UNCHANGED <<batch, cur, polls, delivered, updVars>>
      BY <1>4, <2>1 DEF NextCommand, updVars
    <3>2. QED
      BY <1>0, <3>1, HandlerUnchanged DEF EInv, ExecShape, CPCs
  <2>2. CASE batch # <<>>
    <3> DEFINE c == Head(batch)
    <3>1. c \in Cmds /\ Tail(batch) \in Seq(Cmds)
      BY <1>0, <2>2, HeadTailProperties
    <3>2. cur' = c /\ UNCHANGED <<polls, delivered>>
      BY <1>4, <2>2 DEF NextCommand
    <3>3. CASE c.command = "malformed"
      <4>1. cpc' = "idle" /\ batch' = <<>> /\ UNCHANGED updVars
        BY <1>4, <2>2, <3>3 DEF NextCommand, updVars
      <4>2. QED
        BY <1>0, <3>1, <3>2, <4>1, HandlerUnchanged DEF EInv, ExecShape, CPCs
    <3>4. CASE c.command # "malformed"
      <4>1. /\ cpc' = "dispatch" /\ batch' = Tail(batch)
            /\ acks' = Append(acks, [cmd |-> c.id, status |-> "received"])
            /\ UNCHANGED <<uphase, ujob, got, jobs, ureports, installs, rebootLaunched>>
        BY <1>4, <2>2, <3>4 DEF NextCommand
      <4>2. [cmd |-> c.id, status |-> "received"] \in AckRec
        BY <3>1, CmdFields DEF AckRec, AckStatuses
      <4>3. IInv'
        BY <1>0, <4>1, <4>2, AckStep
      <4>4. QED
        BY <1>0, <3>1, <3>2, <4>1, <4>3 DEF EInv, ExecShape, CPCs
    <3>5. QED
      BY <3>3, <3>4
  <2>3. QED
    BY <2>1, <2>2
\* The steps that acknowledge the current command and move cpc.
<1>5. ASSUME NEW st \in AckStatuses, NEW pc \in CPCs,
             AckCur(st), cpc' = pc,
             UNCHANGED <<batch, cur, polls, delivered, uphase, ujob, got, jobs,
                         ureports, installs, rebootLaunched>>
      PROVE  EInv'
  <2>1. IInv'
    BY <1>0, <1>2, <1>5, AckStep DEF AckCur
  <2>2. QED
    BY <1>0, <1>5, <2>1 DEF EInv, ExecShape
<1>6. CASE DispatchReboot
  BY <1>6, <1>5 DEF DispatchReboot, AckStatuses, CPCs
<1>7. CASE DispatchExecute
  BY <1>7, <1>5 DEF DispatchExecute, AckStatuses, CPCs
<1>8. CASE CollectLogs
  BY <1>8, <1>5 DEF CollectLogs, AckStatuses, CPCs
<1>9. CASE UnknownCommand
  BY <1>9, <1>5 DEF UnknownCommand, AckStatuses, CPCs
<1>10. CASE RunScript
  BY <1>10, <1>5 DEF RunScript, AckStatuses, CPCs
<1>11. CASE RunReboot
  <2>1. CASE rebootLaunched' = TRUE /\ UNCHANGED acks
    <3>1. IInv'
      BY <1>0, <1>11, <2>1 DEF RunReboot, IInv, TypeInv, UpdTypeOK,
                               InstallIntegrity, VerifiedFile, FileDigest
    <3>2. QED
      BY <1>0, <1>11, <3>1 DEF RunReboot, EInv, ExecShape, CPCs
  <2>2. CASE AckCur("failed") /\ UNCHANGED rebootLaunched
    BY <1>11, <2>2, <1>5 DEF RunReboot, AckStatuses, CPCs
  <2>3. QED
    BY <1>11, <2>1, <2>2 DEF RunReboot
<1>12. CASE DispatchUpdate
  <2>1. UpdNext
    BY <1>1, <1>12 DEF DispatchUpdate, UpdNext
  <2>2. IInv'
    BY <1>0, <2>1, NextIInv
  <2>3. QED
    BY <1>0, <1>12, <2>2 DEF DispatchUpdate, EInv, ExecShape, CPCs
<1>13. CASE UpdateRuns
  <2>1. UpdNext
    BY <1>13 DEF UpdateRuns, UpdNext
  <2>2. IInv'
    BY <1>0, <2>1, NextIInv
  <2>3. QED
    BY <1>0, <1>13, <2>2 DEF UpdateRuns, execVars, EInv, ExecShape
<1>14. CASE UpdateReturns
  <2>1. IInv'
    BY <1>0, <1>14, HandlerUnchanged DEF UpdateReturns
  <2>2. QED
    BY <1>0, <1>14, <2>1 DEF UpdateReturns, EInv, ExecShape, CPCs
<1>15. CASE UNCHANGED vars
  <2>1. UNCHANGED updVars /\ UNCHANGED execVars
    BY <1>15 DEF vars
  <2>2. IInv'
    BY <1>0, <2>1, HandlerUnchanged
  <2>3. QED
    BY <1>0, <2>1, <2>2 DEF execVars, EInv, ExecShape
<1>16. QED
  BY <1>3, <1>4, <1>6, <1>7, <1>8, <1>9, <1>10, <1>11, <1>12, <1>13,
     <1>14, <1>15 DEF ExecNext

(***************************************************************************)
(* Type correctness of the command-poll thread: the batch, the current    *)
(* command, the poll count and the delivery history keep their types, and *)
(* so does the update handler it calls, for every value of the constants. *)
(***************************************************************************)
THEOREM ExecTypeCorrect == ExecSpec => []ExecTypeOK
<1>1. ExecSpec => []EInv
  BY ExecInitInv, ExecNextInv, PTL DEF ExecSpec
<1>2. EInv => ExecTypeOK
  BY DEF EInv, IInv, TypeInv, ExecShape, ExecTypeOK
<1>3. QED
  BY <1>1, <1>2, PTL

(***************************************************************************)
(* Integrity holds for the whole command-poll thread: however the          *)
(* executor interleaves reboots, scripts, log uploads and malformed        *)
(* commands with update commands, every artifact _install_update receives *)
(* hashes to its payload checksum.                                        *)
(***************************************************************************)
THEOREM ExecIntegrity == ExecSpec => []InstallIntegrity
<1>1. ExecSpec => []EInv
  BY ExecInitInv, ExecNextInv, PTL DEF ExecSpec
<1>2. EInv => InstallIntegrity
  BY DEF EInv, IInv
<1>3. QED
  BY <1>1, <1>2, PTL
-----------------------------------------------------------------------------
(***************************************************************************)
(* Refinement.  The executor's own steps leave the handler's phase, job    *)
(* and installs alone, so they are stutters of UpdateAbstract; its update *)
(* steps are steps of UpdNext, which NextRefines maps.                     *)
(***************************************************************************)
LEMMA HandlerStutter ==
    ASSUME UNCHANGED <<uphase, ujob, installs>>
    PROVE  [Abs!Next]_AbsVars
BY DEF AbsVars, InstalledInJob

LEMMA ExecNextRefines == EInv /\ [ExecNext]_vars => [Abs!Next]_AbsVars
<1> SUFFICES ASSUME EInv, [ExecNext]_vars PROVE [Abs!Next]_AbsVars
  OBVIOUS
<1>1. IInv
  BY DEF EInv
<1>2. CASE DispatchUpdate \/ UpdateRuns
  <2>1. cur \in Cmds
    BY DEF EInv, ExecShape
  <2>2. UpdNext
    BY <1>2, <2>1, CmdFields DEF DispatchUpdate, UpdateRuns, UpdNext
  <2>3. QED
    BY <1>1, <2>2, NextRefines
<1>3. CASE ~(DispatchUpdate \/ UpdateRuns)
  <2>1. UNCHANGED <<uphase, ujob, installs>>
    BY <1>3 DEF ExecNext, PollCommands, NextCommand, DispatchReboot,
                DispatchExecute, CollectLogs, UnknownCommand, RunReboot,
                RunScript, UpdateReturns, vars, updVars
  <2>2. QED
    BY <2>1, HandlerStutter
<1>4. QED
  BY <1>2, <1>3

(***************************************************************************)
(* The command-poll thread implements the abstract update (spec 4.2): with *)
(* update commands arriving among the other commands of any batches, jobs  *)
(* still run one at a time and install at most once, a verified artifact.  *)
(***************************************************************************)
THEOREM ExecRefinement == ExecSpec => UpdRefinesAbstract
<1>1. ExecInit => Abs!Init
  BY DEF ExecInit, UpdInit, Abs!Init, InstalledInJob
<1>2. ExecSpec => []EInv
  BY ExecInitInv, ExecNextInv, PTL DEF ExecSpec
<1>3. QED
  BY <1>1, <1>2, ExecNextRefines, PTL
     DEF ExecSpec, UpdRefinesAbstract, Abs!Spec, Abs!absVars, AbsVars

=============================================================================
