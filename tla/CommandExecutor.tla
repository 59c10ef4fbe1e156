---------------------------- MODULE CommandExecutor ----------------------------
(***************************************************************************)
(* One poll of the command-poll thread and the execution of the batch it   *)
(* returns (fleetd_agent.py: poll_commands, _execute_command,              *)
(* _acknowledge_command, _collect_and_upload_logs), with update commands   *)
(* handed to the update handler of OtaUpdate.                              *)
(*                                                                         *)
(* The control points of the thread are the values of cpc:                 *)
(*   "idle"      outside poll_commands                                     *)
(*   "next"      at the head of `for command in commands`                  *)
(*   "dispatch"  "received" acknowledged, about to branch on the type      *)
(*   "reboot"    "executing" acknowledged, about to run sudo reboot        *)
(*   "execute"   "executing" acknowledged, about to run the script         *)
(*   "update"    inside _handle_update_command                             *)
(***************************************************************************)
EXTENDS OtaUpdate

CONSTANTS
    Cmds,      \* the commands the server may return
    MaxBatch,  \* bound on the length of one batch
    MaxPolls   \* bound on the number of polls that return a batch

\* Values of the 'command' field: the four the agent knows, one it does not,
\* and a descriptor without an 'id' or 'command' key.
CmdTypes == {"reboot", "execute", "update", "collect_logs", "unknown", "malformed"}

Commands == [id : CmdIds, command : CmdTypes, payload : Payloads]

ASSUME ExecAssumption ==
    /\ Cmds \subseteq Commands /\ Cmds # {}
    /\ MaxBatch \in Nat
    /\ MaxPolls \in Nat
    /\ MaxJobs >= MaxPolls * MaxBatch

VARIABLES
    cpc,    \* control point of the command-poll thread
    batch,  \* commands of the current batch not yet taken
    cur,    \* the command being executed
    polls,  \* polls so far that returned a batch
    delivered \* history: the commands the polls returned, in order

execVars == <<cpc, batch, cur, polls, delivered>>
vars == <<updVars, execVars>>

CPCs == {"idle", "next", "dispatch", "reboot", "execute", "update"}

\* response.json().get('commands', []): a list of at most MaxBatch commands.
Batches == UNION {[1..n -> Cmds] : n \in 0..MaxBatch}

AckCur(status) == acks' = Append(acks, [cmd |-> cur.id, status |-> status])

-----------------------------------------------------------------------------
ExecInit ==
    /\ UpdInit
    /\ cpc = "idle"
    /\ batch = <<>>
    /\ cur = CHOOSE c \in Cmds : TRUE
    /\ polls = 0
    /\ delivered = <<>>

(***************************************************************************)
(* poll_commands: the long-poll GET.  204 returns at once; a network       *)
(* error, an error status or a bad body is caught by the except branch     *)
(* and returns; a 200 gives the batch to execute in server order.          *)
(***************************************************************************)
PollCommands ==
    /\ cpc = "idle"
    /\ \/ UNCHANGED <<cpc, batch, polls, delivered>>
       \/ /\ polls < MaxPolls
          /\ polls' = polls + 1
          /\ \E b \in Batches :
                cpc' = "next" /\ batch' = b /\ delivered' = delivered \o b
    /\ UNCHANGED <<cur, updVars>>

(***************************************************************************)
(* The for loop takes the next command: command['id'] and                  *)
(* command['command'] are read outside the try, so a malformed descriptor  *)
(* raises into poll_commands' except branch and the rest of the batch is   *)
(* dropped; otherwise "received" is acknowledged.  An exhausted batch      *)
(* returns from poll_commands.                                             *)
(***************************************************************************)
NextCommand ==
    /\ cpc = "next"
    /\ IF batch = <<>>
         THEN cpc' = "idle" /\ UNCHANGED <<batch, cur, acks>>
         ELSE LET c == Head(batch) IN
              /\ cur' = c
              /\ IF c.command = "malformed"
                   THEN cpc' = "idle" /\ batch' = <<>> /\ UNCHANGED acks
                   ELSE /\ cpc' = "dispatch"
                        /\ batch' = Tail(batch)
                        /\ acks' = Append(acks, [cmd |-> c.id, status |-> "received"])
    /\ UNCHANGED <<polls, delivered, uphase, ujob, got, jobs, ureports, installs, rebootLaunched>>

(***************************************************************************)
(* The if/elif chain of _execute_command.  reboot and execute acknowledge  *)
(* "executing" first; update enters _handle_update_command; collect_logs   *)
(* runs journalctl, uploads and acknowledges "completed", or "failed" when *)
(* either raises; an unknown type is acknowledged "failed".                *)
(***************************************************************************)
DispatchReboot ==
    /\ cpc = "dispatch" /\ cur.command = "reboot"
    /\ AckCur("executing")
    /\ cpc' = "reboot"
    /\ UNCHANGED <<batch, cur, polls, delivered, uphase, ujob, got, jobs, ureports, installs, rebootLaunched>>

DispatchExecute ==
    /\ cpc = "dispatch" /\ cur.command = "execute"
    /\ AckCur("executing")
    /\ cpc' = "execute"
    /\ UNCHANGED <<batch, cur, polls, delivered, uphase, ujob, got, jobs, ureports, installs, rebootLaunched>>

DispatchUpdate ==
    /\ cpc = "dispatch" /\ cur.command = "update"
    /\ StartUpdate(cur.id, cur.payload)
    /\ cpc' = "update"
    /\ UNCHANGED <<batch, cur, polls, delivered>>

CollectLogs ==
    /\ cpc = "dispatch" /\ cur.command = "collect_logs"
    /\ \E status \in {"completed", "failed"} : AckCur(status)
    /\ cpc' = "next"
    /\ UNCHANGED <<batch, cur, polls, delivered, uphase, ujob, got, jobs, ureports, installs, rebootLaunched>>

UnknownCommand ==
    /\ cpc = "dispatch" /\ cur.command = "unknown"
    /\ AckCur("failed")
    /\ cpc' = "next"
    /\ UNCHANGED <<batch, cur, polls, delivered, uphase, ujob, got, jobs, ureports, installs, rebootLaunched>>

(***************************************************************************)
(* subprocess.run(['sudo', 'reboot'], check=True) returns once reboot has  *)
(* been asked of the system, and the loop goes on with the next command    *)
(* while the device shuts down; a non-zero exit or a failed launch raises  *)
(* into the except branch, which acknowledges "failed".                    *)
(***************************************************************************)
RunReboot ==
    /\ cpc = "reboot"
    /\ cpc' = "next"
    /\ \/ rebootLaunched' = TRUE /\ UNCHANGED acks
       \/ AckCur("failed") /\ UNCHANGED rebootLaunched
    /\ UNCHANGED <<batch, cur, polls, delivered, uphase, ujob, got, jobs, ureports, installs>>

\* Mutant: a timed-out script is logged and not acknowledged.
RunScriptLostTimeout ==
    /\ cpc = "execute"
    /\ cpc' = "next"
    /\ \/ \E status \in {"completed", "failed"} : AckCur(status)
       \/ UNCHANGED acks
    /\ UNCHANGED <<batch, cur, polls, delivered, uphase, ujob, got, jobs, ureports, installs, rebootLaunched>>

(***************************************************************************)
(* subprocess.run(script, shell=True, timeout=...): "completed" on exit    *)
(* code 0, "failed" otherwise; TimeoutExpired reaches the except branch,   *)
(* which acknowledges "failed" as well.                                    *)
(***************************************************************************)
RunScript ==
    /\ cpc = "execute"
    /\ cpc' = "next"
    /\ \E status \in {"completed", "failed"} : AckCur(status)
    /\ UNCHANGED <<batch, cur, polls, delivered, uphase, ujob, got, jobs, ureports, installs, rebootLaunched>>

\* A step of _handle_update_command, on the command-poll thread.
UpdateRuns ==
    /\ cpc = "update"
    /\ UpdateStep
    /\ UNCHANGED execVars

\* _handle_update_command returns and the loop goes on.
UpdateReturns ==
    /\ cpc = "update" /\ uphase = "idle"
    /\ cpc' = "next"
    /\ UNCHANGED <<batch, cur, polls, delivered, updVars>>

ExecNext ==
    \/ PollCommands \/ NextCommand
    \/ DispatchReboot \/ DispatchExecute \/ DispatchUpdate
    \/ CollectLogs \/ UnknownCommand
    \/ RunReboot \/ RunScript \/ UpdateRuns \/ UpdateReturns

\* The thread is runnable whenever it is not blocked in I/O, and CPython
\* schedules every runnable thread.
ExecSpec == ExecInit /\ [][ExecNext]_vars /\ WF_vars(ExecNext)

-----------------------------------------------------------------------------
ExecTypeOK ==
    /\ UpdTypeOK
    /\ cpc \in CPCs
    /\ batch \in Seq(Cmds)
    /\ cur \in Cmds
    /\ polls \in 0..MaxPolls
    /\ delivered \in Seq(Cmds)

\* The last acknowledgement sent for command c, if any, is not terminal.
Open(c) ==
    \E i \in DOMAIN acks :
        /\ acks[i].cmd = c
        /\ \A j \in DOMAIN acks : j > i => acks[j].cmd # c
        /\ acks[i].status \notin Terminal

(***************************************************************************)
(* Every command acknowledged "received" is eventually acknowledged with   *)
(* a terminal status, unless the agent has launched a reboot.  This is the *)
(* failure boundary of _execute_command and _handle_update_command: no     *)
(* outcome of a branch leaves a command open.                              *)
(***************************************************************************)
CommandTerminates ==
    \A c \in CmdIds : Open(c) ~> (~Open(c) \/ rebootLaunched)

(***************************************************************************)
(* Serial execution (spec 8): a command is acknowledged "received" only    *)
(* after every command received before it has a terminal acknowledgement. *)
(***************************************************************************)
SerialExecution ==
    \A i, k \in DOMAIN acks :
        /\ i < k
        /\ acks[i].status = "received"
        /\ acks[k].status = "received"
        => \E j \in (i + 1)..(k - 1) :
              /\ acks[j].cmd = acks[i].cmd
              /\ acks[j].status \in Terminal

\* Commands that carry an 'id' and a 'command' field.
WellFormed(c) == c.command # "malformed"

(***************************************************************************)
(* Every command of a batch is acknowledged (spec 4.1, 4.3): when the      *)
(* thread is back outside poll_commands, each well-formed command the      *)
(* polls returned has been acknowledged "received", even when another     *)
(* command of its batch could not be executed.                            *)
(***************************************************************************)
BatchAcknowledged ==
    cpc = "idle" =>
        Len(SelectSeq(acks, LAMBDA a : a.status = "received"))
            = Len(SelectSeq(delivered, WellFormed))
=============================================================================
