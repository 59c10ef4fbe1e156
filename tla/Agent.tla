--------------------------------- MODULE Agent ---------------------------------
(***************************************************************************)
(* The whole agent process (fleetd_agent.py: start, stop, enroll,          *)
(* _load_credentials, _save_credentials, _heartbeat_loop, send_heartbeat,  *)
(* _command_loop), composed with the command executor and update handler   *)
(* of CommandExecutor, and the environment it runs in: the process may     *)
(* crash (power loss, the reboot it launched) and be started again, the    *)
(* credentials file and the server's enrollment record surviving it.       *)
(*                                                                         *)
(* The control points of the main thread are the values of mpc:            *)
(*   "load"    start(): about to call _load_credentials                    *)
(*   "enroll"  no usable credentials file: about to POST /enroll           *)
(*   "save"    enrolled: about to call _save_credentials                   *)
(*   "run"     self.running is True and the three daemon threads run       *)
(*   "exited"  start() returned (enroll failed, or stop() on Ctrl-C) and   *)
(*             the interpreter exited, killing the daemon threads          *)
(*   "down"    the process was killed                                      *)
(* self.running is True exactly in "run": start() sets it just before the  *)
(* threads start, and stop() clears it just before the process exits.      *)
(*                                                                         *)
(* The telemetry thread reads and writes no state the other threads or the *)
(* server's command protocol depend on, so it has no action here.          *)
(***************************************************************************)
EXTENDS CommandExecutor

CONSTANTS
    MaxBeats,  \* bound on the heartbeats in one behaviour
    MaxStarts  \* bound on the process starts in one behaviour

ASSUME AgentAssumption ==
    /\ MaxBeats \in Nat
    /\ MaxStarts \in Nat \ {0}

VARIABLES
    mpc,      \* control point of the main thread
    token,    \* config.device_token is set (the X-Device-Token header)
    disk,     \* ~/.fleetd/credentials.json: "none", "partial" or "ok"
    enrolled, \* the server has a device for this hardware id
    queue,    \* command_queue: the wake-up tokens put by send_heartbeat
    lpc,      \* control point of _command_loop: "wait" or "poll"
    woken,    \* the token the last get() returned (0: it timed out)
    beats,    \* heartbeats sent so far; a token is tagged with its beat
    starts    \* process starts so far

agentVars == <<mpc, token, disk, enrolled, queue, lpc, woken, beats, starts>>
allVars == <<vars, agentVars>>

DiskStates == {"none", "partial", "ok"}
MainPCs == {"load", "enroll", "save", "run", "exited", "down"}

\* self.running
Running == mpc = "run"

\* start() after credentials are established: PUT the system info (its
\* failure is only logged), set self.running and start the daemon threads.
StartDuties ==
    /\ mpc' = "run"
    /\ lpc' = "wait"

-----------------------------------------------------------------------------
AgentInit ==
    /\ ExecInit
    /\ mpc = "load"
    /\ token = FALSE
    /\ disk = "none"
    /\ enrolled = FALSE
    /\ queue = <<>>
    /\ lpc = "wait"
    /\ woken = 0
    /\ beats = 0
    /\ starts = 1

(***************************************************************************)
(* _load_credentials: a missing file, or one json.load or the key lookups  *)
(* reject, returns False and start() enrolls; a complete file sets the     *)
(* token and start() goes on.                                              *)
(***************************************************************************)
LoadCredentials ==
    /\ mpc = "load"
    /\ IF disk = "ok"
         THEN token' = TRUE /\ StartDuties
         ELSE mpc' = "enroll" /\ UNCHANGED <<token, lpc>>
    /\ UNCHANGED <<vars, disk, enrolled, queue, woken, beats, starts>>

\* Mutant: a failed enrollment request is treated as success.
EnrollErrorIgnored ==
    /\ mpc = "enroll"
    /\ \/ /\ enrolled
          /\ StartDuties
          /\ UNCHANGED <<token, enrolled>>
       \/ /\ ~enrolled
          /\ enrolled' = TRUE
          /\ token' = TRUE
          /\ mpc' = "save"
          /\ UNCHANGED lpc
       \/ /\ enrolled' \in {enrolled, TRUE}
          /\ StartDuties
          /\ UNCHANGED token
    /\ UNCHANGED <<vars, disk, queue, woken, beats, starts>>

(***************************************************************************)
(* enroll(): POST /api/v1/enroll.  409 means the server already knows this *)
(* hardware id and returns True with no token; a 2xx registers the device  *)
(* and sets the token; a network error, a lost response or an error status *)
(* returns False, and start() returns False.  A request lost after the     *)
(* server handled it leaves the device registered.                         *)
(***************************************************************************)
Enroll ==
    /\ mpc = "enroll"
    /\ \/ /\ enrolled
          /\ StartDuties
          /\ UNCHANGED <<token, enrolled>>
       \/ /\ ~enrolled
          /\ enrolled' = TRUE
          /\ token' = TRUE
          /\ mpc' = "save"
          /\ UNCHANGED lpc
       \/ /\ enrolled' \in {enrolled, TRUE}
          /\ mpc' = "exited"
          /\ UNCHANGED <<token, lpc>>
    /\ UNCHANGED <<vars, disk, queue, woken, beats, starts>>

(***************************************************************************)
(* _save_credentials, still inside enroll's try: open(..., 'w') truncates  *)
(* the file, json.dump writes it, os.chmod secures it.  If any of them     *)
(* raises, enroll returns False and start() returns False, with the file   *)
(* left as it was, half written, or complete.                              *)
(***************************************************************************)
SaveCredentials ==
    /\ mpc = "save"
    /\ \/ disk' = "ok" /\ StartDuties
       \/ disk' \in {disk, "partial", "ok"} /\ mpc' = "exited" /\ UNCHANGED lpc
    /\ UNCHANGED <<vars, token, enrolled, queue, woken, beats, starts>>

(***************************************************************************)
(* KeyboardInterrupt in the main loop: stop() clears self.running, start() *)
(* returns and the interpreter exits, killing the daemon threads wherever  *)
(* they are.                                                               *)
(***************************************************************************)
Stop ==
    /\ mpc = "run"
    /\ mpc' = "exited"
    /\ UNCHANGED <<vars, token, disk, enrolled, queue, lpc, woken, beats, starts>>

\* The process is killed: power loss, an uncaught exception during startup,
\* or the reboot a command or an update launched.
Crash ==
    /\ mpc \in {"load", "enroll", "save", "run"}
    /\ mpc' = "down"
    /\ UNCHANGED <<vars, token, disk, enrolled, queue, lpc, woken, beats, starts>>

\* Mutant: the restarted process resumes the command it was executing,
\* with the partly written update file discarded.
RestartResumes ==
    /\ mpc \in {"exited", "down"}
    /\ starts < MaxStarts
    /\ starts' = starts + 1
    /\ mpc' = "load"
    /\ token' = FALSE
    /\ queue' = <<>>
    /\ lpc' = "wait"
    /\ woken' = 0
    /\ batch' = <<>>
    /\ got' = 0
    /\ UNCHANGED <<cpc, uphase, cur, polls, delivered, ujob, jobs, ureports, acks,
                   installs, rebootLaunched, disk, enrolled, beats>>

(***************************************************************************)
(* The agent is started again (service manager or boot): a fresh process   *)
(* with a fresh FleetDeviceAgent, its memory lost; the credentials file,   *)
(* the server's records and the reports already sent remain.               *)
(***************************************************************************)
Restart ==
    /\ mpc \in {"exited", "down"}
    /\ starts < MaxStarts
    /\ starts' = starts + 1
    /\ mpc' = "load"
    /\ token' = FALSE
    /\ queue' = <<>>
    /\ lpc' = "wait"
    /\ woken' = 0
    /\ cpc' = "idle"
    /\ batch' = <<>>
    /\ uphase' = "idle"
    /\ got' = 0
    /\ UNCHANGED <<cur, polls, delivered, ujob, jobs, ureports, acks, installs,
                   rebootLaunched, disk, enrolled, beats>>

(***************************************************************************)
(* One iteration of _heartbeat_loop: send_heartbeat POSTs the heartbeat;   *)
(* when the reply counts pending commands it puts a token on the          *)
(* unbounded command_queue.  Without a device token the server rejects     *)
(* the request and the failure is only logged.                             *)
(***************************************************************************)
Heartbeat ==
    /\ Running
    /\ beats < MaxBeats
    /\ beats' = beats + 1
    /\ \/ token /\ queue' = Append(queue, beats + 1)
       \/ UNCHANGED queue
    /\ UNCHANGED <<vars, mpc, token, disk, enrolled, lpc, woken, starts>>

\* Mutant: the loop sleeps out the interval without looking at the queue.
WaitForWakeTimeoutOnly ==
    /\ lpc = "wait"
    /\ cpc = "idle"
    /\ lpc' = "poll"
    /\ woken' = 0
    /\ UNCHANGED <<vars, mpc, token, disk, enrolled, queue, beats, starts>>

(***************************************************************************)
(* _command_loop at command_queue.get(timeout=command_poll_interval): the  *)
(* loop is back here once poll_commands has returned.  get() returns the   *)
(* oldest token at once, or raises Empty when none came for the whole     *)
(* interval.                                                               *)
(***************************************************************************)
WaitForWake ==
    /\ lpc = "wait"
    /\ cpc = "idle"
    /\ lpc' = "poll"
    /\ IF queue # <<>>
         THEN woken' = Head(queue) /\ queue' = Tail(queue)
         ELSE woken' = 0 /\ UNCHANGED queue
    /\ UNCHANGED <<vars, mpc, token, disk, enrolled, beats, starts>>

(***************************************************************************)
(* _command_loop calls poll_commands.  Without a device token the server   *)
(* rejects the poll and no batch is returned.                              *)
(***************************************************************************)
CommandPoll ==
    /\ lpc = "poll"
    /\ PollCommands
    /\ token \/ cpc' = "idle"
    /\ lpc' = "wait"
    /\ UNCHANGED <<mpc, token, disk, enrolled, queue, woken, beats, starts>>

\* The steps of _execute_command and _handle_update_command inside a poll.
ExecuteStep ==
    \/ NextCommand
    \/ DispatchReboot \/ DispatchExecute \/ DispatchUpdate
    \/ CollectLogs \/ UnknownCommand
    \/ RunReboot \/ RunScript \/ UpdateRuns \/ UpdateReturns

\* The command-poll thread, while the process runs.
CommandThread ==
    /\ Running
    /\ \/ WaitForWake
       \/ CommandPoll
       \/ ExecuteStep /\ UNCHANGED agentVars

AgentNext ==
    \/ LoadCredentials \/ Enroll \/ SaveCredentials
    \/ Stop \/ Crash \/ Restart
    \/ Heartbeat
    \/ CommandThread

\* The command-poll thread is runnable whenever the process runs and it is
\* not blocked in I/O; CPython schedules every runnable thread.
AgentSpec == AgentInit /\ [][AgentNext]_allVars /\ WF_allVars(CommandThread)

-----------------------------------------------------------------------------
AgentTypeOK ==
    /\ ExecTypeOK
    /\ mpc \in MainPCs
    /\ token \in BOOLEAN
    /\ disk \in DiskStates
    /\ enrolled \in BOOLEAN
    /\ queue \in Seq(1..MaxBeats)
    /\ lpc \in {"wait", "poll"}
    /\ woken \in 0..MaxBeats
    /\ beats \in 0..MaxBeats
    /\ starts \in 1..MaxStarts

InQueue(n) == \E i \in DOMAIN queue : queue[i] = n

(***************************************************************************)
(* Wake-up (spec 4.3, 8): a token a heartbeat put on command_queue is      *)
(* eventually taken by the command-poll thread, which then calls           *)
(* poll_commands at once, unless the process stops running first.          *)
(***************************************************************************)
WakeLeadsToPoll ==
    \A n \in 1..MaxBeats :
        InQueue(n) ~> ((woken = n /\ lpc = "poll") \/ ~Running)

(***************************************************************************)
(* A running agent is known to the server: however enrollment requests,    *)
(* credential writes and restarts interleave, start() only starts the      *)
(* duties for a device the server has registered.                          *)
(***************************************************************************)
RunningEnrolled == Running => enrolled

(***************************************************************************)
(* Single-slot wake-up (spec 5, 9): the wake-up channel never holds more   *)
(* than one pending notification.                                          *)
(***************************************************************************)
QueueBounded == Len(queue) <= 1

(***************************************************************************)
(* A running agent holds a device token (spec 4.4: the duties start only   *)
(* after credentials are established), so its heartbeats and polls are     *)
(* authenticated.                                                          *)
(***************************************************************************)
RunningHasToken == Running => token

(***************************************************************************)
(* Shutdown does not abort work in progress (spec 5): when the process     *)
(* has exited after stop(), no command and no update was left half done.  *)
(***************************************************************************)
NoAbandonedWork == mpc = "exited" => cpc = "idle" /\ uphase = "idle"
=============================================================================
