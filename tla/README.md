# TLA+ models of the fleetd Raspberry Pi agent

These modules model the Python device agent,
`src/examples/agents/python-raspberry-pi/fleetd_agent.py` (`FleetDeviceAgent`).
They check it with TLC and prove its central properties with TLAPS.
Every definition is translated from that file. `PROJECT.json` maps each one to the lines it models.

## The system

The agent is one process with four threads:

| Thread | Code | Behaviour |
|---|---|---|
| main | `start` | Loads credentials, or enrolls (`enroll`, with the 409 "already enrolled" path, then `_save_credentials`). Pushes system info. Starts three daemon threads. Sleeps while `running`, and calls `stop` on Ctrl-C. |
| heartbeat | `_heartbeat_loop`, `send_heartbeat` | Posts a heartbeat. When the reply says commands are pending, puts a token on `command_queue`. |
| telemetry | `_telemetry_loop`, `send_telemetry` | Posts metrics. |
| command | `_command_loop` | Calls `poll_commands`, then waits on `command_queue` for at most `command_poll_interval`. |

`poll_commands` long-polls the server and runs the returned batch in order through `_execute_command`. Each command is acknowledged `received` and then dispatched:

- `reboot` and `execute` are acknowledged `executing` first.
- `update` runs `_handle_update_command`: download, verify the SHA-256, install, then possibly reboot.
- `collect_logs` and unknown types are also handled.

Every acknowledgement (`_acknowledge_command`) and update report (`_report_update_status`) is a fire-and-forget POST. A failure is logged and never retried.

The threads share only `running`, `command_queue` and the HTTP session. The update handler runs on the command thread, so commands are executed serially by construction. The process can die at any point (power loss, or the `sudo reboot` it launched). When it is started again, what survives is the credentials file on disk and the server's records.

## Modules

| Module | Models | State | Actions |
|---|---|---|---|
| `UpdateAbstract` | What an update promises (spec 4.2) | `active`, `installed`, `installs` | `Begin`, `Install`, `Finish` |
| `OtaUpdate` | `_handle_update_command`, `_download_update`, `_verify_checksum`, `_install_update`, `_report_update_status` | `uphase` (the handler's control point: idle, download, hung, verify, install, reboot, fail), `ujob` (the payload, what the server serves, its content-length, the error raised), `got` (bytes written), `jobs`, and the histories `ureports` (reports sent), `acks`, `installs` (files given to the installer) and `rebootLaunched` | `StartUpdate`, `DownloadChunk`, `DownloadError`, `DownloadHang`, `DownloadEnd`, `Verify`, `Install`, `Reboot`, `Fail` |
| `CommandExecutor` | `poll_commands`, `_execute_command`, `_acknowledge_command`, `_collect_and_upload_logs`; EXTENDS `OtaUpdate` | `cpc` (the command thread's control point), `batch`, `cur`, `polls`, and the history `delivered` (every command a poll returned) | `PollCommands`, `NextCommand`, `DispatchReboot`, `DispatchExecute`, `DispatchUpdate`, `CollectLogs`, `UnknownCommand`, `RunReboot`, `RunScript`, `UpdateRuns` (a step of the update handler), `UpdateReturns` |
| `Agent` | `start`, `stop`, `enroll`, `_load_credentials`, `_save_credentials`, `_heartbeat_loop`, `send_heartbeat`, `_command_loop`, `main`; EXTENDS `CommandExecutor` | `mpc` (the main thread: load, enroll, save, run, exited, down), `token`, `disk` (credentials file: none, partial, ok), `enrolled` (the server's record), `queue`, `lpc` (the command loop: wait or poll), `woken`, `beats`, `starts` | `LoadCredentials`, `Enroll`, `SaveCredentials`, `Stop`, `Crash`, `Restart`, `Heartbeat`, and `CommandThread` (`WaitForWake`, `CommandPoll`, `ExecuteStep`) |
| `OtaUpdateProofs` | TLAPS: type correctness, integrity and refinement of `OtaUpdate` | | |
| `OtaProgressProofs` | TLAPS: progress monotonicity of `OtaUpdate` | | |
| `ExecProofs` | TLAPS: type correctness, integrity and refinement of `CommandExecutor` | | |
| `AgentProofs` | TLAPS: type correctness, registration and refinement of `Agent`, with crashes and restarts | | |
| `MC_OtaUpdate`, `MC_CommandExecutor`, `MC_Agent` | Model values for the TLC runs | | |

How the code maps onto `OtaUpdate`:

- **Artifact contents.** An artifact is a digest: a model value standing for its bytes. The artifact the server serves may differ from the one the payload names, which models a tampered or wrong file.
- **Truncated download.** A close-delimited download that ends early leaves `got < ArtifactSize`. The file then hashes to `"truncated"`.
- **Checksum case.** A checksum is a record of a digest and a hex case. `hexdigest()` always produces lower case.
- **Progress.** Download progress is computed exactly as line 509 does: `(got * 50) \div content_length`, and only when the content-length is positive.
- **Failures.** Any exception in the handler moves to `fail`. `Fail` reports `failed` and acknowledges `failed`, as the except branch does.

How the code maps onto `Agent`:

- **Threads.** Each thread is a control-point variable. The command thread's steps are `CommandThread`: take a token or time out (`WaitForWake`), call `poll_commands` (`CommandPoll`), and the executor's steps (`ExecuteStep`). `Heartbeat` is one iteration of the heartbeat loop. The telemetry thread changes no state that anything else reads, so it has no action.
- **Enrollment.** `Enroll` has the three outcomes of the code: a 2xx (token set, device registered), a 409 (returns True without a token), and an error or a lost response (start() fails; the server may have registered the device anyway). `SaveCredentials` may fail before, during or after writing the file.
- **Faults.** `Crash` kills the process wherever it is. `Restart` starts a fresh process, as `main` does with `FleetDeviceAgent(config)` and `agent.start()` (lines 685-686): the memory is lost (`token`, `queue`, the executor's and the handler's state), while the credentials file, the server's enrollment and the histories of what was sent remain.
- **Exit.** `Stop` is Ctrl-C in the main loop. `start()` returns and the interpreter exits, which kills the daemon threads wherever they are.

The refinement mapping from `OtaUpdate` to `UpdateAbstract` is:

- `active` is `uphase # "idle"`;
- `installed` is `InstalledInJob`: the handler is past `_install_update`, either waiting to reboot or in the except branch after a failed reboot;
- `installs` maps to itself.

## Runs

| Run (cfg) | Expect | Checks | What it shows |
|---|---|---|---|
| `MC_OtaUpdate.cfg` | pass | `UpdTypeOK`, `InstallIntegrity`, `ProgressMonotonic`, `UpdRefinesAbstract` | Installed files are always verified, progress never decreases while the content-length is honest, and the handler implements `UpdateAbstract`. |
| `MC_OtaUpdate_ShortLength.cfg` | violation | `ProgressMonotonic` | A content-length of 1 for a 3-unit body: after two units progress is 100, then `verifying` reports 50 (line 509). |
| `MC_OtaUpdate_UpperHex.cfg` | violation | `ChecksumCaseInsensitive` | An upper-case but correct checksum fails the update (line 522). |
| `MC_OtaUpdate_RebootLaunch.cfg` | violation | `TerminalOnce` | `completed 100` is followed by `failed` when `sudo reboot` cannot start (line 484). |
| `MC_CommandExecutor.cfg` | pass | `ExecTypeOK`, `CommandTerminates` | Every received command reaches a terminal ack unless a reboot was launched. |
| `MC_CommandExecutor_Serial.cfg` | violation | `SerialExecution` | `sudo reboot` returns, and the next command is received before the reboot command is terminal (line 387). |
| `MC_CommandExecutor_Hang.cfg` | violation | `CommandTerminates` | `requests.get` without a timeout hangs, and the update command never terminates (line 497). |
| `MC_CommandExecutor_Malformed.cfg` | violation | `BatchAcknowledged` | A descriptor without `id` or `command` raises before the try of `_execute_command`. The rest of its batch is dropped without a `received` ack (line 374). |
| `MC_Agent.cfg` | pass | `AgentTypeOK`, `RunningEnrolled`, `WakeLeadsToPoll`, `UpdRefinesAbstract` | However enrollment, credential writes, crashes and restarts interleave, a running agent is registered, and a queued wake-up token leads to a poll. An update cut short by a crash at any phase still keeps the contract of `UpdateAbstract`. |
| `MC_Agent_QueueBounded.cfg` | violation | `QueueBounded` | Heartbeats keep putting tokens on the unbounded `command_queue` while the command thread is busy (line 320). |
| `MC_Agent_RunningHasToken.cfg` | violation | `RunningHasToken` | The first enroll succeeds on the server but its response is lost. After a restart, enroll gets 409 and the agent runs with no device token (line 233). |
| `MC_Agent_NoAbandonedWork.cfg` | violation | `NoAbandonedWork` | Ctrl-C while a command or an update is running: `start()` returns and the daemon threads die mid-command (line 662). |

Each property of a passing run has a mutant in `PROJECT.json`: a plausible bug in the mapped code that TLC then catches. The mutants are:

| Mutant | Kills |
|---|---|
| a chunk overrunning the artifact (`DownloadChunkOverrun`) | `UpdTypeOK`, `ExecTypeOK`, `AgentTypeOK` |
| progress scaled to 100 (`DownloadChunkFullScale`) | `ProgressMonotonic` |
| verifying the served digest instead of the file written (`VerifyServedDigest`) | `InstallIntegrity` |
| a script timeout left unacknowledged (`RunScriptLostTimeout`) | `CommandTerminates` |
| an update started while another runs (`StartUpdateConcurrent`) | `UpdRefinesAbstract` |
| a failed enroll treated as success (`EnrollErrorIgnored`) | `RunningEnrolled` |
| a command loop that only sleeps (`WaitForWakeTimeoutOnly`) | `WakeLeadsToPoll` |
| a restart that resumes the interrupted command with the update file discarded (`RestartResumes`) | `UpdRefinesAbstract` in `MC_Agent` |

### Bounds

`OtaUpdate` runs use:

- two jobs and a 3-unit artifact, enough for a truncated file (1 or 2 units) and for several progress reports;
- two digests, so the server can serve a wrong file;
- content-lengths 0 (no progress reports) and 3.

`CommandExecutor` runs use:

- two polls of batches of up to two commands;
- two command ids;
- every command type, including `malformed`;
- update payloads with and without `reboot_required`.

These bounds give batches with a command after a reboot, an update after another command, and a malformed head. `MaxJobs >= MaxPolls * MaxBatch` (assumption `ExecAssumption`) ensures the job bound never disables an update the code would start. `MaxPolls` bounds only the polls that return a batch. An empty poll changes no state, so it is a stutter and needs no bound.

`Agent` runs use:

- a fresh device, with no credentials file and unknown to the server;
- two process starts, so a crash or exit is followed by one restart;
- two heartbeats, so a second token can arrive while the first is pending;
- two polls of one command each: a script and an update.

Two starts suffice for every credentials path. A first start leaves the server's record and the file in any combination (registered or not; file none, partial or ok), and the second start reads them. Two heartbeats suffice for a queue of length 2.

The MC modules add stuttering steps for states where the real agent goes on waiting, not deadlocks:

- `BoundReached` in `MC_OtaUpdate`: the job bound is exhausted.
- `Blocked` in `MC_OtaUpdate`: a hung download.
- `BoundReached` in `MC_Agent`: the last process has ended and the start bound is exhausted.

The executor's `Hang` run instead sets `CHECK_DEADLOCK FALSE`, because a thread blocked in that read really does stop for good.

### Fairness

`ExecSpec` assumes weak fairness of the command thread (`WF_vars(ExecNext)`). `AgentSpec` assumes weak fairness of `CommandThread` only, which covers the command loop and the executor while the process runs. The thread is runnable whenever it is not blocked in I/O, and CPython schedules every runnable thread. Every HTTP call the thread makes has a timeout except the artifact download. That call is the hang the `Hang` run exhibits.

The agent assumes no fairness for the main thread, the heartbeat, `Crash`, `Stop` or `Restart`. A process may run for ever or die at any time. `WakeLeadsToPoll` therefore says: a token leads to a poll, or the process stops running.

## Proofs (TLAPS)

In `OtaUpdateProofs`:

- `UpdTypeCorrect: UpdSpec => []UpdTypeOK`. `UpdTypeOK` alone is not inductive: a report's `job` field must lie in `1..MaxJobs`. The proof therefore uses `TypeInv == UpdTypeOK /\ (uphase # "idle" => jobs \in 1..MaxJobs)`.
- `Integrity: UpdSpec => []InstallIntegrity`. Every file handed to the installer hashes to its payload checksum, for all sizes, digest sets and job bounds. The inductive invariant is `IInv == TypeInv /\ InstallIntegrity /\ VerifiedFile`, where `VerifiedFile` says that in phase `install` the file on disk matches the checksum. `VerifiedFile` is needed because `Install` appends the current file: its correctness was established by the earlier `Verify` step, and nothing between them changes `got` or `ujob`.
- `Refinement: UpdSpec => UpdRefinesAbstract`. The initial state maps to `UpdateAbstract`'s initial state. Lemma `NextRefines` shows every step under `IInv` is an abstract step or a stutter:
  - `StartUpdate` is `Begin`, including when opening the stream fails and the handler goes to `fail`;
  - `Install` is the abstract `Install`, ending the job when no reboot is required. The record it appends is `Installable` because of `VerifiedFile`;
  - `Fail`, and a `Reboot` that launches the reboot, are `Finish`;
  - every other step is a stutter. This includes a `Reboot` that fails: the job stays installed until `Fail` finishes it.

In `OtaProgressProofs`:

- `ProgressMonotone`: under `HonestLength` (every content-length is 0 or at least the artifact size), `UpdSpec => []ProgressMonotonic`. The run `MC_OtaUpdate_ShortLength` shows the premise is necessary. `ProgressMonotonic` is not inductive. A new report must be compared with all earlier reports of its job, while the invariant only orders them among themselves. The inductive invariant `PInv` adds two facts:
  - `JobsNumbered`: no report carries a job number above `jobs`, so the first report of a new job has no predecessor;
  - `CurrentBounded`: the running job's reports are at most a `Ceiling` fixed by its phase (the scaled bytes in download and verify, 50 in install, 100 after).

  The lemmas show:
  - integer division is monotone, and scaled progress stays within 0..50 under an honest header;
  - appending a report keeps the reports ordered and bounded;
  - `Install`'s two reports are two appends.

In `ExecProofs` (for `CommandExecutor`, composed with the update handler):

- `ExecTypeCorrect: ExecSpec => []ExecTypeOK` and `ExecIntegrity: ExecSpec => []InstallIntegrity`. The inductive invariant is `EInv == IInv /\ ExecShape`, which reuses the handler's `IInv`. The handler's steps (`DispatchUpdate`, `UpdateRuns`) are steps of `UpdNext`, so `NextIInv` carries them. The executor's other steps leave the handler alone, or only append one acknowledgement (lemma `AckStep`). `ExecAssumption` requires `Cmds # {}`, because `cur` starts as a member of `Cmds`. No run checks `InstallIntegrity` on the executor: its own steps never touch the handler's file state, so `MC_OtaUpdate.cfg`, with two digests, is the run that exercises it, and the theorem carries it to the composition.
- `ExecRefinement: ExecSpec => UpdRefinesAbstract`. The executor's own steps leave `uphase`, `ujob` and `installs` alone, so they are stutters (lemma `HandlerStutter`). Its update steps are mapped by `NextRefines`.

In `AgentProofs` (for the whole agent, with `Crash` and `Restart`):

- `AgentTypeCorrect: AgentSpec => []AgentTypeOK`.
- `RunningRegistered: AgentSpec => []RunningEnrolled`. `RunningEnrolled` is not inductive, because `start()` reaches `run` from `_load_credentials` and from `_save_credentials` without asking the server. The strengthening `Registered` adds two facts: a complete credentials file, and a main thread in `save` or `run`, both imply that the server registered the device. Both facts survive `Crash` and `Restart`, since the file and the server's record are persistent. The inductive invariant is `AInv == EInv /\ AgentShape /\ Registered`.
- `AgentRefinement: AgentSpec => UpdRefinesAbstract`. `Restart` resets the handler to `idle` and keeps `installs`. From a running job, at any phase, it is the abstract `Finish`; otherwise it is a stutter. The command thread's steps are `ExecNext` steps, mapped by `ExecNextRefines`. Every other step is a stutter.

The following stays with TLC:

- liveness (`CommandTerminates`, `WakeLeadsToPoll`). TLAPS's temporal backend handles propositional temporal logic, but a proof from weak fairness needs `ENABLED` of the command thread's actions, which these provers cannot evaluate;
- the properties the violation runs refute (`ChecksumCaseInsensitive`, `TerminalOnce`, `SerialExecution`, `BatchAcknowledged`, `QueueBounded`, `RunningHasToken`, `NoAbandonedWork`, and `ProgressMonotonic` without `HonestLength`). They are false of the code, so there is nothing to prove; the counterexamples are the result;
- what the progress arithmetic computes on particular inputs beyond the lemmas of `OtaProgressProofs`.

## Not modelled

- **Lost acknowledgements and reports (line 453).** The model records what the agent sends, not what the server receives. Every POST is fire-and-forget, and nothing in the agent reads the outcome back, so a loss changes no agent state. The server side is not part of this code.
- **The telemetry thread.** It reads metrics and posts them, and no other part of the agent depends on it.
- **Metrics, system info and hardware id.** These are pure reads of the OS and change no agent state.
- **Configuration.** `AgentConfig`, `__init__` and the environment reads in `main` happen once before `start` and fix constants of the model. Only `main`'s creation and start of a fresh agent is modelled, as `Restart`.
- **`discover`.** It is not called by the agent.
