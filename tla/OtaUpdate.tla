------------------------------- MODULE OtaUpdate -------------------------------
(***************************************************************************)
(* The over-the-air update handler of the fleetd Raspberry Pi agent        *)
(* (fleetd_agent.py, FleetDeviceAgent._handle_update_command and the       *)
(* helpers it calls: _download_update, _verify_checksum, _install_update,  *)
(* _report_update_status, _acknowledge_command).                           *)
(*                                                                         *)
(* The handler runs on the command-poll thread.  Its control points are    *)
(* the values of uphase:                                                   *)
(*   "idle"     no update in progress                                      *)
(*   "download" inside the iter_content loop of _download_update           *)
(*   "verify"   the download returned; about to report "verifying"         *)
(*   "install"  the checksum matched; about to report "installing"         *)
(*   "reboot"   completed and acknowledged, reboot_required is set         *)
(*   "fail"     inside the except branch of _handle_update_command         *)
(*   "hung"     blocked for ever in a read of the download stream          *)
(* Every report is an HTTP POST whose failure is swallowed, so the model   *)
(* records the reports the agent sends (ureports, acks), not which of them *)
(* the server received.                                                    *)
(***************************************************************************)
EXTENDS Integers, Sequences

CONSTANTS
    CmdIds,         \* ids of the server's commands
    UpdateIds,      \* update_id values a payload may carry
    Digests,        \* SHA-256 digests of the artifacts a download URL may serve
    HexCases,       \* letter cases a payload checksum may be written in
    ArtifactSize,   \* bytes (in chunk units) of the artifact the server sends
    ContentLengths, \* content-length headers the server may send (0: absent)
    MaxJobs,        \* bound on the number of update jobs in one behaviour
    DownloadMayHang \* the server may stop sending without closing the stream

ASSUME OtaAssumption ==
    /\ CmdIds # {} /\ UpdateIds # {} /\ Digests # {}
    /\ ArtifactSize \in Nat \ {0}
    /\ ContentLengths \subseteq Nat /\ ContentLengths # {}
    /\ HexCases \subseteq {"lower", "upper"} /\ HexCases # {}
    /\ "truncated" \notin Digests
    /\ MaxJobs \in Nat
    /\ DownloadMayHang \in BOOLEAN

VARIABLES
    uphase,    \* control point of the update handler
    ujob,      \* the job being handled: payload, server headers, error
    got,       \* bytes of the artifact written to the update file
    jobs,      \* number of update jobs started so far
    ureports,  \* update status reports sent (_report_update_status)
    acks,      \* command acknowledgements sent (_acknowledge_command)
    installs,  \* history: the artifacts handed to _install_update
    rebootLaunched \* `sudo reboot` has been started by this process

updVars == <<uphase, ujob, got, jobs, ureports, acks, installs, rebootLaunched>>

Phases == {"idle", "download", "hung", "verify", "install", "reboot", "fail"}
Errors == {"none", "download", "checksum", "reboot"}

\* A hex checksum string: the digest it spells and the case of its letters.
Checksums == [digest : Digests, case : HexCases]

\* hashlib's hexdigest() spells a digest in lower case.
Hexdigest(d) == [digest |-> d, case |-> "lower"]

\* Payload fields _handle_update_command reads (payload.get(...)).
Payloads == [update_id : UpdateIds, checksum : Checksums,
             reboot_required : BOOLEAN]

\* progress=None in _report_update_status: the field is left out.
NoProgress == -1

ReportStatuses == {"downloading", "verifying", "installing", "completed", "failed"}
AckStatuses == {"received", "executing", "completed", "failed"}
Terminal == {"completed", "failed"}

Job == [cmd : CmdIds, update_id : UpdateIds, checksum : Checksums,
        reboot_required : BOOLEAN, served : Digests,
        content_length : ContentLengths, err : Errors]

\* Digest of the update file: the served artifact once all of it is
\* written, otherwise a truncated file whose digest no checksum names.
FileDigest == IF got = ArtifactSize THEN ujob.served ELSE "truncated"

Report(status, progress) ==
    [job |-> jobs, update_id |-> ujob.update_id, status |-> status,
     progress |-> progress]

SendReport(status, progress) ==
    ureports' = Append(ureports, Report(status, progress))

Ack(status) == acks' = Append(acks, [cmd |-> ujob.cmd, status |-> status])

\* An exception escapes to the except branch of _handle_update_command.
Raise(err) ==
    /\ uphase' = "fail"
    /\ ujob' = [ujob EXCEPT !.err = err]

-----------------------------------------------------------------------------
(***************************************************************************)
(* Init: no update has run.                                                *)
(***************************************************************************)
UpdInit ==
    /\ uphase = "idle"
    /\ ujob = [cmd |-> CHOOSE c \in CmdIds : TRUE,
               update_id |-> CHOOSE u \in UpdateIds : TRUE,
               checksum |-> CHOOSE k \in Checksums : TRUE,
               reboot_required |-> FALSE,
               served |-> CHOOSE d \in Digests : TRUE,
               content_length |-> CHOOSE n \in ContentLengths : TRUE,
               err |-> "none"]
    /\ got = 0
    /\ jobs = 0
    /\ ureports = <<>>
    /\ acks = <<>>
    /\ installs = <<>>
    /\ rebootLaunched = FALSE

\* Mutant: an update starts while another one is still running.
StartUpdateConcurrent(cmd, p) ==
    /\ jobs < MaxJobs
    /\ jobs' = jobs + 1
    /\ \E d \in Digests, cl \in ContentLengths :
          LET job == [cmd |-> cmd, update_id |-> p.update_id,
                      checksum |-> p.checksum,
                      reboot_required |-> p.reboot_required,
                      served |-> d, content_length |-> cl, err |-> "none"]
          IN  \/ uphase' = "download" /\ ujob' = job
              \/ uphase' = "fail" /\ ujob' = [job EXCEPT !.err = "download"]
    /\ ureports' = Append(ureports,
                     [job |-> jobs + 1, update_id |-> p.update_id,
                      status |-> "downloading", progress |-> 0])
    /\ got' = 0
    /\ UNCHANGED <<acks, installs, rebootLaunched>>

(***************************************************************************)
(* _handle_update_command(cmd, payload) up to the download loop: report    *)
(* "downloading" 0, create the update directory, open the stream and       *)
(* raise_for_status.  The server chooses the artifact it serves and the    *)
(* content-length header; opening may raise.                               *)
(***************************************************************************)
StartUpdate(cmd, p) ==
    /\ uphase = "idle"
    /\ jobs < MaxJobs
    /\ jobs' = jobs + 1
    /\ \E d \in Digests, cl \in ContentLengths :
          LET job == [cmd |-> cmd, update_id |-> p.update_id,
                      checksum |-> p.checksum,
                      reboot_required |-> p.reboot_required,
                      served |-> d, content_length |-> cl, err |-> "none"]
          IN  \/ uphase' = "download" /\ ujob' = job
              \/ uphase' = "fail" /\ ujob' = [job EXCEPT !.err = "download"]
    /\ ureports' = Append(ureports,
                     [job |-> jobs + 1, update_id |-> p.update_id,
                      status |-> "downloading", progress |-> 0])
    /\ got' = 0
    /\ UNCHANGED <<acks, installs, rebootLaunched>>

\* Mutant: an off-by-one bound lets a chunk run past the end of the body.
DownloadChunkOverrun ==
    /\ uphase = "download"
    /\ got < ArtifactSize
    /\ \E n \in 1..(ArtifactSize - got + 1) :
          /\ got' = got + n
          /\ IF ujob.content_length > 0
               THEN SendReport("downloading",
                               (got' * 50) \div ujob.content_length)
               ELSE UNCHANGED ureports
    /\ UNCHANGED <<uphase, ujob, jobs, acks, installs, rebootLaunched>>

\* Mutant: the download scales its progress to 0..100 instead of 0..50.
DownloadChunkFullScale ==
    /\ uphase = "download"
    /\ got < ArtifactSize
    /\ \E n \in 1..(ArtifactSize - got) :
          /\ got' = got + n
          /\ IF ujob.content_length > 0
               THEN SendReport("downloading",
                               (got' * 100) \div ujob.content_length)
               ELSE UNCHANGED ureports
    /\ UNCHANGED <<uphase, ujob, jobs, acks, installs, rebootLaunched>>

(***************************************************************************)
(* One iteration of the iter_content loop: write a chunk, count its bytes  *)
(* and, when the server sent a content-length, report the scaled progress  *)
(* int(downloaded / total_size * 50).                                      *)
(***************************************************************************)
DownloadChunk ==
    /\ uphase = "download"
    /\ got < ArtifactSize
    /\ \E n \in 1..(ArtifactSize - got) :
          /\ got' = got + n
          /\ IF ujob.content_length > 0
               THEN SendReport("downloading",
                               (got' * 50) \div ujob.content_length)
               ELSE UNCHANGED ureports
    /\ UNCHANGED <<uphase, ujob, jobs, acks, installs, rebootLaunched>>

\* The connection fails in the middle of the body: iter_content raises.
DownloadError ==
    /\ uphase = "download"
    /\ got < ArtifactSize
    /\ Raise("download")
    /\ UNCHANGED <<got, jobs, ureports, acks, installs, rebootLaunched>>

(***************************************************************************)
(* requests.get(url, stream=True) is called without a timeout: a server    *)
(* that stops sending without closing the connection blocks the read, and *)
(* with it the command-poll thread, for ever.                              *)
(***************************************************************************)
DownloadHang ==
    /\ DownloadMayHang
    /\ uphase = "download"
    /\ uphase' = "hung"
    /\ UNCHANGED <<ujob, got, jobs, ureports, acks, installs, rebootLaunched>>

(***************************************************************************)
(* The iter_content loop ends and _download_update returns the file path.  *)
(* It ends after the whole body, or earlier when the connection closes     *)
(* without an error (a close-delimited body), leaving a truncated file.    *)
(***************************************************************************)
DownloadEnd ==
    /\ uphase = "download"
    /\ uphase' = "verify"
    /\ UNCHANGED <<ujob, got, jobs, ureports, acks, installs, rebootLaunched>>

\* Mutant: the checksum is taken of the artifact the server meant to send
\* (a cached value) instead of the bytes written to disk.
VerifyServedDigest ==
    /\ uphase = "verify"
    /\ SendReport("verifying", 50)
    /\ IF Hexdigest(ujob.served) = ujob.checksum
         THEN uphase' = "install" /\ UNCHANGED ujob
         ELSE Raise("checksum")
    /\ UNCHANGED <<got, jobs, acks, installs, rebootLaunched>>

(***************************************************************************)
(* Report "verifying" 50, hash the file on disk (_verify_checksum) and     *)
(* compare the hexdigest with the payload checksum by string equality.     *)
(***************************************************************************)
Verify ==
    /\ uphase = "verify"
    /\ SendReport("verifying", 50)
    /\ IF Hexdigest(FileDigest) = ujob.checksum
         THEN uphase' = "install" /\ UNCHANGED ujob
         ELSE Raise("checksum")
    /\ UNCHANGED <<got, jobs, acks, installs, rebootLaunched>>

(***************************************************************************)
(* Report "installing" 75, run _install_update (a placeholder that only    *)
(* logs, so it cannot fail), report "completed" 100 and acknowledge the    *)
(* command "completed".  The handler returns unless reboot_required.       *)
(***************************************************************************)
Install ==
    /\ uphase = "install"
    /\ installs' = Append(installs, [update_id |-> ujob.update_id,
                                     digest |-> FileDigest,
                                     checksum |-> ujob.checksum])
    /\ ureports' = ureports \o <<Report("installing", 75),
                                 Report("completed", 100)>>
    /\ Ack("completed")
    /\ uphase' = IF ujob.reboot_required THEN "reboot" ELSE "idle"
    /\ UNCHANGED <<ujob, got, jobs, rebootLaunched>>

(***************************************************************************)
(* time.sleep(10) then subprocess.run(['sudo', 'reboot']) without check:   *)
(* the handler returns once the command is launched; if it cannot be       *)
(* launched (no sudo, permission denied) the exception reaches the except  *)
(* branch, after "completed" has already been reported and acknowledged.   *)
(***************************************************************************)
Reboot ==
    /\ uphase = "reboot"
    /\ \/ /\ uphase' = "idle"
          /\ rebootLaunched' = TRUE
          /\ UNCHANGED ujob
       \/ /\ Raise("reboot")
          /\ UNCHANGED rebootLaunched
    /\ UNCHANGED <<got, jobs, ureports, acks, installs>>

(***************************************************************************)
(* except Exception: report "failed" with no progress and acknowledge the  *)
(* command "failed"; the handler returns.                                  *)
(***************************************************************************)
Fail ==
    /\ uphase = "fail"
    /\ SendReport("failed", NoProgress)
    /\ Ack("failed")
    /\ uphase' = "idle"
    /\ UNCHANGED <<ujob, got, jobs, installs, rebootLaunched>>

\* The steps of a running handler, after StartUpdate.
UpdateStep ==
    \/ DownloadChunk \/ DownloadError \/ DownloadHang \/ DownloadEnd
    \/ Verify \/ Install \/ Reboot \/ Fail

\* Stand-alone: the command-poll thread hands update commands to the handler.
UpdNext ==
    \/ \E c \in CmdIds, p \in Payloads : StartUpdate(c, p)
    \/ UpdateStep

UpdSpec == UpdInit /\ [][UpdNext]_updVars

-----------------------------------------------------------------------------
UpdTypeOK ==
    /\ uphase \in Phases
    /\ ujob \in Job
    /\ got \in 0..ArtifactSize
    /\ jobs \in 0..MaxJobs
    /\ ureports \in Seq([job : 1..MaxJobs, update_id : UpdateIds,
                         status : ReportStatuses, progress : Int])
    /\ acks \in Seq([cmd : CmdIds, status : AckStatuses])
    /\ installs \in Seq([update_id : UpdateIds, digest : Digests \cup {"truncated"},
                         checksum : Checksums])
    /\ rebootLaunched \in BOOLEAN

(***************************************************************************)
(* Integrity (spec 4.2): every artifact handed to the installer hashes, as *)
(* the bytes on disk, to the checksum of its payload.  A download cut      *)
(* short by the server or the network must never reach _install_update.   *)
(***************************************************************************)
InstallIntegrity ==
    \A i \in DOMAIN installs :
        Hexdigest(installs[i].digest) = installs[i].checksum

(***************************************************************************)
(* Progress monotonicity (spec 3, 8): within one job the progress values   *)
(* reported by _download_update and _handle_update_command never decrease *)
(* before a terminal status.                                               *)
(***************************************************************************)
ProgressMonotonic ==
    \A i, j \in DOMAIN ureports :
        /\ i < j
        /\ ureports[i].job = ureports[j].job
        /\ ureports[j].progress # NoProgress
        => ureports[i].progress <= ureports[j].progress

(***************************************************************************)
(* Terminal once (spec 3): once a job has reported "completed" or          *)
(* "failed" through _report_update_status it reports no other terminal    *)
(* status.                                                                 *)
(***************************************************************************)
TerminalOnce ==
    \A i, j \in DOMAIN ureports :
        /\ i < j
        /\ ureports[i].job = ureports[j].job
        /\ ureports[i].status \in Terminal
        => ureports[j].status \notin Terminal

(***************************************************************************)
(* Case-insensitive checksum (spec 4.2): a download whose digest equals    *)
(* the payload checksum up to letter case is not rejected as a mismatch.   *)
(***************************************************************************)
ChecksumCaseInsensitive ==
    ujob.err = "checksum" => FileDigest # ujob.checksum.digest

-----------------------------------------------------------------------------
(***************************************************************************)
(* Refinement mapping to UpdateAbstract: a job is active while the handler *)
(* is not idle, and it has installed once it is past _install_update:      *)
(* waiting to reboot, or in the except branch the failed reboot led to.    *)
(***************************************************************************)
InstalledInJob == uphase = "reboot" \/ (uphase = "fail" /\ ujob.err = "reboot")

Abs == INSTANCE UpdateAbstract WITH active <- uphase # "idle",
                                    installed <- InstalledInJob

(***************************************************************************)
(* The handler implements the abstract update (spec 4.2): one job at a     *)
(* time, at most one install per job, and only of a file whose digest the  *)
(* payload checksum names.                                                 *)
(***************************************************************************)
UpdRefinesAbstract == Abs!Spec
=============================================================================
