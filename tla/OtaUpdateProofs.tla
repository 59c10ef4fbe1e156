---------------------------- MODULE OtaUpdateProofs ----------------------------
(***************************************************************************)
(* Proofs about the update handler of OtaUpdate, for every value of the    *)
(* constants that satisfies OtaAssumption.                                 *)
(***************************************************************************)
EXTENDS OtaUpdate, SequenceTheorems, TLAPS

ReportRec == [job : 1..MaxJobs, update_id : UpdateIds,
              status : ReportStatuses, progress : Int]
AckRec == [cmd : CmdIds, status : AckStatuses]
InstallRec == [update_id : UpdateIds, digest : Digests \cup {"truncated"},
               checksum : Checksums]

LEMMA ChecksumsNonEmpty == Checksums # {}
<1>1. PICK d \in Digests : TRUE
  BY OtaAssumption
<1>2. PICK h \in HexCases : TRUE
  <2>1. HexCases # {}
    BY OtaAssumption
  <2>2. QED
    BY <2>1, Zenon
<1>3. [digest |-> d, case |-> h] \in Checksums
  BY <1>1, <1>2 DEF Checksums
<1>4. QED
  BY <1>3

\* An advertised content-length that is not 0 is a positive number.
LEMMA ContentLengthPositive ==
    ASSUME NEW x \in ContentLengths, x > 0
    PROVE  x \in Nat \ {0}
BY OtaAssumption

\* The digest of the update file is a served digest or "truncated".
LEMMA FileDigestType ==
    ASSUME ujob \in Job
    PROVE  FileDigest \in Digests \cup {"truncated"}
BY DEF FileDigest, Job

-----------------------------------------------------------------------------
(***************************************************************************)
(* Type correctness: every reachable state of UpdSpec satisfies UpdTypeOK. *)
(***************************************************************************)
(***************************************************************************)
(* UpdTypeOK is not inductive by itself: a report of a running job is     *)
(* numbered jobs, so jobs must be at least 1 whenever the handler is not  *)
(* idle.                                                                   *)
(***************************************************************************)
TypeInv ==
    /\ UpdTypeOK
    /\ uphase # "idle" => jobs \in 1..MaxJobs

LEMMA InitTypeOK == UpdInit => TypeInv
<1> SUFFICES ASSUME UpdInit PROVE TypeInv
  OBVIOUS
<1>1. ujob \in Job
  BY OtaAssumption, ChecksumsNonEmpty DEF UpdInit, Job, Errors
<1>2. ureports \in Seq(ReportRec) /\ acks \in Seq(AckRec)
      /\ installs \in Seq(InstallRec)
  BY DEF UpdInit
<1>3. got \in 0..ArtifactSize /\ jobs \in 0..MaxJobs
  BY OtaAssumption DEF UpdInit
<1>4. QED
  BY <1>1, <1>2, <1>3
     DEF UpdInit, TypeInv, UpdTypeOK, Phases, ReportRec, AckRec, InstallRec

LEMMA NextTypeOK == TypeInv /\ [UpdNext]_updVars => TypeInv'
<1> SUFFICES ASSUME TypeInv, [UpdNext]_updVars PROVE TypeInv'
  OBVIOUS
<1> USE OtaAssumption DEF TypeInv, UpdTypeOK, Phases
<1>1. ASSUME NEW c \in CmdIds, NEW p \in Payloads, StartUpdate(c, p)
      PROVE  TypeInv'
  <2>1. jobs + 1 \in 1..MaxJobs
    BY <1>1 DEF StartUpdate
  <2>2. ujob' \in Job
    BY <1>1 DEF StartUpdate, Job, Payloads, Errors
  <2>3. ureports' \in Seq(ReportRec)
    BY <1>1, <2>1 DEF StartUpdate, ReportRec, Payloads, ReportStatuses
  <2>4. QED
    BY <1>1, <2>1, <2>2, <2>3 DEF StartUpdate, ReportRec
<1>2. CASE DownloadChunk
  <2>1. PICK n \in 1..(ArtifactSize - got) :
            /\ got' = got + n
            /\ IF ujob.content_length > 0
                 THEN SendReport("downloading",
                                 (got' * 50) \div ujob.content_length)
                 ELSE UNCHANGED ureports
    BY <1>2 DEF DownloadChunk
  <2>2. got' \in 0..ArtifactSize
    BY <2>1
  <2>3. ureports' \in Seq(ReportRec)
    <3>1. CASE ujob.content_length > 0
      <4>0. ujob.content_length \in Nat \ {0}
        <5>1. ujob.content_length \in ContentLengths
          BY DEF Job
        <5>2. QED
          BY <5>1, <3>1, ContentLengthPositive
      <4>1. (got' * 50) \div ujob.content_length \in Int
        BY <2>2, <4>0
      <4>2. jobs \in 1..MaxJobs
        BY <1>2 DEF DownloadChunk
      <4>3. Report("downloading", (got' * 50) \div ujob.content_length)
              \in ReportRec
        BY <4>1, <4>2 DEF Report, ReportRec, Job, ReportStatuses
      <4>4. ureports' = Append(ureports,
                    Report("downloading", (got' * 50) \div ujob.content_length))
        BY <2>1, <3>1 DEF SendReport
      <4>5. QED
        BY <4>3, <4>4, AppendProperties DEF ReportRec
    <3>2. CASE ~(ujob.content_length > 0)
      BY <2>1, <3>2 DEF ReportRec
    <3>3. QED
      BY <3>1, <3>2
  <2>4. QED
    BY <1>2, <2>2, <2>3 DEF DownloadChunk, ReportRec
<1>3. CASE DownloadError
  BY <1>3 DEF DownloadError, Raise, Job, Errors
<1>4. CASE DownloadHang
  BY <1>4 DEF DownloadHang
<1>5. CASE DownloadEnd
  BY <1>5 DEF DownloadEnd
<1>6. CASE Verify
  <2>1. jobs \in 1..MaxJobs
    BY <1>6 DEF Verify
  <2>2. ureports' \in Seq(ReportRec)
    BY <1>6, <2>1 DEF Verify, SendReport, Report, ReportRec, Job, ReportStatuses
  <2>3. ujob' \in Job /\ uphase' \in Phases
    BY <1>6 DEF Verify, Raise, Job, Errors
  <2>4. QED
    BY <1>6, <2>2, <2>3 DEF Verify, ReportRec
<1>7. CASE Install
  <2>1. jobs \in 1..MaxJobs
    BY <1>7 DEF Install
  <2>2. ureports' \in Seq(ReportRec)
    BY <1>7, <2>1 DEF Install, Report, ReportRec, Job, ReportStatuses
  <2>3. installs' \in Seq(InstallRec)
    BY <1>7, FileDigestType DEF Install, InstallRec, Job
  <2>4. acks' \in Seq(AckRec)
    BY <1>7 DEF Install, Ack, AckRec, Job, AckStatuses
  <2>5. QED
    BY <1>7, <2>2, <2>3, <2>4 DEF Install, ReportRec, InstallRec, AckRec
<1>8. CASE Reboot
  BY <1>8 DEF Reboot, Raise, Job, Errors
<1>9. CASE Fail
  <2>1. jobs \in 1..MaxJobs
    BY <1>9 DEF Fail
  <2>2. ureports' \in Seq(ReportRec)
    BY <1>9, <2>1 DEF Fail, SendReport, Report, ReportRec, Job,
                      ReportStatuses, NoProgress
  <2>3. acks' \in Seq(AckRec)
    BY <1>9 DEF Fail, Ack, AckRec, Job, AckStatuses
  <2>4. QED
    BY <1>9, <2>2, <2>3 DEF Fail, ReportRec, AckRec
<1>10. CASE UNCHANGED updVars
  BY <1>10 DEF updVars
<1>11. QED
  BY <1>1, <1>2, <1>3, <1>4, <1>5, <1>6, <1>7, <1>8, <1>9, <1>10
     DEF UpdNext, UpdateStep

\* UpdTypeOK holds in every state of every behaviour of the update handler.
THEOREM UpdTypeCorrect == UpdSpec => []UpdTypeOK
<1>1. UpdSpec => []TypeInv
  BY InitTypeOK, NextTypeOK, PTL DEF UpdSpec
<1>2. QED
  BY <1>1, PTL DEF TypeInv

-----------------------------------------------------------------------------
(***************************************************************************)
(* Integrity.  InstallIntegrity is not inductive: Install appends the file *)
(* digest without comparing it again, so the invariant must carry the     *)
(* outcome of Verify from the "verify" step to the "install" step: while  *)
(* the handler is at "install" the file on disk hashes to the checksum.   *)
(* Neither got nor ujob changes between the two steps.                    *)
(***************************************************************************)
VerifiedFile == uphase = "install" => Hexdigest(FileDigest) = ujob.checksum

IInv == TypeInv /\ InstallIntegrity /\ VerifiedFile

LEMMA InitIInv == UpdInit => IInv
<1> SUFFICES ASSUME UpdInit PROVE IInv
  OBVIOUS
<1>1. TypeInv
  BY InitTypeOK
<1>2. InstallIntegrity /\ VerifiedFile
  BY DEF UpdInit, InstallIntegrity, VerifiedFile
<1>3. QED
  BY <1>1, <1>2 DEF IInv

\* The steps that leave installs alone and do not enter "install".
LEMMA NoInstallStep ==
    ASSUME IInv, UNCHANGED installs, uphase' # "install"
    PROVE  InstallIntegrity' /\ VerifiedFile'
BY DEF IInv, InstallIntegrity, VerifiedFile

LEMMA NextIInv == IInv /\ [UpdNext]_updVars => IInv'
<1> SUFFICES ASSUME IInv, [UpdNext]_updVars PROVE IInv'
  OBVIOUS
<1>1. TypeInv'
  BY NextTypeOK DEF IInv
<1> SUFFICES InstallIntegrity' /\ VerifiedFile'
  BY <1>1 DEF IInv
<1>2. ASSUME NEW c \in CmdIds, NEW p \in Payloads, StartUpdate(c, p)
      PROVE  InstallIntegrity' /\ VerifiedFile'
  <2>1. uphase' # "install" /\ UNCHANGED installs
    BY <1>2 DEF StartUpdate
  <2>2. QED
    BY <2>1, NoInstallStep
<1>3. CASE DownloadChunk
  BY <1>3, NoInstallStep DEF DownloadChunk, IInv, VerifiedFile
<1>4. CASE DownloadError
  BY <1>4, NoInstallStep DEF DownloadError, Raise
<1>5. CASE DownloadHang
  BY <1>5, NoInstallStep DEF DownloadHang
<1>6. CASE DownloadEnd
  BY <1>6, NoInstallStep DEF DownloadEnd
<1>7. CASE Verify
  <2>1. CASE Hexdigest(FileDigest) = ujob.checksum
    <3>1. uphase' = "install" /\ UNCHANGED <<ujob, got, installs>>
      BY <1>7, <2>1 DEF Verify
    <3>2. FileDigest' = FileDigest
      BY <3>1 DEF FileDigest
    <3>3. QED
      BY <2>1, <3>1, <3>2 DEF IInv, InstallIntegrity, VerifiedFile
  <2>2. CASE Hexdigest(FileDigest) # ujob.checksum
    <3>1. uphase' = "fail" /\ UNCHANGED installs
      BY <1>7, <2>2 DEF Verify, Raise
    <3>2. QED
      BY <3>1, NoInstallStep
  <2>3. QED
    BY <2>1, <2>2
<1>8. CASE Install
  <2> DEFINE rec == [update_id |-> ujob.update_id, digest |-> FileDigest,
                     checksum |-> ujob.checksum]
  <2>1. installs' = Append(installs, rec)
    BY <1>8 DEF Install
  <2>2. Hexdigest(rec.digest) = rec.checksum
    BY <1>8 DEF Install, IInv, VerifiedFile
  <2>3. installs \in Seq(InstallRec) /\ rec \in InstallRec
    BY FileDigestType DEF IInv, TypeInv, UpdTypeOK, InstallRec, Job
  <2>4. InstallIntegrity'
    <3> SUFFICES ASSUME NEW i \in DOMAIN installs'
                 PROVE  Hexdigest(installs'[i].digest) = installs'[i].checksum
      BY DEF InstallIntegrity
    <3>1. CASE i \in 1..Len(installs)
      BY <2>1, <2>3, <3>1, AppendProperties DEF IInv, InstallIntegrity
    <3>2. CASE i = Len(installs) + 1
      BY <2>1, <2>2, <2>3, <3>2, AppendProperties
    <3>3. QED
      BY <2>1, <2>3, <3>1, <3>2, AppendProperties
  <2>5. uphase' # "install"
    BY <1>8 DEF Install
  <2>6. QED
    BY <2>4, <2>5 DEF VerifiedFile
<1>9. CASE Reboot
  BY <1>9, NoInstallStep DEF Reboot, Raise
<1>10. CASE Fail
  BY <1>10, NoInstallStep DEF Fail
<1>11. CASE UNCHANGED updVars
  BY <1>11 DEF updVars, IInv, InstallIntegrity, VerifiedFile, FileDigest
<1>12. QED
  BY <1>2, <1>3, <1>4, <1>5, <1>6, <1>7, <1>8, <1>9, <1>10, <1>11
     DEF UpdNext, UpdateStep

(***************************************************************************)
(* Every artifact the update handler passes to _install_update hashes, as *)
(* the bytes on disk, to the checksum of its payload: a truncated or a    *)
(* foreign download is never installed.                                    *)
(***************************************************************************)
THEOREM Integrity == UpdSpec => []InstallIntegrity
<1>1. UpdSpec => []IInv
  BY InitIInv, NextIInv, PTL DEF UpdSpec
<1>2. QED
  BY <1>1, PTL DEF IInv

-----------------------------------------------------------------------------
(***************************************************************************)
(* Refinement.  Every step of the handler is a step of UpdateAbstract      *)
(* under the mapping of OtaUpdate, or leaves the mapped state alone.  The  *)
(* one step that changes installs, Install, needs VerifiedFile from IInv: *)
(* the record it appends is Installable because the file on disk was      *)
(* compared with the checksum one step before.                            *)
(***************************************************************************)
AbsVars == <<uphase # "idle", InstalledInJob, installs>>

\* The record Install appends is one the abstract update may install.
LEMMA InstallRecordInstallable ==
    ASSUME IInv, uphase = "install"
    PROVE  [update_id |-> ujob.update_id, digest |-> FileDigest,
            checksum |-> ujob.checksum] \in Abs!Installable
<1>1. Hexdigest(FileDigest) = ujob.checksum
  BY DEF IInv, VerifiedFile
<1>2. ujob \in Job
  BY DEF IInv, TypeInv, UpdTypeOK
<1>3. FileDigest = ujob.checksum.digest /\ ujob.checksum \in Checksums
  BY <1>1, <1>2 DEF Hexdigest, Job
<1>4. QED
  BY <1>2, <1>3 DEF Abs!Installable, Job, Checksums

\* A step between two phases of a running job that leaves installs alone
\* and does not change whether the job has installed is a stutter.
LEMMA StutterStep ==
    ASSUME uphase # "idle", uphase' # "idle",
           InstalledInJob' <=> InstalledInJob,
           UNCHANGED installs
    PROVE  [Abs!Next]_AbsVars
BY DEF AbsVars

LEMMA NextRefines == IInv /\ [UpdNext]_updVars => [Abs!Next]_AbsVars
<1> SUFFICES ASSUME IInv, [UpdNext]_updVars PROVE [Abs!Next]_AbsVars
  OBVIOUS
<1>0. ujob \in Job
  BY DEF IInv, TypeInv, UpdTypeOK
<1>1. ASSUME NEW c \in CmdIds, NEW p \in Payloads, StartUpdate(c, p)
      PROVE  [Abs!Next]_AbsVars
  <2>1. uphase = "idle" /\ uphase' \in {"download", "fail"}
    BY <1>1 DEF StartUpdate
  <2>2. ~InstalledInJob'
    BY <1>1 DEF StartUpdate, InstalledInJob
  <2>3. Abs!Begin
    BY <1>1, <2>1, <2>2 DEF StartUpdate, Abs!Begin
  <2>4. QED
    BY <2>3 DEF Abs!Next
<1>2. CASE DownloadChunk
  BY <1>2, StutterStep DEF DownloadChunk, InstalledInJob
<1>3. CASE DownloadError
  BY <1>3, StutterStep DEF DownloadError, Raise, InstalledInJob
<1>4. CASE DownloadHang
  BY <1>4, StutterStep DEF DownloadHang, InstalledInJob
<1>5. CASE DownloadEnd
  BY <1>5, StutterStep DEF DownloadEnd, InstalledInJob
<1>6. CASE Verify
  <2>1. /\ uphase = "verify" /\ uphase' \in {"install", "fail"}
        /\ uphase' = "fail" => ujob'.err = "checksum"
        /\ UNCHANGED installs
    BY <1>0, <1>6 DEF Verify, Raise, Job
  <2>2. QED
    BY <2>1, StutterStep DEF InstalledInJob
<1>7. CASE Install
  <2> DEFINE rec == [update_id |-> ujob.update_id, digest |-> FileDigest,
                     checksum |-> ujob.checksum]
  <2>1. rec \in Abs!Installable
    BY <1>7, InstallRecordInstallable DEF Install
  <2>2. installs' = Append(installs, rec)
    BY <1>7 DEF Install
  <2>3. uphase # "idle" /\ ~InstalledInJob
    BY <1>7 DEF Install, InstalledInJob
  <2>4. \/ (uphase' # "idle") /\ InstalledInJob'
        \/ ~(uphase' # "idle") /\ ~InstalledInJob'
    BY <1>7 DEF Install, InstalledInJob
  <2>5. Abs!Install
    BY <2>1, <2>2, <2>3, <2>4 DEF Abs!Install
  <2>6. QED
    BY <2>5 DEF Abs!Next
<1>8. CASE Reboot
  <2>1. CASE uphase' = "idle"
    <3>1. Abs!Finish
      BY <1>8, <2>1 DEF Reboot, Abs!Finish, InstalledInJob
    <3>2. QED
      BY <3>1 DEF Abs!Next
  <2>2. CASE uphase' # "idle"
    <3>1. /\ uphase = "reboot" /\ uphase' = "fail"
          /\ ujob'.err = "reboot" /\ UNCHANGED installs
      BY <1>0, <1>8, <2>2 DEF Reboot, Raise, Job
    <3>2. QED
      BY <3>1, StutterStep DEF InstalledInJob
  <2>3. QED
    BY <2>1, <2>2
<1>9. CASE Fail
  <2>1. Abs!Finish
    BY <1>9 DEF Fail, Abs!Finish, InstalledInJob
  <2>2. QED
    BY <2>1 DEF Abs!Next
<1>10. CASE UNCHANGED updVars
  BY <1>10 DEF updVars, AbsVars, InstalledInJob
<1>11. QED
  BY <1>1, <1>2, <1>3, <1>4, <1>5, <1>6, <1>7, <1>8, <1>9, <1>10
     DEF UpdNext, UpdateStep

(***************************************************************************)
(* The update handler implements the abstract update of spec 4.2: jobs run *)
(* one at a time, a job installs at most once, and only an artifact whose  *)
(* digest its checksum names.                                              *)
(***************************************************************************)
THEOREM Refinement == UpdSpec => UpdRefinesAbstract
<1>1. UpdInit => Abs!Init
  BY DEF UpdInit, Abs!Init, InstalledInJob
<1>2. UpdSpec => []IInv
  BY InitIInv, NextIInv, PTL DEF UpdSpec
<1>3. QED
  BY <1>1, <1>2, NextRefines, PTL
     DEF UpdSpec, UpdRefinesAbstract, Abs!Spec, Abs!absVars, AbsVars

=============================================================================
