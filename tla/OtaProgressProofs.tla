--------------------------- MODULE OtaProgressProofs ---------------------------
(***************************************************************************)
(* Progress monotonicity of the update handler, for every artifact size,   *)
(* job bound and set of content-lengths, provided the server's             *)
(* content-length header is absent or at least the size of the body it    *)
(* sends.  The run MC_OtaUpdate_ShortLength shows the premise is needed:  *)
(* with a short header line 509 reports more than 50 and "verifying" 50   *)
(* then goes back.                                                         *)
(***************************************************************************)
EXTENDS OtaUpdateProofs

\* The server's content-length header is absent (0) or not short.
HonestLength == \A cl \in ContentLengths : cl = 0 \/ cl >= ArtifactSize

\* The progress line 509 reports after g units of the current job's body.
Scaled(g) ==
    IF ujob.content_length > 0 THEN (g * 50) \div ujob.content_length ELSE 0

\* ProgressMonotonic, for any sequence of reports.
Mono(s) ==
    \A i, j \in DOMAIN s :
        /\ i < j
        /\ s[i].job = s[j].job
        /\ s[j].progress # NoProgress
        => s[i].progress <= s[j].progress

\* The highest progress the running job may have reported at its phase.
Ceiling ==
    CASE uphase \in {"download", "hung", "verify"} -> Scaled(got)
      [] uphase = "install" -> 50
      [] OTHER -> 100

\* No report of s is numbered after job jb.
Numbered(s, jb) == \A i \in DOMAIN s : s[i].job <= jb

\* The reports of job jb in s are at most m.
UpTo(s, jb, m) == \A i \in DOMAIN s : s[i].job = jb => s[i].progress <= m

\* No report is numbered after the jobs started so far.
JobsNumbered == Numbered(ureports, jobs)

\* The running job's reports are at most its ceiling.
CurrentBounded == uphase # "idle" => UpTo(ureports, jobs, Ceiling)

(***************************************************************************)
(* ProgressMonotonic is not inductive: a new report must be compared with *)
(* the earlier ones of its job, which the invariant only orders among     *)
(* themselves.  PInv bounds them by the ceiling of the current phase, and *)
(* numbers the reports so that a new job's first report has no           *)
(* predecessor.                                                            *)
(***************************************************************************)
PInv == TypeInv /\ JobsNumbered /\ CurrentBounded /\ Mono(ureports)

-----------------------------------------------------------------------------
\* Integer division by a positive divisor is monotone in the dividend.
LEMMA DivMonotone ==
    ASSUME NEW a \in Nat, NEW b \in Nat, NEW c \in Nat \ {0}, a <= b
    PROVE  a \div c <= b \div c
BY SMT

\* Fifty times a fraction of at most one, rounded down, is at most 50.
LEMMA DivAtMostFifty ==
    ASSUME NEW a \in Nat, NEW c \in Nat \ {0}, a <= c
    PROVE  (a * 50) \div c \in 0..50
BY SMT

\* Under an honest header the download progress lies in 0..50 and grows
\* with the bytes written.
LEMMA ScaledFacts ==
    ASSUME HonestLength, ujob \in Job,
           NEW g \in 0..ArtifactSize, NEW h \in 0..ArtifactSize, g <= h
    PROVE  /\ Scaled(g) \in 0..50
           /\ Scaled(g) <= Scaled(h)
<1> DEFINE cl == ujob.content_length
<1>1. cl \in ContentLengths
  BY DEF Job
<1>2. CASE cl > 0
  <2>1. cl \in Nat \ {0} /\ cl >= ArtifactSize
    BY <1>1, <1>2, ContentLengthPositive DEF HonestLength
  <2>2. g * 50 \in Nat /\ h * 50 \in Nat /\ g * 50 <= h * 50 /\ g <= cl
    BY <2>1, OtaAssumption
  <2>3. (g * 50) \div cl \in 0..50
    <3>1. g \in Nat
      BY OtaAssumption
    <3>2. QED
      BY <2>1, <2>2, <3>1, DivAtMostFifty
  <2>4. (g * 50) \div cl <= (h * 50) \div cl
    BY <2>1, <2>2, DivMonotone
  <2>5. Scaled(g) = (g * 50) \div cl /\ Scaled(h) = (h * 50) \div cl
    BY <1>2 DEF Scaled
  <2>6. QED
    BY <2>3, <2>4, <2>5
<1>3. CASE ~(cl > 0)
  BY <1>3 DEF Scaled
<1>4. QED
  BY <1>2, <1>3

\* Appending a report keeps the order when the new report is no lower than
\* the earlier reports of its job, or carries no progress.
LEMMA MonoAppend ==
    ASSUME NEW s \in Seq(ReportRec), NEW r \in ReportRec, Mono(s),
           r.progress # NoProgress =>
               \A i \in DOMAIN s : s[i].job = r.job => s[i].progress <= r.progress
    PROVE  Mono(Append(s, r))
<1> SUFFICES ASSUME NEW i \in DOMAIN Append(s, r), NEW j \in DOMAIN Append(s, r),
                    i < j, Append(s, r)[i].job = Append(s, r)[j].job,
                    Append(s, r)[j].progress # NoProgress
             PROVE  Append(s, r)[i].progress <= Append(s, r)[j].progress
  BY DEF Mono
<1>1. i \in 1..Len(s) /\ Append(s, r)[i] = s[i]
  BY AppendProperties
<1>2. CASE j \in 1..Len(s)
  BY <1>1, <1>2, AppendProperties DEF Mono
<1>3. CASE j = Len(s) + 1
  BY <1>1, <1>3, AppendProperties
<1>4. QED
  BY <1>2, <1>3, AppendProperties

\* Install's two reports, appended at once, are two appends.
LEMMA ConcatPair ==
    ASSUME NEW S, NEW s \in Seq(S), NEW a \in S, NEW b \in S
    PROVE  s \o <<a, b>> = Append(Append(s, a), b)
BY SMT


\* The download progress is in 0..50 under an honest header.
LEMMA ScaledRange ==
    ASSUME HonestLength, ujob \in Job, NEW g \in 0..ArtifactSize
    PROVE  Scaled(g) \in 0..50
<1>1. g <= g
  BY OtaAssumption
<1>2. QED
  BY <1>1, ScaledFacts

\* The job number and progress of every report are integers.
LEMMA ReportFields ==
    ASSUME NEW s \in Seq(ReportRec)
    PROVE  \A i \in DOMAIN s : s[i].job \in Int /\ s[i].progress \in Int
<1> SUFFICES ASSUME NEW i \in DOMAIN s
             PROVE  s[i].job \in Int /\ s[i].progress \in Int
  OBVIOUS
<1>1. s[i] \in ReportRec
  BY LenProperties, ElementOfSeq
<1>2. QED
  BY <1>1 DEF ReportRec

\* A bound on the reports of a job holds for any higher bound.
LEMMA RaiseBound ==
    ASSUME NEW s \in Seq(ReportRec), NEW jb, NEW m \in Int, NEW m2 \in Int,
           m <= m2, UpTo(s, jb, m)
    PROVE  UpTo(s, jb, m2)
BY ReportFields DEF UpTo

\* The job after the last one numbered has no reports yet.
LEMMA FreshJob ==
    ASSUME NEW s \in Seq(ReportRec), NEW jb \in Int, NEW m, Numbered(s, jb)
    PROVE  Numbered(s, jb + 1) /\ UpTo(s, jb + 1, m)
BY ReportFields DEF Numbered, UpTo

(***************************************************************************)
(* A report of job jb, no lower than the earlier reports of jb unless it  *)
(* carries no progress, keeps the reports ordered, numbered at most jb,   *)
(* and those of jb at most any m above the new one and the earlier ones.  *)
(***************************************************************************)
LEMMA AppendReport ==
    ASSUME NEW s \in Seq(ReportRec), NEW r \in ReportRec,
           NEW jb \in Int, NEW m \in Int,
           Mono(s), Numbered(s, jb), UpTo(s, jb, m),
           r.job = jb,
           r.progress # NoProgress => UpTo(s, jb, r.progress),
           r.progress <= m
    PROVE  /\ Mono(Append(s, r))
           /\ Numbered(Append(s, r), jb)
           /\ UpTo(Append(s, r), jb, m)
<1>0. \A i \in DOMAIN s : s[i].job \in Int /\ s[i].progress \in Int
  BY ReportFields
<1>1. Mono(Append(s, r))
  <2>1. r.progress # NoProgress =>
           \A i \in DOMAIN s : s[i].job = r.job => s[i].progress <= r.progress
    BY DEF UpTo
  <2>2. QED
    BY <2>1, MonoAppend
<1>2. ASSUME NEW i \in DOMAIN Append(s, r)
      PROVE  /\ Append(s, r)[i].job <= jb
             /\ Append(s, r)[i].job = jb => Append(s, r)[i].progress <= m
  <2>1. CASE i \in 1..Len(s)
    BY <1>0, <2>1, AppendProperties DEF Numbered, UpTo
  <2>2. CASE i = Len(s) + 1
    BY <2>2, AppendProperties
  <2>3. QED
    BY <2>1, <2>2, AppendProperties
<1>3. QED
  BY <1>1, <1>2 DEF Numbered, UpTo

-----------------------------------------------------------------------------
LEMMA InitPInv == UpdInit => PInv
<1> SUFFICES ASSUME UpdInit PROVE PInv
  OBVIOUS
<1>1. TypeInv
  BY InitTypeOK
<1>2. QED
  BY <1>1 DEF UpdInit, PInv, JobsNumbered, Numbered, CurrentBounded, UpTo, Mono

\* A step that sends no report and starts no job, and does not lower the
\* ceiling of a job still running, preserves the three conjuncts.
LEMMA KeepReports ==
    ASSUME PInv, UNCHANGED <<ureports, jobs>>,
           uphase' # "idle" => /\ uphase # "idle"
                               /\ Ceiling \in Int /\ Ceiling' \in Int
                               /\ Ceiling <= Ceiling'
    PROVE  JobsNumbered' /\ CurrentBounded' /\ Mono(ureports)'
<1>1. ureports \in Seq(ReportRec) /\ jobs \in Int
  BY DEF PInv, TypeInv, UpdTypeOK, ReportRec
<1>2. JobsNumbered' /\ Mono(ureports)'
  BY DEF PInv, JobsNumbered
<1>3. ASSUME uphase' # "idle" PROVE UpTo(ureports, jobs, Ceiling')
  <2>1. UpTo(ureports, jobs, Ceiling)
    BY <1>3 DEF PInv, CurrentBounded
  <2>2. QED
    BY <1>1, <1>3, <2>1, RaiseBound
<1>4. QED
  BY <1>2, <1>3 DEF CurrentBounded

-----------------------------------------------------------------------------
LEMMA NextPInv ==
    ASSUME HonestLength
    PROVE  PInv /\ [UpdNext]_updVars => PInv'
<1> SUFFICES ASSUME PInv, [UpdNext]_updVars PROVE PInv'
  OBVIOUS
<1>1. TypeInv'
  BY NextTypeOK DEF PInv
<1> SUFFICES JobsNumbered' /\ CurrentBounded' /\ Mono(ureports)'
  BY <1>1 DEF PInv
<1>2. /\ ureports \in Seq(ReportRec) /\ ujob \in Job
      /\ got \in 0..ArtifactSize /\ jobs \in 0..MaxJobs
  BY DEF PInv, TypeInv, UpdTypeOK, ReportRec
<1>2a. uphase # "idle" => jobs \in 1..MaxJobs
  BY DEF PInv, TypeInv
<1>3. Scaled(got) \in 0..50
  BY <1>2, ScaledRange
<1>4. /\ Mono(ureports)
      /\ Numbered(ureports, jobs)
      /\ uphase # "idle" => UpTo(ureports, jobs, Ceiling)
  BY DEF PInv, JobsNumbered, CurrentBounded
\* The step sends report r of the running job and leaves its reports at most
\* m, a bound of the next ceiling.
<1> DEFINE Sends(r, m) ==
      /\ ureports' = Append(ureports, r) /\ UNCHANGED jobs
      /\ Mono(Append(ureports, r))
      /\ Numbered(Append(ureports, r), jobs)
      /\ UpTo(Append(ureports, r), jobs, m)
      /\ m \in Int
      /\ uphase' # "idle" => Ceiling' \in Int /\ m <= Ceiling'
<1>5. ASSUME NEW r, NEW m, Sends(r, m), r \in ReportRec
      PROVE  JobsNumbered' /\ CurrentBounded' /\ Mono(ureports)'
  <2>1. Append(ureports, r) \in Seq(ReportRec)
    BY <1>2, <1>5, AppendProperties
  <2>2. uphase' # "idle" => UpTo(Append(ureports, r), jobs, Ceiling')
    BY <1>5, <2>1, RaiseBound
  <2>3. QED
    BY <1>5, <2>2 DEF JobsNumbered, CurrentBounded
<1>6. ASSUME NEW c \in CmdIds, NEW p \in Payloads, StartUpdate(c, p)
      PROVE  JobsNumbered' /\ CurrentBounded' /\ Mono(ureports)'
  <2> DEFINE r == [job |-> jobs + 1, update_id |-> p.update_id,
                   status |-> "downloading", progress |-> 0]
             s2 == Append(ureports, r)
  <2>0. jobs < MaxJobs
    BY <1>6 DEF StartUpdate
  <2>1. /\ ureports' = s2 /\ jobs' = jobs + 1
        /\ got' = 0 /\ uphase' \in {"download", "fail"}
    BY <1>6 DEF StartUpdate
  <2>2. r \in ReportRec /\ jobs + 1 \in Int
    BY <1>2, <2>0, OtaAssumption DEF ReportRec, Payloads, ReportStatuses
  <2>3. Numbered(ureports, jobs + 1) /\ UpTo(ureports, jobs + 1, 0)
    BY <1>2, <1>4, FreshJob
  <2>4. r.job = jobs + 1 /\ r.progress = 0
        /\ (r.progress # NoProgress => UpTo(ureports, jobs + 1, r.progress))
    BY <2>3
  <2>5. Mono(s2) /\ Numbered(s2, jobs + 1) /\ UpTo(s2, jobs + 1, 0)
    BY <1>2, <1>4, <2>2, <2>3, <2>4, AppendReport
  <2>6. Ceiling' \in {0, 100}
    <3>1. ujob'.content_length \in Nat
      BY <1>1, OtaAssumption DEF TypeInv, UpdTypeOK, Job
    <3>2. QED
      BY <2>1, <3>1 DEF Ceiling, Scaled
  <2>7. UpTo(s2, jobs + 1, Ceiling')
    <3>1. s2 \in Seq(ReportRec)
      BY <1>2, <2>2, AppendProperties
    <3>2. Ceiling' \in Int /\ 0 \in Int /\ 0 <= Ceiling'
      BY <2>6
    <3>3. QED
      BY <2>5, <3>1, <3>2, RaiseBound, Zenon
  <2>8. QED
    BY <2>1, <2>5, <2>7 DEF JobsNumbered, CurrentBounded
<1>7. CASE DownloadChunk
  <2>1. PICK n \in 1..(ArtifactSize - got) :
           /\ got' = got + n
           /\ IF ujob.content_length > 0
                THEN SendReport("downloading", (got' * 50) \div ujob.content_length)
                ELSE UNCHANGED ureports
    BY <1>7 DEF DownloadChunk
  <2>2. uphase = "download" /\ UNCHANGED <<uphase, ujob, jobs>>
    BY <1>7 DEF DownloadChunk
  <2>3. got' \in 0..ArtifactSize /\ got <= got'
    BY <1>2, <2>1, OtaAssumption
  <2>4. Scaled(got) <= Scaled(got') /\ Scaled(got') \in 0..50
    BY <1>2, <2>3, ScaledFacts
  <2>5. Ceiling = Scaled(got) /\ Ceiling' = Scaled(got')
    BY <2>2 DEF Ceiling, Scaled
  <2>6. CASE ujob.content_length > 0
    <3> DEFINE r == Report("downloading", Scaled(got'))
    <3>1. ureports' = Append(ureports, r)
      BY <2>1, <2>6 DEF SendReport, Scaled
    <3>2. r \in ReportRec /\ r.job = jobs /\ r.progress = Scaled(got')
      <4>1. jobs \in 1..MaxJobs /\ ujob.update_id \in UpdateIds
        BY <1>2, <1>2a, <2>2 DEF Job
      <4>2. Scaled(got') \in Int
        BY <2>4
      <4>3. QED
        BY <4>1, <4>2 DEF Report, ReportRec, ReportStatuses
    <3>3. UpTo(ureports, jobs, Scaled(got'))
      <4>1. UpTo(ureports, jobs, Scaled(got))
        BY <1>4, <2>2, <2>5
      <4>2. Scaled(got) \in Int /\ Scaled(got') \in Int
        BY <1>3, <2>4
      <4>3. QED
        BY <1>2, <2>4, <4>1, <4>2, RaiseBound, Zenon
    <3>4. /\ Mono(Append(ureports, r))
          /\ Numbered(Append(ureports, r), jobs)
          /\ UpTo(Append(ureports, r), jobs, Scaled(got'))
      <4>1. jobs \in Int /\ Scaled(got') \in Int /\ r.progress <= Scaled(got')
        <5>1. jobs \in Int /\ Scaled(got') \in Int
          <6>1. jobs \in Int
            BY <1>2
          <6>2. Scaled(got') \in Int
            BY <2>4
          <6>3. QED
            BY <6>1, <6>2
        <5>2. r.progress <= Scaled(got')
          BY <3>2, <5>1
        <5>3. QED
          BY <5>1, <5>2
      <4>2. r.progress # NoProgress => UpTo(ureports, jobs, r.progress)
        BY <3>2, <3>3
      <4>3. QED
        BY <1>2, <1>4, <3>2, <4>1, <4>2, <3>3, AppendReport, Zenon
    <3>5. Sends(r, Scaled(got'))
      <4>1. Scaled(got') \in Int /\ Scaled(got') <= Scaled(got')
        BY <2>4
      <4>2. QED
        BY <2>2, <2>5, <3>1, <3>4, <4>1, Zenon
    <3>6. QED
      BY <3>2, <3>5, <1>5
  <2>7. CASE ~(ujob.content_length > 0)
    <3>1. UNCHANGED ureports /\ Scaled(got) = Scaled(got')
      BY <2>1, <2>7 DEF Scaled
    <3>2. QED
      BY <2>2, <2>4, <2>5, <3>1, KeepReports
  <2>8. QED
    BY <2>6, <2>7
<1>8. CASE DownloadError
  <2>1. uphase = "download" /\ uphase' = "fail" /\ UNCHANGED <<ureports, jobs>>
    BY <1>8 DEF DownloadError, Raise
  <2>2. Ceiling = Scaled(got) /\ Ceiling' = 100
    BY <2>1 DEF Ceiling
  <2>3. QED
    BY <1>3, <2>1, <2>2, KeepReports
<1>9. CASE DownloadHang
  <2>1. uphase = "download" /\ uphase' = "hung"
        /\ UNCHANGED <<ureports, jobs, ujob, got>>
    BY <1>9 DEF DownloadHang
  <2>2. Ceiling = Scaled(got) /\ Ceiling' = Scaled(got)
    BY <2>1 DEF Ceiling, Scaled
  <2>3. QED
    BY <1>3, <2>1, <2>2, KeepReports
<1>10. CASE DownloadEnd
  <2>1. uphase = "download" /\ uphase' = "verify"
        /\ UNCHANGED <<ureports, jobs, ujob, got>>
    BY <1>10 DEF DownloadEnd
  <2>2. Ceiling = Scaled(got) /\ Ceiling' = Scaled(got)
    BY <2>1 DEF Ceiling, Scaled
  <2>3. QED
    BY <1>3, <2>1, <2>2, KeepReports
<1>11. CASE Verify
  <2> DEFINE r == Report("verifying", 50)
  <2>1. /\ uphase = "verify" /\ uphase' \in {"install", "fail"}
        /\ ureports' = Append(ureports, r) /\ UNCHANGED jobs
    BY <1>11 DEF Verify, SendReport, Raise
  <2>2. r \in ReportRec /\ r.job = jobs /\ r.progress = 50
    BY <1>2, <1>2a, <2>1 DEF Report, ReportRec, Job, ReportStatuses
  <2>3. Ceiling = Scaled(got) /\ Ceiling' \in {50, 100}
    BY <2>1 DEF Ceiling
  <2>4. UpTo(ureports, jobs, 50)
    <3>1. UpTo(ureports, jobs, Scaled(got))
      BY <1>4, <2>1, <2>3
    <3>2. Scaled(got) \in Int /\ 50 \in Int /\ Scaled(got) <= 50
      BY <1>3
    <3>3. QED
      BY <1>2, <3>1, <3>2, RaiseBound, Zenon
  <2>5. /\ Mono(Append(ureports, r))
        /\ Numbered(Append(ureports, r), jobs)
        /\ UpTo(Append(ureports, r), jobs, 50)
    <3>1. jobs \in Int /\ r.progress <= 50
      BY <1>2, <2>2
    <3>2. r.progress # NoProgress => UpTo(ureports, jobs, r.progress)
      BY <2>2, <2>4
    <3>3. QED
      BY <1>2, <1>4, <2>2, <2>4, <3>1, <3>2, AppendReport
  <2>5a. Sends(r, 50)
    BY <2>1, <2>3, <2>5
  <2>6. QED
    BY <2>2, <2>5a, <1>5
<1>12. CASE Install
  <2> DEFINE a == Report("installing", 75)
             b == Report("completed", 100)
             s1 == Append(ureports, a)
  <2>1. /\ uphase = "install" /\ uphase' \in {"reboot", "idle"}
        /\ ureports' = ureports \o <<a, b>> /\ UNCHANGED jobs
    BY <1>12 DEF Install
  <2>2. /\ a \in ReportRec /\ a.job = jobs /\ a.progress = 75
        /\ b \in ReportRec /\ b.job = jobs /\ b.progress = 100
    BY <1>2, <1>2a, <2>1 DEF Report, ReportRec, Job, ReportStatuses
  <2>3. ureports' = Append(s1, b)
    BY <1>2, <2>1, <2>2, ConcatPair
  <2>4. UpTo(ureports, jobs, 75)
    <3>1. Ceiling = 50
      BY <2>1 DEF Ceiling
    <3>2. QED
      BY <1>2, <1>4, <2>1, <3>1, RaiseBound
  <2>5. Mono(s1) /\ Numbered(s1, jobs) /\ UpTo(s1, jobs, 75)
        /\ s1 \in Seq(ReportRec)
    BY <1>2, <1>4, <2>2, <2>4, AppendReport, AppendProperties
  <2>6. UpTo(s1, jobs, 100)
    <3>1. 75 \in Int /\ 100 \in Int /\ 75 <= 100
      OBVIOUS
    <3>2. QED
      BY <2>5, <3>1, RaiseBound, Zenon
  <2>7. Mono(Append(s1, b)) /\ Numbered(Append(s1, b), jobs)
        /\ UpTo(Append(s1, b), jobs, 100)
    <3>1. jobs \in Int /\ 100 \in Int /\ b.progress <= 100
      BY <1>2, <2>2
    <3>2. b.progress # NoProgress => UpTo(s1, jobs, b.progress)
      BY <2>2, <2>6
    <3>3. QED
      <4> HIDE DEF s1, a, b
      <4> QED
        BY <2>2, <2>5, <2>6, <3>1, <3>2, AppendReport
  <2>8. uphase' = "reboot" => Ceiling' = 100
    BY DEF Ceiling
  <2>9. QED
    BY <2>1, <2>3, <2>7, <2>8 DEF JobsNumbered, CurrentBounded
<1>13. CASE Reboot
  <2>1. uphase = "reboot" /\ uphase' \in {"idle", "fail"}
        /\ UNCHANGED <<ureports, jobs>>
    BY <1>13 DEF Reboot, Raise
  <2>2. Ceiling = 100 /\ (uphase' = "fail" => Ceiling' = 100)
    BY <2>1 DEF Ceiling
  <2>3. QED
    BY <2>1, <2>2, KeepReports
<1>14. CASE Fail
  <2> DEFINE r == Report("failed", NoProgress)
  <2>1. /\ uphase = "fail" /\ uphase' = "idle"
        /\ ureports' = Append(ureports, r) /\ UNCHANGED jobs
    BY <1>14 DEF Fail, SendReport
  <2>2. r \in ReportRec /\ r.job = jobs /\ r.progress = NoProgress
    BY <1>2, <1>2a, <2>1 DEF Report, ReportRec, Job, ReportStatuses, NoProgress
  <2>3. UpTo(ureports, jobs, 100)
    <3>1. Ceiling = 100
      BY <2>1 DEF Ceiling
    <3>2. QED
      BY <1>4, <2>1, <3>1
  <2>4. r.progress <= 100
    BY <2>2 DEF NoProgress
  <2>5. Sends(r, 100)
    BY <1>2, <1>4, <2>1, <2>2, <2>3, <2>4, AppendReport
  <2>6. QED
    BY <2>2, <2>5, <1>5
<1>15. CASE UNCHANGED updVars
  <2>1. UNCHANGED <<uphase, ujob, got, ureports, jobs>>
    BY <1>15 DEF updVars
  <2>2. Ceiling \in Int /\ Ceiling' = Ceiling
    BY <1>3, <2>1 DEF Ceiling, Scaled
  <2>3. QED
    BY <2>1, <2>2, KeepReports
<1>16. QED
  BY <1>6, <1>7, <1>8, <1>9, <1>10, <1>11, <1>12, <1>13, <1>14, <1>15
     DEF UpdNext, UpdateStep

(***************************************************************************)
(* Within one update job the progress values _download_update and         *)
(* _handle_update_command report never decrease before "failed", for any  *)
(* artifact size and job bound, whenever the server's content-length     *)
(* header is absent or not shorter than the body.                          *)
(***************************************************************************)
THEOREM ProgressMonotone ==
    ASSUME HonestLength
    PROVE  UpdSpec => []ProgressMonotonic
<1>1. UpdSpec => []PInv
  BY InitPInv, NextPInv, PTL DEF UpdSpec
<1>2. PInv => ProgressMonotonic
  BY DEF PInv, Mono, ProgressMonotonic
<1>3. QED
  BY <1>1, <1>2, PTL
=============================================================================
