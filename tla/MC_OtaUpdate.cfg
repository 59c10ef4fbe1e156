\* Honest server: the content-length header is absent or exact.
CONSTANTS
    CmdIds = {c1}
    UpdateIds = {u1}
    Digests <- MCDigests
    HexCases = {"lower"}
    ArtifactSize = 3
    ContentLengths = {0, 3}
    MaxJobs = 2
    DownloadMayHang = TRUE
SPECIFICATION MCSpec
INVARIANTS
    UpdTypeOK
    InstallIntegrity
    ProgressMonotonic
PROPERTIES
    UpdRefinesAbstract
