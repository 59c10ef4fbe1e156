\* A content-length smaller than the decoded body (gzip) scales progress past 50.
CONSTANTS
    CmdIds = {c1}
    UpdateIds = {u1}
    Digests <- MCDigests
    HexCases = {"lower"}
    ArtifactSize = 3
    ContentLengths = {0, 1, 3}
    MaxJobs = 2
    DownloadMayHang = TRUE
SPECIFICATION MCSpec
INVARIANTS
    ProgressMonotonic
