\* The payload checksum may be written in upper-case hex.
CONSTANTS
    CmdIds = {c1}
    UpdateIds = {u1}
    Digests <- MCDigests
    HexCases = {"lower", "upper"}
    ArtifactSize = 3
    ContentLengths = {0, 3}
    MaxJobs = 2
    DownloadMayHang = TRUE
SPECIFICATION MCSpec
INVARIANTS
    ChecksumCaseInsensitive
