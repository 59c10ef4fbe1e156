\* Honest server; the reboot after a completed update may fail to launch.
CONSTANTS
    CmdIds = {c1}
    UpdateIds = {u1}
    Digests <- MCDigests
    HexCases = {"lower"}
    ArtifactSize = 3
    ContentLengths = {0, 3}
    MaxJobs = 2
    DownloadMayHang = TRUE
SPECIFICATION MCSpec
INVARIANTS
    TerminalOnce
