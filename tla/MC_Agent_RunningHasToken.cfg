\* A fresh device, two starts, two heartbeats, two polls of one command.
CONSTANTS
    CmdIds <- MCCmdIds
    UpdateIds <- MCUpdateIds
    Digests = {"good"}
    HexCases = {"lower"}
    ArtifactSize = 2
    ContentLengths = {2}
    MaxJobs = 2
    DownloadMayHang = FALSE
    Cmds <- MCCmds
    MaxBatch = 1
    MaxPolls = 2
    MaxBeats = 2
    MaxStarts = 2
SPECIFICATION MCSpec
INVARIANT
    RunningHasToken
