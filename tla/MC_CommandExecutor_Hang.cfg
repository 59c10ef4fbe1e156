\* The update server may stop sending without closing the download stream;
\* the command thread then blocks in the read for good, which is a real stop.
CONSTANTS
    CmdIds <- MCCmdIds
    UpdateIds <- MCUpdateIds
    Digests = {"good"}
    HexCases = {"lower"}
    ArtifactSize = 2
    ContentLengths = {2}
    MaxJobs = 4
    DownloadMayHang = TRUE
    Cmds <- MCCmds
    MaxBatch = 2
    MaxPolls = 2
SPECIFICATION MCSpec
PROPERTIES
    CommandTerminates
CHECK_DEADLOCK FALSE
