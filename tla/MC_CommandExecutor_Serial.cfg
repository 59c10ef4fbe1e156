\* A reboot command whose sudo reboot returns, followed by another command.
CONSTANTS
    CmdIds <- MCCmdIds
    UpdateIds <- MCUpdateIds
    Digests = {"good"}
    HexCases = {"lower"}
    ArtifactSize = 2
    ContentLengths = {2}
    MaxJobs = 4
    DownloadMayHang = FALSE
    Cmds <- MCCmds
    MaxBatch = 2
    MaxPolls = 2
SPECIFICATION MCSpec
INVARIANT
    SerialExecution
