\* Downloads always end, cut short or whole; every command type, two polls
\* of up to two commands.
CONSTANTS
    CmdIds <- MCCmdIds
    UpdateIds <- MCUpdateIds
    Digests = {"good"}
    HexCases = {"lower"}
    ArtifactSize = 2
    ContentLengths = {2}
    MaxJobs = 4
    DownloadMayHang = FALSE
    Cmds <- MCCmds
    MaxBatch = 2
    MaxPolls = 2
SPECIFICATION MCSpec
INVARIANTS
    ExecTypeOK
PROPERTIES
    CommandTerminates
