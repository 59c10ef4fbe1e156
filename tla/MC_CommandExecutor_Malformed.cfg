\* A malformed descriptor may come first in a batch of two.
CONSTANTS
    CmdIds <- MCCmdIds
    UpdateIds <- MCUpdateIds
    Digests = {"good"}
    HexCases = {"lower"}
    ArtifactSize = 2
    ContentLengths = {2}
    MaxJobs = 4
    DownloadMayHang = FALSE
    Cmds <- MCCmds
    MaxBatch = 2
    MaxPolls = 2
SPECIFICATION MCSpec
INVARIANT
    BatchAcknowledged
