\* Two pieces in every direction, pipes that hold one, every requester and
\* every setting of the daemon.
CONSTANTS
    Prompt = 2
    Report = 2
    Noise = 2
    Cap = 1
SPECIFICATION FairSpec
INVARIANTS NoPipeDeadlock WholeAnswerCounts GoneWithItsWorkspace ToolsActForRequester ToldWhatItHas
PROPERTIES EveryRunEnds
\* The run is over and its workspace is deleted.
CHECK_DEADLOCK FALSE
