SPECIFICATION Spec
CONSTANTS
    StrategyCodes = {"TREND", "ENTRY"}
    Codes <- MCCodes
    Times = {1, 2}
    NULL = NULL
INVARIANTS PipelineInv SignalPassedEveryGate ConflictReal NoDirectionPriority ConflictBlocks
