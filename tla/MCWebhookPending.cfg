CONSTANTS
    HookSeq <- MCHookSeq
    MaxFails = 2
SPECIFICATION Spec
PROPERTY
    RecordLeavesPending
