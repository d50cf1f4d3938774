CONSTANTS
    HookSeq <- MCHookSeq
    MaxFails = 2
SPECIFICATION Spec
INVARIANTS
    TypeOK
    SendReportsEveryFailure
    SuccessImpliesDelivered
PROPERTIES
    StatusNotClobbered
