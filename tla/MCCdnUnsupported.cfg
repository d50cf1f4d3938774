CONSTANTS
    OptionSets <- MCOptionSets
    Drivers = {"s3", "cos", "filesystem"}
SPECIFICATION Spec
INVARIANTS
    UnsupportedDriverFallsBack
