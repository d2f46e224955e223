SPECIFICATION Spec
CONSTANTS
    Version <- MCVersion
    Blank = ""
    Release <- MCRelease
    Major <- MCMajor
    BuiltIn <- MCBuiltIn
    BuiltInDefault = "16"
    Environment <- MCEnvironment
INVARIANT TypeOK
PROPERTIES
    ShownIsUsed
    OfferedIsAccepted
    ClientServesBoth
CHECK_DEADLOCK FALSE
