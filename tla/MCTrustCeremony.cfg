SPECIFICATION Spec
CONSTANTS
    Devices = {d1, d2}
    None = None
    Torn = Torn
    JoinCodeTtl = 2
    CertTtl = 2
    MaxTime = 3
    MaxSkew = 1
    MaxCodes = 3
    MaxPowerLosses = 1
SYMMETRY DeviceSymmetry
INVARIANTS TypeOK KeysComeFromOneCode KeysAreOnRecord SequencesAreFresh
CHECK_DEADLOCK FALSE
