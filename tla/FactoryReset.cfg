CONSTANTS
    Unset = Unset
    Seeds = {100}
    MaxDrawn = 3
    MaxNvsFaults = 0
    MaxPowerCycles = 1
SPECIFICATION IdentitySpec
INVARIANT ResetRenewsIdentity
