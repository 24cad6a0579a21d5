SPECIFICATION AdaptersSpec
CONSTANTS
    WellFormed <- MCWellFormed
    Target <- MCTarget
    MaxFaults = 0
INVARIANT
    TypeUsesAreStored
