CONSTANTS
    Versions = {1, 2}
    MaxCrashes = 1
SPECIFICATION Spec
INVARIANTS InstallsAreWhole DebrisNeverBlocks
PROPERTIES MinimumAgeHolds WorkingInstallStays
