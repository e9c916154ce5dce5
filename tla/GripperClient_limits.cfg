\* The data path against the setters: every switch setting, two ranges.
SPECIFICATION Spec
CONSTANTS
    Raw <- MCRaw
    IntMin <- MCIntMin
    FilterMax = 3
    Configs <- AllConfigs
    WindowLimit = 1
CONSTRAINT Undisturbed
INVARIANTS RangeConverges
