\* Allocations of one and of two pages and of sizes at the limit, once
\* sodium_init has found the size of a page; mprotect may fail.
SPECIFICATION Spec
CONSTANTS
    Hardware = 4
    Default = 8
    CANARY_SIZE = 3
    SIZE_MAX = 63
    Pages = 10
    Sizes = {0, 1, 2, 46, 62}
    Counts = {1, 2, 32}
    MaxLive = 2
    BeforeInit = FALSE
    Depths = {1, 3, 4}
    MayRefuse = TRUE
INVARIANTS
    GuardsStand
    FreeFindsAll
    CanaryTells
    NothingLeft
\* A process that has ended takes no step.
CHECK_DEADLOCK FALSE
