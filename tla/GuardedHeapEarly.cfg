\* One allocation before sodium_init, where page_size is a multiple of the
\* size of a page.
SPECIFICATION Spec
CONSTANTS
    Hardware = 4
    Default = 8
    CANARY_SIZE = 3
    SIZE_MAX = 63
    Pages = 12
    Sizes = {0, 1, 2}
    Counts = {}
    MaxLive = 1
    BeforeInit = TRUE
    Depths = {}
    MayRefuse = FALSE
INVARIANT AssertionHolds
CHECK_DEADLOCK FALSE
