\* Two threads that stir, draw and close on both kinds of kernel, beside a
\* program that opens and closes files.
SPECIFICATION Spec
CONSTANTS
    Thread = {t1, t2}
    Descriptors = 3
    Kernels = {"getrandom", "device"}
    MayClose = TRUE
INVARIANTS
    GetrandomSuffices
    DeviceServes
    InitializedIsOpen
    NothingLeaks
\* A process that a misuse has ended takes no step.
CHECK_DEADLOCK FALSE
