\* One thread on a machine where getentropy does not work and a device does.
SPECIFICATION Spec
CONSTANTS
    Thread = {t1}
    Kernels = {"device"}
    Words = 2
    MaxThreads = 1
    MaxStirs = 1
    MaxDraws = 1
INVARIANT StirReseeds
CHECK_DEADLOCK FALSE
