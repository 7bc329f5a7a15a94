\* A parent and its child, three threads in all, on machines with getentropy and
\* without.
SPECIFICATION Spec
CONSTANTS
    Thread = {t1, t2}
    Kernels = {"getentropy", "device"}
    Words = 2
    MaxThreads = 3
    MaxStirs = 2
    MaxDraws = 3
INVARIANTS
    SeededWhenOn
    BlockOnce
    WordOnce
\* A process that a misuse has ended takes no step.
CHECK_DEADLOCK FALSE
SYMMETRY Symmetry
