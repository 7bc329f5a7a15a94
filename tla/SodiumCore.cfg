\* Threads that initialise, set handlers, compute MACs and misuse the library,
\* inside and outside the section, with every outcome of a foreign unlock.
SPECIFICATION Spec
CONSTANTS
    Thread = {t1, t2}
    NoThread = NoThread
    MisuseFrom = {"inside", "outside"}
    ForeignUnlock = {"releases", "refused"}
    Handler = {"returns", "reenters"}
    MacBeforeInit = FALSE
INVARIANTS
    ReadyWhenTold
    SectionExcludes
    NoMixedMac
PROPERTY EveryCallEnds
\* A process that has ended takes no step, nor do threads that wait for a
\* mutex its holder will not release.
CHECK_DEADLOCK FALSE
