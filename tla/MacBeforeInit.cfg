\* Threads that compute MACs while another initialises the library; no misuse.
SPECIFICATION Spec
CONSTANTS
    Thread = {t1, t2}
    NoThread = NoThread
    MisuseFrom = {}
    ForeignUnlock = {"releases"}
    Handler = {"returns"}
    MacBeforeInit = TRUE
INVARIANT NoMixedMac
CHECK_DEADLOCK FALSE
