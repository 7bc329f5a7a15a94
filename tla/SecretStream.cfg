\* Two sessions on a hostile wire: a counter that wraps, tags that ask for a
\* rekeying, that do not and that Swift does not know, explicit rekeyings on
\* both sides, receivers opened again at any time.
SPECIFICATION Spec
CONSTANTS
    Root = {r1, r2}
    Ad = {a1, a2}
    Byte = {0, 2, 4}
    CtrMod = 3
    MaxFrames = 3
    MaxRekeys = 1
SYMMETRY Symmetry
INVARIANTS
    TypeOK
    AcceptedInOrder
    CounterUniquePerKey
    RekeyRetiresKey
    InStep
PROPERTY ChannelSpec
\* A trapped or aborted process takes no step.
CHECK_DEADLOCK FALSE
