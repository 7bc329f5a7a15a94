\* Blocks of three bytes and messages of up to ten, so that a message ends in
\* the fourth block, in any division; words for the length that wrap at six.
SPECIFICATION Spec
CONSTANTS
    Block = 3
    Limb = 6
    Byte = {0, 1}
    MaxMessage = 10
    Key <- MCKey
INVARIANTS
    CountTells
    LastBlockHeld
PROPERTY DigestSpec
