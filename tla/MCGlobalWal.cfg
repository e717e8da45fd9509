CONSTANTS
    e1 = e1
    e2 = e2
    e3 = e3
    e4 = e4
    Writers = {w1, w2}
    Readers = {r1}
    Entries = {e1, e2, e3, e4, e5}
    LineBreakers = {e5}
    RotateLimit = 2
    MaxInterrupts = 1
    None = None

SPECIFICATION FairSpec
CONSTRAINT InOrder

INVARIANTS
    OnlyATailIsDamaged
    NoSilentLoss
    ReadsAreFaithful

PROPERTY AppendsEnd

\* The entries run out.
CHECK_DEADLOCK FALSE
