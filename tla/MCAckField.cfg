\* The acknowledgment header over a 32-sequence space with an 8-bit window,
\* the code's 256/32 ratio: every (remote, window contents) pair.
CONSTANTS
    Size = 32
    Window = 8
SPECIFICATION Spec
INVARIANTS
    AckRoundTrip
