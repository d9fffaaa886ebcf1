SPECIFICATION Spec
CONSTANTS
    SeqSpace = 16
    Frames <- MCFrames
    Patterns <- MCPatterns
    MaxPayloads = {0, 4, 5}
    Slices = {0, 60}
    MaxFrame = 120
    Judge <- JudgeDirection
INVARIANTS
    SplitReassembles
    DirectionRight
