SPECIFICATION Spec
CONSTANTS
    Number = {0, 2}
    Length = {0, 5, 7}
INVARIANT RangesSeparated
PROPERTIES
    ImplementsBuffer
    LoopAdvances
