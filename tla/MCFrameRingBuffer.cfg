CONSTANTS
    Frame = {f1, f2, f3}
    NoFrame = NoFrame
    Capacity = 3
SPECIFICATION Spec
PROPERTY ImplementsDropOldestQueue
