SPECIFICATION Spec
CONSTANTS
    Data = {zero, a, b}
    Zero = zero
    Size = 4
    Failed = failed
INVARIANTS
    IInv
    NoTornCopy
PROPERTIES
    ImplementsFifo
