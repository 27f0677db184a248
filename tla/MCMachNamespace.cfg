SPECIFICATION Spec
CONSTANTS
    Tasks = {t1, t2}
    Objects = {o1, o2, o3}
    NoObject = NoObject
    FirstDynamic = 2
    LastName = 2
    MaxRefs = 3
SYMMETRY Symmetric
INVARIANTS TypeOK IndexAgrees CapabilityNamedOnce RequestsNamed
CHECK_DEADLOCK FALSE
