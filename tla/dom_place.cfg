SPECIFICATION Spec
CONSTANTS
    Tasks = {t1, t2}
    CPUs = {0, 1, 2}
    Domains = {0, 1}
    Mappings <- MCMappings
    OnlineSets <- MCOnlineSets
    MaskBits = 2
SYMMETRY TaskSymmetry
INVARIANTS RunsInItsDomain MaskComplete
CHECK_DEADLOCK FALSE
