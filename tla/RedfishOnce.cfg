CONSTANTS
    Ids <- MCIds
    Patches <- MCPatches
    None = None
SPECIFICATION Spec
INVARIANTS OnceMeansOnce
