CONSTANTS
    Containers <- MCContainers
    Names <- MCNames
    None = None
SPECIFICATION Spec
PROPERTIES LogIsWhole
