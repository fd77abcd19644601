CONSTANTS
    Containers <- MCContainers
    Names <- MCNames
    None = None
SPECIFICATION FairSpec
PROPERTIES LogIsWholeUnlessShort CallsReturn
