CONSTANT N = 5
SPECIFICATION FairSpec
INVARIANTS TypeOK NeverOutOfStep BoundedDrift OwnsOneChunk VerifiedCorrect
PROPERTIES CompleteChunksStay AllReduceEnds
