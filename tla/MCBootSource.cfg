SPECIFICATION Spec
CONSTANTS
    Cards <- TestCards
    Indices = {1, 3}
    NoIndex = NoIndex
INVARIANTS TypeOK ImageSound RightPartition ListComplete
PROPERTY CommandEnds
