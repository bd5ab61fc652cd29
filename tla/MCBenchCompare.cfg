\* Every directory of three files over two timestamps, every pair of times 0..4, thresholds unset, 0, 1 and 50; the selection, the categorisation and the refinement of the abstract command.
CONSTANTS
    Files = {"f1", "f2", "f3"}
    Stamps = {1, 2}
    NoStamp = NoStamp
    NoArg = NoArg
    MaxTime = 4
    ThreshArgs = {NoArg, 0, 1, 50}
SPECIFICATION Spec
INVARIANTS
    ComparesOlderWithNewer
    CategoryMatchesRef
PROPERTY
    ImplementsCompareSpec
