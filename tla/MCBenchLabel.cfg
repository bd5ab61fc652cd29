\* The same inputs, checking the printed label against the category.
CONSTANTS
    Files = {"f1", "f2", "f3"}
    Stamps = {1, 2}
    NoStamp = NoStamp
    NoArg = NoArg
    MaxTime = 4
    ThreshArgs = {NoArg, 0, 1, 50}
SPECIFICATION Spec
INVARIANT LabelAgreesWithCategory
