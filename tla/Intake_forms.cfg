SPECIFICATION Spec
CONSTANTS
    None = none
    Rejected = rejected
    MaxNote = 3
    Draft <- Drafts
    Choice <- FieldValues
    MaxQuantity = 4
    BatchSize = 3
    FrameBytes = 15
    Wrapper = 2
    OrderBytes = 3
    Expansion = 2
INVARIANT TypeOK
INVARIANT StoredFormIsClean
INVARIANT ResubmitChangesNothing
INVARIANT PriceOfStoredForm
INVARIANT FramesCoverBatch
INVARIANT FramesFitBudget
INVARIANT MeatsKept
