SPECIFICATION Spec
CONSTANTS
    Txns <- MCTxns
    Details <- MCDetails
    Rows <- MCRows
    Jobs <- MCJobs
    CloseBy = 1
    MaxNodes = 500
    Window = 3
    Limits <- MCLimits
    Workers = {w1, w2}
    Stores = {s1, s2}
    Unset = Unset
    Nothing = Nothing
SYMMETRY GraphSymmetry
INVARIANTS StoreWhole FlagsEarned AnswersHold
