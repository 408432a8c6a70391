\* Two terminals in one directory, two approvals, scopes of two tickets.
SPECIFICATION Spec
CONSTANTS
    n1 = n1
    Terminals = {t1, t2}
    Approvals = {a1, a2}
    Names = {n1}
    Missing = Missing
    Phases = {1}
    Places = {1, 2}
    Plans <- TwoPlans
    Edits <- OneEdit
SYMMETRY Same
INVARIANTS
    NobodyAskedLast
    UnfinishedStaysResumable
    OneApprovalPerStart
PROPERTIES
    InOrder
