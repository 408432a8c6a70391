\* One alpha and one beta rulebook, four commands or edits.
SPECIFICATION Spec
CONSTANTS
    p1 = p1
    p2 = p2
    b1 = b1
    c1 = c1
    d1 = d1
    Commands = {p1, p2}
    Architect = Architect
    Versions = {"v1", "v2"}
    Clean = {c1}
    BetaCommands = {b1}
    Designer = Designer
    BetaVersions = {"v1"}
    Designs = {d1}
    Stub = d1
    Sessions = {Architect, Designer}
    Phases <- ThePhases
    Drafts <- TheDrafts
    Spoken <- TheSpoken
    HistoryLimit = 2
    MaxMessages <- Messages
    User = User
    Casts <- TheCasts
    Texts <- TheTexts
    Edits <- TheEdits
    Budget <- TheBudget
SYMMETRY Same
CHECK_DEADLOCK FALSE
INVARIANTS
    ManifestMatchesArchive
    CompatFollowsManifest
    BetaHashHolds
    AnswersFollowQuestions
PROPERTIES
    ArchiveSpec
    PromotedStays
