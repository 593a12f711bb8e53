CONSTANTS
    x1 = x1
    x2 = x2
    h1 = h1
    h2 = h2
    t1 = t1
    t2 = t2
    u1 = u1
    u2 = u2
    o1 = o1
    o2 = o2
    b1 = b1
    b2 = b2
    k1 = k1
    k2 = k2
    none = none
    Configs = {x1, x2}
    Names = {t1, t2}
    NoName = none
    Administrators = {h1, h2}
    Prompts = {x1, x2}
    Editors = {h1, h2}
    Authors = {u1, u2}
    Orgs = {o1, o2}
    MemberOf <- SomeMembers
    Titles = {t1, t2}
    Slugified <- SameSlug
    MaxEdits = 3
    Tenants = {x1, x2}
    Managers = {h1, h2}
    Bases = {b1, b2}
    ReservedSlugs <- OneReserved
    MaxChanges = 3
    Readers = {u1}
    Ranges = {1}
    MaxLogs = 3
    f1 = f1
    f2 = f2
    newline = newline
    Fragments = {f1, f2}
    Newline = newline
    LinesWithText <- TwoTexts
    MaxBody = 6
    Letters = {k1, k2}
    Snippets <- Braces
    SentValues <- Sent
    MaxText = 4
SPECIFICATION WorkspaceSpec
INVARIANT WorkspaceTypeOK
INVARIANT DefaultsOnlyByOverlap
INVARIANT VersionsContiguous
INVARIANT WritersHadAccess
INVARIANT SlugTrail
INVARIANT SummaryAddsUp
INVARIANT TextsInOrder
INVARIANT RenderedAtOnce
PROPERTY DefaultGoesOnlyByChoice
SYMMETRY Symmetric
CHECK_DEADLOCK FALSE
