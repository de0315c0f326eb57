SPECIFICATION Spec
CONSTANTS
    music1 = music1
    music2 = music2
    label = label
    musicl = musicl
    Urls = {u, v, w}
    Tracks = {t}
    Families = {"routes", "items"}
    Fields = {music1, music2, label, musicl}
    MusicFields = {music1, music2}
    PublisherFields = {label}
    Bodies <- MCBodies
    None = None
    MaxCopies = 1
    MaxOver = 1
    MaxActs = 2
CHECK_DEADLOCK FALSE
SYMMETRY Symmetry
INVARIANTS ContentInv IndexFollows CopiesBounded ResolutionIsForThisBody
