CONSTANTS
    Tracks <- MCTracks
    Tags <- MCTags
    Lower <- MCLower
    MaxLength = 3
    Songs = {"t1", "t2"}
    FirstSongs <- MCFirstSongs
    Deletable = {"t1", "t2"}
    Matches = {"t1", "t2"}
    Playlists = {p}
    Paths <- MCPaths
    MaxRequests = 2
    MaxDeeds = 3
    Faults = {"db", "net"}
    Nil = Nil
SPECIFICATION Spec
INVARIANTS
    TypeOK
    AlbumsPartition
    ArtistsCountAll
    PagesAgree
    CardsOpen
    CreatedForTrack
PROPERTY OverlayStays
CHECK_DEADLOCK FALSE
