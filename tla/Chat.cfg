SPECIFICATION Spec
CONSTANTS
    Identifiers <- MCIdentifiers
    Contents <- MCContents
    None = None
    Invalid = Invalid
    Deliveries = {d1, d2}
    Listeners = {l1}
    Batches <- MCBatches
    DiscordEvents <- MCDiscordEvents
    About <- MCAbout
    MaxRows = 3
INVARIANTS
    StoresAPrefix
    OneCopyPerCall
    ConversationsAreReadable
    HistoryIsTheRecentPast
PROPERTY ScrolledOutStaysOut
