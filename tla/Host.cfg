SPECIFICATION MCSpec
CONSTANTS
    None = None
    Nothing = Nothing
    call = call
    other = other
    long = long
    short = short
    source = source
    Drafts <- MCDrafts
    TextBytes <- MCTextBytes
    BlockSizes = {0, 41}
    MaxEvents = 4
    Budgets <- MCBudgets
    RecentCount = 3
    MaxReserve = 12
    FoldMin = 25
    Quiesce = 1
    MaxHold = 2
    HeadBytes = 40
    DigestHead = 7
    SectionHead = 10
    FrameBytes = 11
    PointerBytes = 5
    EntryBytes = 20
    IndexHead = 7
    HelpBytes = 8
    LineBytes = 10
    start = start
    compact = compact
    foreign = foreign
    second = second
    Events = {start, compact}
    Desired = {start}
    Own = Own
    Stale = Stale
    Legacy = Legacy
    Handlers <- MCHandlers
    NoFile = NoFile
    Torn = Torn
    Malformed = Malformed
    Configs <- MCConfigs
    here = here
    claude = claude
    codex = codex
    there = there
    Projects = {here, there}
    openhands = openhands
    Hosts <- MCHosts
    Tools <- MCHosts
    Shared = {codex, openhands}
    Inspected = {codex}
    EndsIn <- MCEndsIn
    SurfaceChoices <- MCChoices
INVARIANTS
    PacketSound
    TranscriptSound
    FileSafe
    Reconciled
PROPERTIES
    RemovalSafe
CHECK_DEADLOCK FALSE
