SPECIFICATION BenchSpec
CONSTANTS
    None = none
    Corrupt = corrupt
    Current <- MCCurrent
    Updater <- MCUpdater
    Workers = {w1, w2}
    Feeds <- MCFeeds
    Streams <- MCStreams
    DigestOf <- MCDigest
    Preferences <- MCPreferences
    Day = 1
    UserPlans <- MCUserPlans
    MaxClock = 1
    MaxRestarts = 1
    MaxFaults = 1
    Processes = {p1, p2}
    OldSessions = {1, 2}
    OldAnswers = {1}
    CodeOf <- MCCodeOf
    MaxBackups = 1
    MaxLaunches = 3
    MaxKills = 1
    Questions <- MCQuestions
    Certs <- MCCerts
    FirstCert <- MCFirstCert
    Topic <- MCTopic
    Difficulty <- MCDifficulty
    Pools <- MCPools
    Blueprints <- MCBlueprints
    Forms <- MCForms
    PresetIds = {"p1"}
    SeededPick <- MCPick
    Plans <- MCPlans
    Terms = {1, 2, 3}
    Tokens = {1, 2, 3}
    Text <- MCText
    Options = {"x", "y"}
    Presented <- MCPresented
    Configs = {{}, {"line"}, {"line", "other"}}
    Key <- MCKey
    Exams = {{"drag_match", "ordered_list"}, {"single_choice", "multiple_choice", "sim"}}
    Contents <- MCContents
    Narrowings = {{1, 2, 3}, {2, 3, 4, 5}}
    Searches = {{1, 3}, {1, 2, 3, 4, 5}}
    Sorted <- MCSorted
    SortKeys = {"id", "difficulty"}
    Sheets <- MCSheets
    PageSize = 2
    MaxActs = 5
    Histories <- MCHistories
    Outcomes <- MCOutcomes
    ExamVersion = "v1"
    PassMark = 82
    LabScores = {60}
    Catalogues <- MCCatalogues
    Recent = 2
    MaxSteps = 5
INVARIANTS
    SettingsKept
    AnnouncedRightly
    LaunchVerified
    UpgradeSound
    LaunchSucceeds
    DrawnAsAsked
    EnabledStarts
    MatchTokenOnce
    AnswerShown
    LibraryCurrent
    HomeCurrent
    StatsAgree
PROPERTY AnnouncedInTheEnd
CHECK_DEADLOCK FALSE
