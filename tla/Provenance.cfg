\* One upload, one question; two calls of other services fail.
SPECIFICATION FairSpec
CONSTANTS
    note = note
    other = other
    upload = upload
    own = own
    foreign = foreign
    question = question
    ChunkChars = 8
    OverlapChars = 4
    TopK = 2
    Lexical = {0, 100}
    Files = {note, other, upload}
    TenantOf <- MCTenantOf
    Texts <- MCTexts
    Indexed = {note, other}
    Asks = {question}
    AskTenant <- MCAskTenant
    Scopes <- MCScopes
    Scores = {20, 80}
    Threshold = 35
    Budget <- MCBudget
    HeaderChars = 2
    BatchSize = 2
    MaxPolls = 2
    Configurations <- MCConfigurations
    TextOnly = {"micro"}
    Writings <- MCWritings
    MaxFaults = 2
INVARIANTS TypeOK EveryCharacterIndexed ChunksKnowTheirPlace ChunksFit ShownIsAllowed CitationsWereShown  NothingUnsafeLeaves
PROPERTIES FilesEnd
\* Nobody has to upload or ask anything more.
CHECK_DEADLOCK FALSE
