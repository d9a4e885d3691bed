SPECIFICATION MCSpec
CONSTANTS
    Interfaces <- AllInterfaces
    v1 = v1
    v2 = v2
    Values = {v1, v2}
    Nothing = Nothing
    ScrapeJobLists <- JobLists
INVARIANTS
    IntegrationsTypeOK
    RequestArrives
    AnswerArrives
    GoneIsTold
    CredentialsAreSecret
    
    LogsGoWhereTold
    ScrapedAsPublished
PROPERTIES
    NoSpuriousEvent
    LeaderIsHeard
CHECK_DEADLOCK FALSE
