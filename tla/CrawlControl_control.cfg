SPECIFICATION FairSpec
CONSTANTS
    cli = cli
    a1 = a1
    Cli = {cli}
    Admin = {a1}
    Nobody = Nobody
    MaxRuns = 2
    MaxFaults = 1
INVARIANTS
    TypeOK
    ServiceKnowsItsCrawl
    StrayProgressIsOfAFailedDiscovery
PROPERTIES
    CleanupSparesTheCrawlItSaw
    StaleJobsEnd
    CrawlEnds
