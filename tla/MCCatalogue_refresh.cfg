CONSTANTS
    www = www
    enter = enter
    dept = dept
    guide = guide
    calendar = calendar
    news = news
    archive = archive
    pdf = pdf
    NoSite = NoSite
    Url <- Urls
    Site <- Sites
    Seeds <- SeedSites
    Departments <- DepartmentLinks
    MainSites = {www}
    Menu <- Menus
    Posts <- PostLists
    Pdfs <- PdfList
    SeedScope <- ScopeOfSeed
    SeedHost <- SeedOf
    HostScope <- ScopeOfHost
    PostPath <- PostPages
    WordsOf <- Words
    Limits = {0, 2}
    MaxTroubles = 2
    MaxRounds = 2
    MaxRefreshes = 2
SPECIFICATION Spec
INVARIANTS TargetsAreSound NothingListedIsLost LabelsAgree
CHECK_DEADLOCK FALSE
