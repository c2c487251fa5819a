SPECIFICATION MCSpec
CONSTANTS
    Moving = {"reviews", "imports", "apps", "marketing", "prices", "images", "analytics", "installs", "catalog", "objects", "downloads", "retention", "metrics", "jobs", "desk", "routes"}
    Nothing = Nothing
    Items = {1, 2}
    SourceOf <- MCSourceOf
    Documents <- MCDocuments
    PageSize = 1
    Queries <- MCReviewQueries
    Operators = {o1, o2}
    Keys = {"k"}
    NoKey = "none"
    Imports = {"n1"}
    MaxDecisions = 2
    MaxChanges = 1
    People = {"root", "clerk", "kim"}
    FirstRole <- Council
    Ids = {"o1"}
    LegalPages = {"privacy"}
    Requests = {"r1", "r2"}
    Asked <- Changes
    MaxWrites = 2
    MaxPage = 10000
    MaxLimit = 100
    MaxSkip = 100000
    Nobody = Nothing
    Manifests = {1, 2, 3, 4, 5}
    Versions = {1, 2, 3}
    Templates = {"tmpl"}
    TemplateVersions = {1, 2}
    Products = {"still", "edit", "clip"}
    VersionOf <- ManifestVersions
    TimeOf <- ManifestTimes
    Offers <- Offered
    RecipesOf <- Recipes
    Creating = {"c1"}
    NoManifest = 0
    NoTemplate = Nothing
    Events = {1, 2}
    BatchSize = 1
    MaxDay = 2
    Period <- MCPeriod
    Claims = {"a", "b"}
    QueueSize = 1
    PartSize = 1
    MaxResultBytes = 2
    MaxRedirects = 1
    AllowedHosts = {"ok"}
    Responses <- Downloads
    ExtensionOf <- Extension
    NoExtension = "none"
    StepKeys <- MCStepKeys
    PageLimit = 1
    None = Nothing
    Steps = {1, 2}
    Jobs = {"j", "k"}
    Scopes = {"a", "b"}
    NoJob = Nothing
    Apps = {"a1", "a2"}
    AppRequests = {"r1", "r2"}
    Identifiers = {"i1"}
    Bundles = {"b1"}
    PageVersions = {"v1", "v2"}
    Editable <- MCEditable
    NoId = Nothing
    AppValues <- MCAppValues
    PolicyPatches <- MCPolicyPatches
    TrackingLinks = {"l1", "l2"}
    Posts = {"p1", "p2"}
    Staff = {"root", "ed"}
    RoleOf <- MCRoleOf
    LinkForms <- MCLinkForms
    PostForms <- MCPostForms
    Normalized <- MCNormalized
    SlugOfTitle <- MCSlugOfTitle
    QueryOf <- MCQueryOf
    Unset = Nothing
    BadSlug = "bad"
    NoSlug = "none"
    MaxClicks = 1
    MaxEdits = 3
    Administrators = {"root", "clerk"}
    GradeOf <- MCGradeOf
    Environments = {"all", "prod"}
    PackageOverrides <- MCPackageOverrides
    MemberOverrides <- MCMemberOverrides
    Menus <- MCMenus
    MaxSaves = 3
    MaxInt64 = 99
    Overflow <- MCOverflow
    Libraries <- MCLibraries
    ImageQueries <- MCImageQueries
    Batches = {{"g1", "t1"}, {"g2", "f1"}}
    MaxFetch = 3
    MaxPageSize = 2
    DefaultLimit = 2
    Today = 3
    Fallbacks <- MCFallbacks
    Pools = {"image-flex-default", "external"}
    Sources <- MCSources
    MaxImageChanges = 2
    MissingField = Nothing
    Worlds <- MCWorlds
    ReportQueries <- MCReportQueries
    DefaultSpan = 2
    DefaultDays = 7
    FirstDay = 100
    MaxDays = 8
    MaxTokens = 3
    MaxDisturbances = 1
    MaxRequests = 1
    InFlight = 1
SYMMETRY OperatorSymmetry
INVARIANTS ConsoleTypeOK ReviewsSafe ReportsSafe DeskSafe CatalogSafe StoresSafe
PROPERTIES StorefrontSafe
CHECK_DEADLOCK FALSE
