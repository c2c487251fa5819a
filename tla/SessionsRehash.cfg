SPECIFICATION MCSpec
CONSTANTS
    u1 = u1
    u2 = u2
    p1 = p1
    p2 = p2
    Absent = Absent
    NoFact = NoFact
    Moving = {"sessions"}
    Users = {u1, u2}
    Keys = {"k1", "k2"}
    NoKey = "no key"
    Calls = {"c1", "c2"}
    Kinds = {"video"}
    Products = {"video5", "video10"}
    KindOf <- MCKindOf
    Price <- MCPrice
    Units <- MCPrice
    VipOnly = {"video10"}
    Tickets = {"i1"}
    Deltas <- MCDeltas
    Base = 2
    Opening = 2
    Cap = 3
    GrantDays = 1
    MaxDay = 2
    MaxOps = 1
    NoUser = NoUser
    NoProduct = NoProduct
    NoTicket = NoTicket
    People = {p1, p2}
    Tokens = {"t1", "t2"}
    Requests = {"r1", "r2"}
    Emails = {"e1"}
    Devices = {"d1", "d2"}
    Subjects = {"s1"}
    Passwords = {"a", "b"}
    MaxChanges = 2
    Nobody = Nobody
    NoEmail = NoEmail
    NoDevice = NoDevice
    NoToken = NoToken
    NoPassword = NoPassword
    Creations = {"c1"}
    TwoSteps = {"c1"}
    Nonces = {"n1", "n2"}
    Digests = {"d1"}
    Urls = {"https:a", "https:a#f"}
    Inputs <- MCInputs
    Skus <- MCSkus
    RecipeOf <- MCRecipeOf
    SafeUrl <- MCSafeUrl
    AssetUrl <- MCAssetUrl
    Window = 1
    MaxClock = 2
    MaxSent = 3
    Ids = {1, 2, 3}
    Times = {1, 2}
    WorkKinds = {"image"}
    Listings = {"works", "ledger"}
    Limits = {2}
    Feedbacks = {"f1"}
    Submissions <- MCSubmissions
    Responses = {"a", "b"}
    Tabs = {"w1", "w2"}
    Switches = {"push"}
    MaxLater = 1
    MaxSettled = 1
    MaxChoices = 2
    Clients = {"c1"}
    BufferSize = 1
    MaxEvents = 7
    MaxRestarts = 1
    MediaConfigs <- MCMediaConfigs
    MediaAsks <- MCMediaAsks
    Readers = {"b1", "b2"}
    Objects = {"a"}
    DefaultExpiry = 4
    MaxExpiry = 8
    PrivateAge = 4
    DefaultAge = 1
    Widths = {2, 5}
    DefaultWidth = 3
    DefaultQuality = 70
    MaxSide = 4
    MaxSource = 1
    MaxPixels = 1
    MaxPublicChanges = 1
    Installed <- MCInstalled
    Scopes = {TRUE, FALSE}
    Documents <- MCDocuments
    ClientRequests <- MCClientRequests
    PurchaseKeys <- MCPurchaseKeys
    MaxWrites = 1
    MaxRouted = 2
    ProviderConfigs <- MCProviderConfigs
    Tasks = {"s1"}
    Tenants = {"t1", "t2"}
    LongKeys = {"k1", "k2", "k4", "k5"}
    JobResponses <- MCJobResponses
    MaxStarts = 4
    MaxRotations = 1
    EmptyKey = ""
    Orders = {"o1"}
    Buyers = {"b1", "b2"}
    Owner <- MCOwner
    Shapes <- MCShapes
    Discounted = TRUE
    Skews <- MCSkews
    CallbackWindow = 1
    MaxNow = 3
    MaxOrderSends = 3
    MaxEnvelopes = 1
INVARIANT PasswordStands
CHECK_DEADLOCK FALSE
