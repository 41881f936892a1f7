CONSTANTS
    c1 = c1
    c2 = c2
    c3 = c3
    q1 = q1
    q2 = q2
    Controllers <- ThreeControllers
    Requests <- TwoRequests
    Instances = {c3}
    Parameters <- IdParameter
    Lower <- LowerCase
    Mapping <- Mappings
    Asks <- FewAsks
    MaxControllers = 3
    Configuration <- TwoKeys
    Words = {"word"}
    NoText = "none"
    Given <- FewArguments
    MaxArguments = 3
    Environments <- FewEnvironments
    Letters = {"a", "b"}
    Break = "n"
    ChunkSize = 5
    Prefix <- OneMark
    Suffix <- MarkAndBreak
    Inputs <- FewInputs
    MaxText = 9
    TypedDigits = {0, 1, 6}
    MaxDigits = 7
    Addresses = {"A", "B"}
    Hostnames = {"g", "h"}
    HostModels <- FewHostModels
    MaxNames = 2
    Methods = {"get", "put"}
    MappingValues = {"p", "q"}
    OperationIds = {"x", "put"}
    MaxDecorations = 3
    MaxChanges = 3
    ItemIds = {1, 2}
    Values = {"v"}
    MemberNames = {"a"}
    MemoryClients = {"c", "d"}
    MaxVersion = 2
    MaxCount = 3
    Items = 5
    Falsy = {}
    Sizes = {1, 2}
    PageSizes = {1, 3}
    Callers = {1, 2}
    Limit = 6
    Reserve = 4
    MaxPages = 1
    MaxWindows = 2
    Booked <- SixTransactions
    From = 2
    To = 5
    BufferSizes = {1, 2, 3}
SPECIFICATION ServicesSpec
CHECK_DEADLOCK FALSE
INVARIANTS
    TypeOK
    
    RoutesAreFaithful
    SeparateChangesAreWritten
    
    DeletedListIsGone
    ExportIsComplete
    
    
    DecorationsAreKept
    
    StatementsSayWhatWasAsked
    HostnamesArrive
    MethodSeesItsArguments
    DigitErrorsAreDetected
PROPERTIES
    
    MemoryIsRepository
    SerialCallsAreRepository
    ProductsAreLoaded
    WaitsEnd
