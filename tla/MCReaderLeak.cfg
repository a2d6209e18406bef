SPECIFICATION MCSpec
CONSTANTS
    MaxFilterDepth = 4
    Schema <- MCSchema
    FtsIndexes = {"ix"}
    Rows <- MCRows
    OwnScope = TRUE
    MaxPerPage = 2
    Callers <- MCCallers
    Policies <- MCPolicies
    Templates <- MCTemplates
    ParamSpecs <- MCParamSpecs
    Arguments <- MCArguments
    ListRequests <- MCListRequests
    AggRequests <- MCAggRequests
    PrefixNames <- MCPrefixes
    Files <- MCFiles
    FileSchema <- MCFileSchema
    Verbs <- MCVerbs
    FileCallers <- MCCallers
    FilePolicyRows <- MCFilePolicyRows
    MaxNow = 2
    Scenes = {"sql"}
    SqlTasks = {t1, t2}
    Readers = {1}
    Nobody = Nobody
    NoBody = NoBody
    Bodies <- MCBodies
    Asked <- MCAsked
    MaxDml = 1
INVARIANT
    ReaderReturnedOpen
