\* One process, whatever it is started as.
SPECIFICATION RoosSpec
CONSTANTS
    r1 = r1
    q1 = q1
    q2 = q2
    Commands = {"new", "run", "list", "serve", "agent", "server"}
    FileTexts <- MCFileTexts
    Environment <- MCEnvironment
    ProviderTypes = {"anthropic", "openai", "ollama"}
    AgentProviders = {"anthropic", "groq", "cohere"}
    AgentTools = {"write_file", "http_post", "execute_shell"}
    Runs = {r1}
    Ids = {i1}
    Limits = {2}
    DefaultSteps = 2
    MaxBatch <- MCMaxBatch
    U32 = 4
    Failures = {0, 200, 401, 403, 429, 500}
    WireAnswers <- MCWireAnswers
    Reqs = {q1, q2}
    Heads <- MCHeads
INVARIANTS
    InterpolationExact
    ErrorsPointIntoFile
    EffectsAudited
    WireCallsAnswered
    TokensAccounted
    OnlyEntitledServed
    GracefulExit
    OkMeansDone
PROPERTIES
    ContextGrows
    AcceptedRunsFound
    ShutdownCompletes
    CommandEnds
\* The process stops, and a server may have no requests to come.
CHECK_DEADLOCK FALSE
