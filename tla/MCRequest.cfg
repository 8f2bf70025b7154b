SPECIFICATION RequestSpec
CONSTANTS
    None = None
    A = A  B = B  X = X  claude = claude  codex = codex  chat = chat
    x1 = x1  x2 = x2  y1 = y1  y2 = y2
    Values <- Overlapping
    Convs = {c1, c2}
    MaxSalts = 1
    Speech = {"text", "token", "stale", "invented", "cut", "open", "bad"}
    MaxItems = 2
    MaxChunk = 4
    MaxMinted = 2
    Convo = {x1, x2}
    Client <- Clients
    Candidate = {A, B, X}
    Native = {A, B}
    Login = {A, B}
    DefaultLogin = A
    Holder = {y1, y2}
    Named = {y1, y2}
    Keeps = 1
    MaxRecords = 2
    MaxReplies = 2
    Happenings = 1
    Nobody = None
    Adapter = {claude, codex, chat}
    Registries <- Either
    Wire <- WireOf
    Place <- PlaceOf
    Inquirer = {y1, y2}
    Reads = 1
    Workers = 1
    Checks = 1
    Models = {1}
    Reports <- Usage
    Wait = 1
    Lifetimes = {2}
    MaxTokens = 1
    Troubles = 1
    Inquiries = 2
    Nothing = None
INVARIANTS
    RestoredOrFailed ReasoningGoesHome
    ReadsGoOnWithinBounds RotationIsSurvived
SYMMETRY Alike
CHECK_DEADLOCK FALSE
