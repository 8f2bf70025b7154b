SPECIFICATION ControlSpec
CONSTANTS
    sub = sub  key = key  r1 = r1  r2 = r2  c1 = c1  c2 = c2  s1 = s1  s2 = s2
    None = None
    Backend = {sub, key}
    Subscription = {sub}
    Metered = {key}
    Trusted = {key}
    Chat = {key}
    CapFor <- OneDollar
    GlobalCap = TRUE
    Refuse = FALSE
    Session = {s1, s2}
    Slot = {r1, r2}
    Caller = {c1, c2}
    MaxBindings = 1
    MaxExpired = 1
    Life = 1
    Day = 1
    Days = {0, 1, 2}
    Plans <- Stories
    Tool = {"slots", "codex"}
    Setting <- SettingOf
    Own <- OwnOf
    TableOf <- EnvOf
    Requires <- Needs
    Toml = {"slots"}
    UserValue <- Users2
    Port = {1}
    Account = {2}
    Void = None
    u = u  z = z  p = p  q = q  r = r
    U = U  P = P  R = R
    def = def  met = met  v = v  w = w
    Spelling = {u, z, p, q, r}
    Dir = {U, P, R}
    DirOf <- Dirs
    UsualDir = U
    UsualSpelling = u
    Id = {def, met, v, w}
    DefaultId = def
    MeteredId = met
    NameOf <- Names
    World <- Worlds
    Edits <- Written
    Errands <- Evenings
INVARIANTS SettingsAreObeyed SessionsStayBound CapIsHonoured FilesStayTheUsers     ConsentNamesOneLogin
PROPERTIES WiredToItsOwn StaysStartable ConnectSaysFirst
SYMMETRY Same
CHECK_DEADLOCK FALSE
