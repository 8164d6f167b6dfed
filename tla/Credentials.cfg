\* Config documents and near misses; two participants, three tokens, a restart.
SPECIFICATION Spec
CONSTANTS
    UrlOf <- MCUrlOf
    NotUrls <- MCNotUrls
    LoopbackHosts <- MCLoopbackHosts
    Dids <- MCDids
    DidHost <- MCDidHost
    Numerals <- MCNumerals
    Files <- MCFiles
    Worlds <- MCWorlds
    Targets <- MCTargets
    Callers <- MCCallers
    OwnDid = "did:web:h"
    MaxRedirects = 2
    MAX_ISSUED_TOKENS = 2
    TokenLife = 2
    ResolutionTimeout = 1
CHECK_DEADLOCK FALSE
INVARIANTS
    ConfigSufficesForCrawls
    NoSettingIgnored
    CredentialsOnlyToAllowed
    PresentedOnlyToInvited
    NoLookupForStrangers
    GenuineCallbackAnswered
