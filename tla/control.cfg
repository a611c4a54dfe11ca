CONSTANTS
    home = home
    away = away
    broken = broken
    ava = ava
    nova = nova
    luna = luna
    av = av
    no = no
    r1 = r1
    r2 = r2
    Phrases = {ava, nova, luna}
    Variants = {av, no}
    Profiles = {home, away, broken}
    Startup = home
    Loadable = {away, broken}
    Requests = {r2}
    Entries <- MCEntries
    Outcome <- MCOutcome
    Texts <- MCTexts
    Kind <- MCKind
    MaxCommands = 2
    MaxEvents = 2
    None = None
SPECIFICATION FairSpec
 
INVARIANT MatchFromProfileInForce
INVARIANT ProfileLostOnlyBy
PROPERTY ChannelInOrder
PROPERTY RequestSettles
PROPERTY StreamDrained
CHECK_DEADLOCK FALSE
