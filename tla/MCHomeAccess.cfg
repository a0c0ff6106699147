CONSTANTS
    agent = agent
    other = other
    home = home
    sub = sub
    file = file
    none = none
    Principals = {agent, other}
    NoEntry = none
    Agent = agent
    Home = home
    Dirs = {home, sub}
    Files = {file}
    InitialAcls <- MCAcls
    InitialDefaults <- MCDefaults
    Modes <- MCModes
    MaxChanges = 2

SPECIFICATION Spec

INVARIANT TypeOK  RevokeIsComplete  
