SPECIFICATION Spec
CONSTANTS
    ana = ana
    ben = ben
    agent = agent
    platform = platform
    h1 = h1
    h2 = h2
    WalletIds = {ana, ben, agent, platform}
    Wallets = {ana, ben, agent, platform}
    Active = {ana, ben}
    Platform = platform
    Opening <- MCOpening
    Txs = {"T1", "T2", "T3", "T4"}
    Keys <- MCKeys
    Commands <- MCCommands
    Nobody = Nobody
    NoRequest = NoRequest
    NoTx = NoTx
    ClientKeys = {"c1", "c2", "c3", "c4"}
    FeePercent = 50
    Handlers = {h1, h2}
    Requests <- MCRequests
    Limits <- MCLimits
    Days = 2
    Settings <- LateConfirm
PROPERTY ReversedIsFinal
