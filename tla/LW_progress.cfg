SPECIFICATION FairSpec
CONSTANTS
    ana = ana
    ben = ben
    fees = fees
    ghost = ghost
    t1 = t1
    t2 = t2
    t3 = t3
    WalletIds = {ana, ben, fees, ghost}
    Wallets = {ana, ben, fees}
    Opening <- MCOpening
    Txs = {"T1", "T2"}
    Keys = {"k1", "k2"}
    Commands <- ProgressCommands
    Threads = {t1, t2}
    NoThread = NoThread
    NoCommand = NoCommand
    Settings <- Progress
INVARIANT OnePostingPerKey
PROPERTIES Answered ClaimsEnd
