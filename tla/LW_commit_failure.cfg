SPECIFICATION Spec
CONSTANTS
    ana = ana
    ben = ben
    fees = fees
    ghost = ghost
    t1 = t1
    t2 = t2
    t3 = t3
    WalletIds = {ana, ben, fees, ghost}
    Wallets = {ana, ben, fees}
    Opening <- MCOpening
    Txs = {"T1", "T2", "T3", "T4"}
    Keys = {"k1", "k2", "k3", "k4"}
    Commands <- Twice
    Threads = {t1, t2}
    NoThread = NoThread
    NoCommand = NoCommand
    Settings <- CommitsFail
INVARIANT ResultIsPosted
