SPECIFICATION Spec
CONSTANTS
    card = card
    main = main
    bank = bank
    f1 = f1
    f2 = f2
    t1 = t1
    t2 = t2
    t3 = t3
    k1 = k1
    k2 = k2
    m1 = m1
    m2 = m2
    x1 = x1
    Wallets = {card, main, bank}
    Transactions = {x1}
    NoTransaction = NoTransaction
    Funded = {f1, f2}
    Transfers = {t1, t2, t3}
    Mints = {k1, k2}
    Scenarios <- AllScenarios
    MaxTokens = 12
    MaxMintAttempts = 2
    MaxCrashes = 1
CHECK_DEADLOCK FALSE
INVARIANTS NeverOverspent LogMatchesLedger BalancesExplained ManifestCoversRequest OpenTokensLeftAlone StagedFundsStayReserved ReversedOnce MintedIsBackedAndListed
