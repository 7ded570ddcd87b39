SPECIFICATION RetrySpec
CONSTANTS
    w1 = w1
    w2 = w2
    Holders = {h1, h2}
    Wallets = {w1, w2}
    Calls = {c1, c2}
    RPCs = {"Establish", "AddWallet", "Provision", "Open"}
    Requests <- Growing
    NoHolder = NoHolder
    Established = Established
    MaxCrashes = 1
INVARIANTS AddedMeansOpened RecordedOnce OpenedForCaller
PROPERTY ProvisionConverges
