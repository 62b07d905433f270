CONSTANTS
    NumTxns = 3
    Threads = {w1, w2}
    FirstOfSender = {0, 1}
    PrologueReads <- MCPrologueReads
    BodyReads <- MCBodyReads
    PrologueOK <- MCPrologueOK
    MaxIncarnation = 3
    NoThread = NoThread
    NoTxn = NoTxn
SPECIFICATION Spec
INVARIANTS PrologueMatchesSequential
