SPECIFICATION IndexingSpec
CONSTANTS
    Files <- AllFiles
    Hosts <- AllHosts
    MaxPages = 3
    MaxOcrImages = 2
    MaxImages = 1
    CaptionWords = 6
    Documents <- Unparsed
    TargetWords = 4
    Overlap = 1
    TableMaxWords = 6
    None = None
    Scores <- Logits
    Floors <- FloorsOfRun
    Weights = {4, 5}
    TopK = 2
    Budgets = {1, 4, 6}
    MaxRerankChunks = 2
INVARIANTS TextIsRead PagesAreAccountedFor PassagesKept  NoTextTwice 
CHECK_DEADLOCK FALSE
