\* The unit tests of the repository on the model.
CONSTANTS
    NoAddr = NoAddr
    None = None
    Never = Never
    Addr <- ReplayAddr
    CodeIdOf <- ReplayCodeIdOf
    One = 100
    MaxUint = 2147483646
    Self = "cosmos2contract"
    Contracts = {}
    Instantiations = {}
    Txs = {}
    Reactions = {}
    MaxReactions = 0
    MaxHeight = 0
    LegacyTokens = {}
    MigrateMsgs = {}
    Rank <- ReplayRank
    MAX_LIMIT = 30
    DEFAULT_LIMIT = 10
    Listings = {}
    Tests <- ReplayTests
SPECIFICATION ReplaySpec
INVARIANT Observations
PROPERTY Outcomes
