\* A client lists allowances and accounts while they change.
CONSTANTS
    alice = alice
    bob = bob
    pool = pool
    treasury = treasury
    token = token
    NoAddr = NoAddr
    None = None
    Never = Never
    Addr <- MCAddr
    CodeIdOf <- MCCodeIdOf
    One = 4
    MaxUint = 1
    Self = token
    Contracts = {pool}
    Instantiations <- QueriesInstantiations
    Txs <- QueriesTxs
    Reactions = {}
    MaxReactions = 0
    MaxHeight = 0
    Rank <- MCRank
    MAX_LIMIT = 2
    DEFAULT_LIMIT = 1
    Listings <- MCListings
SPECIFICATION QuerySpec
INVARIANT NothingMissed
INVARIANT HoldersHaveEntries
PROPERTY NothingTwice
PROPERTY ListingEnds
