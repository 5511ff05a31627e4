\* A factory token migrated with its allowances.
CONSTANTS
    alice = alice
    bob = bob
    pool = pool
    treasury = treasury
    token = token
    NoAddr = NoAddr
    None = None
    Never = Never
    Addr <- MCAddr
    CodeIdOf <- MCCodeIdOf
    One = 4
    MaxUint = 7
    Self = token
    Contracts = {pool}
    Instantiations <- MCInstantiations
    LegacyTokens <- MCLegacyTokens
    MigrateMsgs <- MCMigrateMsgs
    Txs <- MigrationTxs
    Reactions = {}
    MaxReactions = 0
    MaxHeight = 1
SPECIFICATION MigrationSpec
CHECK_DEADLOCK FALSE
PROPERTY ReverseMapBuilt
