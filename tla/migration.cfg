\* Tokens of old code migrated, then used, then migrated again.  A token of
\* unknown or newer code cannot be migrated and stays as it is.
CONSTANTS
    alice = alice
    bob = bob
    pool = pool
    treasury = treasury
    token = token
    NoAddr = NoAddr
    None = None
    Never = Never
    Addr <- MCAddr
    CodeIdOf <- MCCodeIdOf
    One = 4
    MaxUint = 8
    Self = token
    Contracts = {pool}
    Instantiations <- MCInstantiations
    LegacyTokens <- MCLegacyTokens
    MigrateMsgs <- MCMigrateMsgs
    Txs <- MigrationTxs
    Reactions <- MigrationReactions
    MaxReactions = 1
    MaxHeight = 1
SPECIFICATION MigrationSpec
CHECK_DEADLOCK FALSE
INVARIANT MigratedTypeOK
INVARIANT SpenderWithinOwner
PROPERTY AuthorizedDebit
PROPERTY GrowsWithinCap
PROPERTY PoliciesStay
PROPERTY ImplementsLedger
