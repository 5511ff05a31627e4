\* Allowances over time.
CONSTANTS
    alice = alice
    bob = bob
    pool = pool
    treasury = treasury
    token = token
    NoAddr = NoAddr
    None = None
    Never = Never
    Addr <- MCAddr
    CodeIdOf <- MCCodeIdOf
    One = 4
    MaxUint = 8
    Self = token
    Contracts = {pool}
    Instantiations <- AllowancesInstantiations
    Txs <- AllowancesTxs
    Reactions <- AllowancesReactions
    MaxReactions = 1
    MaxHeight = 2
SPECIFICATION Spec
INVARIANT AllowancesMirrored
PROPERTY AuthorizedDebit
PROPERTY OnlyOwnerRevives
