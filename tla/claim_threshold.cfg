\* The whale threshold of an instantiated token: ends with a counterexample.
CONSTANTS
    alice = alice
    bob = bob
    pool = pool
    treasury = treasury
    token = token
    NoAddr = NoAddr
    None = None
    Never = Never
    Addr <- MCAddr
    CodeIdOf <- MCCodeIdOf
    One = 4
    MaxUint = 31
    Self = token
    Contracts = {pool}
    Instantiations <- ClaimInstantiations
    Txs <- ClaimTxs
    Reactions <- ClaimReactions
    MaxReactions = 1
    MaxHeight = 0
SPECIFICATION Spec
INVARIANT UncheckedMulFits
