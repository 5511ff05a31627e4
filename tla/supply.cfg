\* Minting under a cap, burning, handing the minter role over.
CONSTANTS
    alice = alice
    bob = bob
    pool = pool
    treasury = treasury
    token = token
    NoAddr = NoAddr
    None = None
    Never = Never
    Addr <- MCAddr
    CodeIdOf <- MCCodeIdOf
    One = 4
    MaxUint = 8
    Self = token
    Contracts = {pool}
    Instantiations <- SupplyInstantiations
    Txs <- SupplyTxs
    Reactions <- SupplyReactions
    MaxReactions = 2
    MaxHeight = 0
SPECIFICATION Spec
INVARIANT CapRespected
PROPERTY RenouncedForever
PROPERTY WhalesStopGrowing
PROPERTY ImplementsLedger
