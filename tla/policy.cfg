\* Policies replaced by their admins, also in the middle of a payment.
CONSTANTS
    alice = alice
    bob = bob
    pool = pool
    treasury = treasury
    token = token
    NoAddr = NoAddr
    None = None
    Never = Never
    Addr <- MCAddr
    CodeIdOf <- MCCodeIdOf
    One = 4
    MaxUint = 31
    Self = token
    Contracts = {pool}
    Instantiations <- PolicyInstantiations
    Txs <- PolicyTxs
    Reactions <- PolicyReactions
    MaxReactions = 2
    MaxHeight = 0
SPECIFICATION Spec
INVARIANT EscrowCovered
PROPERTY NoTaxKept
PROPERTY RenouncedForever
PROPERTY RunsDown
PROPERTY TxEnds
PROPERTY ImplementsLedger
