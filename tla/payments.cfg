\* Taxed payments, with re-entrant calls of the pool.
CONSTANTS
    alice = alice
    bob = bob
    pool = pool
    treasury = treasury
    token = token
    NoAddr = NoAddr
    None = None
    Never = Never
    Addr <- MCAddr
    CodeIdOf <- MCCodeIdOf
    One = 4
    MaxUint = 31
    Self = token
    Contracts = {pool}
    Instantiations <- PaymentsInstantiations
    Txs <- PaymentsTxs
    Reactions <- PaymentsReactions
    MaxReactions = 2
    MaxHeight = 0
SPECIFICATION Spec
INVARIANT TypeOK
INVARIANT SupplyConserved
INVARIANT EscrowCovered
INVARIANT NotifiedInFull
INVARIANT NoWhale
PROPERTY SelfNeverPays
PROPERTY ImplementsLedger
