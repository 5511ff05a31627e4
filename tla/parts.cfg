\* Rates in tenths: products that do not divide, and amounts beyond the range
\* of Decimal::from_atomics (MaxUint \div One).  Lists of up to four coins: a
\* repetition need not be next to its original, and two large coins overflow.
CONSTANTS
    alice = alice
    pool = pool
    treasury = treasury
    text = text
    other = other
    NoAddr = NoAddr
    None = None
    Blank = Blank
    Addr <- MCAddr
    CodeIdOf <- MCCodeIdOf
    One = 10
    MaxUint = 130
    TaxInfos <- MCTaxInfos
    CoinLists <- MCCoinLists
    CoinAmounts = {0, 60, 90}
    MaxCoins = 4
    Texts = {text, other}
    LOGO_SIZE_CAP = 2
    Logos <- MCLogos
    Instantiations <- MCRecords
SPECIFICATION PartsSpec
INVARIANT FloorOfShare
INVARIANT SplittingSavesAtMostOne
INVARIANT SupplyMatchesAccounts
INVARIANT EveryCoinSaved
INVARIANT TypeOK
INVARIANT LogoInSync
PROPERTY MoreIsMore
PROPERTY GoneForGood
\* The amounts and the rows end; who gave up the marketing role cannot act.
CHECK_DEADLOCK FALSE
