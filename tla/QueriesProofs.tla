---------------------------- MODULE QueriesProofs ----------------------------
(***************************************************************************)
(* A client that pages through a listing misses nothing that was there all *)
(* the time, gets nothing twice and goes on with every page, and every     *)
(* holder of tokens is listed, for every order of the keys, every page     *)
(* length, and every set of addresses, transactions and contracts.         *)
(*                                                                         *)
(* The argument: what the client has so far is, of the keys that were there*)
(* throughout, exactly those up to the key it stopped at.  A page takes    *)
(* the least keys after that one, so it leaves no gap.                     *)
(***************************************************************************)
EXTENDS Queries, Cw20TaxedProofs, WellFoundedInduction

-----------------------------------------------------------------------------
\* The least and the greatest of a set of keys.

LEMMA LeastNumber ==
    ASSUME NEW T \in SUBSET Nat, T # {}
    PROVE  \E n \in T : \A m \in T : n <= m
<1>1. IsWellFoundedOn(OpToRel(<, Nat), Nat)
  BY NatLessThanWellFounded
<1>2. PICK n \in T : \A m \in T : ~(<<m, n>> \in OpToRel(<, Nat))
  BY <1>1, WFMin
<1>3. \A m \in T : ~(m < n)
  BY <1>2 DEF OpToRel
<1>. QED
  BY <1>3

LEMMA LeastKey ==
    ASSUME NEW K \in SUBSET Addr, K # {}
    PROVE  \E k \in K : \A j \in K : Rank[k] <= Rank[j]
<1>. DEFINE T == {Rank[k] : k \in K}
<1>1. T \in SUBSET Nat /\ T # {}
  BY QueriesAssumption
<1>. HIDE DEF T
<1>2. PICK n \in T : \A m \in T : n <= m
  BY <1>1, LeastNumber
<1>. QED
  BY <1>2 DEF T

\* There is one with the fewest keys above it: none.
LEMMA GreatestKey ==
    ASSUME NEW K \in SUBSET Addr, K # {}
    PROVE  \E k \in K : \A j \in K : Rank[j] <= Rank[k]
<1>. DEFINE Above(k) == {j \in K : Rank[k] < Rank[j]}
            T == {Cardinality(Above(k)) : k \in K}
<1>1. \A k \in K : IsFiniteSet(Above(k)) /\ Cardinality(Above(k)) \in Nat
  <2>1. \A k \in K : Above(k) \in SUBSET Addr
    OBVIOUS
  <2>2. \A k \in K : IsFiniteSet(Above(k))
    BY <2>1, FS_Subset, ChainAssumption
  <2>. QED
    BY <2>2, FS_CardinalityType
<1>2. T \in SUBSET Nat /\ T # {}
  BY <1>1
<1>3. PICK k \in K : \A j \in K : Cardinality(Above(k)) <= Cardinality(Above(j))
  <2>1. PICK n \in T : \A m \in T : n <= m
    BY <1>2, LeastNumber
  <2>. QED
    BY <2>1, ZenonT(30)
<1>4. ASSUME NEW j \in K, Rank[k] < Rank[j]
      PROVE  FALSE
  <2>1. /\ \A a \in Addr : Rank[a] \in Nat
        /\ k \in Addr /\ j \in Addr
    BY QueriesAssumption
  <2>2. Above(j) \in SUBSET Above(k) /\ j \in Above(k) /\ j \notin Above(j)
    BY <1>4, <2>1
  <2>3. Cardinality(Above(j)) <= Cardinality(Above(k)) /\ Cardinality(Above(k)) # Cardinality(Above(j))
    BY <1>1, <2>2, FS_Subset
  <2>. QED
    BY <1>1, <1>3, <2>3
<1>5. \A j \in K : ~(Rank[k] < Rank[j])
  BY <1>4
<1>. QED
  BY <1>5, QueriesAssumption

-----------------------------------------------------------------------------
\* Pages.

LEMMA PageLimitIsPositive ==
    ASSUME NEW l \in Listings
    PROVE  PageLimit(l.limit) \in Nat \ {0}
<1>1. l \in Listing /\ l.limit # 0
  BY QueriesAssumption
<1>2. l.limit \in Nat \cup {None}
  BY <1>1 DEF Listing
<1>. QED
  BY <1>1, <1>2, QueriesAssumption DEF PageLimit

\* The keys up to k.
UpTo(keys, k) == {j \in keys : Rank[j] <= Rank[k]}

LEMMA UpToFinite ==
    ASSUME NEW keys \in SUBSET Addr, NEW k
    PROVE  IsFiniteSet(UpTo(keys, k)) /\ Cardinality(UpTo(keys, k)) \in Nat
<1>1. UpTo(keys, k) \in SUBSET Addr
  BY DEF UpTo
<1>2. IsFiniteSet(UpTo(keys, k))
  BY <1>1, FS_Subset, ChainAssumption
<1>. QED
  BY <1>2, FS_CardinalityType

\* A page has the first keys, without a gap, and is empty only where no key is.
LEMMA FirstKeys ==
    ASSUME NEW keys \in SUBSET Addr, NEW n \in Nat \ {0}
    PROVE  /\ First(keys, n) \subseteq keys
           /\ First(keys, n) = {} => keys = {}
           /\ \A k \in First(keys, n), j \in keys : Rank[j] <= Rank[k] => j \in First(keys, n)
<1>1. First(keys, n) = {k \in keys : Cardinality(UpTo(keys, k)) <= n}
  BY DEF First, UpTo
<1>2. ASSUME keys # {}
      PROVE  First(keys, n) # {}
  <2>1. PICK k \in keys : \A j \in keys : Rank[k] <= Rank[j]
    BY <1>2, LeastKey
  <2>2. UpTo(keys, k) = {k}
    BY <2>1, QueriesAssumption DEF UpTo
  <2>3. Cardinality(UpTo(keys, k)) = 1
    BY <2>2, FS_Singleton
  <2>. QED
    BY <1>1, <2>3
<1>3. ASSUME NEW k \in First(keys, n), NEW j \in keys, Rank[j] <= Rank[k]
      PROVE  j \in First(keys, n)
  <2>1. k \in keys /\ Cardinality(UpTo(keys, k)) <= n
    BY <1>1
  <2>2. UpTo(keys, j) \in SUBSET UpTo(keys, k)
    BY <1>3, <2>1, QueriesAssumption DEF UpTo
  <2>3. Cardinality(UpTo(keys, j)) <= Cardinality(UpTo(keys, k))
    BY <2>2, UpToFinite, FS_Subset
  <2>4. Cardinality(UpTo(keys, j)) \in Nat /\ Cardinality(UpTo(keys, k)) \in Nat
    BY UpToFinite
  <2>. QED
    BY <1>1, <2>1, <2>3, <2>4
<1>. QED
  BY <1>1, <1>2, <1>3

\* A page with room left has all there is.
LEMMA ShortOfKeys ==
    ASSUME NEW keys \in SUBSET Addr, NEW n \in Nat \ {0}, Cardinality(First(keys, n)) < n
    PROVE  First(keys, n) = keys
<1>1. First(keys, n) = {k \in keys : Cardinality(UpTo(keys, k)) <= n}
  BY DEF First, UpTo
<1>2. First(keys, n) \in SUBSET keys /\ IsFiniteSet(First(keys, n))
  BY <1>1, FS_Subset, ChainAssumption
<1>3. SUFFICES ASSUME keys \ First(keys, n) # {}
               PROVE  FALSE
  BY <1>2
<1>4. PICK k \in keys \ First(keys, n) : \A j \in keys \ First(keys, n) : Rank[k] <= Rank[j]
  BY <1>3, LeastKey
<1>. DEFINE some == First(keys, n) \cup {k}
<1>5. IsFiniteSet(some) /\ Cardinality(some) = Cardinality(First(keys, n)) + 1
  BY <1>2, <1>4, FS_AddElement
<1>6. UpTo(keys, k) \in SUBSET some
  <2>1. ASSUME NEW j \in UpTo(keys, k), j \notin First(keys, n)
        PROVE  j = k
    <3>1. j \in keys /\ Rank[j] <= Rank[k] /\ Rank[k] <= Rank[j]
      BY <1>4, <2>1 DEF UpTo
    <3>. QED
      BY <1>4, <3>1, QueriesAssumption
  <2>. QED
    BY <2>1
<1>7. Cardinality(UpTo(keys, k)) <= Cardinality(some)
  BY <1>5, <1>6, FS_Subset
<1>8. Cardinality(UpTo(keys, k)) \in Nat /\ Cardinality(First(keys, n)) \in Nat
  BY <1>2, UpToFinite, FS_CardinalityType
<1>9. Cardinality(UpTo(keys, k)) <= n
  BY <1>5, <1>7, <1>8
<1>. QED
  BY <1>1, <1>4, <1>9

\* ... and so has one the client finds short.
LEMMA ShortIsBelowLimit ==
    ASSUME NEW l \in Listings, NEW page, Short(page, l.limit)
    PROVE  Cardinality(page) < PageLimit(l.limit)
BY DEF Short, PageLimit

\* The key a page ends with.
Last(page) == CHOOSE k \in page : \A j \in page : Rank[j] <= Rank[k]

LEMMA LastOfPage ==
    ASSUME NEW page \in SUBSET Addr, page # {}
    PROVE  Last(page) \in page /\ \A j \in page : Rank[j] <= Rank[Last(page)]
BY GreatestKey DEF Last

-----------------------------------------------------------------------------
\* The invariant of the client, on top of IInv.

KeysType == accounts.now \in SUBSET Addr /\ accounts.saved \in SUBSET Addr
            /\ accounts = [now |-> accounts.now, saved |-> accounts.saved]

\* What the client has, of what was there throughout, ends where it stopped.
Caught ==
    /\ listing \in Listings
    /\ listed \in SUBSET Addr
    /\ start_after \in Addr \cup {None}
    /\ throughout \subseteq Keys
    /\ start_after = None => listed = {}
    /\ start_after # None =>
          /\ \A k \in listed : Rank[k] <= Rank[start_after]
          /\ \A k \in throughout : Rank[k] <= Rank[start_after] => k \in listed
    /\ complete => throughout \subseteq listed

QInv == KeysType /\ (listing # None => Caught)

LEMMA NoneIsNoListing == None \notin Addr
BY ChainAssumption DEF AnyAddr

LEMMA KeysOfType ==
    ASSUME NEW l \in Listings, NEW s, NEW keys \in SUBSET Addr
    PROVE  KeysOf(l, s, keys) \in SUBSET Addr
<1>1. l.of \in {"owner", "spender", "accounts"}
  BY QueriesAssumption DEF Listing
<1>. QED
  BY <1>1 DEF KeysOf

LEMMA PageIs ==
    ASSUME QInv, listing # None
    PROVE  LET page == Page(Keys, start_after, listing.limit)
           IN  /\ Keys \in SUBSET Addr
               /\ page \subseteq After(Keys, start_after)
               /\ page = {} => After(Keys, start_after) = {}
               /\ \A k \in page, j \in After(Keys, start_after) :
                     Rank[j] <= Rank[k] => j \in page
               /\ Short(page, listing.limit) => page = After(Keys, start_after)
<1>1. Keys \in SUBSET Addr
  BY KeysOfType DEF QInv, Caught, KeysType, Keys
<1>2. After(Keys, start_after) \in SUBSET Addr
  BY <1>1 DEF After
<1>3. PageLimit(listing.limit) \in Nat \ {0}
  BY PageLimitIsPositive DEF QInv, Caught
<1>. DEFINE keys == After(Keys, start_after)
            n == PageLimit(listing.limit)
<1>4. Page(Keys, start_after, listing.limit) = First(keys, n)
  BY DEF Page
<1>5. Short(First(keys, n), listing.limit) => Cardinality(First(keys, n)) < n
  BY ShortIsBelowLimit DEF QInv, Caught
<1>. HIDE DEF keys, n
<1>6. keys \in SUBSET Addr /\ n \in Nat \ {0}
  BY <1>2, <1>3 DEF keys, n
<1>7. Short(First(keys, n), listing.limit) => First(keys, n) = keys
  BY <1>5, <1>6, ShortOfKeys
<1>8. /\ First(keys, n) \subseteq keys
      /\ First(keys, n) = {} => keys = {}
      /\ \A k \in First(keys, n), j \in keys : Rank[j] <= Rank[k] => j \in First(keys, n)
  BY <1>6, FirstKeys
<1>. QED
  BY <1>1, <1>4, <1>7, <1>8 DEF keys

LEMMA NextPageKeeps ==
    ASSUME QInv, NextPage
    PROVE  QInv'
<1>. DEFINE page == Page(Keys, start_after, listing.limit)
<1>1. /\ listing # None /\ ~complete /\ Caught
      /\ listed' = listed \cup page
      /\ complete' => Short(page, listing.limit)
      /\ start_after' = IF page = {} THEN start_after ELSE Last(page)
      /\ UNCHANGED <<vars, accounts, listing, throughout>>
  BY DEF NextPage, QInv, Last
<1>2. /\ Keys \in SUBSET Addr /\ page \subseteq After(Keys, start_after)
      /\ page = {} => After(Keys, start_after) = {}
      /\ \A k \in page, j \in After(Keys, start_after) : Rank[j] <= Rank[k] => j \in page
      /\ complete' => page = After(Keys, start_after)
  BY <1>1, PageIs
<1>3. Keys' = Keys
  BY <1>1 DEF Keys, vars
<1>. HIDE DEF page
<1>4. /\ \A k \in After(Keys, start_after) : k \in Keys
      /\ \A k \in Keys : start_after = None \/ Rank[start_after] < Rank[k]
                         => k \in After(Keys, start_after)
      /\ \A k \in After(Keys, start_after) : start_after # None => Rank[start_after] < Rank[k]
  BY DEF After
<1>5. \A a \in Addr : Rank[a] \in Nat
  BY QueriesAssumption
<1>6. CASE page = {}
  <2>1. ASSUME NEW k \in throughout
        PROVE  k \in listed
    <3>1. k \in Keys /\ k \in Addr /\ k \notin After(Keys, start_after)
      BY <1>1, <1>2, <1>6 DEF Caught
    <3>2. start_after # None /\ ~(Rank[start_after] < Rank[k]) /\ start_after \in Addr
      BY <1>1, <1>4, <3>1 DEF Caught
    <3>3. Rank[k] <= Rank[start_after]
      BY <1>5, <3>1, <3>2
    <3>. QED
      BY <1>1, <3>2, <3>3 DEF Caught
  <2>2. listed' = listed /\ start_after' = start_after
    BY <1>1, <1>6
  <2>. QED
    BY <1>1, <1>3, <2>1, <2>2 DEF QInv, Caught, KeysType
<1>7. CASE page # {}
  <2>1. page \in SUBSET Addr
    BY <1>2 DEF After
  <2>2. Last(page) \in page /\ \A j \in page : Rank[j] <= Rank[Last(page)]
    BY <1>7, <2>1, LastOfPage
  <2>3. start_after' = Last(page) /\ start_after' \in Addr
    BY <1>1, <1>7, <2>1, <2>2
  <2>4. ASSUME NEW k \in listed'
        PROVE  Rank[k] <= Rank[start_after']
    <3>1. CASE k \in page
      BY <2>2, <2>3, <3>1
    <3>2. CASE k \in listed
      <4>1. start_after # None /\ Rank[k] <= Rank[start_after] /\ k \in Addr
            /\ start_after \in Addr
        BY <1>1, <3>2 DEF Caught
      <4>2. Rank[start_after] < Rank[Last(page)]
        BY <1>2, <1>4, <2>2, <4>1
      <4>. QED
        BY <1>5, <2>3, <4>1, <4>2
    <3>. QED
      BY <1>1, <3>1, <3>2
  <2>5. ASSUME NEW k \in throughout, Rank[k] <= Rank[start_after']
        PROVE  k \in listed'
    <3>1. k \in Keys /\ k \in Addr
      BY <1>1, <1>2 DEF Caught
    <3>2. CASE k \in After(Keys, start_after)
      BY <1>1, <1>2, <2>2, <2>3, <2>5, <3>2
    <3>3. CASE k \notin After(Keys, start_after)
      <4>1. start_after # None /\ ~(Rank[start_after] < Rank[k]) /\ start_after \in Addr
        BY <1>1, <1>4, <3>1, <3>3 DEF Caught
      <4>2. Rank[k] <= Rank[start_after]
        BY <1>5, <3>1, <4>1
      <4>. QED
        BY <1>1, <4>1, <4>2 DEF Caught
    <3>. QED
      BY <3>2, <3>3
  <2>6. listed' \in SUBSET Addr
    BY <1>1, <2>1 DEF Caught
  <2>7. ASSUME complete', NEW k \in throughout
        PROVE  k \in listed'
    <3>1. k \in Keys /\ k \in Addr
      BY <1>1, <1>2 DEF Caught
    <3>2. CASE k \in After(Keys, start_after)
      BY <1>1, <1>2, <2>7, <3>2
    <3>3. CASE k \notin After(Keys, start_after)
      <4>1. start_after # None /\ ~(Rank[start_after] < Rank[k]) /\ start_after \in Addr
        BY <1>1, <1>4, <3>1, <3>3 DEF Caught
      <4>2. Rank[k] <= Rank[start_after]
        BY <1>5, <3>1, <4>1
      <4>. QED
        BY <1>1, <4>1, <4>2 DEF Caught
    <3>. QED
      BY <3>2, <3>3
  <2>. QED
    BY <1>1, <1>3, <2>3, <2>4, <2>5, <2>6, <2>7, NoneIsNoListing DEF QInv, Caught, KeysType
<1>. QED
  BY <1>6, <1>7

LEMMA AskKeeps ==
    ASSUME QInv, Ask
    PROVE  QInv'
<1>1. /\ listing' \in Listings /\ start_after' = None /\ listed' = {} /\ complete' = FALSE
      /\ throughout' = KeysOf(listing', committed, accounts.saved)
      /\ UNCHANGED <<vars, accounts>>
  BY DEF Ask
<1>2. throughout' = Keys'
  BY <1>1 DEF Keys, vars
<1>. QED
  BY <1>1, <1>2 DEF QInv, Caught, KeysType

\* A step of the chain that leaves the client alone: what is no longer there is no
\* longer counted on.
LEMMA HistoryKeeps ==
    ASSUME QInv, History, KeysType'
    PROVE  QInv'
<1>1. UNCHANGED <<listing, start_after, listed, complete>>
  BY DEF History
<1>2. ASSUME listing # None
      PROVE  throughout' \subseteq throughout /\ throughout' \subseteq Keys'
  <2>1. throughout' = throughout \cap KeysOf(listing, committed', accounts'.saved)
    BY <1>2 DEF History
  <2>. QED
    BY <1>1, <2>1 DEF Keys
<1>. QED
  BY <1>1, <1>2 DEF QInv, Caught

-----------------------------------------------------------------------------
\* The entries of BALANCES.

\* Every holder has an entry, in the store at hand and in the one a failure restores.
Entered ==
    /\ \A a \in Addr : balances[a] > 0 => a \in accounts.now
    /\ \A a \in Addr : committed.balances[a] > 0 => a \in accounts.saved

\* The message of a handler touches addresses, and no other balance changes.
LEMMA TouchedIs ==
    ASSUME IInv, Execute
    PROVE  /\ Touched(Head(pending)) \in SUBSET Addr
           /\ \A a \in Addr \ Touched(Head(pending)) : balances'[a] = balances[a]
           /\ committed' = IF pending' = <<>> THEN Store' ELSE committed
<1>. DEFINE m == Head(pending)
<1>1. pending # <<>> /\ m \in Message
  BY HeadIsMessage DEF Execute, Transfer, TransferFrom, Send, SendFrom, Burn, BurnFrom,
     Mint, IncreaseAllowance, DecreaseAllowance, UpdateMinter, SetTaxMap, SetTaxAdmin,
     SetWhaleInfo, SetWhaleAdmin, Executing
<1>2. Self \in Addr /\ DOMAIN balances = Addr
  BY ChainAssumption, StoreIsSound DEF IInv, StoreSound
<1>3. committed' = IF pending' = <<>> THEN Store' ELSE committed
  BY DEF Execute, Transfer, TransferFrom, Send, SendFrom, Burn, BurnFrom,
     Mint, IncreaseAllowance, DecreaseAllowance, UpdateMinter, SetTaxMap, SetTaxAdmin,
     SetWhaleInfo, SetWhaleAdmin, Return
<1>4. CASE Transfer \/ Send
  <2>1. /\ m.op \in {"transfer", "send"} /\ m.recipient \in Addr /\ balances' = Paid(m.sender, m)
    BY <1>4 DEF Transfer, Send, TransferOk, SendOk, Executing
  <2>2. m.sender \in Addr
    BY <1>1, <2>1, MessageByOp DEF TransferMsg
  <2>3. Touched(m) = {m.sender, m.recipient, Self}
    BY <2>1 DEF Touched
  <2>4. \A a \in Addr \ {m.sender, m.recipient, Self} : balances'[a] = balances[a]
    BY <1>2, <2>1, <2>2 DEF Paid, Delivered, Credit, Debit
  <2>. QED
    BY <1>2, <1>3, <2>1, <2>2, <2>3, <2>4
<1>5. CASE TransferFrom \/ SendFrom
  <2>1. /\ m.op \in {"transfer_from", "send_from"} /\ m.recipient \in Addr /\ m.owner \in Addr
        /\ balances' = Paid(m.owner, m)
    BY <1>5 DEF TransferFrom, SendFrom, TransferFromOk, SendFromOk, Executing
  <2>2. Touched(m) = {m.owner, m.recipient, Self}
    BY <2>1 DEF Touched
  <2>3. \A a \in Addr \ {m.owner, m.recipient, Self} : balances'[a] = balances[a]
    BY <1>2, <2>1 DEF Paid, Delivered, Credit, Debit
  <2>. QED
    BY <1>2, <1>3, <2>1, <2>2, <2>3
<1>6. CASE Burn
  <2>1. m.op = "burn" /\ balances' = Debit(balances, m.sender, m.amount)
    BY <1>6 DEF Burn, Executing
  <2>2. m.sender \in Addr /\ Touched(m) = {m.sender}
    BY <1>1, <2>1, MessageByOp DEF BurnMsg, Touched
  <2>. QED
    BY <1>2, <1>3, <2>1, <2>2 DEF Debit
<1>7. CASE BurnFrom
  <2>1. m.op = "burn_from" /\ m.owner \in Addr /\ balances' = Debit(balances, m.owner, m.amount)
    BY <1>7 DEF BurnFrom, BurnFromOk, Executing
  <2>2. Touched(m) = {m.owner}
    BY <2>1 DEF Touched
  <2>. QED
    BY <1>2, <1>3, <2>1, <2>2 DEF Debit
<1>8. CASE Mint
  <2>1. m.op = "mint" /\ m.recipient \in Addr /\ balances' = Credit(balances, m.recipient, m.amount)
    BY <1>8 DEF Mint, MintOk, Executing
  <2>2. Touched(m) = {m.recipient}
    BY <2>1 DEF Touched
  <2>. QED
    BY <1>2, <1>3, <2>1, <2>2 DEF Credit
<1>9. CASE \/ IncreaseAllowance \/ DecreaseAllowance \/ UpdateMinter
           \/ SetTaxMap \/ SetTaxAdmin \/ SetWhaleInfo \/ SetWhaleAdmin
  <2>1. /\ UNCHANGED balances
        /\ m.op \in {"increase_allowance", "decrease_allowance", "update_minter", "set_tax_map",
                     "set_tax_admin", "set_whale_info", "set_whale_admin"}
    BY <1>9 DEF IncreaseAllowance, DecreaseAllowance, UpdateMinter, SetTaxMap, SetTaxAdmin,
       SetWhaleInfo, SetWhaleAdmin, Executing
  <2>2. Touched(m) = {}
    BY <2>1 DEF Touched
  <2>. QED
    BY <1>3, <2>1, <2>2
<1>. QED
  BY <1>4, <1>5, <1>6, <1>7, <1>8, <1>9 DEF Execute

\* What the chain does to the entries.
LEMMA ChainKeepsEntries ==
    ASSUME IInv, KeysType, Entered, Chain
    PROVE  KeysType' /\ Entered'
<1>1. CASE (Submit \/ NextBlock) /\ UNCHANGED <<accounts, client_vars>>
  <2>1. UNCHANGED <<balances, committed, accounts>>
    BY <1>1 DEF Submit, NextBlock, store
  <2>. QED
    BY <2>1 DEF KeysType, Entered
<1>2. CASE Receive /\ EntriesKept
  <2>1. /\ UNCHANGED balances
        /\ committed' = IF pending' = <<>> THEN Store' ELSE committed
    BY <1>2 DEF Receive, store, Return
  <2>2. accounts' = [now |-> accounts.now,
                     saved |-> IF pending' = <<>> THEN accounts.now ELSE accounts.saved]
    BY <1>2 DEF EntriesKept, KeysType
  <2>3. committed'.balances = IF pending' = <<>> THEN balances ELSE committed.balances
    BY <2>1 DEF Store
  <2>. QED
    BY <2>1, <2>2, <2>3 DEF KeysType, Entered
<1>3. CASE Execute /\ EntriesTouched
  <2>. DEFINE now == accounts.now \cup Touched(Head(pending))
  <2>1. /\ Touched(Head(pending)) \in SUBSET Addr
        /\ \A a \in Addr \ Touched(Head(pending)) : balances'[a] = balances[a]
        /\ committed' = IF pending' = <<>> THEN Store' ELSE committed
    BY <1>3, TouchedIs
  <2>2. accounts' = [now |-> now, saved |-> IF pending' = <<>> THEN now ELSE accounts.saved]
    BY <1>3 DEF EntriesTouched
  <2>3. committed'.balances = IF pending' = <<>> THEN balances' ELSE committed.balances
    BY <2>1 DEF Store
  <2>4. \A a \in Addr : balances'[a] > 0 => a \in now
    BY <2>1 DEF Entered
  <2>5. now \in SUBSET Addr
    BY <2>1 DEF KeysType
  <2>. HIDE DEF now
  <2>. QED
    BY <2>2, <2>3, <2>4, <2>5 DEF KeysType, Entered
<1>4. CASE Fail /\ accounts' = [accounts EXCEPT !.now = accounts.saved]
  <2>1. balances' = committed.balances /\ committed' = committed
    BY <1>4 DEF Fail
  <2>2. accounts' = [now |-> accounts.saved, saved |-> accounts.saved]
    BY <1>4 DEF KeysType
  <2>. QED
    BY <2>1, <2>2 DEF KeysType, Entered
<1>. QED
  BY <1>1, <1>2, <1>3, <1>4 DEF Chain

LEMMA ChainKeepsQueries ==
    ASSUME IInv, QInv, Entered, Chain
    PROVE  QInv'
<1>1. KeysType'
  BY ChainKeepsEntries DEF QInv
<1>2. CASE UNCHANGED <<accounts, client_vars>> /\ (Submit \/ NextBlock)
  <2>1. UNCHANGED <<committed, accounts, listing, start_after, listed, throughout, complete>>
    BY <1>2 DEF Submit, NextBlock, client_vars
  <2>. QED
    BY <1>1, <2>1 DEF QInv, Caught, Keys
<1>3. CASE History
  BY <1>1, <1>3, HistoryKeeps
<1>. QED
  BY <1>2, <1>3 DEF Chain

-----------------------------------------------------------------------------
\* Everything together.

LEMMA QueryNextIsNext == QueryNext => Next \/ UNCHANGED vars
BY DEF QueryNext, Chain, Ask, NextPage, Next, TxStep

LEMMA QueryInvariant == QuerySpec => [](IInv /\ QInv /\ Entered)
<1>1. QueryInit => IInv /\ QInv /\ Entered
  <2>. SUFFICES ASSUME QueryInit
                PROVE  IInv /\ QInv /\ Entered
    OBVIOUS
  <2>. DEFINE holders == {a \in Addr : balances[a] > 0}
  <2>1. IInv
    BY InitEstablishesInv DEF QueryInit
  <2>2. accounts = [now |-> holders, saved |-> holders] /\ listing = None
    BY DEF QueryInit
  <2>3. committed.balances = balances
    BY DEF QueryInit, Init, Store
  <2>. QED
    BY <2>1, <2>2, <2>3 DEF QInv, KeysType, Entered
<1>2. IInv /\ QInv /\ Entered /\ [QueryNext]_query_vars => (IInv /\ QInv /\ Entered)'
  <2>. SUFFICES ASSUME IInv, QInv, Entered, [QueryNext]_query_vars
                PROVE  IInv' /\ QInv' /\ Entered'
    OBVIOUS
  <2>1. IInv'
    <3>1. [Next]_vars
      BY QueryNextIsNext DEF query_vars
    <3>. QED
      BY <3>1, NextKeepsInv
  <2>2. CASE Chain
    <3>1. KeysType
      BY DEF QInv
    <3>2. Entered'
      BY <2>2, <3>1, ChainKeepsEntries
    <3>3. QInv'
      BY <2>2, ChainKeepsQueries
    <3>. QED
      BY <2>1, <3>2, <3>3
  <2>3. CASE Ask \/ NextPage
    <3>1. UNCHANGED <<balances, committed, accounts>>
      BY <2>3 DEF Ask, NextPage, vars, store
    <3>. QED
      BY <2>1, <2>3, <3>1, AskKeeps, NextPageKeeps DEF Entered
  <2>4. CASE UNCHANGED query_vars
    BY <2>1, <2>4 DEF QInv, KeysType, Caught, Keys, Entered, query_vars, vars, store, client_vars
  <2>. QED
    BY <2>1, <2>2, <2>3, <2>4 DEF QueryNext
<1>. QED
  BY <1>1, <1>2, PTL DEF QuerySpec

\* A complete listing (owner_allowances, spender_allowances, all_accounts, page
\* after page with start_after) has every entry that was there all the time.
THEOREM ListingMissesNothing == QuerySpec => []NothingMissed
<1>1. QInv => NothingMissed
  BY DEF QInv, Caught, NothingMissed
<1>. QED
  BY <1>1, QueryInvariant, PTL

\* No key comes twice: a page starts after the last key of the page before, also
\* when that key is gone.
THEOREM ListingRepeatsNothing == QuerySpec => NothingTwice
<1>1. QInv => (NextPage => Page(Keys, start_after, listing.limit) \cap listed = {})
  <2>. SUFFICES ASSUME QInv, NextPage,
                       NEW k \in Page(Keys, start_after, listing.limit), k \in listed
                PROVE  FALSE
    OBVIOUS
  <2>1. listing # None
    BY DEF NextPage
  <2>2. k \in After(Keys, start_after) /\ k \in Addr
    BY <2>1, PageIs DEF After
  <2>3. start_after \in Addr /\ Rank[k] <= Rank[start_after] /\ start_after # None
    BY <2>1, NoneIsNoListing DEF QInv, Caught
  <2>4. Rank[start_after] < Rank[k]
    BY <2>2, <2>3 DEF After
  <2>. QED
    BY <2>2, <2>3, <2>4, QueriesAssumption
<1>. QED
  BY <1>1, QueryInvariant, PTL DEF QuerySpec, NothingTwice

\* The addresses that may still come.
ToCome == Cardinality(After(Addr, start_after))

\* A page that is not the last one leaves fewer of them, whatever was set meanwhile.
ListingAdvances == [][NextPage => complete' \/ ToCome' < ToCome]_query_vars

\* A listing takes at most as many pages as there are addresses, and an empty one: the
\* next page (start_after, an exclusive bound) never begins where this one did, however
\* often entries are removed and set again.
THEOREM ListingGoesOn == QuerySpec => ListingAdvances
<1>1. QInv => (NextPage => complete' \/ ToCome' < ToCome)
  <2>. SUFFICES ASSUME QInv, NextPage, ~complete'
                PROVE  ToCome' < ToCome
    OBVIOUS
  <2>. DEFINE page == Page(Keys, start_after, listing.limit)
              before == After(Addr, start_after)
              after == After(Addr, Last(page))
  <2>1. /\ listing # None
        /\ page = {} => complete'
        /\ start_after' = IF page = {} THEN start_after ELSE Last(page)
    BY DEF NextPage, Last
  <2>2. page # {} /\ start_after' = Last(page)
    BY <2>1
  <2>3. page \subseteq After(Keys, start_after) /\ Keys \in SUBSET Addr
    BY <2>1, PageIs
  <2>4. page \in SUBSET Addr /\ page \subseteq before
    BY <2>3 DEF After
  <2>5. Last(page) \in page
    BY <2>2, <2>4, LastOfPage
  <2>6. Last(page) # None /\ Last(page) \in Addr
    BY <2>4, <2>5, NoneIsNoListing
  <2>. HIDE DEF page
  <2>7. after \subseteq before /\ Last(page) \in before /\ Last(page) \notin after
    <3>1. start_after \in Addr \cup {None}
      BY <2>1 DEF QInv, Caught
    <3>2. Last(page) \in before
      BY <2>4, <2>5
    <3>3. \A a \in Addr : Rank[a] \in Nat
      BY QueriesAssumption
    <3>. QED
      BY <2>6, <3>1, <3>2, <3>3 DEF After
  <2>8. IsFiniteSet(before)
    BY ChainAssumption, FS_Subset DEF After
  <2>9. /\ IsFiniteSet(after)
        /\ Cardinality(after) \in Nat /\ Cardinality(before) \in Nat
        /\ Cardinality(after) < Cardinality(before)
    <3>. HIDE DEF before, after
    <3>1. /\ IsFiniteSet(after) /\ Cardinality(after) <= Cardinality(before)
          /\ Cardinality(after) = Cardinality(before) => after = before
      BY <2>7, <2>8, FS_Subset
    <3>2. Cardinality(after) \in Nat /\ Cardinality(before) \in Nat
      BY <2>8, <3>1, FS_CardinalityType
    <3>. QED
      BY <2>7, <3>1, <3>2
  <2>. QED
    BY <2>2, <2>9 DEF ToCome
<1>. QED
  BY <1>1, QueryInvariant, PTL DEF QuerySpec, ListingAdvances

\* all_accounts knows every holder: a balance is never above 0 without an entry.
THEOREM HoldersAreListed == QuerySpec => []HoldersHaveEntries
<1>1. Entered => HoldersHaveEntries
  BY DEF Entered, HoldersHaveEntries
<1>. QED
  BY <1>1, QueryInvariant, PTL
=============================================================================
