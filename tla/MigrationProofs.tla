-------------------------- MODULE MigrationProofs --------------------------
(***************************************************************************)
(* Migration, for every set of legacy tokens, migrate messages, accounts   *)
(* and contracts, and every bound: a migrated token has everything its     *)
(* handlers load, and what held of an instantiated token holds of it.      *)
(*                                                                         *)
(* The argument: the order of versions leaves no token without policies,   *)
(* so a migration establishes IInv, and from there the handlers keep it.   *)
(***************************************************************************)
EXTENDS Migration, Cw20TaxedLedgerProofs, Cw20TaxedSafetyProofs

\* No spender sees more of an allowance than the owner granted.
WithinOwner(s) ==
    \A owner, spender \in Addr :
        Amount(s.allowances_spender[<<spender, owner>>]) <= Amount(s.allowances[<<owner, spender>>])

\* A policy without an admin is the same in both stores.
PoliciesKept(old, new) ==
    /\ old.tax_info # None /\ old.tax_info.admin = NoAddr => new.tax_info = old.tax_info
    /\ old.whale_info # None /\ old.whale_info.admin = NoAddr => new.whale_info = old.whale_info

\* What migrate finds: a sound store, but for the policies, which only some
\* versions are known to have.
Migratable ==
    /\ balances \in [Addr -> Uint]
    /\ token_info \in TokenInfo
    /\ allowances \in AllowanceMap
    /\ allowances_spender \in AllowanceMap
    /\ tax_info \in TaxMap \cup {None}
    /\ whale_info \in WhaleInfo \cup {None}
    /\ TotalBalance(balances) = token_info.total_supply
    /\ contract_info \in ContractInfo
    /\ contract_info.contract = CONTRACT_NAME /\ contract_info.version \in WithPolicies
       => tax_info \in TaxMap /\ whale_info \in WhaleInfo

\* Nothing runs: the old code does not, the new one waits for a transaction.
AtRest ==
    /\ pending = <<>> /\ committed = Store
    /\ reactions \in 0 .. MaxReactions /\ height \in 0 .. MaxHeight

\* The inductive invariant.
MInv ==
    /\ Migratable
    /\ IF contract_info = Current THEN IInv ELSE AtRest
    /\ WithinOwner(Store) /\ WithinOwner(committed)
    /\ PoliciesKept(committed, Store)

-----------------------------------------------------------------------------
\* Versions.

\* Below is the order of the four numbers, the first one that differs deciding.
LEMMA BelowIs ==
    ASSUME NEW v \in Version, NEW w \in Version
    PROVE  Below(v, w) <=> \/ v[1] < w[1]
                           \/ v[1] = w[1] /\ v[2] < w[2]
                           \/ v[1] = w[1] /\ v[2] = w[2] /\ v[3] < w[3]
                           \/ v[1] = w[1] /\ v[2] = w[2] /\ v[3] = w[3] /\ v[4] < w[4]
<1>1. \A i : i \in 1 .. 4 <=> i \in {1, 2, 3, 4}
  OBVIOUS
<1>2. /\ \A j : j \in 1 .. 1 - 1 <=> j \in {}
      /\ \A j : j \in 1 .. 2 - 1 <=> j \in {1}
      /\ \A j : j \in 1 .. 3 - 1 <=> j \in {1, 2}
      /\ \A j : j \in 1 .. 4 - 1 <=> j \in {1, 2, 3}
  OBVIOUS
<1>. DEFINE At(i) == v[i] < w[i] /\ \A j \in 1 .. i - 1 : v[j] = w[j]
<1>3. /\ At(1) <=> v[1] < w[1]
      /\ At(2) <=> v[2] < w[2] /\ v[1] = w[1]
      /\ At(3) <=> v[3] < w[3] /\ v[1] = w[1] /\ v[2] = w[2]
      /\ At(4) <=> v[4] < w[4] /\ v[1] = w[1] /\ v[2] = w[2] /\ v[3] = w[3]
  BY <1>2
<1>4. Below(v, w) <=> \E i \in 1 .. 4 : At(i)
  BY DEF Below
<1>. HIDE DEF At
<1>5. Below(v, w) <=> At(1) \/ At(2) \/ At(3) \/ At(4)
  BY <1>1, <1>4
<1>. QED
  BY <1>3, <1>5

LEMMA VersionsHere ==
    /\ CONTRACT_VERSION \in Version /\ <<1, 1, 0, 0>> \in Version
    /\ <<1, 1, 0, 2>> \in Version /\ Current \in ContractInfo
BY DEF CONTRACT_VERSION, Version, Current, ContractInfo

\* A token that migrate gives no policies runs a version that stored both.
LEMMA NoPoliciesAdded ==
    ASSUME NEW info \in ContractInfo, MigrateOk(info),
           ~Below(Normalized(info).version, <<1, 1, 0, 2>>)
    PROVE  info.contract = CONTRACT_NAME /\ info.version \in WithPolicies
<1>1. IsTaxedToken(info)
  <2>1. Below(<<1, 1, 0, 0>>, <<1, 1, 0, 2>>)
    BY VersionsHere, BelowIs
  <2>. QED
    BY <2>1 DEF Normalized
<1>2. Normalized(info) = info /\ info.contract = CONTRACT_NAME
  BY <1>1 DEF Normalized, IsTaxedToken
<1>. DEFINE v == info.version
<1>3. v \in Version
  BY DEF ContractInfo
<1>4. ~Below(v, <<1, 1, 0, 2>>) /\ ~Below(CONTRACT_VERSION, v)
  BY <1>2 DEF MigrateOk, FromOlderVersion
<1>5. /\ v[1] \in Nat /\ v[2] \in Nat /\ v[3] \in Nat /\ v[4] \in Nat
      /\ v = <<v[1], v[2], v[3], v[4]>>
  BY <1>3 DEF Version
<1>6. /\ ~(v[1] < 1) /\ ~(v[1] = 1 /\ v[2] < 1) /\ ~(v[1] = 1 /\ v[2] = 1 /\ v[3] < 0)
      /\ ~(v[1] = 1 /\ v[2] = 1 /\ v[3] = 0 /\ v[4] < 2)
  BY <1>3, <1>4, VersionsHere, BelowIs
<1>7. /\ ~(1 < v[1]) /\ ~(1 = v[1] /\ 1 < v[2]) /\ ~(1 = v[1] /\ 1 = v[2] /\ 0 < v[3])
      /\ ~(1 = v[1] /\ 1 = v[2] /\ 0 = v[3] /\ 4 < v[4])
  BY <1>3, <1>4, VersionsHere, BelowIs DEF CONTRACT_VERSION
<1>8. v[1] = 1 /\ v[2] = 1 /\ v[3] = 0 /\ v[4] \in 2 .. 4
  BY <1>5, <1>6, <1>7
<1>9. v = <<1, 1, 0, v[4]>>
  BY <1>5, <1>8
<1>. QED
  BY <1>2, <1>8, <1>9 DEF WithPolicies

-----------------------------------------------------------------------------
\* The migration.

LEMMA OrElseType ==
    ASSUME NEW S, NEW item \in S \cup {None}, NEW default \in S
    PROVE  OrElse(item, default) \in S
BY DEF OrElse

LEMMA SpendersOfType ==
    ASSUME NEW map \in AllowanceMap
    PROVE  SpendersOf(map) \in AllowanceMap
BY DEF AllowanceMap, SpendersOf

\* A migrated token has everything its handlers load.
LEMMA MigratedStoreIsSound ==
    ASSUME Migratable, NEW msg \in MigrateMsgs, Migrate(msg)
    PROVE  StoreSound'
<1>1. /\ msg.tax_map \in TaxMap \cup {None} /\ msg.whale_info \in WhaleInfo \cup {None}
      /\ msg.new_info # None => msg.new_info.mint \in Minter \cup {None}
  BY MigrationAssumption DEF MigrateMsg
<1>2. /\ token_info' \in TokenInfo
      /\ token_info'.total_supply = token_info.total_supply
  BY <1>1 DEF Migrate, Migratable, TokenInfo
<1>3. allowances_spender' \in AllowanceMap
  BY SpendersOfType DEF Migrate, SpendersBuilt, Migratable
<1>4. tax_info' \in TaxMap /\ whale_info' \in WhaleInfo
  <2>1. CASE Below(Normalized(contract_info).version, <<1, 1, 0, 2>>)
    <3>1. DefaultTaxMap \in TaxMap /\ DefaultWhaleInfo(NoAddr) \in WhaleInfo
      BY DefaultTaxMapType, RatesAssumption DEF DefaultWhaleInfo, WhaleInfo, AnyAddr
    <3>2. /\ OrElse(msg.tax_map, DefaultTaxMap) \in TaxMap
          /\ OrElse(msg.whale_info, DefaultWhaleInfo(NoAddr)) \in WhaleInfo
      BY <1>1, <3>1, OrElseType
    <3>. QED
      BY <2>1, <3>2, OrElseType DEF Migrate, PoliciesAdded, Migratable
  <2>2. CASE ~Below(Normalized(contract_info).version, <<1, 1, 0, 2>>)
    <3>1. contract_info.contract = CONTRACT_NAME /\ contract_info.version \in WithPolicies
      BY <2>2, NoPoliciesAdded DEF Migrate, Migratable
    <3>. QED
      BY <2>2, <3>1 DEF Migrate, PoliciesAdded, Migratable
  <2>. QED
    BY <2>1, <2>2
<1>. QED
  BY <1>2, <1>3, <1>4 DEF Migrate, Migratable, StoreSound

\* A policy the token has is not replaced.
LEMMA MigrateKeepsPolicies ==
    ASSUME NEW msg \in MigrateMsgs, Migrate(msg)
    PROVE  PoliciesKept(Store, Store')
<1>1. /\ tax_info # None => tax_info' = tax_info
      /\ whale_info # None => whale_info' = whale_info
  BY DEF Migrate, PoliciesAdded, OrElse
<1>. QED
  BY <1>1 DEF PoliciesKept, Store

-----------------------------------------------------------------------------
\* Allowances.

LEMMA AmountType ==
    ASSUME NEW entry \in Allowance \cup {None}
    PROVE  /\ Amount(entry) \in Nat
           /\ entry \in Allowance => Amount(entry) = entry.allowance
BY ChainAssumption, RatesAssumption DEF Amount, EntryOf, Allowance, Uint

LEMMA StoreIsWithinOwnerNext ==
    WithinOwner(Store') <=>
        \A owner, spender \in Addr :
            Amount(allowances_spender'[<<spender, owner>>]) <= Amount(allowances'[<<owner, spender>>])
BY DEF WithinOwner, Store

\* The map by spender, made from the map by owner or without entries.
LEMMA MadeWithinOwner ==
    ASSUME NEW s, s.allowances \in AllowanceMap,
           \/ s.allowances_spender = SpendersOf(s.allowances)
           \/ s.allowances_spender = [k \in Addr \X Addr |-> None]
    PROVE  WithinOwner(s)
<1>. SUFFICES ASSUME NEW owner \in Addr, NEW spender \in Addr
              PROVE  Amount(s.allowances_spender[<<spender, owner>>])
                         <= Amount(s.allowances[<<owner, spender>>])
  BY DEF WithinOwner
<1>1. Amount(s.allowances[<<owner, spender>>]) \in Nat
  BY AmountType DEF AllowanceMap
<1>2. Amount(None) = 0
  BY DEF Amount, EntryOf
<1>3. \/ s.allowances_spender[<<spender, owner>>] = s.allowances[<<owner, spender>>]
      \/ s.allowances_spender[<<spender, owner>>] = None
  BY DEF SpendersOf
<1>. QED
  BY <1>1, <1>2, <1>3

\* One entry of each map is written.
LEMMA EntriesStayWithin ==
    ASSUME StoreSound, WithinOwner(Store), NEW owner \in Addr, NEW spender \in Addr,
           NEW x, NEW y, Amount(y) <= Amount(x),
           allowances' = [allowances EXCEPT ![<<owner, spender>>] = x],
           allowances_spender' = [allowances_spender EXCEPT ![<<spender, owner>>] = y]
    PROVE  WithinOwner(Store')
<1>1. /\ DOMAIN allowances = Addr \X Addr
      /\ DOMAIN allowances_spender = Addr \X Addr
  BY DEF StoreSound, AllowanceMap
<1>. SUFFICES ASSUME NEW o \in Addr, NEW s \in Addr
              PROVE  Amount(allowances_spender'[<<s, o>>]) <= Amount(allowances'[<<o, s>>])
  BY StoreIsWithinOwnerNext
<1>2. Amount(allowances_spender[<<s, o>>]) <= Amount(allowances[<<o, s>>])
  BY DEF WithinOwner, Store
<1>3. CASE o = owner /\ s = spender
  BY <1>1, <1>3
<1>4. CASE ~(o = owner /\ s = spender)
  <2>1. <<o, s>> # <<owner, spender>> /\ <<s, o>> # <<spender, owner>>
    BY <1>4
  <2>. QED
    BY <1>1, <1>2, <2>1
<1>. QED
  BY <1>3, <1>4

\* What is spent is taken from both entries.
LEMMA SpendingStaysWithin ==
    ASSUME IInv, WithinOwner(Store), TransferFrom \/ SendFrom \/ BurnFrom
    PROVE  WithinOwner(Store')
<1>. DEFINE m == Head(pending)
            n == m.amount
            a == allowances[<<m.owner, m.sender>>]
            b == allowances_spender[<<m.sender, m.owner>>]
            x == [a EXCEPT !.allowance = @ - n]
            y == [b EXCEPT !.allowance = @ - n]
<1>1. /\ pending # <<>> /\ m.op \in {"transfer_from", "send_from", "burn_from"}
      /\ m.owner \in Addr
      /\ DeductAllowanceOk(m.owner, m.sender, n) /\ DeductAllowance(m.owner, m.sender, n)
  BY DEF TransferFrom, SendFrom, BurnFrom, Executing, TransferFromOk, SendFromOk, BurnFromOk
<1>2. m.sender \in Addr /\ n \in Uint
  BY <1>1, HeadIsMessage, MessageByOp DEF FromMsg, BurnFromMsg
<1>3. StoreSound
  BY StoresNow
<1>4. a \in Allowance \cup {None} /\ b \in Allowance \cup {None}
  BY <1>1, <1>2, <1>3 DEF StoreSound, AllowanceMap
<1>5. /\ Spendable(a, n) /\ Spendable(b, n)
      /\ allowances' = [allowances EXCEPT ![<<m.owner, m.sender>>] = x]
      /\ allowances_spender' = [allowances_spender EXCEPT ![<<m.sender, m.owner>>] = y]
  BY <1>1 DEF DeductAllowanceOk, DeductAllowance
<1>6. Amount(b) <= Amount(a)
  BY <1>1, <1>2 DEF WithinOwner, Store
<1>. HIDE DEF a, b
<1>7. /\ a \in Allowance /\ x \in Allowance /\ x.allowance = a.allowance - n
      /\ b \in Allowance /\ y \in Allowance /\ y.allowance = b.allowance - n
  BY <1>2, <1>4, <1>5, SpentEntry
<1>. HIDE DEF x, y
<1>8. /\ Amount(x) = Amount(a) - n /\ Amount(y) = Amount(b) - n
      /\ Amount(a) \in Nat /\ Amount(b) \in Nat /\ n \in Nat
  BY <1>2, <1>7, AmountType, RatesAssumption DEF Uint
<1>9. Amount(y) <= Amount(x)
  BY <1>6, <1>8
<1>. HIDE DEF m
<1>. QED
  BY <1>1, <1>2, <1>3, <1>5, <1>9, EntriesStayWithin

\* What is granted is added to both entries; the entry that is left after a
\* decrease is written into both maps.
LEMMA GrantsStayWithin ==
    ASSUME IInv, IInv', WithinOwner(Store), IncreaseAllowance \/ DecreaseAllowance
    PROVE  WithinOwner(Store')
<1>. DEFINE m == Head(pending)
            a == allowances[<<m.sender, m.spender>>]
            b == allowances_spender[<<m.spender, m.sender>>]
<1>1. /\ pending # <<>> /\ m.op \in {"increase_allowance", "decrease_allowance"}
      /\ m.spender \in Addr
  BY DEF IncreaseAllowance, DecreaseAllowance, Executing, IncreaseAllowanceOk,
         DecreaseAllowanceOk
<1>2. m \in AllowanceMsg
  BY <1>1, HeadIsMessage, MessageByOp
<1>3. m.sender \in Addr /\ m.amount \in Uint
  BY <1>2 DEF AllowanceMsg
<1>4. StoreSound /\ StoreSound'
  BY StoresNow, StoresNext
<1>5. CASE IncreaseAllowance
  <2>. DEFINE x == Raised(a, m)
              y == Raised(b, m)
  <2>1. /\ allowances' = [allowances EXCEPT ![<<m.sender, m.spender>>] = x]
        /\ allowances_spender' = [allowances_spender EXCEPT ![<<m.spender, m.sender>>] = y]
        /\ x.allowance <= MaxUint /\ y.allowance <= MaxUint
    BY <1>5 DEF IncreaseAllowance, IncreaseAllowanceOk
  <2>2. a \in Allowance \cup {None} /\ b \in Allowance \cup {None}
    BY <1>1, <1>3, <1>4 DEF StoreSound, AllowanceMap
  <2>3. x \in Allowance /\ y \in Allowance
    BY <1>2, <2>1, <2>2, RaisedType
  <2>4. x.allowance = Amount(a) + m.amount /\ y.allowance = Amount(b) + m.amount
    BY DEF Raised, Amount
  <2>5. Amount(b) <= Amount(a)
    BY <1>1, <1>3 DEF WithinOwner, Store
  <2>. HIDE DEF x, y, a, b
  <2>6. /\ Amount(x) = Amount(a) + m.amount /\ Amount(y) = Amount(b) + m.amount
        /\ Amount(a) \in Nat /\ Amount(b) \in Nat /\ m.amount \in Nat
    BY <1>3, <2>2, <2>3, <2>4, AmountType, RatesAssumption DEF Uint
  <2>7. Amount(y) <= Amount(x)
    BY <2>5, <2>6
  <2>. HIDE DEF m
  <2>. QED
    BY <1>1, <1>3, <1>4, <2>1, <2>7, EntriesStayWithin
<1>6. CASE DecreaseAllowance
  <2>. DEFINE x == Lowered(m)
  <2>1. /\ allowances' = [allowances EXCEPT ![<<m.sender, m.spender>>] = x]
        /\ allowances_spender' = [allowances_spender EXCEPT ![<<m.spender, m.sender>>] = x]
    BY <1>6 DEF DecreaseAllowance
  <2>2. allowances'[<<m.sender, m.spender>>] \in Allowance \cup {None}
    BY <1>1, <1>3, <1>4 DEF StoreSound, AllowanceMap
  <2>3. allowances'[<<m.sender, m.spender>>] = x
    BY <1>1, <1>3, <1>4, <2>1 DEF StoreSound, AllowanceMap
  <2>4. Amount(x) \in Nat
    BY <2>2, <2>3, AmountType
  <2>5. Amount(x) <= Amount(x)
    BY <2>4
  <2>. HIDE DEF x, m
  <2>. QED
    BY <1>1, <1>3, <1>4, <2>1, <2>5, EntriesStayWithin
<1>. QED
  BY <1>5, <1>6

LEMMA ExecuteStaysWithin ==
    ASSUME IInv, IInv', WithinOwner(Store), Execute
    PROVE  WithinOwner(Store')
<1>1. CASE TransferFrom \/ SendFrom \/ BurnFrom
  BY <1>1, SpendingStaysWithin
<1>2. CASE IncreaseAllowance \/ DecreaseAllowance
  BY <1>2, GrantsStayWithin
<1>3. CASE \/ Transfer \/ Send \/ Burn \/ Mint \/ UpdateMinter
           \/ SetTaxMap \/ SetTaxAdmin \/ SetWhaleInfo \/ SetWhaleAdmin
  <2>1. UNCHANGED <<allowances, allowances_spender>>
    BY <1>3 DEF Transfer, Send, Burn, Mint, UpdateMinter, SetTaxMap, SetTaxAdmin,
                SetWhaleInfo, SetWhaleAdmin
  <2>. QED
    BY <2>1 DEF WithinOwner, Store
<1>. QED
  BY <1>1, <1>2, <1>3 DEF Execute

-----------------------------------------------------------------------------
\* The policies.

LEMMA PoliciesKeptReflexive == \A s : PoliciesKept(s, s)
BY DEF PoliciesKept

LEMMA PoliciesKeptTransitive ==
    ASSUME NEW r, NEW s, NEW t, PoliciesKept(r, s), PoliciesKept(s, t)
    PROVE  PoliciesKept(r, t)
BY DEF PoliciesKept

\* From a store whose map by spender is within the map by owner, and that kept
\* the policies of the committed one, to the next.
Good == WithinOwner(Store) /\ WithinOwner(committed) /\ PoliciesKept(committed, Store)

LEMMA GoodIsKept ==
    ASSUME Good, WithinOwner(Store'), PoliciesKept(Store, Store'),
           committed' \in {committed, Store'}
    PROVE  Good' /\ PoliciesKept(committed, committed')
<1>1. PoliciesKept(committed, Store')
  BY PoliciesKeptTransitive DEF Good
<1>2. CASE committed' = committed
  <2>1. PoliciesKept(committed', Store') /\ WithinOwner(committed')
    BY <1>1, <1>2 DEF Good
  <2>. QED
    BY <1>2, <2>1, PoliciesKeptReflexive DEF Good
<1>3. CASE committed' = Store'
  <2>1. /\ PoliciesKept(committed', Store') /\ WithinOwner(committed')
        /\ PoliciesKept(committed, committed')
    BY <1>1, <1>3, PoliciesKeptReflexive
  <2>. QED
    BY <2>1 DEF Good
<1>. QED
  BY <1>2, <1>3

\* The token at work.
LEMMA NextKeepsGood ==
    ASSUME IInv, IInv', Good, [Next]_vars
    PROVE  Good' /\ PoliciesKept(committed, committed')
<1>1. CASE Execute
  <2>1. WithinOwner(Store')
    BY <1>1, ExecuteStaysWithin DEF Good
  <2>2. PoliciesKept(Store, Store')
    BY <1>1, ExecuteKeepsPolicies DEF PoliciesKept, Store
  <2>3. committed' \in {committed, Store'}
    BY <1>1 DEF Execute, Transfer, TransferFrom, Send, SendFrom, Burn, BurnFrom, Mint,
       IncreaseAllowance, DecreaseAllowance, UpdateMinter, SetTaxMap, SetTaxAdmin,
       SetWhaleInfo, SetWhaleAdmin, Return
  <2>. QED
    BY <2>1, <2>2, <2>3, GoodIsKept
<1>2. CASE Fail
  <2>1. Store' = committed /\ committed' = committed
    BY <1>2 DEF Fail, Store, IInv, Sound, StoreType
  <2>2. WithinOwner(Store') /\ WithinOwner(committed') /\ PoliciesKept(committed', Store')
    BY <2>1, PoliciesKeptReflexive DEF Good
  <2>. QED
    BY <2>1, <2>2, PoliciesKeptReflexive DEF Good
<1>3. CASE Submit \/ NextBlock \/ Receive \/ UNCHANGED vars
  <2>1. Store' = Store /\ committed' \in {committed, Store'}
    BY <1>3 DEF Submit, NextBlock, Receive, Return, vars, store, Store
  <2>2. WithinOwner(Store') /\ PoliciesKept(Store, Store')
    BY <2>1, PoliciesKeptReflexive DEF Good
  <2>. QED
    BY <2>1, <2>2, GoodIsKept
<1>. QED
  BY <1>1, <1>2, <1>3 DEF Next, TxStep

-----------------------------------------------------------------------------
\* The invariant.

LEMMA SoundIsMigratable ==
    ASSUME IInv, contract_info \in ContractInfo
    PROVE  Migratable
BY StoresNow DEF Migratable, StoreSound

LEMMA SoundIsMigratableNext ==
    ASSUME IInv', contract_info' \in ContractInfo
    PROVE  Migratable'
BY StoresNext DEF Migratable, StoreSound

LEMMA MigrateKeepsMInv ==
    ASSUME MInv, NEW msg \in MigrateMsgs, Migrate(msg)
    PROVE  MInv' /\ PoliciesKept(committed, committed')
<1>1. StoreSound'
  BY MigratedStoreIsSound DEF MInv
<1>2. /\ pending' = <<>> /\ committed' = Store' /\ contract_info' = Current
      /\ reactions' = reactions /\ height' = height
  BY DEF Migrate
<1>3. reactions \in 0 .. MaxReactions /\ height \in 0 .. MaxHeight
  BY DEF MInv, AtRest, IInv
<1>4. IInv'
  BY <1>1, <1>2, <1>3, EmptySeq, StoreIsSoundNext DEF IInv
<1>5. Migratable'
  BY <1>2, <1>4, VersionsHere, SoundIsMigratableNext
<1>6. WithinOwner(Store')
  <2>1. CASE UNCHANGED <<allowances, allowances_spender>>
    BY <2>1 DEF MInv, WithinOwner, Store
  <2>2. CASE UNCHANGED allowances /\ allowances_spender' = SpendersOf(allowances)
    <3>1. Store'.allowances \in AllowanceMap
          /\ Store'.allowances_spender = SpendersOf(Store'.allowances)
      BY <1>1, <2>2 DEF Store, StoreSound
    <3>. QED
      BY <3>1, MadeWithinOwner
  <2>. QED
    BY <2>1, <2>2 DEF Migrate, SpendersBuilt
<1>7. PoliciesKept(committed, Store')
  BY MigrateKeepsPolicies, PoliciesKeptTransitive DEF MInv
<1>. QED
  BY <1>2, <1>4, <1>5, <1>6, <1>7, PoliciesKeptReflexive DEF MInv

LEMMA WorkKeepsMInv ==
    ASSUME MInv, contract_info = Current, contract_info' = Current, [Next]_vars
    PROVE  IInv /\ IInv' /\ MInv' /\ PoliciesKept(committed, committed')
<1>1. IInv /\ IInv' /\ Good
  BY NextKeepsInv DEF MInv, Good
<1>2. Migratable'
  BY <1>1, VersionsHere, SoundIsMigratableNext
<1>3. Good' /\ PoliciesKept(committed, committed')
  BY <1>1, NextKeepsGood
<1>. QED
  BY <1>1, <1>2, <1>3 DEF MInv, Good

LEMMA RestKeepsMInv ==
    ASSUME MInv, UNCHANGED migration_vars
    PROVE  MInv' /\ PoliciesKept(committed, committed')
<1>1. CASE contract_info = Current
  BY <1>1, WorkKeepsMInv DEF migration_vars
<1>2. CASE contract_info # Current
  <2>1. Store' = Store /\ committed' = committed /\ contract_info' = contract_info
    BY DEF migration_vars, vars, store, Store
  <2>2. Migratable' /\ AtRest'
    BY <1>2, <2>1 DEF MInv, Migratable, AtRest, migration_vars, vars, store
  <2>3. WithinOwner(Store') /\ WithinOwner(committed') /\ PoliciesKept(committed', Store')
    BY <2>1 DEF MInv
  <2>. QED
    BY <1>2, <2>1, <2>2, <2>3, PoliciesKeptReflexive DEF MInv
<1>. QED
  BY <1>1, <1>2

LEMMA StepKeepsMInv ==
    ASSUME MInv, [MigrationNext]_migration_vars
    PROVE  MInv' /\ PoliciesKept(committed, committed')
<1>1. CASE contract_info = Current /\ Next /\ UNCHANGED contract_info
  BY <1>1, WorkKeepsMInv
<1>. QED
  BY <1>1, MigrateKeepsMInv, RestKeepsMInv DEF MigrationNext

\* A token of old code that kept its types, and of the current one.
LEMMA LegacyEstablishesMInv ==
    ASSUME NEW t \in LegacyTokens,
           contract_info = t.contract_info, balances = t.balances,
           token_info = [total_supply |-> TotalBalance(t.balances), mint |-> t.mint],
           allowances = t.allowances,
           allowances_spender = IF KeepsSpenders(t.contract_info)
                                THEN SpendersOf(t.allowances)
                                ELSE [k \in Addr \X Addr |-> None],
           tax_info = t.tax_info, whale_info = t.whale_info,
           committed = Store, pending = <<>>, reactions = 0, height = 0
    PROVE  MInv
<1>1. /\ t.contract_info \in ContractInfo /\ t.balances \in [Addr -> Uint]
      /\ t.mint \in Minter \cup {None} /\ t.allowances \in AllowanceMap
      /\ t.tax_info \in TaxMap \cup {None} /\ t.whale_info \in WhaleInfo \cup {None}
      /\ TotalBalance(t.balances) <= MaxUint
      /\ t.contract_info.contract = CONTRACT_NAME /\ t.contract_info.version \in WithPolicies
         => t.tax_info # None /\ t.whale_info # None
  BY MigrationAssumption DEF LegacyToken
<1>2. TotalBalance(t.balances) \in Uint
  <2>1. IsFiniteSet(Addr) /\ MaxUint \in Nat
    BY ChainAssumption, RatesAssumption
  <2>2. t.balances \in [Addr -> 0 .. MaxUint]
    BY <1>1 DEF Uint
  <2>3. TotalBalance(t.balances) \in Nat
    BY <2>1, <2>2, UnitsFinite, FS_CardinalityType DEF TotalBalance
  <2>. QED
    BY <1>1, <2>3, RatesAssumption DEF Uint
<1>3. allowances_spender \in AllowanceMap
  <2>1. [k \in Addr \X Addr |-> None] \in AllowanceMap
    BY DEF AllowanceMap
  <2>. QED
    BY <1>1, <2>1, SpendersOfType
<1>4. Migratable
  BY <1>1, <1>2, <1>3 DEF Migratable, TokenInfo
<1>5. AtRest
  BY ChainAssumption DEF AtRest
<1>6. contract_info = Current => IInv
  <2>. SUFFICES ASSUME contract_info = Current
                PROVE  IInv
    OBVIOUS
  <2>1. CONTRACT_VERSION \in WithPolicies
    BY DEF CONTRACT_VERSION, WithPolicies
  <2>2. tax_info \in TaxMap /\ whale_info \in WhaleInfo
    BY <1>4, <2>1 DEF Migratable, Current
  <2>3. Sound(Store)
    BY <1>4, <2>2, StoreIsSound DEF Migratable, StoreSound
  <2>. QED
    BY <1>5, <2>3, EmptySeq DEF IInv, AtRest
<1>7. WithinOwner(Store)
  <2>1. /\ Store.allowances \in AllowanceMap
        /\ \/ Store.allowances_spender = SpendersOf(Store.allowances)
           \/ Store.allowances_spender = [k \in Addr \X Addr |-> None]
    BY <1>1 DEF Store
  <2>. QED
    BY <2>1, MadeWithinOwner
<1>. QED
  BY <1>4, <1>5, <1>6, <1>7, PoliciesKeptReflexive DEF MInv, AtRest

LEMMA InitEstablishesMInv == MigrationInit => MInv
<1>1. ASSUME Init, contract_info = Current
      PROVE  MInv
  <2>1. IInv /\ committed = Store
    BY <1>1, InitEstablishesInv DEF Init
  <2>2. WithinOwner(Store)
    <3>1. /\ Store.allowances \in AllowanceMap
          /\ Store.allowances_spender = [k \in Addr \X Addr |-> None]
      BY <1>1 DEF Store, Init, AllowanceMap
    <3>. QED
      BY <3>1, MadeWithinOwner
  <2>. QED
    BY <1>1, <2>1, <2>2, VersionsHere, SoundIsMigratable, PoliciesKeptReflexive DEF MInv
<1>. QED
  BY <1>1, LegacyEstablishesMInv DEF MigrationInit

LEMMA MigrationInvariant == MigrationSpec => []MInv
<1>1. MigrationInit => MInv
  BY InitEstablishesMInv
<1>2. MInv /\ [MigrationNext]_migration_vars => MInv'
  BY StepKeepsMInv
<1>. QED
  BY <1>1, <1>2, PTL DEF MigrationSpec

-----------------------------------------------------------------------------
\* The results.

\* Whatever code a token ran and whichever policies its store or the message brought:
\* once migrated it has everything its handlers load, within its type (migrate_v1).
THEOREM MigratedTokensAreComplete == MigrationSpec => []MigratedTypeOK
<1>1. MInv => MigratedTypeOK
  BY InvIsTypeAndSupply DEF MInv, Migratable, MigratedTypeOK
<1>. QED
  BY <1>1, MigrationInvariant, PTL

\* A migration neither creates tokens nor destroys any: what the old code left adds
\* up, and it does so after every message and every further migration.
THEOREM MigratedSupplyIsConserved == MigrationSpec => []SupplyConserved
<1>1. MInv => SupplyConserved
  <2>. SUFFICES ASSUME MInv
                PROVE  SupplyConserved
    OBVIOUS
  <2>1. CASE contract_info = Current
    BY <2>1, InvIsTypeAndSupply DEF MInv
  <2>2. CASE contract_info # Current
    BY <2>2 DEF MInv, Migratable, AtRest, Store, SupplyConserved
  <2>. QED
    BY <2>1, <2>2
<1>. QED
  BY <1>1, MigrationInvariant, PTL

\* The two allowance maps may differ after a migration, but only to the side of the
\* owner: no spender ever sees more than was granted (allowances.rs).
THEOREM SpendersSeeNoMore == MigrationSpec => []SpenderWithinOwner
<1>1. MInv => SpenderWithinOwner
  BY DEF MInv, WithinOwner, Store, SpenderWithinOwner
<1>. QED
  BY <1>1, MigrationInvariant, PTL

\* A policy without an admin stays, also when a later migrate message brings another
\* one (PoliciesAdded: only where there is none).
THEOREM RenouncedPoliciesStay == MigrationSpec => PoliciesStay
<1>1. MInv /\ [MigrationNext]_migration_vars
      => [/\ committed.tax_info # None /\ committed.tax_info.admin = NoAddr
             => committed'.tax_info = committed.tax_info
          /\ committed.whale_info # None /\ committed.whale_info.admin = NoAddr
             => committed'.whale_info = committed.whale_info]_migration_vars
  BY StepKeepsMInv DEF PoliciesKept
<1>. QED
  BY <1>1, MigrationInvariant, PTL DEF MigrationSpec, PoliciesStay

\* A transaction runs at a token with the current code only.
LEMMA RunningNeedsMigration ==
    ASSUME MInv, [MigrationNext]_migration_vars, pending # <<>>
    PROVE  contract_info = Current /\ IInv /\ IInv'
<1>1. contract_info = Current
  BY DEF MInv, AtRest
<1>2. [Next]_vars
  BY DEF MigrationNext, Migrate, migration_vars
<1>. QED
  BY <1>1, <1>2, NextKeepsInv DEF MInv

LEMMA ExecuteNeedsMigration ==
    ASSUME MInv, [MigrationNext]_migration_vars, Execute
    PROVE  contract_info = Current /\ IInv /\ IInv'
<1>1. pending # <<>>
  BY DEF Execute, Transfer, TransferFrom, Send, SendFrom, Burn, BurnFrom, Mint,
         IncreaseAllowance, DecreaseAllowance, UpdateMinter, SetTaxMap, SetTaxAdmin,
         SetWhaleInfo, SetWhaleAdmin, Executing
<1>. QED
  BY <1>1, RunningNeedsMigration

\* Only a mint raises the supply, and it asks the cap the last migration set.
LEMMA OnlyMintsGrow ==
    ASSUME IInv, Execute, token_info'.total_supply > token_info.total_supply
    PROVE  CapAllows(token_info'.mint, token_info'.total_supply)
<1>. DEFINE m == Head(pending)
<1>1. token_info \in TokenInfo /\ token_info.total_supply \in Nat
  BY StoresNow, RatesAssumption DEF StoreSound, TokenInfo, Uint
<1>2. CASE Mint
  <2>1. /\ token_info'.mint = token_info.mint
        /\ token_info'.total_supply = token_info.total_supply + m.amount
    BY <1>1, <1>2 DEF Mint, TokenInfo
  <2>. QED
    BY <1>2, <2>1 DEF Mint, MintOk
<1>3. CASE Burn \/ BurnFrom
  <2>1. /\ pending # <<>> /\ m.op \in {"burn", "burn_from"}
        /\ token_info' = [token_info EXCEPT !.total_supply = @ - m.amount]
    BY <1>3 DEF Burn, BurnFrom, Executing
  <2>2. m.amount \in Nat
    BY <2>1, HeadIsMessage, MessageByOp, RatesAssumption DEF BurnMsg, BurnFromMsg, Uint
  <2>3. token_info'.total_supply = token_info.total_supply - m.amount
    BY <1>1, <2>1 DEF TokenInfo
  <2>. QED
    BY <1>1, <2>2, <2>3
<1>4. CASE \/ Transfer \/ TransferFrom \/ Send \/ SendFrom \/ UpdateMinter
           \/ IncreaseAllowance \/ DecreaseAllowance
           \/ SetTaxMap \/ SetTaxAdmin \/ SetWhaleInfo \/ SetWhaleAdmin
  <2>1. token_info'.total_supply = token_info.total_supply
    BY <1>1, <1>4 DEF Transfer, TransferFrom, Send, SendFrom, IncreaseAllowance,
       DecreaseAllowance, UpdateMinter, SetTaxMap, SetTaxAdmin, SetWhaleInfo, SetWhaleAdmin,
       TokenInfo
  <2>. QED
    BY <1>1, <2>1
<1>. QED
  BY <1>2, <1>3, <1>4 DEF Execute

\* Though a migration replaces minter and cap without a look at the supply, no mint
\* takes the supply beyond the cap of the moment (execute_mint compares all of it, where
\* state.rs:31 speaks of the tokens still to be issued).
THEOREM MigratedSupplyGrowsWithinCap == MigrationSpec => GrowsWithinCap
<1>1. MInv /\ [MigrationNext]_migration_vars
      => [Execute /\ token_info'.total_supply > token_info.total_supply
          => CapAllows(token_info'.mint, token_info'.total_supply)]_migration_vars
  BY ExecuteNeedsMigration, OnlyMintsGrow
<1>. QED
  BY <1>1, MigrationInvariant, PTL DEF MigrationSpec, GrowsWithinCap

\* A migrated token, too, takes tokens only from who asked or from an allowance in
\* both maps, also where the maps differ (deduct_allowance).
THEOREM MigratedDebitsAreAuthorized == MigrationSpec => AuthorizedDebit
<1>1. MInv /\ [MigrationNext]_migration_vars => (Execute => Authorized)
  BY ExecuteNeedsMigration, ExecuteIsAuthorized
<1>2. MigrationSpec => [][Execute => Authorized]_vars
  BY <1>1, MigrationInvariant, PTL DEF MigrationSpec
<1>. QED
  BY <1>2 DEF AuthorizedDebit, Authorized

\* Nor does a migrated token pay to an account above the limit (assert_no_whale),
\* whatever its old code or the migrate message left there.
THEOREM MigratedWhalesGrowOnlyByMint == MigrationSpec => WhalesStopGrowing
<1>. DEFINE Growth == Execute =>
                         \A a \in Addr \ (whale_info.whitelist \cup {Self}) : GrowsWithin(a)
<1>1. MInv /\ [MigrationNext]_migration_vars => Growth
  BY ExecuteNeedsMigration, HandlersGrowWithin
<1>2. MigrationSpec => [][Growth]_vars
  BY <1>1, MigrationInvariant, PTL DEF MigrationSpec
<1>. QED
  BY <1>2 DEF WhalesStopGrowing, GrowsWithin

\* The transactions of a migrated token run down as well, under any tax map that its old
\* code or the migrate message left, which nobody has validated.
THEOREM MigratedTransactionsRunDown == MigrationSpec => RunsDown
<1>. DEFINE Lower == TxStep => reactions' > reactions \/ WorkLeft' < WorkLeft
<1>1. MInv /\ [MigrationNext]_migration_vars => Lower
  <2>. SUFFICES ASSUME MInv, [MigrationNext]_migration_vars, TxStep
                PROVE  reactions' > reactions \/ WorkLeft' < WorkLeft
    OBVIOUS
  <2>1. IInv /\ IInv'
    <3>1. CASE Execute
      BY <3>1, ExecuteNeedsMigration
    <3>2. CASE Receive \/ Fail
      <4>1. pending # <<>>
        BY <3>2 DEF Receive, Fail, Executing
      <4>. QED
        BY <4>1, RunningNeedsMigration
    <3>. QED
      BY <3>1, <3>2 DEF TxStep
  <2>. QED
    BY <2>1, StepsRunDown
<1>2. MigrationSpec => [][Lower]_vars
  BY <1>1, MigrationInvariant, PTL DEF MigrationSpec
<1>. QED
  BY <1>2 DEF RunsDown

-----------------------------------------------------------------------------
\* The allowances by spender.

\* What migrate takes a version for is never one from before 0.14.0.
LEMMA NormalizedKeepsSpenders ==
    ASSUME NEW info \in ContractInfo
    PROVE  KeepsSpenders(Normalized(info))
<1>1. <<0, 14, 0, 0>> \in Version /\ <<1, 1, 0, 0>> \in Version /\ info.version \in Version
  BY DEF Version, ContractInfo
<1>2. CASE IsTaxedToken(info)
  <2>. DEFINE v == info.version
  <2>1. ~Below(v, <<1, 1, 0, 0>>) /\ Normalized(info) = info
    BY <1>2 DEF IsTaxedToken, Normalized
  <2>2. v[1] \in Nat
    BY <1>1 DEF Version
  <2>3. ~(v[1] < 1)
    BY <1>1, <2>1, BelowIs
  <2>4. ~(v[1] < 0) /\ v[1] # 0
    BY <2>2, <2>3
  <2>5. ~Below(v, <<0, 14, 0, 0>>)
    BY <1>1, <2>4, BelowIs
  <2>. QED
    BY <2>1, <2>5 DEF KeepsSpenders
<1>3. CASE ~IsTaxedToken(info)
  <2>1. Normalized(info).version = <<1, 1, 0, 0>>
    BY <1>3 DEF Normalized
  <2>2. ~Below(<<1, 1, 0, 0>>, <<0, 14, 0, 0>>)
    BY <1>1, BelowIs
  <2>. QED
    BY <2>1, <2>2 DEF KeepsSpenders
<1>. QED
  BY <1>2, <1>3

\* No migration builds the map by spender, whatever name and version the token has:
\* ensure_known_upgrade_path answers with at least 1.1.0, so the condition
\* `version < 0.14.0` of migrate is never true.  What a factory token's owners have
\* granted stays out of the spenders' reach (SpendersSeeNoMore: it is never more).
THEOREM MigrationBuildsNoSpenders ==
    MigrationSpec => [][(\E msg \in MigrateMsgs : Migrate(msg))
                        => allowances_spender' = allowances_spender]_migration_vars
<1>1. MInv => ((\E msg \in MigrateMsgs : Migrate(msg))
               => allowances_spender' = allowances_spender)
  BY NormalizedKeepsSpenders DEF MInv, Migratable, Migrate, SpendersBuilt
<1>. QED
  BY <1>1, MigrationInvariant, PTL DEF MigrationSpec

-----------------------------------------------------------------------------
\* The taxes in transit of a migrated token.  They are safe unless the old code had
\* granted allowances of its own tokens, which this code never does.
OldCodeGrantedNothing == \A t \in LegacyTokens, p \in Addr : t.allowances[<<Self, p>>] = None

LEMMA ContractHolds ==
    ASSUME MInv
    PROVE  balances[Self] \in Nat /\ committed.balances[Self] \in Nat
<1>1. CASE contract_info = Current
  BY <1>1, StoresNow DEF MInv
<1>2. CASE contract_info # Current
  BY <1>2, ChainAssumption, RatesAssumption DEF MInv, Migratable, AtRest, Store, Uint
<1>. QED
  BY <1>1, <1>2

LEMMA AtRestEscrow ==
    ASSUME MInv, pending = <<>>, committed = Store, NoGrants(Store)
    PROVE  EInv
<1>1. Queued(pending, balances) /\ Owed(pending) = 0
  BY OwedNone DEF Queued
<1>2. committed.balances = balances
  BY DEF Store
<1>. QED
  BY <1>1, <1>2, ContractHolds DEF EInv

LEMMA MigrationStartsEscrow ==
    ASSUME OldCodeGrantedNothing, MInv, MigrationInit
    PROVE  EInv
<1>1. CASE Init
  BY <1>1, InitEstablishesEscrow
<1>2. CASE ~Init
  <2>1. PICK t \in LegacyTokens :
            /\ allowances = t.allowances
            /\ allowances_spender = IF KeepsSpenders(t.contract_info)
                                    THEN SpendersOf(t.allowances)
                                    ELSE [k \in Addr \X Addr |-> None]
    BY <1>2 DEF MigrationInit
  <2>2. pending = <<>> /\ committed = Store
    BY <1>2 DEF MigrationInit
  <2>3. NoGrants(Store)
    BY <2>1, NoGrantsNow, ChainAssumption DEF OldCodeGrantedNothing, SpendersOf
  <2>. QED
    BY <2>2, <2>3, AtRestEscrow
<1>. QED
  BY <1>1, <1>2

LEMMA MigrateKeepsEscrow ==
    ASSUME MInv, EInv, NEW msg \in MigrateMsgs, Migrate(msg)
    PROVE  Keeps
<1>1. /\ pending = <<>> /\ pending' = <<>> /\ committed' = Store'
      /\ balances' = balances /\ allowances' = allowances
      /\ allowances_spender' \in {allowances_spender, SpendersOf(allowances)}
  BY DEF Migrate, SpendersBuilt
<1>2. Owed(pending) = 0 /\ Owed(pending') = 0
  BY <1>1, OwedNone
<1>3. committed'.balances[Self] = balances[Self]
  BY <1>1 DEF Store
<1>4. committed.balances[Self] <= balances[Self]
  BY <1>2, ContractHolds DEF EInv
<1>5. NoGrants(Store')
  BY <1>1, NoGrantsNow, NoGrantsNext, ChainAssumption DEF EInv, SpendersOf
<1>6. Queued(pending', balances')
  BY <1>1 DEF Queued
<1>. QED
  BY <1>1, <1>2, <1>3, <1>4, <1>5, <1>6, ContractHolds DEF Keeps, EInv

LEMMA MigrationKeepsEscrow ==
    ASSUME MInv, EInv, [MigrationNext]_migration_vars
    PROVE  Keeps
<1>1. CASE contract_info = Current /\ contract_info' = Current /\ [Next]_vars
  BY <1>1, WorkKeepsMInv, NextKeepsEscrow
<1>2. CASE UNCHANGED migration_vars /\ contract_info # Current
  <2>1. /\ balances' = balances /\ pending' = pending /\ committed' = committed
        /\ Store' = Store
    BY <1>2 DEF migration_vars, vars, store, Store
  <2>2. Queued(pending', balances') /\ NoGrants(Store') /\ NoGrants(committed')
    BY <2>1 DEF EInv
  <2>. QED
    BY <2>1, <2>2, ContractHolds DEF Keeps, EInv
<1>. QED
  BY <1>1, <1>2, MigrateKeepsEscrow DEF MigrationNext, migration_vars

LEMMA MigrationEscrow ==
    ASSUME OldCodeGrantedNothing
    PROVE  MigrationSpec => [](MInv /\ EInv)
<1>1. MigrationInit => MInv /\ EInv
  BY InitEstablishesMInv, MigrationStartsEscrow
<1>2. MInv /\ EInv /\ [MigrationNext]_migration_vars => (MInv /\ EInv)'
  BY StepKeepsMInv, MigrationKeepsEscrow DEF Keeps
<1>. QED
  BY <1>1, <1>2, PTL DEF MigrationSpec

\* Every forward of a migrated token finds the tax it forwards.
THEOREM MigratedEscrowIsCovered ==
    ASSUME OldCodeGrantedNothing
    PROVE  MigrationSpec => []EscrowCovered
<1>1. MInv /\ EInv => EscrowCovered
  <2>. SUFFICES ASSUME MInv, EInv
                PROVE  Owed(pending) <= balances[Self]
    BY DEF EscrowCovered
  <2>1. Owed(pending) \in Nat
    <3>1. CASE contract_info = Current
      BY <3>1, StoresNow, OwedType DEF MInv
    <3>2. CASE contract_info # Current
      BY <3>2, OwedNone DEF MInv, AtRest
    <3>. QED
      BY <3>1, <3>2
  <2>. QED
    BY <2>1, ContractHolds DEF EInv
<1>. QED
  BY <1>1, MigrationEscrow, PTL

\* A contract that a migrated token notifies has what it is told of.
THEOREM MigratedNotificationsInFull ==
    ASSUME OldCodeGrantedNothing
    PROVE  MigrationSpec => []NotifiedInFull
<1>1. MInv /\ EInv => NotifiedInFull
  BY CoveredNotifications DEF MInv, AtRest, NotifiedInFull, Executing
<1>. QED
  BY <1>1, MigrationEscrow, PTL

\* Neither a migration nor a transaction after it takes tokens from the contract.
THEOREM MigratedContractPaysNothing ==
    ASSUME OldCodeGrantedNothing
    PROVE  MigrationSpec => SelfNeverPays
<1>1. MInv /\ EInv /\ [MigrationNext]_migration_vars
      => committed'.balances[Self] >= committed.balances[Self]
  BY MigrationKeepsEscrow DEF Keeps
<1>. QED
  BY <1>1, MigrationEscrow, PTL DEF MigrationSpec, SelfNeverPays

-----------------------------------------------------------------------------
\* The ledger of a migrated token.  It may begin with any sound balances, and to it a
\* migration is a step that moves nothing and ends a transaction.

LEMMA MigrationStartsLedger ==
    ASSUME MigrationInit, MInv
    PROVE  Ledger!Init
<1>1. pending = <<>> /\ committed = Store
  BY DEF MigrationInit, Init
<1>. QED
  BY <1>1, RestImplementsLedger DEF MInv, Migratable

LEMMA MigrateRests ==
    ASSUME NEW msg, Migrate(msg)
    PROVE  Ledger!Next
<1>1. /\ pending = <<>> /\ pending' = <<>> /\ balances' = balances
      /\ token_info'.total_supply = token_info.total_supply
  BY DEF Migrate
<1>2. Worth' = Worth
  BY <1>1 DEF Worth, WorthIn, OwedTo, Owed
<1>3. committed' = IF pending' = <<>> THEN Store' ELSE committed
  BY <1>1 DEF Migrate
<1>. QED
  BY <1>1, <1>2, <1>3, CommitIsContinue, SameWorthIsRest

\* Whatever code a token comes from: a holder of a migrated token, too, sees the plain
\* ledger, in which a payment and its tax are one step.
THEOREM MigratedTokensImplementLedger ==
    ASSUME OldCodeGrantedNothing
    PROVE  MigrationSpec => ImplementsLedger
<1>1. MigrationInit => Ledger!Init
  BY InitEstablishesMInv, MigrationStartsLedger
<1>2. MInv /\ EInv /\ [MigrationNext]_migration_vars => [Ledger!Next]_(Ledger!ledger_vars)
  <2>. SUFFICES ASSUME MInv, EInv, [MigrationNext]_migration_vars
                PROVE  [Ledger!Next]_(Ledger!ledger_vars)
    OBVIOUS
  <2>1. CASE contract_info = Current /\ [Next]_vars
    <3>1. IInv /\ IInv'
      BY <2>1, NextKeepsInv DEF MInv
    <3>. QED
      BY <2>1, <3>1, NextImplementsLedger
  <2>2. CASE \E msg \in MigrateMsgs : Migrate(msg)
    BY <2>2, MigrateRests
  <2>3. CASE UNCHANGED migration_vars
    BY <2>3 DEF migration_vars, vars, store, Ledger!ledger_vars
  <2>. QED
    BY <2>1, <2>2, <2>3 DEF MigrationNext
<1>. QED
  BY <1>1, <1>2, MigrationEscrow, PTL DEF MigrationSpec, ImplementsLedger, Ledger!Spec
=============================================================================
