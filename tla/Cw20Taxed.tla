----------------------------- MODULE Cw20Taxed -----------------------------
(***************************************************************************)
(* The taxed CW20 token contract (contract.rs, allowances.rs, whale.rs) on *)
(* the chain that runs it.                                                 *)
(*                                                                         *)
(* A transaction is a sequence of messages.  The chain executes one        *)
(* message at a time; the messages a handler returns in its Response run   *)
(* before whatever was pending (depth first).  So a taxed payment is       *)
(* several steps: the handler parks the tax in the contract's own balance, *)
(* the recipient contract of a Send is notified and may call the token     *)
(* again, and only then the message that forwards the tax to the proceeds  *)
(* wallet runs.  If any of them fails, the whole transaction is undone.    *)
(*                                                                         *)
(* A definition under the comment "Wrong:" is a bug the code does not have,*)
(* a variant of the definition it stands before: PROJECT.json names the    *)
(* property that notices it.                                               *)
(***************************************************************************)
EXTENDS TaxRules, Balances, Sequences

CONSTANTS
    Self,           \* the address of the token contract, env.contract.address
    Contracts,      \* other contracts, the ones that handle Cw20ReceiveMsg
    Never,          \* Expiration::Never
    Instantiations, \* the instantiate messages considered
    Txs,            \* the transactions the accounts of the chain may send
    Reactions,      \* the calls of the token a notification may lead to
    MaxReactions,   \* bound: notifications that lead to calls, per transaction
    MaxHeight       \* bound: the last block height

VARIABLES
    balances,           \* BALANCES
    token_info,         \* TOKEN_INFO: total_supply and mint
    allowances,         \* ALLOWANCES, keyed by owner, spender
    allowances_spender, \* ALLOWANCES_SPENDER, keyed by spender, owner
    tax_info,           \* TAX_INFO
    whale_info,         \* ANTI_WHALE_INFO
    pending,            \* the messages of the running transaction still to execute
    committed,          \* the store when no transaction ran last
    reactions,          \* notifications that led to calls in this transaction
    height              \* env.block

store == <<balances, token_info, allowances, allowances_spender, tax_info, whale_info>>
vars == <<store, pending, committed, reactions, height>>

-----------------------------------------------------------------------------
\* Types of the stored items and of the messages.

Uint == 0 .. MaxUint
Expiration == Nat \cup {Never}
Minter == [minter : AnyAddr, cap : Uint \cup {None}]
TokenInfo == [total_supply : Uint, mint : Minter \cup {None}]
Allowance == [allowance : Uint, expires : Expiration]
WhaleInfo == [threshold : Nat, whitelist : SUBSET AnyAddr, admin : AnyAddr]

TransferMsg == [op : {"transfer", "send"}, sender : Addr, recipient : AnyAddr, amount : Uint]
FromMsg == [op : {"transfer_from", "send_from"}, sender : Addr, owner : AnyAddr,
            recipient : AnyAddr, amount : Uint]
BurnMsg == [op : {"burn"}, sender : Addr, amount : Uint]
BurnFromMsg == [op : {"burn_from"}, sender : Addr, owner : AnyAddr, amount : Uint]
MintMsg == [op : {"mint"}, sender : Addr, recipient : AnyAddr, amount : Uint]
AllowanceMsg == [op : {"increase_allowance", "decrease_allowance"}, sender : Addr,
                 spender : AnyAddr, amount : Uint, expires : Expiration \cup {None}]
UpdateMinterMsg == [op : {"update_minter"}, sender : Addr, new_minter : AnyAddr \cup {None}]
SetTaxMapMsg == [op : {"set_tax_map"}, sender : Addr, tax_map : TaxMap \cup {None}]
SetWhaleInfoMsg == [op : {"set_whale_info"}, sender : Addr, whale_info : WhaleInfo \cup {None}]
SetAdminMsg == [op : {"set_tax_admin", "set_whale_admin"}, sender : Addr,
                admin : AnyAddr \cup {None}]

\* Cw20TaxedExecuteMsg, with the sender the chain puts beside it.
ExecuteMsg == TransferMsg \cup FromMsg \cup BurnMsg \cup BurnFromMsg \cup MintMsg
              \cup AllowanceMsg \cup UpdateMinterMsg \cup SetTaxMapMsg
              \cup SetWhaleInfoMsg \cup SetAdminMsg

\* Cw20ReceiveMsg to a contract: `from` sent it `amount` tokens.
ReceiveMsg == [op : {"receive"}, contract : Addr, from : Addr, amount : Uint]

Message == ExecuteMsg \cup ReceiveMsg

\* InstantiateMsg with its sender: the validated initial accounts, as balances.
InstantiateMsg == [creator : Addr, initial_balances : [Addr -> Uint],
                   mint : Minter \cup {None}, tax_map : TaxMap \cup {None},
                   whale_info : WhaleInfo \cup {None}]

ASSUME ChainAssumption ==
    /\ IsFiniteSet(Addr)
    /\ Self \in Addr
    /\ Contracts \subseteq Addr \ {Self}
    /\ None \notin AnyAddr
    /\ None \notin Allowance
    /\ Never \notin Nat
    /\ Never # None
    /\ MaxReactions \in Nat
    /\ MaxHeight \in Nat

\* Only the contract itself sends messages as Self.
ASSUME MessagesAssumption ==
    /\ \A i \in Instantiations : i \in InstantiateMsg
    /\ \A tx \in Txs \cup Reactions : tx \in Seq(ExecuteMsg)
    /\ \A tx \in Txs : \A i \in DOMAIN tx : tx[i].sender # Self
    /\ \A calls \in Reactions : \A i \in DOMAIN calls : calls[i].sender \in Contracts

\* The store: what a failed transaction is rolled back to.
Store == [balances |-> balances, token_info |-> token_info, allowances |-> allowances,
          allowances_spender |-> allowances_spender, tax_info |-> tax_info,
          whale_info |-> whale_info]

AllowanceMap == [Addr \X Addr -> Allowance \cup {None}]
StoreType == [balances : [Addr -> Uint], token_info : TokenInfo,
              allowances : AllowanceMap, allowances_spender : AllowanceMap,
              tax_info : TaxMap, whale_info : WhaleInfo]

-----------------------------------------------------------------------------
\* Instantiation.

\* get_cap.  The cap bounds the total supply ("hard cap on maximum tokens after
\* minting", msg.rs:95), not, as state.rs:31 puts it, how much may still be issued.
CapAllows(mint, total) == mint # None /\ mint.cap # None => total <= mint.cap

\* The checks of instantiate.  The whale info is stored without its validate.
InstantiateOk(i) ==
    /\ TotalBalance(i.initial_balances) <= MaxUint
    /\ CapAllows(i.mint, TotalBalance(i.initial_balances))
    /\ i.mint # None => i.mint.minter \in Addr
    /\ i.tax_map # None => ValidTaxMap(i.tax_map)

DefaultWhaleInfo(admin) == [threshold |-> One, whitelist |-> {}, admin |-> admin]

Init ==
    /\ \E i \in Instantiations :
          /\ InstantiateOk(i)
          /\ balances = i.initial_balances
          /\ token_info = [total_supply |-> TotalBalance(i.initial_balances), mint |-> i.mint]
          /\ tax_info = IF i.tax_map = None THEN DefaultTaxMap ELSE i.tax_map
          /\ whale_info = IF i.whale_info = None THEN DefaultWhaleInfo(i.creator)
                                                 ELSE i.whale_info
    /\ allowances = [k \in Addr \X Addr |-> None]
    /\ allowances_spender = [k \in Addr \X Addr |-> None]
    /\ committed = Store
    /\ pending = <<>>
    /\ reactions = 0
    /\ height = 0

-----------------------------------------------------------------------------
\* Payments: the four endpoints that move tokens between accounts.

\* The tax info an endpoint asks.
TaxInfoOf(m) == CASE m.op = "transfer" -> tax_info.on_transfer
                  [] m.op = "transfer_from" -> tax_info.on_transfer_from
                  [] m.op = "send" -> tax_info.on_send
                  [] m.op = "send_from" -> tax_info.on_send_from

\* Whose condition decides: send_from asks for its caller, not for the owner.
TaxedParty(m) == IF m.op = "transfer_from" THEN m.owner ELSE m.sender

TaxOk(m) == DeductTaxOk(TaxInfoOf(m), TaxedParty(m), m.recipient, m.amount)
SplitOf(m) == DeductTax(TaxInfoOf(m), TaxedParty(m), m.recipient, m.amount)

\* The balances once the payer is debited and the recipient has the net amount.
Delivered(payer, m) == Credit(Debit(balances, payer, m.amount), m.recipient, SplitOf(m).net)

\* Wrong: the tax is not credited to the contract.
PaidNotParked(payer, m) == Delivered(payer, m)

\* ... and once the tax is parked in the balance of the token contract.
Paid(payer, m) == Credit(Delivered(payer, m), Self, SplitOf(m).tax)

\* assert_no_whale: a floors the product, which must fit a Uint128.
MaxAllowed == (token_info.total_supply * whale_info.threshold) \div One
WhaleOk(a, balance) ==
    \/ a \in whale_info.whitelist
    \/ balance <= MaxAllowed /\ MaxAllowed <= MaxUint

\* The message of the token to itself that forwards a tax.
TaxMsg(to, tax) == [op |-> "transfer", sender |-> Self, recipient |-> to, amount |-> tax]

\* Wrong: the whole balance of the contract is forwarded.
ForwardAll(m) ==
    IF SplitOf(m).tax > 0
    THEN <<TaxMsg(TaxInfoOf(m).proceeds, balances[Self] + SplitOf(m).tax)>>
    ELSE <<>>

\* Wrong: a tax of zero is forwarded as well.
ForwardZero(m) == <<TaxMsg(TaxInfoOf(m).proceeds, SplitOf(m).tax)>>

\* Wrong: a tax for a wallet that is no address is not forwarded.
ForwardValid(m) ==
    IF SplitOf(m).tax > 0 /\ TaxInfoOf(m).proceeds \in Addr
    THEN <<TaxMsg(TaxInfoOf(m).proceeds, SplitOf(m).tax)>>
    ELSE <<>>

\* A tax is forwarded, a tax of zero is not.
Forward(m) ==
    IF SplitOf(m).tax > 0
    THEN <<TaxMsg(TaxInfoOf(m).proceeds, SplitOf(m).tax)>>
    ELSE <<>>

\* Wrong: the notification carries the gross amount.
NotifyGross(m) == [op |-> "receive", contract |-> m.recipient, from |-> m.sender,
                   amount |-> m.amount]

\* The message that notifies the recipient contract; its `sender` field is the
\* caller of the endpoint, also when the tokens are the owner's.
NotifyMsg(m) == [op |-> "receive", contract |-> m.recipient, from |-> m.sender,
                 amount |-> SplitOf(m).net]

\* What is checked before the tokens move; the tax is refused first.
TransferOk(m) ==
    /\ m.recipient \in Addr
    /\ TaxOk(m)
    /\ m.amount <= balances[m.sender]
    /\ WhaleOk(m.recipient, Paid(m.sender, m)[m.recipient])

\* Wrong: the payer is not asked for the amount.
SendOkUnfunded(m) ==
    /\ m.recipient \in Addr
    /\ TaxOk(m)
    /\ WhaleOk(m.recipient, Delivered(m.sender, m)[m.recipient])

\* Wrong: the balance from before the payment is compared with the limit.
SendOkStaleBalance(m) ==
    /\ m.recipient \in Addr
    /\ TaxOk(m)
    /\ m.amount <= balances[m.sender]
    /\ WhaleOk(m.recipient, balances[m.recipient])

\* Send looks for a whale before it parks the tax.
SendOk(m) ==
    /\ m.recipient \in Addr
    /\ TaxOk(m)
    /\ m.amount <= balances[m.sender]
    /\ WhaleOk(m.recipient, Delivered(m.sender, m)[m.recipient])

-----------------------------------------------------------------------------
\* Allowances: two maps, one by owner and one by spender.

\* Expiration::is_expired
IsExpired(expires) == expires # Never /\ height >= expires

\* Wrong: the expiration is not looked at.
SpendableExpired(entry, amount) == entry # None /\ amount <= entry.allowance

\* deduct_allowance, on one entry.  An entry that reaches 0 stays.
Spendable(entry, amount) ==
    /\ entry # None
    /\ ~IsExpired(entry.expires)
    /\ amount <= entry.allowance

\* deduct_allowance: each map is checked and lowered on its own.
DeductAllowanceOk(owner, spender, amount) ==
    /\ Spendable(allowances[<<owner, spender>>], amount)
    /\ Spendable(allowances_spender[<<spender, owner>>], amount)

\* Wrong: only the map by owner is lowered.
DeductAllowanceOfOwner(owner, spender, amount) ==
    /\ allowances' = [allowances EXCEPT ![<<owner, spender>>].allowance = @ - amount]
    /\ UNCHANGED allowances_spender

DeductAllowance(owner, spender, amount) ==
    /\ allowances' = [allowances EXCEPT ![<<owner, spender>>].allowance = @ - amount]
    /\ allowances_spender' =
          [allowances_spender EXCEPT ![<<spender, owner>>].allowance = @ - amount]

TransferFromOk(m) ==
    /\ m.recipient \in Addr
    /\ m.owner \in Addr
    /\ TaxOk(m)
    /\ DeductAllowanceOk(m.owner, m.sender, m.amount)
    /\ m.amount <= balances[m.owner]
    /\ WhaleOk(m.recipient, Paid(m.owner, m)[m.recipient])

SendFromOk(m) ==
    /\ m.recipient \in Addr
    /\ m.owner \in Addr
    /\ TaxOk(m)
    /\ DeductAllowanceOk(m.owner, m.sender, m.amount)
    /\ m.amount <= balances[m.owner]
    /\ WhaleOk(m.recipient, Delivered(m.owner, m)[m.recipient])

\* The entry increase_allowance starts from: what is there, or the default.
EntryOf(entry) == IF entry = None THEN [allowance |-> 0, expires |-> Never] ELSE entry

\* Wrong: without an expiration the entry never expires.
RaisedForever(entry, m) ==
    [allowance |-> EntryOf(entry).allowance + m.amount,
     expires |-> IF m.expires = None THEN Never ELSE m.expires]

\* The closure update_fn of increase_allowance, on one entry.  With a new expiration
\* what was left of an expired entry can be spent again, as part of the sum.
Raised(entry, m) ==
    [allowance |-> EntryOf(entry).allowance + m.amount,
     expires |-> IF m.expires = None THEN EntryOf(entry).expires ELSE m.expires]

ExpiresOk(m) == m.expires # None => ~IsExpired(m.expires)

IncreaseAllowanceOk(m) ==
    /\ m.spender \in Addr \ {m.sender}
    /\ ExpiresOk(m)
    /\ Raised(allowances[<<m.sender, m.spender>>], m).allowance <= MaxUint
    /\ Raised(allowances_spender[<<m.spender, m.sender>>], m).allowance <= MaxUint

\* decrease_allowance reads the entry of the owner's map only.
Lowers(m) == m.amount < allowances[<<m.sender, m.spender>>].allowance

DecreaseAllowanceOk(m) ==
    /\ m.spender \in Addr \ {m.sender}
    /\ allowances[<<m.sender, m.spender>>] # None
    /\ Lowers(m) => ExpiresOk(m)

\* The entry it saves in both maps; nothing is left to spend: no entry.
Lowered(m) ==
    LET entry == allowances[<<m.sender, m.spender>>]
    IN  IF Lowers(m)
        THEN [allowance |-> entry.allowance - m.amount,
              expires |-> IF m.expires = None THEN entry.expires ELSE m.expires]
        ELSE None

-----------------------------------------------------------------------------
\* Supply, minter, and the two policies with their admins.

BurnOk(m) == m.amount <= balances[m.sender] /\ m.amount <= token_info.total_supply

BurnFromOk(m) ==
    /\ m.owner \in Addr
    /\ DeductAllowanceOk(m.owner, m.sender, m.amount)
    /\ m.amount <= balances[m.owner]
    /\ m.amount <= token_info.total_supply

IsMinter(a) == token_info.mint # None /\ token_info.mint.minter = a

\* Wrong: the cap is compared with the supply from before the mint.
MintOkOldSupply(m) ==
    /\ IsMinter(m.sender)
    /\ token_info.total_supply + m.amount <= MaxUint
    /\ CapAllows(token_info.mint, token_info.total_supply)
    /\ m.recipient \in Addr

MintOk(m) ==
    /\ IsMinter(m.sender)
    /\ token_info.total_supply + m.amount <= MaxUint
    /\ CapAllows(token_info.mint, token_info.total_supply + m.amount)
    /\ m.recipient \in Addr

UpdateMinterOk(m) == IsMinter(m.sender) /\ m.new_minter \in Addr \cup {None}

\* Wrong: an empty admin lets everybody in.
SetTaxMapOkNoAdmin(m) ==
    /\ tax_info.admin \in {m.sender, NoAddr}
    /\ m.tax_map # None => ValidTaxMap(m.tax_map)

SetTaxMapOk(m) ==
    /\ tax_info.admin = m.sender
    /\ m.tax_map # None => ValidTaxMap(m.tax_map)

SetTaxAdminOk(m) == tax_info.admin = m.sender /\ m.admin \in Addr \cup {None}

\* Without a new value the two whale messages succeed and change nothing.
SetWhaleInfoOk(m) ==
    m.whale_info # None => m.whale_info.threshold <= One /\ whale_info.admin = m.sender

SetWhaleAdminOk(m) == m.admin # None => m.admin \in Addr /\ whale_info.admin = m.sender

-----------------------------------------------------------------------------
\* The chain: transactions, one message at a time.

Executing(op) == pending # <<>> /\ Head(pending).op = op

\* A handler returned: its messages run next, before the pending ones.  The
\* store is committed when nothing is left.  (Last conjunct of an action.)
Return(msgs) ==
    /\ pending' = msgs \o Tail(pending)
    /\ committed' = IF pending' = <<>> THEN Store' ELSE committed
    /\ UNCHANGED height

\* The message at hand does not fail.
Accepted(m) ==
    /\ m.op = "transfer" => TransferOk(m)
    /\ m.op = "transfer_from" => TransferFromOk(m)
    /\ m.op = "send" => SendOk(m)
    /\ m.op = "send_from" => SendFromOk(m)
    /\ m.op = "burn" => BurnOk(m)
    /\ m.op = "burn_from" => BurnFromOk(m)
    /\ m.op = "mint" => MintOk(m)
    /\ m.op = "increase_allowance" => IncreaseAllowanceOk(m)
    /\ m.op = "decrease_allowance" => DecreaseAllowanceOk(m)
    /\ m.op = "update_minter" => UpdateMinterOk(m)
    /\ m.op = "set_tax_map" => SetTaxMapOk(m)
    /\ m.op = "set_tax_admin" => SetTaxAdminOk(m)
    /\ m.op = "set_whale_info" => SetWhaleInfoOk(m)
    /\ m.op = "set_whale_admin" => SetWhaleAdminOk(m)

\* An account of the chain sends a transaction.
Submit ==
    /\ pending = <<>>
    /\ pending' \in Txs
    /\ reactions' = 0
    /\ UNCHANGED <<store, committed, height>>

\* A message fails, and with it the transaction: every write is undone.  The
\* handler of a notified contract may fail for reasons of its own.
Fail ==
    /\ pending # <<>>
    /\ Executing("receive") \/ ~Accepted(Head(pending))
    /\ balances' = committed.balances
    /\ token_info' = committed.token_info
    /\ allowances' = committed.allowances
    /\ allowances_spender' = committed.allowances_spender
    /\ tax_info' = committed.tax_info
    /\ whale_info' = committed.whale_info
    /\ pending' = <<>>
    /\ UNCHANGED <<committed, reactions, height>>

NextBlock ==
    /\ pending = <<>>
    /\ height < MaxHeight
    /\ height' = height + 1
    /\ UNCHANGED <<store, pending, committed, reactions>>

\* A contract handles Cw20ReceiveMsg.  It, and contracts it calls in turn, may
\* call the token, within the bound.  The message to an account that is no such
\* contract fails.
Receive ==
    LET m == Head(pending)
    IN  /\ Executing("receive")
        /\ m.contract \in Contracts
        /\ \/ reactions' = reactions /\ UNCHANGED store /\ Return(<<>>)
           \/ \E calls \in Reactions :
                 /\ reactions < MaxReactions
                 /\ reactions' = reactions + 1
                 /\ UNCHANGED store
                 /\ Return(calls)

-----------------------------------------------------------------------------
\* The endpoints.

Transfer ==
    LET m == Head(pending)
    IN  /\ Executing("transfer") /\ TransferOk(m)
        /\ balances' = Paid(m.sender, m)
        /\ UNCHANGED <<token_info, allowances, allowances_spender, tax_info, whale_info, reactions>>
        /\ Return(Forward(m))

TransferFrom ==
    LET m == Head(pending)
    IN  /\ Executing("transfer_from") /\ TransferFromOk(m)
        /\ DeductAllowance(m.owner, m.sender, m.amount)
        /\ balances' = Paid(m.owner, m)
        /\ UNCHANGED <<token_info, tax_info, whale_info, reactions>>
        /\ Return(Forward(m))

Send ==
    LET m == Head(pending)
    IN  /\ Executing("send") /\ SendOk(m)
        /\ balances' = Paid(m.sender, m)
        /\ UNCHANGED <<token_info, allowances, allowances_spender, tax_info, whale_info, reactions>>
        /\ Return(<<NotifyMsg(m)>> \o Forward(m))

SendFrom ==
    LET m == Head(pending)
    IN  /\ Executing("send_from") /\ SendFromOk(m)
        /\ DeductAllowance(m.owner, m.sender, m.amount)
        /\ balances' = Paid(m.owner, m)
        /\ UNCHANGED <<token_info, tax_info, whale_info, reactions>>
        /\ Return(<<NotifyMsg(m)>> \o Forward(m))

\* Wrong: the supply is not reduced.
BurnKeepsSupply ==
    LET m == Head(pending)
    IN  /\ Executing("burn") /\ BurnOk(m)
        /\ balances' = Debit(balances, m.sender, m.amount)
        /\ UNCHANGED <<token_info, allowances, allowances_spender, tax_info, whale_info, reactions>>
        /\ Return(<<>>)

Burn ==
    LET m == Head(pending)
    IN  /\ Executing("burn") /\ BurnOk(m)
        /\ balances' = Debit(balances, m.sender, m.amount)
        /\ token_info' = [token_info EXCEPT !.total_supply = @ - m.amount]
        /\ UNCHANGED <<allowances, allowances_spender, tax_info, whale_info, reactions>>
        /\ Return(<<>>)

BurnFrom ==
    LET m == Head(pending)
    IN  /\ Executing("burn_from") /\ BurnFromOk(m)
        /\ DeductAllowance(m.owner, m.sender, m.amount)
        /\ balances' = Debit(balances, m.owner, m.amount)
        /\ token_info' = [token_info EXCEPT !.total_supply = @ - m.amount]
        /\ UNCHANGED <<tax_info, whale_info, reactions>>
        /\ Return(<<>>)

\* Mint taxes nothing and asks no whale policy.
Mint ==
    LET m == Head(pending)
    IN  /\ Executing("mint") /\ MintOk(m)
        /\ balances' = Credit(balances, m.recipient, m.amount)
        /\ token_info' = [token_info EXCEPT !.total_supply = @ + m.amount]
        /\ UNCHANGED <<allowances, allowances_spender, tax_info, whale_info, reactions>>
        /\ Return(<<>>)

IncreaseAllowance ==
    LET m == Head(pending)
    IN  /\ Executing("increase_allowance") /\ IncreaseAllowanceOk(m)
        /\ allowances' = [allowances EXCEPT ![<<m.sender, m.spender>>] = Raised(@, m)]
        /\ allowances_spender' =
              [allowances_spender EXCEPT ![<<m.spender, m.sender>>] = Raised(@, m)]
        /\ UNCHANGED <<balances, token_info, tax_info, whale_info, reactions>>
        /\ Return(<<>>)

DecreaseAllowance ==
    LET m == Head(pending)
    IN  /\ Executing("decrease_allowance") /\ DecreaseAllowanceOk(m)
        /\ allowances' = [allowances EXCEPT ![<<m.sender, m.spender>>] = Lowered(m)]
        /\ allowances_spender' =
              [allowances_spender EXCEPT ![<<m.spender, m.sender>>] = Lowered(m)]
        /\ UNCHANGED <<balances, token_info, tax_info, whale_info, reactions>>
        /\ Return(<<>>)

\* Wrong: the new minter has no cap.
NewMintUncapped(m) ==
    IF m.new_minter = None THEN None ELSE [minter |-> m.new_minter, cap |-> None]

\* The new minter inherits the cap.
NewMint(m) ==
    IF m.new_minter = None THEN None ELSE [token_info.mint EXCEPT !.minter = m.new_minter]

UpdateMinter ==
    LET m == Head(pending)
    IN  /\ Executing("update_minter") /\ UpdateMinterOk(m)
        /\ token_info' = [token_info EXCEPT !.mint = NewMint(m)]
        /\ UNCHANGED <<balances, allowances, allowances_spender, tax_info, whale_info, reactions>>
        /\ Return(<<>>)

\* Without a map, the default one; only then the admin is kept.
NewTaxMap(m) ==
    IF m.tax_map = None THEN [DefaultTaxMap EXCEPT !.admin = tax_info.admin] ELSE m.tax_map

SetTaxMap ==
    LET m == Head(pending)
    IN  /\ Executing("set_tax_map") /\ SetTaxMapOk(m)
        /\ tax_info' = NewTaxMap(m)
        /\ UNCHANGED <<balances, token_info, allowances, allowances_spender, whale_info, reactions>>
        /\ Return(<<>>)

SetTaxAdmin ==
    LET m == Head(pending)
    IN  /\ Executing("set_tax_admin") /\ SetTaxAdminOk(m)
        /\ tax_info' = [tax_info EXCEPT !.admin = IF m.admin = None THEN NoAddr ELSE m.admin]
        /\ UNCHANGED <<balances, token_info, allowances, allowances_spender, whale_info, reactions>>
        /\ Return(<<>>)

SetWhaleInfo ==
    LET m == Head(pending)
    IN  /\ Executing("set_whale_info") /\ SetWhaleInfoOk(m)
        /\ whale_info' = IF m.whale_info = None THEN whale_info ELSE m.whale_info
        /\ UNCHANGED <<balances, token_info, allowances, allowances_spender, tax_info, reactions>>
        /\ Return(<<>>)

SetWhaleAdmin ==
    LET m == Head(pending)
    IN  /\ Executing("set_whale_admin") /\ SetWhaleAdminOk(m)
        /\ whale_info' = IF m.admin = None THEN whale_info
                                           ELSE [whale_info EXCEPT !.admin = m.admin]
        /\ UNCHANGED <<balances, token_info, allowances, allowances_spender, tax_info, reactions>>
        /\ Return(<<>>)

-----------------------------------------------------------------------------
\* execute: the dispatch of a message to its handler.
Execute ==
    \/ Transfer \/ TransferFrom \/ Send \/ SendFrom
    \/ Burn \/ BurnFrom \/ Mint
    \/ IncreaseAllowance \/ DecreaseAllowance
    \/ UpdateMinter \/ SetTaxMap \/ SetTaxAdmin \/ SetWhaleInfo \/ SetWhaleAdmin

\* One step of the running transaction.
TxStep == Execute \/ Receive \/ Fail

Next == Submit \/ NextBlock \/ TxStep

\* The chain runs a transaction to its end; it need not start another one.
Spec == Init /\ [][Next]_vars /\ WF_vars(TxStep)
-----------------------------------------------------------------------------
\* Properties.

\* Every stored item and every message keeps its type; no balance, supply or
\* allowance leaves Uint128, so none of the unchecked additions of the payment
\* handlers (contract.rs, allowances.rs: `unwrap_or_default() + tax`) overflows.
TypeOK ==
    /\ Store \in StoreType
    /\ committed \in StoreType
    /\ pending \in Seq(Message)
    /\ reactions \in 0 .. MaxReactions
    /\ height \in 0 .. MaxHeight

\* The balances add up to the total supply after every message, with taxes
\* parked in the contract, and so does what a failure rolls back to.
SupplyConserved ==
    /\ TotalBalance(balances) = token_info.total_supply
    /\ TotalBalance(committed.balances) = committed.token_info.total_supply

\* What the pending messages of the token to itself will take from its balance.
Owed(msgs) ==
    TotalBalance([i \in DOMAIN msgs |->
        IF msgs[i].op = "transfer" /\ msgs[i].sender = Self THEN msgs[i].amount ELSE 0])

\* The contract holds every tax it still has to forward, whatever a notified
\* contract did in between, so no forward fails for lack of balance.
EscrowCovered == Owed(pending) <= balances[Self]

\* Tokens that belong to the contract (not taxes in transit) never leave it:
\* forwards spend what they parked and no more, and nobody spends for it.
SelfNeverPays == [][committed'.balances[Self] >= committed.balances[Self]]_vars

\* Where nobody pays the contract itself, no transaction leaves a tax in it either: a
\* tax whose wallet is no address, or whose forward would make a whale, fails with its
\* payment.  What forwards are taxed themselves, under whichever policy, moves on, too.
NoTaxKept == [][committed'.balances[Self] = committed.balances[Self]]_vars

\* A contract is never notified of more tokens than it holds at that moment:
\* the Cw20ReceiveMsg of send and send_from carries the net amount.
NotifiedInFull ==
    Executing("receive") => Head(pending).amount <= balances[Head(pending).contract]

\* A handler lowers a balance only by what its sender asked to pay, or by what
\* an allowance of that account to the sender, not expired, loses in both maps.
Spent(map, key) ==
    IF map[key] = None \/ map'[key] = None \/ IsExpired(map[key].expires)
    THEN 0
    ELSE map[key].allowance - map'[key].allowance
AuthorizedDebit ==
    [][Execute => \A a \in Addr :
          LET m == Head(pending)
              lost == balances[a] - balances'[a]
          IN  lost > 0 =>
                 \/ m.sender = a /\ lost <= m.amount
                 \/ /\ lost <= Spent(allowances, <<a, m.sender>>)
                    /\ lost <= Spent(allowances_spender, <<m.sender, a>>)]_vars

\* An expired allowance is live again only by a message of its owner that names a new
\* expiration: not by more of it (increase_allowance keeps the old expiration then),
\* not by less, and not by the rollback of what became of it in the meantime.
Revived(map, key) ==
    /\ map[key] # None /\ IsExpired(map[key].expires)
    /\ map'[key] # None /\ ~IsExpired(map'[key].expires)
OnlyOwnerRevives ==
    [][\A owner, spender \in Addr :
          \/ Revived(allowances, <<owner, spender>>)
          \/ Revived(allowances_spender, <<spender, owner>>)
          => LET m == Head(pending)
             IN  /\ IncreaseAllowance \/ DecreaseAllowance
                 /\ m.sender = owner /\ m.spender = spender /\ m.expires # None]_vars

\* The map by spender is the map by owner, seen from the other side, although
\* increase and deduct update each from its own old value.
AllowancesMirrored ==
    \A owner, spender \in Addr :
        allowances[<<owner, spender>>] = allowances_spender[<<spender, owner>>]

\* The supply, all of it, stays within the cap of the minter, also after the minter is
\* replaced and after tokens are burned and minted again (the cap as the code reads
\* it, see CapAllows).
CapRespected == CapAllows(token_info.mint, token_info.total_supply)

\* Without mint, burn or a new policy: no account outside the whitelist ever
\* holds more than the limit, except the contract while it holds taxes; once
\* the transaction is over, not even the contract does.
NoWhale ==
    \A a \in Addr \ whale_info.whitelist :
        /\ a # Self => balances[a] <= MaxAllowed
        /\ committed.balances[a] <= MaxAllowed

\* Whatever becomes of the limit: an account that a burn or a new policy has left
\* above it gets nothing more of any payment, and nobody is paid to beyond it, but
\* for the whitelist and the taxes the contract parks.  Only a mint goes further.
WhalesStopGrowing ==
    [][Execute => \A a \in Addr \ (whale_info.whitelist \cup {Self}) :
          \/ balances'[a] <= balances[a]
          \/ balances'[a] <= MaxAllowed
          \/ balances'[a] - balances[a] = token_info'.total_supply - token_info.total_supply]_vars

\* Between two stores: without a minter there never is one again, its cap never
\* changes, and a policy without an admin is the policy for good.
RolesKept(old, new) ==
    /\ old.token_info.mint = None => new.token_info.mint = None
    /\ old.token_info.mint # None /\ new.token_info.mint # None
       => new.token_info.mint.cap = old.token_info.mint.cap
    /\ old.tax_info.admin = NoAddr => new.tax_info = old.tax_info
    /\ old.whale_info.admin = NoAddr => new.whale_info = old.whale_info

\* A role given up is given up, whatever the messages of a transaction do to the
\* roles on the way (update_minter, set_tax_map, set_tax_admin, set_whale_admin).
RenouncedForever == [][RolesKept(committed, committed')]_vars

\* What a pending message may still lead to, itself included: a notification to
\* nothing; a forward to one more forward, unless it is bound for the wallet of the
\* transfer tax already; a message of an account to a notification and a forward.
WorkOf(m) ==
    IF m.op = "receive" THEN 1
    ELSE IF m.op = "transfer" /\ m.sender = Self THEN 2 ELSE 4

AtLastForward ==
    /\ Executing("transfer")
    /\ Head(pending).sender = Self
    /\ Head(pending).recipient = tax_info.on_transfer.proceeds

WorkLeft ==
    TotalBalance([i \in DOMAIN pending |-> WorkOf(pending[i])])
    - (IF AtLastForward THEN 1 ELSE 0)

\* Each step of a transaction leaves less of it to do, unless a notified contract
\* makes calls.  So the token never keeps itself busy: forwards that are taxed, also
\* under a policy replaced on the way, use up what the payment brought in.
RunsDown == [][TxStep => reactions' > reactions \/ WorkLeft' < WorkLeft]_vars

\* A transaction ends: a tax is forwarded, and perhaps taxed on the way to one
\* proceeds wallet and forwarded to another, but not for ever.
TxEnds == pending # <<>> ~> pending = <<>>
=============================================================================
