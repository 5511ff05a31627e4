--------------------------- MODULE Cw20TaxedProofs ---------------------------
(***************************************************************************)
(* Cw20Taxed keeps its types and conserves the supply, for every set of    *)
(* addresses, transactions and contracts, and every bound.                 *)
(*                                                                         *)
(* The two need each other: a credit stays within Uint128 because no       *)
(* balance exceeds the sum of all, which is the supply; and they need the  *)
(* same of the store a failure restores.                                   *)
(***************************************************************************)
EXTENDS Cw20Taxed, AmountsProofs, SequenceTheorems

\* A store has its type and its balances add up to its supply.
Sound(s) == s \in StoreType /\ TotalBalance(s.balances) = s.token_info.total_supply

\* The inductive invariant.
IInv ==
    /\ Sound(Store)
    /\ Sound(committed)
    /\ pending \in Seq(Message)
    /\ reactions \in 0 .. MaxReactions
    /\ height \in 0 .. MaxHeight

\* Sound(Store), item by item.
StoreSound ==
    /\ balances \in [Addr -> Uint]
    /\ token_info \in TokenInfo
    /\ allowances \in AllowanceMap
    /\ allowances_spender \in AllowanceMap
    /\ tax_info \in TaxMap
    /\ whale_info \in WhaleInfo
    /\ TotalBalance(balances) = token_info.total_supply

LEMMA StoreIsSound == Sound(Store) <=> StoreSound
BY DEF Sound, Store, StoreType, StoreSound

LEMMA StoreIsSoundNext == Sound(Store') <=> StoreSound'
BY DEF Sound, Store, StoreType, StoreSound

LEMMA InvIsTypeAndSupply == IInv <=> TypeOK /\ SupplyConserved
BY DEF IInv, TypeOK, SupplyConserved, Sound, Store

\* The operation of a message says which fields it has.
LEMMA MessageByOp ==
    ASSUME NEW m \in Message
    PROVE  /\ m.op \in {"transfer", "send"} => m \in TransferMsg
           /\ m.op \in {"transfer_from", "send_from"} => m \in FromMsg
           /\ m.op = "burn" => m \in BurnMsg
           /\ m.op = "burn_from" => m \in BurnFromMsg
           /\ m.op = "mint" => m \in MintMsg
           /\ m.op \in {"increase_allowance", "decrease_allowance"} => m \in AllowanceMsg
           /\ m.op = "update_minter" => m \in UpdateMinterMsg
           /\ m.op = "set_tax_map" => m \in SetTaxMapMsg
           /\ m.op = "set_whale_info" => m \in SetWhaleInfoMsg
           /\ m.op \in {"set_tax_admin", "set_whale_admin"} => m \in SetAdminMsg
           /\ m.op = "receive" => m \in ReceiveMsg
BY DEF Message, ExecuteMsg, TransferMsg, FromMsg, BurnMsg, BurnFromMsg, MintMsg,
       AllowanceMsg, UpdateMinterMsg, SetTaxMapMsg, SetWhaleInfoMsg, SetAdminMsg, ReceiveMsg

LEMMA HeadIsMessage ==
    ASSUME IInv, pending # <<>>
    PROVE  Head(pending) \in Message /\ Tail(pending) \in Seq(Message)
BY HeadTailProperties DEF IInv

\* Two stores, each of its type.
LEMMA StoresNow ==
    ASSUME IInv
    PROVE  /\ StoreSound
           /\ balances[Self] \in Nat /\ committed.balances[Self] \in Nat
           /\ pending \in Seq(Message)
<1>1. StoreSound
  BY StoreIsSound DEF IInv
<1>2. committed.balances \in [Addr -> Uint]
  BY DEF IInv, Sound, StoreType
<1>. QED
  BY <1>1, <1>2, ChainAssumption, RatesAssumption DEF IInv, StoreSound, Uint

LEMMA StoresNext ==
    ASSUME IInv'
    PROVE  /\ StoreSound'
           /\ balances'[Self] \in Nat /\ committed'.balances[Self] \in Nat
           /\ pending' \in Seq(Message)
<1>1. StoreSound'
  BY StoreIsSoundNext DEF IInv
<1>2. committed'.balances \in [Addr -> Uint]
  BY DEF IInv, Sound, StoreType
<1>. QED
  BY <1>1, <1>2, ChainAssumption, RatesAssumption DEF IInv, StoreSound, Uint

\* A handler that leaves a sound store and returns messages keeps the invariant.
LEMMA ReturnKeepsInv ==
    ASSUME IInv, pending # <<>>, NEW msgs \in Seq(Message), Return(msgs),
           StoreSound', reactions' \in 0 .. MaxReactions
    PROVE  IInv'
<1>1. pending' \in Seq(Message)
  <2>1. Tail(pending) \in Seq(Message)
    BY HeadIsMessage
  <2>. QED
    BY <2>1, ConcatProperties DEF Return
<1>2. Sound(Store')
  BY StoreIsSoundNext
<1>3. Sound(committed')
  BY <1>2 DEF Return, IInv
<1>4. height' \in 0 .. MaxHeight
  BY DEF Return, IInv
<1>. QED
  BY <1>1, <1>2, <1>3, <1>4 DEF IInv

-----------------------------------------------------------------------------
\* Payments.

\* What CreditTotal says of any credit to b, with one instance to find at a time.
CreditsTotal(M, b) ==
    \A a \in Addr, n \in Nat : /\ Credit(b, a, n) \in [Addr -> 0 .. (M + n)]
                              /\ TotalBalance(Credit(b, a, n)) = TotalBalance(b) + n

LEMMA CreditsTotalIsTrue ==
    ASSUME IsFiniteSet(Addr), NEW M \in Nat, NEW b \in [Addr -> 0 .. M]
    PROVE  CreditsTotal(M, b)
<1>. SUFFICES ASSUME NEW a \in Addr, NEW n \in Nat
              PROVE  /\ Credit(b, a, n) \in [Addr -> 0 .. (M + n)]
                     /\ TotalBalance(Credit(b, a, n)) = TotalBalance(b) + n
  BY DEF CreditsTotal
<1>. QED
  BY ONLY IsFiniteSet(Addr), CreditTotal

\* A payment moves the gross amount: the new balances are within Uint128 and
\* their sum is the same.
LEMMA PaidSound ==
    ASSUME StoreSound, NEW payer \in Addr, NEW m, m.recipient \in Addr,
           m.amount \in Uint, m.amount <= balances[payer],
           TaxInfoOf(m) \in TaxInfo, TaxOk(m)
    PROVE  /\ Paid(payer, m) \in [Addr -> Uint]
           /\ TotalBalance(Paid(payer, m)) = TotalBalance(balances)
           /\ SplitOf(m).net \in Uint
           /\ SplitOf(m).tax \in Uint
<1>. USE ChainAssumption, RatesAssumption
<1>. DEFINE n == m.amount
            payee == m.recipient
            net == SplitOf(m).net
            tax == SplitOf(m).tax
            d == Debit(balances, payer, n)
            e == Credit(d, payee, net)
            f == Credit(e, Self, tax)
<1>1. n \in Nat /\ n <= MaxUint
  BY DEF Uint
<1>2. net \in Nat /\ tax \in Nat /\ net + tax = n
  BY <1>1, DeductTaxSplits DEF SplitOf, TaxOk
<1>3. balances \in [Addr -> 0 .. MaxUint] /\ TotalBalance(balances) \in 0 .. MaxUint
  BY DEF StoreSound, Uint, TokenInfo
<1>4. Paid(payer, m) = f
  BY DEF Paid, Delivered
<1>. HIDE DEF net, tax, n, payee
<1>5. d \in [Addr -> 0 .. MaxUint] /\ TotalBalance(d) = TotalBalance(balances) - n
  BY <1>1, <1>3, DebitTotal DEF n
<1>. HIDE DEF d
<1>6. e \in [Addr -> 0 .. (MaxUint + net)] /\ TotalBalance(e) = TotalBalance(d) + net
  <2>1. CreditsTotal(MaxUint, d)
    BY ONLY ChainAssumption, RatesAssumption, <1>5, CreditsTotalIsTrue
  <2>2. payee \in Addr
    BY DEF payee
  <2>. QED
    BY ONLY <1>2, <2>1, <2>2 DEF CreditsTotal, e
<1>. HIDE DEF e
<1>7. f \in [Addr -> 0 .. (MaxUint + net + tax)] /\ TotalBalance(f) = TotalBalance(e) + tax
  <2>1. MaxUint + net \in Nat
    BY <1>2
  <2>2. CreditsTotal(MaxUint + net, e)
    BY ONLY ChainAssumption, <2>1, <1>6, CreditsTotalIsTrue
  <2>. QED
    BY ONLY ChainAssumption, <1>2, <2>2 DEF CreditsTotal, f
<1>. HIDE DEF f
<1>8. TotalBalance(f) = TotalBalance(balances)
  BY <1>1, <1>2, <1>3, <1>5, <1>6, <1>7
<1>9. f \in [Addr -> 0 .. MaxUint]
  <2>1. MaxUint + net + tax \in Nat
    BY <1>2
  <2>. QED
    BY <1>3, <1>7, <1>8, <2>1, BoundedByTotal
<1>. QED
  BY <1>1, <1>2, <1>4, <1>8, <1>9 DEF net, tax, Uint

\* The accounts after a credit, and after a payment.
LEMMA CreditIs ==
    ASSUME NEW b \in [Addr -> Int], NEW a \in Addr, NEW n \in Nat
    PROVE  /\ Credit(b, a, n) \in [Addr -> Int]
           /\ \A c \in Addr : Credit(b, a, n)[c] = b[c] + (IF c = a THEN n ELSE 0)
           /\ \A c \in Addr : Credit(b, a, n)[c] >= b[c]
BY DEF Credit

LEMMA PaidIs ==
    ASSUME StoreSound, NEW payer \in Addr, NEW m, m.recipient \in Addr, m.amount \in Uint,
           TaxInfoOf(m) \in TaxInfo, TaxOk(m)
    PROVE  /\ SplitOf(m).net \in Nat /\ SplitOf(m).tax \in Nat
           /\ SplitOf(m).net + SplitOf(m).tax = m.amount
           /\ \A a \in Addr :
                 Paid(payer, m)[a] = balances[a] - (IF a = payer THEN m.amount ELSE 0)
                                     + (IF a = m.recipient THEN SplitOf(m).net ELSE 0)
                                     + (IF a = Self THEN SplitOf(m).tax ELSE 0)
<1>. DEFINE net == SplitOf(m).net
            tax == SplitOf(m).tax
            payee == m.recipient
            n == m.amount
            d == Debit(balances, payer, n)
            e == Credit(d, payee, net)
            f == Credit(e, Self, tax)
<1>1. n \in Nat /\ net \in Nat /\ tax \in Nat /\ net + tax = n
  BY RatesAssumption, DeductTaxSplits DEF SplitOf, TaxOk, Uint
<1>2. Paid(payer, m) = f
  BY DEF Paid, Delivered
<1>3. /\ d \in [Addr -> Int] /\ Self \in Addr /\ payee \in Addr
      /\ \A a \in Addr : d[a] = balances[a] - (IF a = payer THEN n ELSE 0)
      /\ \A a \in Addr : balances[a] \in Nat
  BY <1>1, ChainAssumption, RatesAssumption DEF Debit, StoreSound, Uint
<1>. HIDE DEF net, tax, payee, n, d
<1>4. /\ e \in [Addr -> Int]
      /\ \A a \in Addr : e[a] = d[a] + (IF a = payee THEN net ELSE 0)
  BY ONLY <1>1, <1>3, CreditIs DEF e
<1>. HIDE DEF e
<1>5. /\ f \in [Addr -> Int]
      /\ \A a \in Addr : f[a] = e[a] + (IF a = Self THEN tax ELSE 0)
  BY <1>1, <1>3, <1>4, CreditIs
<1>. HIDE DEF f
<1>6. ASSUME NEW a \in Addr
      PROVE  f[a] = balances[a] - (IF a = payer THEN n ELSE 0)
                    + (IF a = payee THEN net ELSE 0) + (IF a = Self THEN tax ELSE 0)
  BY <1>3, <1>4, <1>5
<1>. QED
  BY <1>1, <1>2, <1>6 DEF net, tax, payee, n

\* A payment takes at most the amount, and from the payer only.
LEMMA PaidAt ==
    ASSUME StoreSound, NEW payer \in Addr, NEW m, m.recipient \in Addr, m.amount \in Uint,
           TaxInfoOf(m) \in TaxInfo, TaxOk(m), m.amount <= balances[payer]
    PROVE  /\ Paid(payer, m)[m.recipient] >= SplitOf(m).net
           /\ Paid(payer, m)[Self] >= balances[Self] + SplitOf(m).tax
                                     - (IF payer = Self THEN m.amount ELSE 0)
           /\ \A a \in Addr :
                 Paid(payer, m)[a] >= balances[a] - (IF payer = a THEN m.amount ELSE 0)
<1>1. /\ SplitOf(m).net \in Nat /\ SplitOf(m).tax \in Nat /\ m.amount \in Nat
      /\ \A a \in Addr :
            Paid(payer, m)[a] = balances[a] - (IF a = payer THEN m.amount ELSE 0)
                                + (IF a = m.recipient THEN SplitOf(m).net ELSE 0)
                                + (IF a = Self THEN SplitOf(m).tax ELSE 0)
  BY PaidIs, RatesAssumption DEF Uint
<1>2. Self \in Addr /\ \A a \in Addr : balances[a] \in Nat
  BY ChainAssumption, RatesAssumption DEF StoreSound, Uint
<1>. QED
  BY <1>1, <1>2

\* The messages a payment returns are messages.
LEMMA PaymentMessages ==
    ASSUME NEW m, TaxInfoOf(m) \in TaxInfo, SplitOf(m).net \in Uint, SplitOf(m).tax \in Uint,
           m.recipient \in Addr, m.sender \in Addr
    PROVE  Forward(m) \in Seq(Message) /\ <<NotifyMsg(m)>> \o Forward(m) \in Seq(Message)
<1>1. TaxInfoOf(m).proceeds \in AnyAddr
  BY DEF TaxInfo
<1>2. TaxMsg(TaxInfoOf(m).proceeds, SplitOf(m).tax) \in Message
  <2>1. TaxMsg(TaxInfoOf(m).proceeds, SplitOf(m).tax) \in TransferMsg
    BY <1>1, ChainAssumption DEF TaxMsg, TransferMsg
  <2>. QED
    BY <2>1 DEF Message, ExecuteMsg
<1>3. NotifyMsg(m) \in Message
  <2>1. NotifyMsg(m) \in ReceiveMsg
    BY DEF NotifyMsg, ReceiveMsg
  <2>. QED
    BY <2>1 DEF Message
<1>4. Forward(m) \in Seq(Message)
  BY <1>2 DEF Forward
<1>5. <<NotifyMsg(m)>> \in Seq(Message)
  BY <1>3
<1>. QED
  BY <1>4, <1>5, ConcatProperties

\* Each endpoint asks a tax info of the stored map.
LEMMA TaxInfoType ==
    ASSUME StoreSound, NEW m, m.op \in {"transfer", "transfer_from", "send", "send_from"}
    PROVE  TaxInfoOf(m) \in TaxInfo
BY DEF StoreSound, TaxInfoOf, TaxMap

\* An allowance that is lowered by at most itself is an allowance.
LEMMA SpentEntry ==
    ASSUME NEW entry \in Allowance \cup {None}, NEW n \in Uint, Spendable(entry, n)
    PROVE  /\ entry \in Allowance
           /\ [entry EXCEPT !.allowance = @ - n] \in Allowance
           /\ [entry EXCEPT !.allowance = @ - n].allowance = entry.allowance - n
<1>1. entry \in Allowance /\ n <= entry.allowance
  BY DEF Spendable
<1>2. entry.allowance - n \in Uint
  BY <1>1, RatesAssumption DEF Allowance, Uint
<1>. QED
  BY <1>1, <1>2 DEF Allowance

LEMMA DeductAllowanceType ==
    ASSUME StoreSound, NEW owner \in Addr, NEW spender \in Addr, NEW n \in Uint,
           DeductAllowanceOk(owner, spender, n), DeductAllowance(owner, spender, n)
    PROVE  allowances' \in AllowanceMap /\ allowances_spender' \in AllowanceMap
<1>. DEFINE Lower(entry) == [entry EXCEPT !.allowance = @ - n]
<1>1. /\ allowances[<<owner, spender>>] \in Allowance \cup {None}
      /\ allowances_spender[<<spender, owner>>] \in Allowance \cup {None}
  BY DEF StoreSound, AllowanceMap
<1>2. /\ Lower(allowances[<<owner, spender>>]) \in Allowance
      /\ Lower(allowances_spender[<<spender, owner>>]) \in Allowance
  BY <1>1, SpentEntry DEF DeductAllowanceOk
<1>3. /\ allowances' = [allowances EXCEPT ![<<owner, spender>>] = Lower(@)]
      /\ allowances_spender' =
            [allowances_spender EXCEPT ![<<spender, owner>>] = Lower(@)]
  BY DEF DeductAllowance
<1>. HIDE DEF Lower
<1>. QED
  BY <1>2, <1>3 DEF StoreSound, AllowanceMap

LEMMA TransferKeepsInv == IInv /\ Transfer => IInv'
<1>. SUFFICES ASSUME IInv, Transfer
              PROVE  IInv'
  OBVIOUS
<1>. DEFINE m == Head(pending)
<1>1. pending # <<>> /\ m.op = "transfer" /\ TransferOk(m)
  BY DEF Transfer, Executing
<1>2. StoreSound
  BY StoreIsSound DEF IInv
<1>3. m.sender \in Addr /\ m.amount \in Uint
  BY <1>1, HeadIsMessage, MessageByOp DEF TransferMsg
<1>4. TaxInfoOf(m) \in TaxInfo
  BY <1>1, <1>2, TaxInfoType
<1>5. /\ Paid(m.sender, m) \in [Addr -> Uint]
      /\ TotalBalance(Paid(m.sender, m)) = TotalBalance(balances)
      /\ SplitOf(m).net \in Uint
      /\ SplitOf(m).tax \in Uint
  BY <1>1, <1>2, <1>3, <1>4, PaidSound DEF TransferOk
<1>6. Forward(m) \in Seq(Message)
  BY <1>1, <1>3, <1>4, <1>5, PaymentMessages DEF TransferOk
<1>7. StoreSound'
  BY <1>2, <1>5 DEF Transfer, StoreSound
<1>. QED
  BY <1>1, <1>6, <1>7, ReturnKeepsInv DEF Transfer, IInv
LEMMA SendKeepsInv == IInv /\ Send => IInv'
<1>. SUFFICES ASSUME IInv, Send
              PROVE  IInv'
  OBVIOUS
<1>. DEFINE m == Head(pending)
<1>1. pending # <<>> /\ m.op = "send" /\ SendOk(m)
  BY DEF Send, Executing
<1>2. StoreSound
  BY StoreIsSound DEF IInv
<1>3. m.sender \in Addr /\ m.amount \in Uint
  BY <1>1, HeadIsMessage, MessageByOp DEF TransferMsg
<1>4. TaxInfoOf(m) \in TaxInfo
  BY <1>1, <1>2, TaxInfoType
<1>5. /\ Paid(m.sender, m) \in [Addr -> Uint]
      /\ TotalBalance(Paid(m.sender, m)) = TotalBalance(balances)
      /\ SplitOf(m).net \in Uint
      /\ SplitOf(m).tax \in Uint
  BY <1>1, <1>2, <1>3, <1>4, PaidSound DEF SendOk
<1>6. <<NotifyMsg(m)>> \o Forward(m) \in Seq(Message)
  BY <1>1, <1>3, <1>4, <1>5, PaymentMessages DEF SendOk
<1>7. StoreSound'
  BY <1>2, <1>5 DEF Send, StoreSound
<1>. QED
  BY <1>1, <1>6, <1>7, ReturnKeepsInv DEF Send, IInv

LEMMA TransferFromKeepsInv == IInv /\ TransferFrom => IInv'
<1>. SUFFICES ASSUME IInv, TransferFrom
              PROVE  IInv'
  OBVIOUS
<1>. DEFINE m == Head(pending)
<1>1. pending # <<>> /\ m.op = "transfer_from" /\ TransferFromOk(m)
  BY DEF TransferFrom, Executing
<1>2. StoreSound
  BY StoreIsSound DEF IInv
<1>3. m.sender \in Addr /\ m.amount \in Uint /\ m.owner \in Addr
  BY <1>1, HeadIsMessage, MessageByOp DEF FromMsg, TransferFromOk
<1>4. TaxInfoOf(m) \in TaxInfo
  BY <1>1, <1>2, TaxInfoType
<1>5. /\ Paid(m.owner, m) \in [Addr -> Uint]
      /\ TotalBalance(Paid(m.owner, m)) = TotalBalance(balances)
      /\ SplitOf(m).net \in Uint
      /\ SplitOf(m).tax \in Uint
  BY <1>1, <1>2, <1>3, <1>4, PaidSound DEF TransferFromOk
<1>6. Forward(m) \in Seq(Message)
  BY <1>1, <1>3, <1>4, <1>5, PaymentMessages DEF TransferFromOk
<1>7. allowances' \in AllowanceMap /\ allowances_spender' \in AllowanceMap
  BY <1>1, <1>2, <1>3, DeductAllowanceType DEF TransferFromOk, TransferFrom
<1>8. StoreSound'
  BY <1>2, <1>5, <1>7 DEF TransferFrom, StoreSound
<1>. QED
  BY <1>1, <1>6, <1>8, ReturnKeepsInv DEF TransferFrom, IInv

LEMMA SendFromKeepsInv == IInv /\ SendFrom => IInv'
<1>. SUFFICES ASSUME IInv, SendFrom
              PROVE  IInv'
  OBVIOUS
<1>. DEFINE m == Head(pending)
<1>1. pending # <<>> /\ m.op = "send_from" /\ SendFromOk(m)
  BY DEF SendFrom, Executing
<1>2. StoreSound
  BY StoreIsSound DEF IInv
<1>3. m.sender \in Addr /\ m.amount \in Uint /\ m.owner \in Addr
  BY <1>1, HeadIsMessage, MessageByOp DEF FromMsg, SendFromOk
<1>4. TaxInfoOf(m) \in TaxInfo
  BY <1>1, <1>2, TaxInfoType
<1>5. /\ Paid(m.owner, m) \in [Addr -> Uint]
      /\ TotalBalance(Paid(m.owner, m)) = TotalBalance(balances)
      /\ SplitOf(m).net \in Uint
      /\ SplitOf(m).tax \in Uint
  BY <1>1, <1>2, <1>3, <1>4, PaidSound DEF SendFromOk
<1>6. <<NotifyMsg(m)>> \o Forward(m) \in Seq(Message)
  BY <1>1, <1>3, <1>4, <1>5, PaymentMessages DEF SendFromOk
<1>7. allowances' \in AllowanceMap /\ allowances_spender' \in AllowanceMap
  BY <1>1, <1>2, <1>3, DeductAllowanceType DEF SendFromOk, SendFrom
<1>8. StoreSound'
  BY <1>2, <1>5, <1>7 DEF SendFrom, StoreSound
<1>. QED
  BY <1>1, <1>6, <1>8, ReturnKeepsInv DEF SendFrom, IInv

-----------------------------------------------------------------------------
\* Supply.

\* Tokens that are burned leave the balance and the supply.
LEMMA BurnedSound ==
    ASSUME StoreSound, NEW payer \in Addr, NEW n \in Uint, n <= balances[payer],
           n <= token_info.total_supply
    PROVE  /\ Debit(balances, payer, n) \in [Addr -> Uint]
           /\ [token_info EXCEPT !.total_supply = @ - n] \in TokenInfo
           /\ TotalBalance(Debit(balances, payer, n))
                = [token_info EXCEPT !.total_supply = @ - n].total_supply
<1>1. IsFiniteSet(Addr) /\ MaxUint \in Nat
  BY ChainAssumption, RatesAssumption
<1>2. /\ balances \in [Addr -> 0 .. MaxUint] /\ n \in Nat
      /\ token_info \in TokenInfo /\ token_info.total_supply \in 0 .. MaxUint
      /\ TotalBalance(balances) = token_info.total_supply
  BY <1>1 DEF StoreSound, Uint, TokenInfo
<1>3. /\ Debit(balances, payer, n) \in [Addr -> 0 .. MaxUint]
      /\ TotalBalance(Debit(balances, payer, n)) = TotalBalance(balances) - n
  BY <1>1, <1>2, DebitTotal
<1>4. token_info.total_supply - n \in 0 .. MaxUint
  BY <1>1, <1>2
<1>5. /\ [token_info EXCEPT !.total_supply = @ - n] \in TokenInfo
      /\ [token_info EXCEPT !.total_supply = @ - n].total_supply = token_info.total_supply - n
  BY <1>2, <1>4 DEF TokenInfo, Uint
<1>. QED
  BY <1>2, <1>3, <1>5 DEF Uint

\* Tokens that are minted within Uint128 enter a balance and the supply.
LEMMA MintedSound ==
    ASSUME StoreSound, NEW a \in Addr, NEW n \in Uint,
           token_info.total_supply + n <= MaxUint
    PROVE  /\ Credit(balances, a, n) \in [Addr -> Uint]
           /\ [token_info EXCEPT !.total_supply = @ + n] \in TokenInfo
           /\ TotalBalance(Credit(balances, a, n))
                = [token_info EXCEPT !.total_supply = @ + n].total_supply
<1>1. IsFiniteSet(Addr) /\ MaxUint \in Nat
  BY ChainAssumption, RatesAssumption
<1>2. /\ balances \in [Addr -> 0 .. MaxUint] /\ n \in Nat
      /\ token_info \in TokenInfo /\ token_info.total_supply \in 0 .. MaxUint
      /\ TotalBalance(balances) = token_info.total_supply
  BY <1>1 DEF StoreSound, Uint, TokenInfo
<1>3. /\ Credit(balances, a, n) \in [Addr -> 0 .. (MaxUint + n)]
      /\ TotalBalance(Credit(balances, a, n)) = TotalBalance(balances) + n
  <2>1. balances \in [Addr -> 0 .. MaxUint] /\ n \in Nat
    BY <1>2
  <2>. QED
    BY ONLY <1>1, <2>1, a \in Addr, CreditTotal
<1>4. MaxUint + n \in Nat /\ TotalBalance(Credit(balances, a, n)) <= MaxUint
  BY <1>1, <1>2, <1>3
<1>5. Credit(balances, a, n) \in [Addr -> 0 .. MaxUint]
  BY ONLY <1>1, <1>3, <1>4, BoundedByTotal
<1>6. token_info.total_supply + n \in 0 .. MaxUint
  BY <1>1, <1>2
<1>7. /\ [token_info EXCEPT !.total_supply = @ + n] \in TokenInfo
      /\ [token_info EXCEPT !.total_supply = @ + n].total_supply = token_info.total_supply + n
  BY <1>2, <1>6 DEF TokenInfo, Uint
<1>. QED
  BY <1>2, <1>3, <1>5, <1>7 DEF Uint

\* A handler that returns no message.
LEMMA SilentReturnKeepsInv ==
    ASSUME IInv, pending # <<>>, Return(<<>>), StoreSound', reactions' = reactions
    PROVE  IInv'
<1>1. <<>> \in Seq(Message)
  BY EmptySeq
<1>2. reactions' \in 0 .. MaxReactions
  BY DEF IInv
<1>. QED
  BY <1>1, <1>2, ReturnKeepsInv

LEMMA BurnKeepsInv == IInv /\ Burn => IInv'
<1>. SUFFICES ASSUME IInv, Burn
              PROVE  IInv'
  OBVIOUS
<1>. DEFINE m == Head(pending)
<1>1. pending # <<>> /\ m.op = "burn" /\ BurnOk(m)
  BY DEF Burn, Executing
<1>2. StoreSound
  BY StoreIsSound DEF IInv
<1>3. m.sender \in Addr /\ m.amount \in Uint
  BY <1>1, HeadIsMessage, MessageByOp DEF BurnMsg
<1>4. StoreSound'
  BY <1>1, <1>2, <1>3, BurnedSound DEF Burn, BurnOk, StoreSound
<1>. QED
  BY <1>1, <1>4, SilentReturnKeepsInv DEF Burn

LEMMA BurnFromKeepsInv == IInv /\ BurnFrom => IInv'
<1>. SUFFICES ASSUME IInv, BurnFrom
              PROVE  IInv'
  OBVIOUS
<1>. DEFINE m == Head(pending)
<1>1. pending # <<>> /\ m.op = "burn_from" /\ BurnFromOk(m)
  BY DEF BurnFrom, Executing
<1>2. StoreSound
  BY StoreIsSound DEF IInv
<1>3. m.sender \in Addr /\ m.owner \in Addr /\ m.amount \in Uint
  BY <1>1, HeadIsMessage, MessageByOp DEF BurnFromMsg, BurnFromOk
<1>4. allowances' \in AllowanceMap /\ allowances_spender' \in AllowanceMap
  BY <1>1, <1>2, <1>3, DeductAllowanceType DEF BurnFromOk, BurnFrom
<1>5. StoreSound'
  BY <1>1, <1>2, <1>3, <1>4, BurnedSound DEF BurnFrom, BurnFromOk, StoreSound
<1>. QED
  BY <1>1, <1>5, SilentReturnKeepsInv DEF BurnFrom

LEMMA MintKeepsInv == IInv /\ Mint => IInv'
<1>. SUFFICES ASSUME IInv, Mint
              PROVE  IInv'
  OBVIOUS
<1>. DEFINE m == Head(pending)
<1>1. pending # <<>> /\ m.op = "mint" /\ MintOk(m)
  BY DEF Mint, Executing
<1>2. StoreSound
  BY StoreIsSound DEF IInv
<1>3. m.recipient \in Addr /\ m.amount \in Uint
  BY <1>1, HeadIsMessage, MessageByOp DEF MintMsg, MintOk
<1>4. StoreSound'
  BY <1>1, <1>2, <1>3, MintedSound DEF Mint, MintOk, StoreSound
<1>. QED
  BY <1>1, <1>4, SilentReturnKeepsInv DEF Mint

-----------------------------------------------------------------------------
\* Allowances.

\* The entry increase_allowance saves is an allowance, within Uint128.
LEMMA RaisedType ==
    ASSUME NEW m \in AllowanceMsg, NEW entry \in Allowance \cup {None},
           Raised(entry, m).allowance <= MaxUint
    PROVE  Raised(entry, m) \in Allowance
<1>1. EntryOf(entry) \in Allowance
  BY RatesAssumption DEF EntryOf, Allowance, Uint, Expiration
<1>2. m.amount \in Uint /\ m.expires \in Expiration \cup {None}
  BY DEF AllowanceMsg
<1>3. Raised(entry, m).allowance = EntryOf(entry).allowance + m.amount
  BY DEF Raised
<1>4. EntryOf(entry).allowance + m.amount \in Uint
  BY <1>1, <1>2, <1>3, RatesAssumption DEF Allowance, Uint
<1>. QED
  BY <1>1, <1>2, <1>4 DEF Raised, Allowance

LEMMA IncreaseAllowanceKeepsInv == IInv /\ IncreaseAllowance => IInv'
<1>. SUFFICES ASSUME IInv, IncreaseAllowance
              PROVE  IInv'
  OBVIOUS
<1>. DEFINE m == Head(pending)
<1>1. pending # <<>> /\ m.op = "increase_allowance" /\ IncreaseAllowanceOk(m)
  BY DEF IncreaseAllowance, Executing
<1>2. StoreSound
  BY StoreIsSound DEF IInv
<1>3. m \in AllowanceMsg /\ m.sender \in Addr /\ m.spender \in Addr
  BY <1>1, HeadIsMessage, MessageByOp DEF AllowanceMsg, IncreaseAllowanceOk
<1>4. /\ allowances[<<m.sender, m.spender>>] \in Allowance \cup {None}
      /\ allowances_spender[<<m.spender, m.sender>>] \in Allowance \cup {None}
  BY <1>2, <1>3 DEF StoreSound, AllowanceMap
<1>5. /\ Raised(allowances[<<m.sender, m.spender>>], m) \in Allowance
      /\ Raised(allowances_spender[<<m.spender, m.sender>>], m) \in Allowance
  BY <1>1, <1>3, <1>4, RaisedType DEF IncreaseAllowanceOk
<1>6. allowances' \in AllowanceMap /\ allowances_spender' \in AllowanceMap
  BY <1>2, <1>3, <1>5 DEF IncreaseAllowance, StoreSound, AllowanceMap
<1>7. StoreSound'
  BY <1>2, <1>6 DEF IncreaseAllowance, StoreSound
<1>. QED
  BY <1>1, <1>7, SilentReturnKeepsInv DEF IncreaseAllowance

LEMMA DecreaseAllowanceKeepsInv == IInv /\ DecreaseAllowance => IInv'
<1>. SUFFICES ASSUME IInv, DecreaseAllowance
              PROVE  IInv'
  OBVIOUS
<1>. DEFINE m == Head(pending)
            entry == allowances[<<m.sender, m.spender>>]
<1>1. pending # <<>> /\ m.op = "decrease_allowance" /\ DecreaseAllowanceOk(m)
  BY DEF DecreaseAllowance, Executing
<1>2. StoreSound
  BY StoreIsSound DEF IInv
<1>3. m \in AllowanceMsg /\ m.sender \in Addr /\ m.spender \in Addr
  BY <1>1, HeadIsMessage, MessageByOp DEF AllowanceMsg, DecreaseAllowanceOk
<1>4. entry \in Allowance
  BY <1>1, <1>2, <1>3 DEF StoreSound, AllowanceMap, DecreaseAllowanceOk
<1>5. m.amount \in Uint /\ m.expires \in Expiration \cup {None}
  BY <1>3 DEF AllowanceMsg
<1>6. Lowered(m) \in Allowance \cup {None}
  <2>1. CASE Lowers(m)
    <3>1. entry.allowance - m.amount \in Uint
      BY <1>4, <1>5, <2>1, RatesAssumption DEF Lowers, Allowance, Uint
    <3>. QED
      BY <1>4, <1>5, <2>1, <3>1 DEF Lowered, Allowance
  <2>2. CASE ~Lowers(m)
    BY <2>2 DEF Lowered
  <2>. QED
    BY <2>1, <2>2
<1>7. allowances' \in AllowanceMap /\ allowances_spender' \in AllowanceMap
  BY <1>2, <1>3, <1>6 DEF DecreaseAllowance, StoreSound, AllowanceMap
<1>8. StoreSound'
  BY <1>2, <1>7 DEF DecreaseAllowance, StoreSound
<1>. QED
  BY <1>1, <1>8, SilentReturnKeepsInv DEF DecreaseAllowance

-----------------------------------------------------------------------------
\* Roles and policies.

LEMMA UpdateMinterKeepsInv == IInv /\ UpdateMinter => IInv'
<1>. SUFFICES ASSUME IInv, UpdateMinter
              PROVE  IInv'
  OBVIOUS
<1>. DEFINE m == Head(pending)
<1>1. pending # <<>> /\ m.op = "update_minter" /\ UpdateMinterOk(m)
  BY DEF UpdateMinter, Executing
<1>2. StoreSound
  BY StoreIsSound DEF IInv
<1>3. token_info \in TokenInfo
  BY <1>2 DEF StoreSound
<1>4. NewMint(m) \in Minter \cup {None}
  <2>1. token_info.mint \in Minter
    BY <1>1, <1>3 DEF UpdateMinterOk, IsMinter, TokenInfo
  <2>2. m.new_minter # None => m.new_minter \in AnyAddr
    BY <1>1 DEF UpdateMinterOk, AnyAddr
  <2>. QED
    BY <2>1, <2>2 DEF NewMint, Minter
<1>5. /\ token_info' \in TokenInfo
      /\ token_info'.total_supply = token_info.total_supply
  BY <1>3, <1>4 DEF UpdateMinter, TokenInfo
<1>6. StoreSound'
  BY <1>2, <1>5 DEF UpdateMinter, StoreSound
<1>. QED
  BY <1>1, <1>6, SilentReturnKeepsInv DEF UpdateMinter

LEMMA DefaultTaxMapType == DefaultTaxMap \in TaxMap
BY DEF DefaultTaxMap, DefaultTaxInfo, TaxMap, TaxInfo, TaxCondition, NeverCondition, AnyAddr

LEMMA SetTaxMapKeepsInv == IInv /\ SetTaxMap => IInv'
<1>. SUFFICES ASSUME IInv, SetTaxMap
              PROVE  IInv'
  OBVIOUS
<1>. DEFINE m == Head(pending)
<1>1. pending # <<>> /\ m.op = "set_tax_map"
  BY DEF SetTaxMap, Executing
<1>2. StoreSound
  BY StoreIsSound DEF IInv
<1>3. m.tax_map \in TaxMap \cup {None}
  BY <1>1, HeadIsMessage, MessageByOp DEF SetTaxMapMsg
<1>4. tax_info.admin \in AnyAddr
  BY <1>2 DEF StoreSound, TaxMap
<1>5. NewTaxMap(m) \in TaxMap
  BY <1>3, <1>4, DefaultTaxMapType DEF NewTaxMap, TaxMap
<1>6. StoreSound'
  BY <1>2, <1>5 DEF SetTaxMap, StoreSound
<1>. QED
  BY <1>1, <1>6, SilentReturnKeepsInv DEF SetTaxMap

LEMMA SetTaxAdminKeepsInv == IInv /\ SetTaxAdmin => IInv'
<1>. SUFFICES ASSUME IInv, SetTaxAdmin
              PROVE  IInv'
  OBVIOUS
<1>. DEFINE m == Head(pending)
            admin == IF m.admin = None THEN NoAddr ELSE m.admin
<1>1. pending # <<>> /\ m.op = "set_tax_admin" /\ SetTaxAdminOk(m)
  BY DEF SetTaxAdmin, Executing
<1>2. StoreSound
  BY StoreIsSound DEF IInv
<1>3. admin \in AnyAddr
  BY <1>1 DEF SetTaxAdminOk, AnyAddr
<1>4. tax_info' = [tax_info EXCEPT !.admin = admin]
  BY DEF SetTaxAdmin
<1>. HIDE DEF admin
<1>5. tax_info' \in TaxMap
  BY <1>2, <1>3, <1>4 DEF StoreSound, TaxMap
<1>6. StoreSound'
  BY <1>2, <1>5 DEF SetTaxAdmin, StoreSound
<1>. QED
  BY <1>1, <1>6, SilentReturnKeepsInv DEF SetTaxAdmin

LEMMA SetWhaleInfoKeepsInv == IInv /\ SetWhaleInfo => IInv'
<1>. SUFFICES ASSUME IInv, SetWhaleInfo
              PROVE  IInv'
  OBVIOUS
<1>. DEFINE m == Head(pending)
<1>1. pending # <<>> /\ m.op = "set_whale_info"
  BY DEF SetWhaleInfo, Executing
<1>2. StoreSound
  BY StoreIsSound DEF IInv
<1>3. m.whale_info \in WhaleInfo \cup {None}
  BY <1>1, HeadIsMessage, MessageByOp DEF SetWhaleInfoMsg
<1>4. StoreSound'
  BY <1>2, <1>3 DEF SetWhaleInfo, StoreSound
<1>. QED
  BY <1>1, <1>4, SilentReturnKeepsInv DEF SetWhaleInfo

LEMMA SetWhaleAdminKeepsInv == IInv /\ SetWhaleAdmin => IInv'
<1>. SUFFICES ASSUME IInv, SetWhaleAdmin
              PROVE  IInv'
  OBVIOUS
<1>. DEFINE m == Head(pending)
<1>1. pending # <<>> /\ m.op = "set_whale_admin" /\ SetWhaleAdminOk(m)
  BY DEF SetWhaleAdmin, Executing
<1>2. StoreSound
  BY StoreIsSound DEF IInv
<1>3. m.admin # None => m.admin \in AnyAddr
  BY <1>1 DEF SetWhaleAdminOk, AnyAddr
<1>4. whale_info' \in WhaleInfo
  BY <1>2, <1>3 DEF SetWhaleAdmin, StoreSound, WhaleInfo
<1>5. StoreSound'
  BY <1>2, <1>4 DEF SetWhaleAdmin, StoreSound
<1>. QED
  BY <1>1, <1>5, SilentReturnKeepsInv DEF SetWhaleAdmin

-----------------------------------------------------------------------------
\* The chain.

LEMMA ReceiveKeepsInv == IInv /\ Receive => IInv'
<1>. SUFFICES ASSUME IInv, Receive
              PROVE  IInv'
  OBVIOUS
<1>1. pending # <<>>
  BY DEF Receive, Executing
<1>2. StoreSound'
  <2>1. UNCHANGED store
    BY DEF Receive
  <2>. QED
    BY <2>1, StoreIsSound DEF IInv, StoreSound, store
<1>3. CASE reactions' = reactions /\ Return(<<>>)
  BY <1>1, <1>2, <1>3, SilentReturnKeepsInv
<1>4. CASE \E calls \in Reactions :
              reactions < MaxReactions /\ reactions' = reactions + 1 /\ Return(calls)
  <2>1. PICK calls \in Reactions :
              reactions < MaxReactions /\ reactions' = reactions + 1 /\ Return(calls)
    BY <1>4
  <2>2. ExecuteMsg \subseteq Message
    BY DEF Message
  <2>3. calls \in Seq(Message)
    BY <2>2, MessagesAssumption, SeqMonotonic
  <2>4. reactions' \in 0 .. MaxReactions
    BY <2>1, ChainAssumption DEF IInv
  <2>. QED
    BY <1>1, <1>2, <2>1, <2>3, <2>4, ReturnKeepsInv
<1>. QED
  BY <1>3, <1>4 DEF Receive

LEMMA SubmitKeepsInv == IInv /\ Submit => IInv'
<1>. SUFFICES ASSUME IInv, Submit
              PROVE  IInv'
  OBVIOUS
<1>1. pending' \in Seq(Message)
  <2>1. pending' \in Seq(ExecuteMsg)
    BY MessagesAssumption DEF Submit
  <2>2. ExecuteMsg \subseteq Message
    BY DEF Message
  <2>. QED
    BY <2>1, <2>2, SeqMonotonic
<1>2. Sound(Store')
  <2>1. StoreSound'
    BY StoreIsSound DEF IInv, StoreSound, Submit, store
  <2>. QED
    BY <2>1, StoreIsSoundNext
<1>3. reactions' \in 0 .. MaxReactions
  BY ChainAssumption DEF Submit
<1>. QED
  BY <1>1, <1>2, <1>3 DEF IInv, Submit

LEMMA FailKeepsInv == IInv /\ Fail => IInv'
<1>. SUFFICES ASSUME IInv, Fail
              PROVE  IInv'
  OBVIOUS
<1>1. StoreSound'
  BY DEF IInv, Sound, StoreType, Fail, StoreSound
<1>2. pending' \in Seq(Message)
  BY EmptySeq DEF Fail
<1>. QED
  BY <1>1, <1>2, StoreIsSoundNext DEF IInv, Fail

LEMMA NextBlockKeepsInv == IInv /\ NextBlock => IInv'
<1>. SUFFICES ASSUME IInv, NextBlock
              PROVE  IInv'
  OBVIOUS
<1>1. StoreSound'
  BY StoreIsSound DEF IInv, StoreSound, NextBlock, store
<1>2. height' \in 0 .. MaxHeight
  BY ChainAssumption DEF IInv, NextBlock
<1>. QED
  BY <1>1, <1>2, StoreIsSoundNext DEF IInv, NextBlock

-----------------------------------------------------------------------------
\* instantiate leaves a sound store.
LEMMA InitEstablishesInv == Init => IInv
<1>. SUFFICES ASSUME Init
              PROVE  IInv
  OBVIOUS
<1>1. PICK i \in Instantiations :
          /\ InstantiateOk(i)
          /\ balances = i.initial_balances
          /\ token_info = [total_supply |-> TotalBalance(i.initial_balances), mint |-> i.mint]
          /\ tax_info = IF i.tax_map = None THEN DefaultTaxMap ELSE i.tax_map
          /\ whale_info = IF i.whale_info = None THEN DefaultWhaleInfo(i.creator)
                                                 ELSE i.whale_info
  BY DEF Init
<1>2. i \in InstantiateMsg
  BY MessagesAssumption
<1>3. /\ i.creator \in Addr /\ i.initial_balances \in [Addr -> Uint]
      /\ i.mint \in Minter \cup {None} /\ i.tax_map \in TaxMap \cup {None}
      /\ i.whale_info \in WhaleInfo \cup {None}
  BY <1>2 DEF InstantiateMsg
<1>4. TotalBalance(i.initial_balances) \in Uint
  <2>1. IsFiniteSet(Addr) /\ MaxUint \in Nat
    BY ChainAssumption, RatesAssumption
  <2>2. i.initial_balances \in [Addr -> 0 .. MaxUint]
    BY <1>3 DEF Uint
  <2>3. TotalBalance(i.initial_balances) \in Nat
    BY <2>1, <2>2, UnitsFinite, FS_CardinalityType DEF TotalBalance
  <2>. QED
    BY <1>1, <2>3, RatesAssumption DEF InstantiateOk, Uint
<1>5. tax_info \in TaxMap
  BY <1>1, <1>3, DefaultTaxMapType
<1>6. whale_info \in WhaleInfo
  <2>1. DefaultWhaleInfo(i.creator) \in WhaleInfo
    BY <1>3, RatesAssumption DEF DefaultWhaleInfo, WhaleInfo, AnyAddr
  <2>. QED
    BY <1>1, <1>3, <2>1
<1>7. allowances \in AllowanceMap /\ allowances_spender \in AllowanceMap
  BY DEF Init, AllowanceMap
<1>8. StoreSound
  BY <1>1, <1>3, <1>4, <1>5, <1>6, <1>7 DEF StoreSound, TokenInfo
<1>9. Sound(Store) /\ Sound(committed)
  BY <1>8, StoreIsSound DEF Init
<1>. QED
  BY <1>9, EmptySeq, ChainAssumption DEF Init, IInv

\* Every step keeps the inductive invariant.
LEMMA NextKeepsInv == IInv /\ [Next]_vars => IInv'
<1>. SUFFICES ASSUME IInv, [Next]_vars
              PROVE  IInv'
  OBVIOUS
<1>1. CASE Execute
  BY <1>1, TransferKeepsInv, TransferFromKeepsInv, SendKeepsInv, SendFromKeepsInv,
     BurnKeepsInv, BurnFromKeepsInv, MintKeepsInv, IncreaseAllowanceKeepsInv,
     DecreaseAllowanceKeepsInv, UpdateMinterKeepsInv, SetTaxMapKeepsInv,
     SetTaxAdminKeepsInv, SetWhaleInfoKeepsInv, SetWhaleAdminKeepsInv DEF Execute
<1>2. CASE Submit \/ NextBlock \/ Receive \/ Fail
  BY <1>2, SubmitKeepsInv, NextBlockKeepsInv, ReceiveKeepsInv, FailKeepsInv
<1>3. CASE UNCHANGED vars
  <2>1. StoreSound'
    BY <1>3, StoreIsSound DEF IInv, StoreSound, vars, store
  <2>. QED
    BY <1>3, <2>1, StoreIsSoundNext DEF IInv, vars, store
<1>. QED
  BY <1>1, <1>2, <1>3 DEF Next, TxStep

\* IInv is an invariant of the token on its chain.
LEMMA InvIsInvariant == Spec => []IInv
<1>1. Init => IInv
  BY InitEstablishesInv
<1>2. IInv /\ [Next]_vars => IInv'
  BY NextKeepsInv
<1>. QED
  BY <1>1, <1>2, PTL DEF Spec

\* The stored items and the messages always have their types; in particular
\* no balance, supply or allowance ever leaves Uint128.
THEOREM TypeCorrectness == Spec => []TypeOK
<1>1. IInv => TypeOK
  BY InvIsTypeAndSupply
<1>. QED
  BY <1>1, InvIsInvariant, PTL

\* No transfer, tax, forward, notification, burn, mint or failed transaction
\* makes the balances differ from the total supply.
THEOREM SupplyIsConserved == Spec => []SupplyConserved
<1>1. IInv => SupplyConserved
  BY InvIsTypeAndSupply
<1>. QED
  BY <1>1, InvIsInvariant, PTL
=============================================================================
