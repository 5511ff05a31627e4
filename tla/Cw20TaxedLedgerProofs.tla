------------------------ MODULE Cw20TaxedLedgerProofs ------------------------
(***************************************************************************)
(* Cw20Taxed implements TaxedLedger, for every set of addresses,           *)
(* transactions and contracts, and every bound: each step of the token is  *)
(* a step of the simple ledger, or changes nothing there.                  *)
(*                                                                         *)
(* The argument is a balance sheet.  What a step changes in the worth of   *)
(* an account is what it changes in its balance, and in the pending        *)
(* messages of the contract to it (ReturnShifts).  A tax enters the        *)
(* contract's balance together with the message that will take it out, so  *)
(* it is the wallet's at once.  The ledger's sheet always adds up.         *)
(***************************************************************************)
EXTENDS Cw20TaxedEscrowProofs, Cw20TaxedLedger

-----------------------------------------------------------------------------
\* What the pending messages bring to one account.

OwedToBy(m, a) ==
    IF m.op = "transfer" /\ m.sender = Self /\ m.recipient = a THEN m.amount ELSE 0
OwedToValue(a) == [m \in Message |-> OwedToBy(m, a)]

LEMMA OwedToByType ==
    ASSUME NEW m \in Message, NEW a
    PROVE  OwedToBy(m, a) \in 0 .. MaxUint /\ OwedToBy(m, a) \in Nat
<1>1. m.op = "transfer" => m.amount \in 0 .. MaxUint
  BY MessageByOp DEF TransferMsg, Uint
<1>. QED
  BY <1>1, RatesAssumption DEF OwedToBy

LEMMA OwedToValueType ==
    ASSUME NEW a
    PROVE  OwedToValue(a) \in Values
<1>1. OwedToValue(a) \in [Message -> 0 .. MaxUint]
  BY OwedToByType DEF OwedToValue
<1>. QED
  BY <1>1, RatesAssumption DEF Values

LEMMA OwedToIsTotal ==
    ASSUME NEW s \in Seq(Message), NEW a
    PROVE  OwedTo(s, a) = TotalOf(OwedToValue(a), s)
<1>1. \A i \in DOMAIN s : s[i] \in Message
  BY ElementOfSeq, LenProperties
<1>2. AmountsOf(OwedToValue(a), s) = [i \in DOMAIN s |-> OwedToBy(s[i], a)]
  BY <1>1 DEF AmountsOf, OwedToValue
<1>. QED
  BY <1>2 DEF OwedTo, OwedToBy, TotalOf

LEMMA OwedToType ==
    ASSUME NEW s \in Seq(Message), NEW a
    PROVE  OwedTo(s, a) \in Nat
BY OwedToIsTotal, OwedToValueType, TotalOfType

LEMMA OwedToNone ==
    ASSUME NEW a
    PROVE  OwedTo(<<>>, a) = 0
<1>1. <<>> \in Seq(Message) /\ DOMAIN <<>> = {}
  BY EmptySeq
<1>2. TotalOf(OwedToValue(a), <<>>) = 0
  BY <1>1, TotalOfNothing
<1>. QED
  BY <1>1, <1>2, OwedToIsTotal

LEMMA OwedToOne ==
    ASSUME NEW m \in Message, NEW a
    PROVE  OwedTo(<<m>>, a) = OwedToBy(m, a)
<1>1. <<m>> \in Seq(Message)
  OBVIOUS
<1>2. TotalOf(OwedToValue(a), <<m>>) = OwedToValue(a)[m]
  BY OwedToValueType, TotalOfSingle
<1>. QED
  BY <1>1, <1>2, OwedToIsTotal DEF OwedToValue

LEMMA OwedToConcat ==
    ASSUME NEW s \in Seq(Message), NEW t \in Seq(Message), NEW a
    PROVE  OwedTo(s \o t, a) = OwedTo(s, a) + OwedTo(t, a)
<1>1. s \o t \in Seq(Message)
  BY ConcatProperties
<1>2. TotalOf(OwedToValue(a), s \o t) = TotalOf(OwedToValue(a), s) + TotalOf(OwedToValue(a), t)
  BY OwedToValueType, TotalOfConcat
<1>. QED
  BY <1>1, <1>2, OwedToIsTotal

LEMMA OwedToHeadTail ==
    ASSUME NEW s \in Seq(Message), s # <<>>, NEW a
    PROVE  OwedTo(s, a) = OwedToBy(Head(s), a) + OwedTo(Tail(s), a)
<1>1. Head(s) \in Message /\ Tail(s) \in Seq(Message)
  BY HeadTailProperties
<1>2. TotalOf(OwedToValue(a), s) = OwedToValue(a)[Head(s)] + TotalOf(OwedToValue(a), Tail(s))
  BY OwedToValueType, TotalOfHeadTail
<1>. QED
  BY <1>1, <1>2, OwedToIsTotal DEF OwedToValue

LEMMA OwedToByOthers ==
    ASSUME NEW s \in Seq(Message), \A i \in DOMAIN s : s[i].sender # Self, NEW a
    PROVE  OwedTo(s, a) = 0
<1>1. \A i \in DOMAIN s : s[i] \in Message
  BY ElementOfSeq, LenProperties
<1>2. \A i \in DOMAIN s : OwedToValue(a)[s[i]] = 0
  BY <1>1 DEF OwedToValue, OwedToBy
<1>3. TotalOf(OwedToValue(a), s) = 0
  BY <1>2, TotalOfNothing
<1>. QED
  BY <1>3, OwedToIsTotal

-----------------------------------------------------------------------------
\* Worth.

Worth == WorthIn(balances, pending)

Held(b, a) == IF a = NoAddr THEN 0 ELSE b[a]

\* What a list of messages changes in the worth of an account.
Promised(msgs, a) == OwedTo(msgs, a) - (IF a = Self THEN Owed(msgs) ELSE 0)
PromisedBy(m, a) == OwedToBy(m, a) - (IF a = Self THEN OwedBy(m) ELSE 0)

LEMMA WorthAt ==
    ASSUME NEW b, NEW s \in Seq(Message), NEW a \in AnyAddr, Held(b, a) \in Nat
    PROVE  WorthIn(b, s)[a] = Held(b, a) + Promised(s, a)
<1>1. OwedTo(s, a) \in Nat /\ Owed(s) \in Nat
  BY OwedToType, OwedType
<1>2. WorthIn(b, s)[a] = Held(b, a) + OwedTo(s, a) - (IF a = Self THEN Owed(s) ELSE 0)
  BY DEF WorthIn, Held
<1>. QED
  BY <1>1, <1>2 DEF Promised

LEMMA PromisedType ==
    ASSUME NEW s \in Seq(Message), NEW a
    PROVE  Promised(s, a) \in Int
BY OwedToType, OwedType DEF Promised

LEMMA PromisedByType ==
    ASSUME NEW m \in Message, NEW a
    PROVE  PromisedBy(m, a) \in Int
BY OwedToByType, OwedByType DEF PromisedBy

LEMMA HeldNow ==
    ASSUME IInv, NEW a \in AnyAddr
    PROVE  Held(balances, a) \in Nat
BY StoresNow, RatesAssumption DEF Held, AnyAddr, StoreSound, Uint

LEMMA HeldNext ==
    ASSUME IInv', NEW a \in AnyAddr
    PROVE  Held(balances', a) \in Nat
BY StoresNext, RatesAssumption DEF Held, AnyAddr, StoreSound, Uint

\* What a handler changes in the worth of an account.
LEMMA ReturnShifts ==
    ASSUME IInv, IInv', pending # <<>>, NEW msgs \in Seq(Message), Return(msgs),
           NEW a \in AnyAddr
    PROVE  /\ Worth[a] \in Int
           /\ Worth'[a] = Worth[a] + Held(balances', a) - Held(balances, a)
                          + Promised(msgs, a) - PromisedBy(Head(pending), a)
<1>1. Head(pending) \in Message /\ Tail(pending) \in Seq(Message) /\ pending \in Seq(Message)
  BY HeadIsMessage, StoresNow
<1>2. pending' = msgs \o Tail(pending) /\ pending' \in Seq(Message)
  BY StoresNext DEF Return
<1>. DEFINE m == Head(pending)
            rest == Tail(pending)
<1>3. OwedTo(pending, a) = OwedToBy(m, a) + OwedTo(rest, a)
  BY <1>1, OwedToHeadTail
<1>4. Owed(pending) = OwedBy(m) + Owed(rest)
  BY <1>1, OwedHeadTail
<1>5. OwedTo(pending', a) = OwedTo(msgs, a) + OwedTo(rest, a)
  <2>1. OwedTo(msgs \o rest, a) = OwedTo(msgs, a) + OwedTo(rest, a)
    BY <1>1, OwedToConcat, ZenonT(30)
  <2>. QED
    BY <1>2, <2>1
<1>6. Owed(pending') = Owed(msgs) + Owed(rest)
  BY <1>1, <1>2, OwedConcat
<1>7. /\ OwedToBy(m, a) \in Nat /\ OwedTo(rest, a) \in Nat /\ OwedTo(msgs, a) \in Nat
      /\ OwedBy(m) \in Nat /\ Owed(rest) \in Nat /\ Owed(msgs) \in Nat
  BY <1>1, OwedToByType, OwedToType, OwedByType, OwedType
<1>8. Held(balances, a) \in Nat /\ Held(balances', a) \in Nat
  BY HeldNow, HeldNext
<1>9. Promised(pending, a) = PromisedBy(m, a) + Promised(rest, a)
  BY <1>3, <1>4, <1>7 DEF Promised, PromisedBy
<1>10. Promised(pending', a) = Promised(msgs, a) + Promised(rest, a)
  BY <1>5, <1>6, <1>7 DEF Promised
<1>11. /\ Promised(rest, a) \in Int /\ Promised(msgs, a) \in Int /\ PromisedBy(m, a) \in Int
  BY <1>1, PromisedType, PromisedByType
<1>12. Worth[a] = Held(balances, a) + Promised(pending, a)
  BY <1>1, <1>8, WorthAt DEF Worth
<1>13. Worth'[a] = Held(balances', a) + Promised(pending', a)
  <2>1. Worth' = WorthIn(balances', pending')
    BY DEF Worth, WorthIn, OwedTo, Owed, TotalBalance, Units
  <2>. QED
    BY <1>2, <1>8, <2>1, WorthAt
<1>. HIDE DEF m, rest
<1>14. /\ Worth[a] = Held(balances, a) + (PromisedBy(m, a) + Promised(rest, a))
       /\ Worth'[a] = Held(balances', a) + (Promised(msgs, a) + Promised(rest, a))
  BY <1>9, <1>10, <1>12, <1>13
<1>15. /\ Worth[a] \in Int
       /\ Worth'[a] = Worth[a] + Held(balances', a) - Held(balances, a)
                      + Promised(msgs, a) - PromisedBy(m, a)
  BY <1>8, <1>11, <1>14
<1>. QED
  BY <1>15 DEF m

\* A pending forward is covered, so nobody is worth less than nothing.
LEMMA WorthAtLeast ==
    ASSUME IInv, EInv, NEW a \in AnyAddr
    PROVE  /\ Worth[a] \in Nat
           /\ Worth[a] >= OwedTo(pending, a)
           /\ a \in Addr \ {Self} => Worth[a] >= balances[a]
<1>1. /\ pending \in Seq(Message) /\ balances[Self] \in Nat
      /\ committed.balances[Self] \in Nat
  BY StoresNow
<1>2. Held(balances, a) \in Nat /\ OwedTo(pending, a) \in Nat /\ Owed(pending) \in Nat
  BY <1>1, HeldNow, OwedToType, OwedType
<1>3. Worth[a] = Held(balances, a) + Promised(pending, a)
  BY <1>1, <1>2, WorthAt DEF Worth
<1>4. Worth[a] = Held(balances, a) + OwedTo(pending, a) - (IF a = Self THEN Owed(pending) ELSE 0)
  BY <1>2, <1>3 DEF Promised
<1>5. a \in Addr => Held(balances, a) = balances[a]
  BY RatesAssumption DEF Held
<1>6. Owed(pending) <= balances[Self]
  BY <1>1, <1>2 DEF EInv
<1>7. CASE a = Self
  BY <1>1, <1>2, <1>4, <1>5, <1>6, <1>7, ChainAssumption
<1>8. CASE a # Self
  BY <1>2, <1>4, <1>5, <1>8
<1>. QED
  BY <1>7, <1>8

LEMMA WorthIsFunction == Worth = [a \in AnyAddr |-> Worth[a]]
                         /\ Worth' = [a \in AnyAddr |-> Worth'[a]]
BY DEF Worth, WorthIn

-----------------------------------------------------------------------------
\* The steps of the ledger.

\* The commit of the token is the one of the ledger: nothing is pending, so no tax
\* is without a wallet.
LEMMA CommitIsContinue ==
    ASSUME committed' = IF pending' = <<>> THEN Store' ELSE committed
    PROVE  Ledger!Continue
<1>1. CASE pending' = <<>>
  <2>1. committed'.balances = balances' /\ committed'.token_info = token_info'
    BY <1>1 DEF Store
  <2>2. Ledger!Settled(WorthIn(balances, pending)')
    <3>1. WorthIn(balances, pending)' = WorthIn(balances', <<>>)
      BY <1>1 DEF WorthIn, OwedTo, Owed, TotalBalance, Units
    <3>2. WorthIn(balances', <<>>)[NoAddr] = 0 + OwedTo(<<>>, NoAddr) - 0
      BY RatesAssumption, ChainAssumption DEF WorthIn, AnyAddr
    <3>. QED
      BY <3>1, <3>2, OwedToNone DEF Ledger!Settled
  <2>. QED
    BY <1>1, <2>1, <2>2 DEF Ledger!Continue, Ledger!Now, WorthIn, OwedTo, Owed, TotalBalance, Units
<1>2. CASE pending' # <<>>
  BY <1>2 DEF Ledger!Continue, WorthIn, OwedTo, Owed, TotalBalance, Units
<1>. QED
  BY <1>1, <1>2

Commits == committed' = IF pending' = <<>> THEN Store' ELSE committed

LEMMA SameWorthIsRest ==
    ASSUME Worth' = Worth, token_info'.total_supply = token_info.total_supply, Ledger!Continue
    PROVE  Ledger!Next
BY DEF Worth, Ledger!Rest, Ledger!Next

LEMMA LedgerPays ==
    ASSUME IInv, EInv, Commits, token_info'.total_supply = token_info.total_supply,
           NEW payer \in AnyAddr, NEW payee \in AnyAddr, NEW wallet \in AnyAddr,
           NEW net \in Nat, NEW tax \in Nat, net + tax <= Worth[payer],
           \A a \in AnyAddr : Worth'[a] = Worth[a] - (IF a = payer THEN net + tax ELSE 0)
                                          + (IF a = payee THEN net ELSE 0)
                                          + (IF a = wallet THEN tax ELSE 0)
    PROVE  Ledger!Next
<1>1. \A a \in AnyAddr : Worth[a] \in Nat
  BY WorthAtLeast
<1>. DEFINE d == [Worth EXCEPT ![payer] = @ - (net + tax)]
            e == [d EXCEPT ![payee] = @ + net]
            f == [e EXCEPT ![wallet] = @ + tax]
<1>2. /\ d \in [AnyAddr -> Int]
      /\ \A a \in AnyAddr : d[a] = Worth[a] - (IF a = payer THEN net + tax ELSE 0)
  BY <1>1, WorthIsFunction
<1>. HIDE DEF d
<1>3. /\ e \in [AnyAddr -> Int]
      /\ \A a \in AnyAddr : e[a] = d[a] + (IF a = payee THEN net ELSE 0)
  BY <1>2
<1>. HIDE DEF e
<1>4. /\ f \in [AnyAddr -> Int]
      /\ \A a \in AnyAddr : f[a] = e[a] + (IF a = wallet THEN tax ELSE 0)
  BY <1>3
<1>. HIDE DEF f
<1>5. \A a \in AnyAddr : f[a] = Worth'[a]
  <2>. TAKE a \in AnyAddr
  <2>1. /\ d[a] = Worth[a] - (IF a = payer THEN net + tax ELSE 0)
        /\ e[a] = d[a] + (IF a = payee THEN net ELSE 0)
        /\ f[a] = e[a] + (IF a = wallet THEN tax ELSE 0)
        /\ Worth[a] \in Nat
    BY <1>1, <1>2, <1>3, <1>4
  <2>. QED
    BY <2>1
<1>6. f = Worth'
  BY <1>4, <1>5, WorthIsFunction
<1>7. net \in 0 .. Worth[payer] /\ tax \in 0 .. (Worth[payer] - net)
  BY <1>1
<1>8. f = Ledger!Credit(Ledger!Credit(Ledger!Debit(Worth, payer, net + tax), payee, net),
                        wallet, tax)
  BY DEF f, e, d, Ledger!Credit, Ledger!Debit
<1>9. Ledger!Continue
  BY CommitIsContinue DEF Commits
<1>10. Ledger!Pay(payer, payee, wallet)
  BY <1>6, <1>7, <1>8, <1>9 DEF Ledger!Pay, Worth
<1>. QED
  BY <1>10 DEF Ledger!Next, Ledger!Accounts, AnyAddr

-----------------------------------------------------------------------------
\* Payments.

\* What a payment returns promises the tax to the wallet.
LEMMA ForwardPromises ==
    ASSUME NEW m, TaxInfoOf(m) \in TaxInfo, SplitOf(m).tax \in Uint, NEW a
    PROVE  /\ Forward(m) \in Seq(Message)
           /\ Promised(Forward(m), a)
                 = (IF a = TaxInfoOf(m).proceeds THEN SplitOf(m).tax ELSE 0)
                   - (IF a = Self THEN SplitOf(m).tax ELSE 0)
<1>. DEFINE msg == TaxMsg(TaxInfoOf(m).proceeds, SplitOf(m).tax)
<1>1. Forward(m) \in Seq(Message) /\ Owed(Forward(m)) = SplitOf(m).tax
  BY ForwardOwes, PlainAreMessages
<1>2. msg \in TransferMsg /\ msg.op = "transfer" /\ msg.sender = Self
      /\ msg.amount = SplitOf(m).tax /\ msg.recipient = TaxInfoOf(m).proceeds
  BY ChainAssumption DEF TaxMsg, TransferMsg, TaxInfo
<1>3. msg \in Message
  BY <1>2 DEF ExecuteMsg, Message
<1>4. OwedTo(<<msg>>, a) = IF a = TaxInfoOf(m).proceeds THEN SplitOf(m).tax ELSE 0
  BY <1>2, <1>3, OwedToOne DEF OwedToBy
<1>5. OwedTo(Forward(m), a) = IF a = TaxInfoOf(m).proceeds THEN SplitOf(m).tax ELSE 0
  <2>1. CASE SplitOf(m).tax > 0
    BY <1>4, <2>1 DEF Forward
  <2>2. CASE ~(SplitOf(m).tax > 0)
    <3>1. SplitOf(m).tax = 0
      BY <2>2, RatesAssumption DEF Uint
    <3>. QED
      BY <2>2, <3>1, OwedToNone DEF Forward
  <2>. QED
    BY <2>1, <2>2
<1>. QED
  BY <1>1, <1>5 DEF Promised

LEMMA NotifyPromisesNothing ==
    ASSUME NEW m, SplitOf(m).net \in Uint, m.recipient \in Addr, m.sender \in Addr,
           NEW s \in Seq(Message), NEW a
    PROVE  /\ <<NotifyMsg(m)>> \o s \in Seq(Message)
           /\ Promised(<<NotifyMsg(m)>> \o s, a) = Promised(s, a)
<1>. DEFINE one == <<NotifyMsg(m)>>
<1>1. NotifyMsg(m) \in ReceiveMsg /\ NotifyMsg(m).op = "receive"
  BY DEF NotifyMsg, ReceiveMsg
<1>2. NotifyMsg(m) \in Message
  BY <1>1 DEF Message
<1>3. one \in Seq(Message)
  BY <1>2
<1>4. Owed(one) = 0 /\ OwedTo(one, a) = 0
  BY <1>1, <1>2, OwedOne, OwedToOne DEF OwedBy, OwedToBy
<1>. HIDE DEF one
<1>5. /\ OwedTo(one \o s, a) = OwedTo(one, a) + OwedTo(s, a)
      /\ Owed(one \o s) = Owed(one) + Owed(s)
      /\ one \o s \in Seq(Message)
  BY <1>3, OwedToConcat, OwedConcat, ConcatProperties
<1>6. OwedTo(s, a) \in Nat /\ Owed(s) \in Nat
  BY OwedToType, OwedType
<1>7. Promised(one \o s, a) = Promised(s, a)
  BY <1>4, <1>5, <1>6 DEF Promised
<1>. QED
  BY <1>5, <1>7 DEF one

\* A payment, as the handlers leave it.
PaymentOf(payer) ==
    LET m == Head(pending)
    IN  /\ pending # <<>>
        /\ m.recipient \in Addr /\ m.sender \in Addr /\ m.amount \in Uint
        /\ TaxInfoOf(m) \in TaxInfo /\ TaxOk(m) /\ m.amount <= balances[payer]
        /\ balances' = Paid(payer, m)
        /\ UNCHANGED token_info
        /\ Return(Forward(m)) \/ Return(<<NotifyMsg(m)>> \o Forward(m))

LEMMA PaymentShifts ==
    ASSUME IInv, IInv', EInv, NEW payer \in Addr, PaymentOf(payer), NEW a \in AnyAddr
    PROVE  LET m == Head(pending)
           IN  Worth'[a] = Worth[a] - (IF a = payer THEN m.amount ELSE 0)
                           + (IF a = m.recipient THEN SplitOf(m).net ELSE 0)
                           + (IF a = TaxInfoOf(m).proceeds THEN SplitOf(m).tax ELSE 0)
                           - PromisedBy(m, a)
<1>. DEFINE m == Head(pending)
            msgs == IF Return(Forward(m)) THEN Forward(m) ELSE <<NotifyMsg(m)>> \o Forward(m)
            net == SplitOf(m).net
            tax == SplitOf(m).tax
            n == m.amount
            paid == (IF a = m.recipient THEN net ELSE 0)
            taxed == (IF a = TaxInfoOf(m).proceeds THEN tax ELSE 0)
            parked == (IF a = Self THEN tax ELSE 0)
            debit == (IF a = payer THEN n ELSE 0)
<1>1. /\ pending # <<>> /\ m.recipient \in Addr /\ m.sender \in Addr /\ m.amount \in Uint
      /\ TaxInfoOf(m) \in TaxInfo /\ TaxOk(m) /\ m.amount <= balances[payer]
      /\ balances' = Paid(payer, m) /\ Return(msgs)
  BY DEF PaymentOf
<1>2. StoreSound
  BY StoresNow
<1>3. net \in Uint /\ tax \in Uint
  BY <1>1, <1>2, PaidSound
<1>4. net \in Nat /\ tax \in Nat /\ n \in Nat
  BY <1>1, <1>3, RatesAssumption DEF Uint
<1>5. msgs \in Seq(Message) /\ Promised(msgs, a) = taxed - parked
  <2>1. Forward(m) \in Seq(Message) /\ Promised(Forward(m), a) = taxed - parked
    BY <1>1, <1>3, ForwardPromises
  <2>2. /\ <<NotifyMsg(m)>> \o Forward(m) \in Seq(Message)
        /\ Promised(<<NotifyMsg(m)>> \o Forward(m), a) = Promised(Forward(m), a)
    BY <1>1, <1>3, <2>1, NotifyPromisesNothing
  <2>. QED
    BY <2>1, <2>2
<1>6. Held(balances', a) = Held(balances, a) - debit + paid + parked
  <2>1. CASE a = NoAddr
    <3>1. a # payer /\ a # m.recipient /\ a # Self
      BY <1>1, <2>1, RatesAssumption, ChainAssumption
    <3>. QED
      BY <2>1, <3>1 DEF Held
  <2>2. CASE a # NoAddr
    <3>1. a \in Addr
      BY <2>2 DEF AnyAddr
    <3>2. Paid(payer, m)[a] = balances[a] - debit + paid + parked
      BY <1>1, <3>1, StoresNow, PaidIs
    <3>. QED
      BY <1>1, <2>2, <3>2 DEF Held
  <2>. QED
    BY <2>1, <2>2
<1>. HIDE DEF msgs
<1>7. /\ Worth[a] \in Int
      /\ Worth'[a] = Worth[a] + Held(balances', a) - Held(balances, a)
                      + Promised(msgs, a) - PromisedBy(m, a)
  BY <1>1, <1>5, ReturnShifts
<1>8. Held(balances, a) \in Nat /\ PromisedBy(m, a) \in Int
  BY <1>1, HeldNow, HeadIsMessage, PromisedByType
<1>9. debit \in Nat /\ paid \in Nat /\ taxed \in Nat /\ parked \in Nat
  BY <1>4
<1>. HIDE DEF debit, paid, taxed, parked, m
<1>10. Worth'[a] = Worth[a] - debit + paid + taxed - PromisedBy(m, a)
  BY <1>5, <1>6, <1>7, <1>8, <1>9, SMTT(30)
<1>. QED
  BY <1>10 DEF debit, paid, taxed, m

\* A payment of another than the contract is a payment of the ledger ...
LEMMA PaymentPays ==
    ASSUME IInv, IInv', EInv, Commits, NEW payer \in Addr \ {Self}, PaymentOf(payer),
           Head(pending).op # "transfer" \/ Head(pending).sender # Self
    PROVE  Ledger!Next
<1>. DEFINE m == Head(pending)
            net == SplitOf(m).net
            tax == SplitOf(m).tax
            wallet == TaxInfoOf(m).proceeds
            payee == m.recipient
<1>1. /\ payee \in AnyAddr /\ wallet \in AnyAddr /\ payer \in AnyAddr
      /\ m.amount <= balances[payer]
  BY DEF PaymentOf, TaxInfo, AnyAddr
<1>2. net \in Nat /\ tax \in Nat /\ net + tax = m.amount
  BY StoresNow, PaidIs DEF PaymentOf
<1>3. net + tax <= Worth[payer]
  <2>1. balances[payer] \in Nat
    BY StoresNow, RatesAssumption DEF StoreSound, Uint
  <2>. QED
    BY <1>1, <1>2, <2>1, WorthAtLeast
<1>4. ASSUME NEW a \in AnyAddr
      PROVE  Worth'[a] = Worth[a] - (IF a = payer THEN net + tax ELSE 0)
                         + (IF a = payee THEN net ELSE 0)
                         + (IF a = wallet THEN tax ELSE 0)
  <2>1. PromisedBy(m, a) = 0
    BY DEF PromisedBy, OwedToBy, OwedBy
  <2>2. Worth'[a] = Worth[a] - (IF a = payer THEN m.amount ELSE 0)
                    + (IF a = payee THEN net ELSE 0)
                    + (IF a = wallet THEN tax ELSE 0) - PromisedBy(m, a)
    BY PaymentShifts
  <2>3. Worth[a] \in Nat
    BY WorthAtLeast
  <2>. HIDE DEF m, net, tax, wallet, payee
  <2>. QED
    BY <1>2, <2>1, <2>2, <2>3
<1>5. token_info'.total_supply = token_info.total_supply
  BY DEF PaymentOf
<1>. HIDE DEF m, net, tax, wallet, payee
<1>. QED
  BY <1>1, <1>2, <1>3, <1>4, <1>5, LedgerPays

\* ... and a forward takes the tax on it from the wallet that gets the rest.
LEMMA ForwardPays ==
    ASSUME IInv, IInv', EInv, Commits, PaymentOf(Self),
           Head(pending).op = "transfer", Head(pending).sender = Self
    PROVE  Ledger!Next
<1>. DEFINE m == Head(pending)
            net == SplitOf(m).net
            tax == SplitOf(m).tax
            wallet == TaxInfoOf(m).proceeds
            payee == m.recipient
            n == m.amount
<1>1. /\ payee \in Addr /\ payee \in AnyAddr /\ wallet \in AnyAddr /\ Self \in Addr
      /\ m \in Message /\ pending \in Seq(Message) /\ pending # <<>>
  BY ChainAssumption, HeadIsMessage, StoresNow DEF PaymentOf, TaxInfo, AnyAddr
<1>2. net \in Nat /\ tax \in Nat /\ net + tax = n
  BY ChainAssumption, StoresNow, PaidIs DEF PaymentOf
<1>3. 0 + tax <= Worth[payee]
  <2>1. OwedTo(pending, payee) = OwedToBy(m, payee) + OwedTo(Tail(pending), payee)
    BY <1>1, OwedToHeadTail
  <2>2. OwedToBy(m, payee) = n
    BY DEF OwedToBy
  <2>3. OwedTo(Tail(pending), payee) \in Nat
    BY <1>1, HeadIsMessage, OwedToType
  <2>4. Worth[payee] \in Nat /\ Worth[payee] >= OwedTo(pending, payee)
    BY <1>1, WorthAtLeast
  <2>. HIDE DEF m, net, tax, payee, n
  <2>. QED
    BY <1>2, <2>1, <2>2, <2>3, <2>4
<1>4. ASSUME NEW a \in AnyAddr
      PROVE  Worth'[a] = Worth[a] - (IF a = payee THEN 0 + tax ELSE 0)
                         + (IF a = payee THEN 0 ELSE 0)
                         + (IF a = wallet THEN tax ELSE 0)
  <2>1. PromisedBy(m, a) = (IF a = payee THEN n ELSE 0) - (IF a = Self THEN n ELSE 0)
    BY DEF PromisedBy, OwedToBy, OwedBy
  <2>2. Worth'[a] = Worth[a] - (IF a = Self THEN n ELSE 0)
                    + (IF a = payee THEN net ELSE 0)
                    + (IF a = wallet THEN tax ELSE 0) - PromisedBy(m, a)
    BY <1>1, PaymentShifts
  <2>3. Worth[a] \in Nat
    BY WorthAtLeast
  <2>. HIDE DEF m, net, tax, wallet, payee, n
  <2>. QED
    BY <1>2, <2>1, <2>2, <2>3
<1>5. token_info'.total_supply = token_info.total_supply
  BY DEF PaymentOf
<1>. HIDE DEF m, net, tax, wallet, payee
<1>. QED
  BY <1>1, <1>2, <1>3, <1>4, <1>5, LedgerPays

LEMMA PaymentHandlersPay ==
    ASSUME IInv, IInv', EInv, Commits, Transfer \/ Send \/ TransferFrom \/ SendFrom
    PROVE  Ledger!Next
<1>. DEFINE m == Head(pending)
<1>1. pending # <<>> /\ m \in Message /\ StoreSound
  BY HeadIsMessage, StoresNow DEF Transfer, Send, TransferFrom, SendFrom, Executing
<1>2. CASE Transfer
  <2>1. /\ m.op = "transfer" /\ m.recipient \in Addr /\ TaxOk(m)
        /\ m.amount <= balances[m.sender] /\ balances' = Paid(m.sender, m)
        /\ UNCHANGED token_info /\ Return(Forward(m))
    BY <1>2 DEF Transfer, TransferOk, Executing
  <2>2. m.sender \in Addr /\ m.amount \in Uint /\ TaxInfoOf(m) \in TaxInfo
    BY <1>1, <2>1, MessageByOp, TaxInfoType DEF TransferMsg
  <2>3. PaymentOf(m.sender)
    BY <1>1, <2>1, <2>2 DEF PaymentOf
  <2>4. CASE m.sender = Self
    BY <2>1, <2>3, <2>4, ForwardPays
  <2>5. CASE m.sender # Self
    BY <2>2, <2>3, <2>5, PaymentPays
  <2>. QED
    BY <2>4, <2>5
<1>3. CASE Send
  <2>1. /\ m.op = "send" /\ m.recipient \in Addr /\ TaxOk(m)
        /\ m.amount <= balances[m.sender] /\ balances' = Paid(m.sender, m)
        /\ UNCHANGED token_info /\ Return(<<NotifyMsg(m)>> \o Forward(m))
    BY <1>3 DEF Send, SendOk, Executing
  <2>2. m.sender \in Addr /\ m.amount \in Uint /\ TaxInfoOf(m) \in TaxInfo
    BY <1>1, <2>1, MessageByOp, TaxInfoType DEF TransferMsg
  <2>3. m.sender # Self
    BY <1>1, <2>1, HeadNotOwn
  <2>4. PaymentOf(m.sender)
    BY <1>1, <2>1, <2>2 DEF PaymentOf
  <2>. QED
    BY <2>2, <2>3, <2>4, PaymentPays
<1>4. CASE TransferFrom \/ SendFrom
  <2>1. /\ m.op \in {"transfer_from", "send_from"} /\ m.recipient \in Addr /\ m.owner \in Addr
        /\ TaxOk(m) /\ DeductAllowanceOk(m.owner, m.sender, m.amount)
        /\ m.amount <= balances[m.owner] /\ balances' = Paid(m.owner, m)
        /\ UNCHANGED token_info
        /\ Return(Forward(m)) \/ Return(<<NotifyMsg(m)>> \o Forward(m))
    BY <1>4 DEF TransferFrom, SendFrom, TransferFromOk, SendFromOk, Executing
  <2>2. m.sender \in Addr /\ m.amount \in Uint /\ TaxInfoOf(m) \in TaxInfo
    BY <1>1, <2>1, MessageByOp, TaxInfoType DEF FromMsg
  <2>3. m.owner # Self
    BY <2>1, <2>2, NoGrantsNow DEF DeductAllowanceOk, Spendable, EInv
  <2>4. PaymentOf(m.owner)
    BY <1>1, <2>1, <2>2 DEF PaymentOf
  <2>. QED
    BY <2>1, <2>3, <2>4, PaymentPays
<1>. QED
  BY <1>2, <1>3, <1>4

-----------------------------------------------------------------------------
\* Everything else.

\* A message of another than the contract, that returns messages of others.
LEMMA OthersShift ==
    ASSUME IInv, IInv', pending # <<>>,
           Head(pending).op # "transfer" \/ Head(pending).sender # Self,
           NEW msgs \in Seq(Message), \A i \in DOMAIN msgs : msgs[i].sender # Self,
           Return(msgs), NEW a \in AnyAddr
    PROVE  /\ Worth[a] \in Int
           /\ Worth'[a] = Worth[a] + Held(balances', a) - Held(balances, a)
<1>1. PromisedBy(Head(pending), a) = 0
  BY DEF PromisedBy, OwedToBy, OwedBy
<1>2. Promised(msgs, a) = 0
  <2>1. OwedTo(msgs, a) = 0 /\ Owed(msgs) = 0
    BY OwedToByOthers, OwedByOthers
  <2>. QED
    BY <2>1 DEF Promised
<1>3. Held(balances, a) \in Nat /\ Held(balances', a) \in Nat
  BY HeldNow, HeldNext
<1>4. /\ Worth[a] \in Int
      /\ Worth'[a] = Worth[a] + Held(balances', a) - Held(balances, a)
                     + Promised(msgs, a) - PromisedBy(Head(pending), a)
  BY ReturnShifts
<1>. QED
  BY <1>1, <1>2, <1>3, <1>4

LEMMA SilentRests ==
    ASSUME IInv, IInv', Commits, pending # <<>>,
           Head(pending).op # "transfer" \/ Head(pending).sender # Self,
           NEW msgs \in Seq(Message), \A i \in DOMAIN msgs : msgs[i].sender # Self,
           Return(msgs), UNCHANGED balances, token_info'.total_supply = token_info.total_supply
    PROVE  Ledger!Next
<1>1. ASSUME NEW a \in AnyAddr
      PROVE  Worth'[a] = Worth[a]
  <2>1. /\ Worth[a] \in Int
        /\ Worth'[a] = Worth[a] + Held(balances', a) - Held(balances, a)
    BY OthersShift
  <2>2. Held(balances, a) \in Nat /\ Held(balances', a) = Held(balances, a)
    BY HeldNow
  <2>. QED
    BY <2>1, <2>2
<1>2. Worth' = Worth
  BY <1>1, WorthIsFunction
<1>. QED
  BY <1>2, CommitIsContinue, SameWorthIsRest DEF Commits

\* The handlers that move no tokens.
LEMMA SilentHandlersRest ==
    ASSUME IInv, IInv', EInv, Commits,
           \/ IncreaseAllowance \/ DecreaseAllowance \/ UpdateMinter
           \/ SetTaxMap \/ SetTaxAdmin \/ SetWhaleInfo \/ SetWhaleAdmin
    PROVE  Ledger!Next
<1>1. /\ pending # <<>> /\ UNCHANGED balances /\ Return(<<>>)
      /\ Head(pending).op # "transfer"
  BY DEF IncreaseAllowance, DecreaseAllowance, UpdateMinter, SetTaxMap, SetTaxAdmin,
     SetWhaleInfo, SetWhaleAdmin, Executing
<1>2. token_info'.total_supply = token_info.total_supply
  <2>1. token_info \in TokenInfo
    BY StoresNow DEF StoreSound
  <2>. QED
    BY <2>1 DEF TokenInfo, IncreaseAllowance, DecreaseAllowance, UpdateMinter, SetTaxMap,
       SetTaxAdmin, SetWhaleInfo, SetWhaleAdmin
<1>3. <<>> \in Seq(Message) /\ DOMAIN <<>> = {}
  BY EmptySeq
<1>4. \A i \in DOMAIN <<>> : <<>>[i].sender # Self
  BY <1>3
<1>. QED
  BY <1>1, <1>2, <1>3, <1>4, SilentRests

LEMMA ReceiveRests ==
    ASSUME IInv, IInv', EInv, Commits, Receive
    PROVE  Ledger!Next
<1>1. /\ pending # <<>> /\ Head(pending).op # "transfer" /\ UNCHANGED balances
      /\ token_info'.total_supply = token_info.total_supply
  BY DEF Receive, Executing, store
<1>2. <<>> \in Seq(Message) /\ DOMAIN <<>> = {}
  BY EmptySeq
<1>3. CASE Return(<<>>)
  <2>1. \A i \in DOMAIN <<>> : <<>>[i].sender # Self
    BY <1>2
  <2>. QED
    BY <1>1, <1>2, <1>3, <2>1, SilentRests
<1>4. CASE \E calls \in Reactions : Return(calls)
  <2>1. PICK calls \in Reactions : Return(calls)
    BY <1>4
  <2>2. calls \in Seq(Message)
    BY CallsOfOthers
  <2>3. \A i \in DOMAIN calls : calls[i].sender # Self
    BY MessagesAssumption, ChainAssumption
  <2>. QED
    BY <1>1, <2>1, <2>2, <2>3, SilentRests
<1>. QED
  BY <1>3, <1>4 DEF Receive

\* Tokens that come into being or cease to be.
LEMMA MintMints ==
    ASSUME IInv, IInv', EInv, Commits, Mint
    PROVE  Ledger!Next
<1>. DEFINE m == Head(pending)
            n == m.amount
            payee == m.recipient
<1>1. /\ pending # <<>> /\ m.op = "mint" /\ payee \in Addr /\ payee \in AnyAddr
      /\ balances' = Credit(balances, payee, n) /\ Return(<<>>)
  BY DEF Mint, MintOk, Executing, AnyAddr
<1>2. n \in Nat
  BY <1>1, HeadIsMessage, MessageByOp, RatesAssumption DEF MintMsg, Uint
<1>3. token_info.total_supply \in Nat /\ token_info'.total_supply = token_info.total_supply + n
  BY StoresNow, RatesAssumption DEF StoreSound, TokenInfo, Uint, Mint
<1>4. balances \in [Addr -> Int]
  BY StoresNow, RatesAssumption DEF StoreSound, Uint
<1>. HIDE DEF n, payee
<1>5. ASSUME NEW a \in AnyAddr
      PROVE  Worth'[a] = Worth[a] + (IF a = payee THEN n ELSE 0) /\ Worth[a] \in Int
  <2>1. <<>> \in Seq(Message) /\ \A i \in DOMAIN <<>> : <<>>[i].sender # Self
    BY EmptySeq
  <2>2. /\ Worth[a] \in Int
        /\ Worth'[a] = Worth[a] + Held(balances', a) - Held(balances, a)
    BY <1>1, <2>1, OthersShift
  <2>3. Held(balances', a) = Held(balances, a) + (IF a = payee THEN n ELSE 0)
    <3>1. CASE a = NoAddr
      BY <1>1, <3>1, RatesAssumption DEF Held
    <3>2. CASE a \in Addr
      BY <1>1, <1>2, <1>4, <3>2, CreditIs, RatesAssumption DEF Held
    <3>. QED
      BY <3>1, <3>2 DEF AnyAddr
  <2>4. Held(balances, a) \in Nat
    BY HeldNow
  <2>. QED
    BY <1>2, <2>2, <2>3, <2>4
<1>6. Worth' = Ledger!Credit(Worth, payee, token_info'.total_supply - token_info.total_supply)
  <2>1. token_info'.total_supply - token_info.total_supply = n
    BY <1>2, <1>3
  <2>. DEFINE f == [Worth EXCEPT ![payee] = @ + n]
  <2>2. /\ f = [a \in AnyAddr |-> f[a]]
        /\ \A a \in AnyAddr : f[a] = Worth[a] + (IF a = payee THEN n ELSE 0)
    BY <1>1, <1>2, <1>5, WorthIsFunction
  <2>3. f = Ledger!Credit(Worth, payee, n)
    BY DEF Ledger!Credit
  <2>. HIDE DEF f
  <2>4. f = Worth'
    BY <1>5, <2>2, WorthIsFunction
  <2>. QED
    BY <2>1, <2>3, <2>4
<1>7. Ledger!Continue
  BY CommitIsContinue DEF Commits
<1>8. token_info'.total_supply \in Nat /\ token_info'.total_supply >= token_info.total_supply
  BY <1>2, <1>3
<1>9. Ledger!Mint(payee)
  BY <1>6, <1>7, <1>8 DEF Ledger!Mint, Worth
<1>. QED
  BY <1>1, <1>9 DEF Ledger!Next

LEMMA BurnBurns ==
    ASSUME IInv, IInv', EInv, Commits, NEW payer \in Addr \ {Self}, NEW n \in Nat,
           pending # <<>>, Head(pending).op # "transfer", Return(<<>>),
           n <= balances[payer], balances' = Debit(balances, payer, n),
           n <= token_info.total_supply,
           token_info' = [token_info EXCEPT !.total_supply = @ - n]
    PROVE  Ledger!Next
<1>1. token_info.total_supply \in Nat /\ token_info'.total_supply = token_info.total_supply - n
  BY StoresNow, RatesAssumption DEF StoreSound, TokenInfo, Uint
<1>2. balances \in [Addr -> Nat] /\ payer \in AnyAddr
  BY StoresNow, RatesAssumption DEF StoreSound, Uint, AnyAddr
<1>3. ASSUME NEW a \in AnyAddr
      PROVE  Worth'[a] = Worth[a] - (IF a = payer THEN n ELSE 0) /\ Worth[a] \in Int
  <2>1. <<>> \in Seq(Message) /\ \A i \in DOMAIN <<>> : <<>>[i].sender # Self
    BY EmptySeq
  <2>2. /\ Worth[a] \in Int
        /\ Worth'[a] = Worth[a] + Held(balances', a) - Held(balances, a)
    BY <2>1, OthersShift
  <2>3. Held(balances', a) = Held(balances, a) - (IF a = payer THEN n ELSE 0)
    <3>1. CASE a = NoAddr
      BY <3>1, RatesAssumption DEF Held
    <3>2. CASE a \in Addr
      BY <1>2, <3>2, RatesAssumption DEF Held, Debit
    <3>. QED
      BY <3>1, <3>2 DEF AnyAddr
  <2>4. Held(balances, a) \in Nat
    BY HeldNow
  <2>. QED
    BY <2>2, <2>3, <2>4
<1>4. Worth' = Ledger!Debit(Worth, payer, token_info.total_supply - token_info'.total_supply)
  <2>1. token_info.total_supply - token_info'.total_supply = n
    BY <1>1
  <2>. DEFINE f == [Worth EXCEPT ![payer] = @ - n]
  <2>2. /\ f = [a \in AnyAddr |-> f[a]]
        /\ \A a \in AnyAddr : f[a] = Worth[a] - (IF a = payer THEN n ELSE 0)
    BY <1>2, <1>3, WorthIsFunction
  <2>3. f = Ledger!Debit(Worth, payer, n)
    BY DEF Ledger!Debit
  <2>. HIDE DEF f
  <2>4. f = Worth'
    BY <1>3, <2>2, WorthIsFunction
  <2>. QED
    BY <2>1, <2>3, <2>4
<1>5. Ledger!Continue
  BY CommitIsContinue DEF Commits
<1>6. /\ token_info'.total_supply \in Nat /\ token_info'.total_supply <= token_info.total_supply
      /\ token_info.total_supply - token_info'.total_supply <= Worth[payer]
  <2>1. Worth[payer] \in Nat /\ Worth[payer] >= balances[payer] /\ balances[payer] \in Nat
    BY <1>2, WorthAtLeast
  <2>. QED
    BY <1>1, <2>1
<1>7. Ledger!Burn(payer)
  BY <1>4, <1>5, <1>6 DEF Ledger!Burn, Worth
<1>. QED
  BY <1>7 DEF Ledger!Next

LEMMA BurnHandlersBurn ==
    ASSUME IInv, IInv', EInv, Commits, Burn \/ BurnFrom
    PROVE  Ledger!Next
<1>. DEFINE m == Head(pending)
<1>1. pending # <<>> /\ m \in Message
  BY HeadIsMessage DEF Burn, BurnFrom, Executing
<1>2. CASE Burn
  <2>1. /\ m.op = "burn" /\ m.amount <= balances[m.sender]
        /\ m.amount <= token_info.total_supply
        /\ balances' = Debit(balances, m.sender, m.amount) /\ Return(<<>>)
        /\ token_info' = [token_info EXCEPT !.total_supply = @ - m.amount]
    BY <1>2 DEF Burn, BurnOk, Executing
  <2>2. m.sender \in Addr \ {Self} /\ m.amount \in Nat
    BY <1>1, <2>1, HeadNotOwn, MessageByOp, RatesAssumption DEF BurnMsg, Uint
  <2>. QED
    BY <1>1, <2>1, <2>2, BurnBurns
<1>3. CASE BurnFrom
  <2>1. /\ m.op = "burn_from" /\ m.owner \in Addr
        /\ DeductAllowanceOk(m.owner, m.sender, m.amount)
        /\ m.amount <= balances[m.owner] /\ m.amount <= token_info.total_supply
        /\ balances' = Debit(balances, m.owner, m.amount) /\ Return(<<>>)
        /\ token_info' = [token_info EXCEPT !.total_supply = @ - m.amount]
    BY <1>3 DEF BurnFrom, BurnFromOk, Executing
  <2>2. m.sender \in Addr /\ m.amount \in Nat
    BY <1>1, <2>1, MessageByOp, RatesAssumption DEF BurnFromMsg, Uint
  <2>3. m.owner # Self
    BY <2>1, <2>2, NoGrantsNow DEF DeductAllowanceOk, Spendable, EInv
  <2>. QED
    BY <1>1, <2>1, <2>2, <2>3, BurnBurns
<1>. QED
  BY <1>2, <1>3

\* A failed transaction is undone; one that begins promises nothing yet.
LEMMA FailUndoes ==
    ASSUME Fail
    PROVE  Ledger!Next
<1>1. /\ pending' = <<>> /\ balances' = committed.balances /\ committed' = committed
      /\ token_info' = committed.token_info
  BY DEF Fail
<1>2. WorthIn(balances, pending)' = WorthIn(committed.balances, <<>>)
  BY <1>1 DEF WorthIn, OwedTo, Owed, TotalBalance, Units
<1>3. WorthIn(committed.balances, <<>>)' = WorthIn(committed.balances, <<>>)
  BY <1>1 DEF WorthIn, OwedTo, Owed, TotalBalance, Units
<1>4. Ledger!Undo
  BY <1>1, <1>2, <1>3 DEF Ledger!Undo
<1>. QED
  BY <1>4 DEF Ledger!Next

LEMMA SubmitRests ==
    ASSUME IInv, IInv', Submit
    PROVE  Ledger!Next
<1>1. /\ pending = <<>> /\ pending' \in Txs /\ balances' = balances /\ committed' = committed
      /\ token_info' = token_info
  BY DEF Submit, store
<1>2. /\ pending' \in Seq(Message) /\ Owed(pending') = 0
      /\ \A i \in DOMAIN pending' : pending'[i].sender # Self
  BY <1>1, CallsOfOthers, MessagesAssumption
<1>3. \A a : OwedTo(pending', a) = 0 /\ OwedTo(pending, a) = 0
  BY <1>1, <1>2, OwedToByOthers, OwedToNone
<1>4. Owed(pending) = 0
  BY <1>1, OwedNone
<1>5. WorthIn(balances', pending') = WorthIn(balances, pending)
  BY <1>1, <1>2, <1>3, <1>4 DEF WorthIn
<1>6. Worth' = Worth
  <2>1. Worth' = WorthIn(balances', pending')
    BY DEF Worth, WorthIn, OwedTo, Owed, TotalBalance, Units
  <2>. QED
    BY <1>5, <2>1 DEF Worth
<1>7. Ledger!Continue
  BY <1>1 DEF Ledger!Continue, WorthIn, OwedTo, Owed, TotalBalance, Units
<1>. QED
  BY <1>1, <1>6, <1>7, SameWorthIsRest

LEMMA NextImplementsLedger ==
    ASSUME IInv, IInv', EInv, [Next]_vars
    PROVE  [Ledger!Next]_(Ledger!ledger_vars)
<1>1. CASE Execute \/ Receive
  <2>1. Commits
    BY <1>1 DEF Execute, Receive, Transfer, TransferFrom, Send, SendFrom, Burn, BurnFrom,
       Mint, IncreaseAllowance, DecreaseAllowance, UpdateMinter, SetTaxMap, SetTaxAdmin,
       SetWhaleInfo, SetWhaleAdmin, Return, Commits
  <2>. QED
    BY <1>1, <2>1, PaymentHandlersPay, SilentHandlersRest, MintMints, BurnHandlersBurn,
       ReceiveRests DEF Execute
<1>2. CASE Fail
  BY <1>2, FailUndoes
<1>3. CASE Submit
  BY <1>3, SubmitRests
<1>4. CASE NextBlock \/ UNCHANGED vars
  <2>1. UNCHANGED <<balances, token_info, pending, committed>>
    BY <1>4 DEF NextBlock, vars, store
  <2>. QED
    BY <2>1 DEF Ledger!ledger_vars, WorthIn, OwedTo, Owed, TotalBalance, Units
<1>. QED
  BY <1>1, <1>2, <1>3, <1>4 DEF Next, TxStep

-----------------------------------------------------------------------------
\* The initial balances, with NoAddr beside them.
\* A sound store where nothing runs is a ledger to begin with.
LEMMA RestImplementsLedger ==
    ASSUME balances \in [Addr -> Uint], TotalBalance(balances) = token_info.total_supply,
           pending = <<>>, committed = Store
    PROVE  Ledger!Init
<1>1. committed.balances = balances /\ committed.token_info = token_info
  BY DEF Store
<1>2. \A a \in AnyAddr : OwedTo(<<>>, a) = 0 /\ Owed(<<>>) = 0 /\ Held(balances, a) \in Nat
  BY OwedToNone, OwedNone, RatesAssumption DEF Held, AnyAddr, Uint
<1>3. WorthIn(balances, <<>>) = [a \in AnyAddr |-> Held(balances, a)]
  <2>1. WorthIn(balances, <<>>)
          = [a \in AnyAddr |-> Held(balances, a) + OwedTo(<<>>, a)
                               - (IF a = Self THEN Owed(<<>>) ELSE 0)]
    BY DEF WorthIn, Held
  <2>2. \A a \in AnyAddr : Held(balances, a) + OwedTo(<<>>, a)
                               - (IF a = Self THEN Owed(<<>>) ELSE 0) = Held(balances, a)
    BY <1>2
  <2>. QED
    BY <2>1, <2>2
<1>. DEFINE w == WorthIn(balances, <<>>)
<1>4. w \in [AnyAddr -> Nat] /\ w[NoAddr] = 0 /\ \A a \in Addr : w[a] = balances[a]
  BY <1>2, <1>3, RatesAssumption DEF Held, AnyAddr
<1>5. Ledger!TotalBalance(w) = TotalBalance(balances)
  <2>1. DOMAIN w = Addr \cup {NoAddr} /\ DOMAIN balances = Addr
    BY <1>3 DEF AnyAddr
  <2>2. 1 .. w[NoAddr] = {}
    BY <1>4
  <2>. HIDE DEF w
  <2>3. Ledger!Units(w) = Units(balances)
    BY <1>4, <2>1, <2>2 DEF Ledger!Units, Units
  <2>. QED
    BY <2>3 DEF Ledger!TotalBalance, TotalBalance, Ledger!Cardinality, Cardinality
<1>6. WorthIn(balances, pending) = w
  OBVIOUS
<1>. HIDE DEF w
<1>7. WorthIn(committed.balances, <<>>) = w
  BY <1>1 DEF w
<1>. QED
  BY <1>1, <1>4, <1>5, <1>6, <1>7
     DEF Ledger!Init, Ledger!Accounts, Ledger!Settled, Ledger!Now, AnyAddr

LEMMA InitImplementsLedger == Init => Ledger!Init
<1>1. Init => IInv
  BY InitEstablishesInv
<1>2. Init => pending = <<>> /\ committed = Store
  BY DEF Init
<1>. QED
  BY <1>1, <1>2, StoresNow, RestImplementsLedger DEF StoreSound

\* The escrow, the forwards (taxed again or not), the notified contracts and the
\* rollbacks amount to this: in one step a payment takes the gross amount from the
\* payer and gives the net amount to the recipient and the tax to the wallet.
THEOREM TokenImplementsLedger == Spec => ImplementsLedger
<1>1. Init => Ledger!Init
  BY InitImplementsLedger
<1>2. IInv /\ IInv' /\ EInv /\ [Next]_vars => [Ledger!Next]_(Ledger!ledger_vars)
  BY NextImplementsLedger
<1>. QED
  BY <1>1, <1>2, EscrowInvariant, PTL DEF Spec, ImplementsLedger, Ledger!Spec

-----------------------------------------------------------------------------
\* The ledger itself: whatever happens, nothing is created or lost but by a mint or a
\* burn, and nobody's worth drops below zero.

IsBalanced(w, n) == w \in [AnyAddr -> Nat] /\ n \in Nat /\ TotalBalance(w) = n

SavedWorth == WorthIn(committed.balances, <<>>)

\* What Undo brings back has to be balanced too.
LInv ==
    /\ IsBalanced(Worth, token_info.total_supply)
    /\ IsBalanced(SavedWorth, committed.token_info.total_supply)

LEMMA AccountsFinite == IsFiniteSet(AnyAddr) /\ Ledger!Accounts = AnyAddr
<1>1. IsFiniteSet({NoAddr})
  BY FS_Singleton
<1>. QED
  BY <1>1, ChainAssumption, FS_Union DEF AnyAddr, Ledger!Accounts

\* The instance counts as the token does.
LEMMA LedgerTotal == \A w : Ledger!TotalBalance(w) = TotalBalance(w)
BY DEF Ledger!TotalBalance, TotalBalance, Ledger!Units, Units, Ledger!Cardinality, Cardinality

LEMMA MintedIsBalanced ==
    ASSUME NEW w, NEW n, IsBalanced(w, n), NEW a \in AnyAddr, NEW k \in Nat, k >= n
    PROVE  IsBalanced(Credit(w, a, k - n), k)
<1>1. k - n \in Nat /\ n + (k - n) = k
  BY DEF IsBalanced
<1>2. w \in [AnyAddr -> Nat] /\ TotalBalance(w) = n
  BY DEF IsBalanced
<1>3. /\ Credit(w, a, k - n) \in [AnyAddr -> Nat]
      /\ TotalBalance(Credit(w, a, k - n)) = n + (k - n)
  BY <1>1, <1>2, AccountsFinite, CreditAdds
<1>. QED
  BY <1>1, <1>3 DEF IsBalanced

LEMMA BurnedIsBalanced ==
    ASSUME NEW w, NEW n, IsBalanced(w, n), NEW a \in AnyAddr, NEW k \in Nat, k <= n,
           n - k <= w[a]
    PROVE  IsBalanced(Debit(w, a, n - k), k)
<1>1. n - k \in Nat /\ n - (n - k) = k
  BY DEF IsBalanced
<1>2. w \in [AnyAddr -> Nat] /\ TotalBalance(w) = n
  BY DEF IsBalanced
<1>3. /\ Debit(w, a, n - k) \in [AnyAddr -> Nat]
      /\ TotalBalance(Debit(w, a, n - k)) = n - (n - k)
  BY <1>1, <1>2, AccountsFinite, DebitTakes
<1>. QED
  BY <1>1, <1>3 DEF IsBalanced

LEMMA PaidIsBalanced ==
    ASSUME NEW w, NEW n, IsBalanced(w, n), NEW payer \in AnyAddr, NEW payee \in AnyAddr,
           NEW wallet \in AnyAddr, NEW net \in Nat, NEW tax \in Nat, net + tax <= w[payer]
    PROVE  IsBalanced(Credit(Credit(Debit(w, payer, net + tax), payee, net), wallet, tax), n)
<1>. DEFINE after == SplitMoved(w, payer, payee, wallet, net, tax)
<1>1. w \in [AnyAddr -> Nat] /\ TotalBalance(w) = n /\ n \in Nat
  BY DEF IsBalanced
<1>2. after \in [AnyAddr -> Nat] /\ TotalBalance(after) = TotalBalance(w)
  <2>1. IsFiniteSet(AnyAddr) /\ w \in [AnyAddr -> Nat]
    BY <1>1, AccountsFinite
  <2>. QED
    BY ONLY <2>1, payer \in AnyAddr, payee \in AnyAddr, wallet \in AnyAddr, net \in Nat,
            tax \in Nat, net + tax <= w[payer], SplitMoves
<1>3. IsBalanced(after, n)
  BY <1>1, <1>2 DEF IsBalanced
<1>. QED
  BY <1>3 DEF SplitMoved

LEMMA LedgerStartsBalanced == Ledger!Init => LInv
<1>. SUFFICES ASSUME Ledger!Init
              PROVE  LInv
  OBVIOUS
<1>1. /\ Worth \in [AnyAddr -> Nat]
      /\ token_info.total_supply = TotalBalance(Worth)
      /\ SavedWorth = Worth
      /\ committed.token_info.total_supply = token_info.total_supply
  BY LedgerTotal, AccountsFinite DEF Ledger!Init, Ledger!Now, Worth, SavedWorth
<1>2. TotalBalance(Worth) \in Nat
  BY <1>1, AccountsFinite, TotalIsBound
<1>. QED
  BY <1>1, <1>2 DEF LInv, IsBalanced

\* The end of a transaction saves what is balanced now.
LEMMA ContinueKeepsBalanced ==
    ASSUME LInv, Ledger!Continue, IsBalanced(Worth', token_info'.total_supply)
    PROVE  LInv'
<1>1. \/ SavedWorth' = SavedWorth
         /\ committed'.token_info.total_supply = committed.token_info.total_supply
      \/ SavedWorth' = Worth'
         /\ committed'.token_info.total_supply = token_info'.total_supply
  BY DEF Ledger!Continue, Ledger!Now, SavedWorth, Worth
<1>2. IsBalanced(SavedWorth', committed'.token_info.total_supply)
  BY <1>1 DEF LInv
<1>. QED
  BY <1>2 DEF LInv, IsBalanced

LEMMA LedgerStepsBalanced == LInv /\ [Ledger!Next]_(Ledger!ledger_vars) => LInv'
<1>. SUFFICES ASSUME LInv, [Ledger!Next]_(Ledger!ledger_vars)
              PROVE  LInv'
  OBVIOUS
<1>. DEFINE n == token_info.total_supply
            k == token_info'.total_supply
<1>1. IsBalanced(Worth, n) /\ IsBalanced(SavedWorth, committed.token_info.total_supply)
  BY DEF LInv
<1>2. CASE Ledger!Rest
  <2>1. Worth' = Worth /\ k = n /\ Ledger!Continue
    BY <1>2 DEF Ledger!Rest, Worth
  <2>. QED
    BY <1>1, <2>1, ContinueKeepsBalanced
<1>3. CASE Ledger!Undo
  <2>1. Worth' = SavedWorth /\ k = committed.token_info.total_supply
        /\ SavedWorth' = SavedWorth
        /\ committed'.token_info.total_supply = committed.token_info.total_supply
    BY <1>3 DEF Ledger!Undo, Worth, SavedWorth
  <2>. QED
    BY <1>1, <2>1 DEF LInv, IsBalanced
<1>4. CASE \E a \in Addr : Ledger!Mint(a)
  <2>1. PICK a \in Addr : Ledger!Mint(a)
    BY <1>4
  <2>2. /\ k \in Nat /\ k >= n /\ Ledger!Continue /\ a \in AnyAddr
        /\ Worth' = Credit(Worth, a, k - n)
    BY <2>1 DEF Ledger!Mint, Ledger!Credit, Credit, Worth, AnyAddr
  <2>3. IsBalanced(Worth', k)
    BY <1>1, <2>2, MintedIsBalanced
  <2>. QED
    BY <2>2, <2>3, ContinueKeepsBalanced
<1>5. CASE \E a \in Addr : Ledger!Burn(a)
  <2>1. PICK a \in Addr : Ledger!Burn(a)
    BY <1>5
  <2>2. /\ k \in Nat /\ k <= n /\ n - k <= Worth[a] /\ Ledger!Continue /\ a \in AnyAddr
        /\ Worth' = Debit(Worth, a, n - k)
    BY <2>1 DEF Ledger!Burn, Ledger!Debit, Debit, Worth, AnyAddr
  <2>3. IsBalanced(Worth', k)
    BY <1>1, <2>2, BurnedIsBalanced
  <2>. QED
    BY <2>2, <2>3, ContinueKeepsBalanced
<1>6. CASE \E payer, payee, wallet \in AnyAddr : Ledger!Pay(payer, payee, wallet)
  <2>1. PICK payer \in AnyAddr, payee \in AnyAddr, wallet \in AnyAddr :
           Ledger!Pay(payer, payee, wallet)
    BY <1>6
  <2>2. k = n /\ Ledger!Continue /\ Worth[payer] \in Nat
    BY <1>1, <2>1 DEF Ledger!Pay, IsBalanced
  <2>3. PICK net \in 0 .. Worth[payer] : \E tax \in 0 .. Worth[payer] - net :
           Worth' = Credit(Credit(Debit(Worth, payer, net + tax), payee, net), wallet, tax)
    BY <2>1 DEF Ledger!Pay, Ledger!Credit, Ledger!Debit, Credit, Debit, Worth
  <2>4. PICK tax \in 0 .. Worth[payer] - net :
           Worth' = Credit(Credit(Debit(Worth, payer, net + tax), payee, net), wallet, tax)
    BY <2>3
  <2>5. net \in Nat /\ tax \in Nat /\ net + tax <= Worth[payer]
    BY <2>2
  <2>6. IsBalanced(Worth', n)
    BY <1>1, <2>4, <2>5, PaidIsBalanced
  <2>. QED
    BY <2>2, <2>6, ContinueKeepsBalanced
<1>7. CASE UNCHANGED (Ledger!ledger_vars)
  <2>1. /\ Worth' = Worth /\ k = n /\ SavedWorth' = SavedWorth
        /\ committed'.token_info.total_supply = committed.token_info.total_supply
    BY <1>7 DEF Ledger!ledger_vars, Worth, SavedWorth
  <2>. QED
    BY <1>1, <2>1 DEF LInv, IsBalanced
<1>. QED
  BY <1>2, <1>3, <1>4, <1>5, <1>6, <1>7, AccountsFinite DEF Ledger!Next

\* The promise of the ledger, for whoever reads TaxedLedger instead of the code:
\* payments, mints, burns and undone transactions leave it balanced.
THEOREM LedgerIsBalanced == Ledger!Spec => []Ledger!Balanced
<1>1. LInv => Ledger!Balanced
  BY LedgerTotal, AccountsFinite DEF LInv, IsBalanced, Ledger!Balanced, Worth
<1>. QED
  BY <1>1, LedgerStartsBalanced, LedgerStepsBalanced, PTL DEF Ledger!Spec
=============================================================================
