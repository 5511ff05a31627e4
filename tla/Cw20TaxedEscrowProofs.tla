------------------------ MODULE Cw20TaxedEscrowProofs ------------------------
(***************************************************************************)
(* The taxes in transit and the whale limit, for every set of addresses,   *)
(* transactions and contracts, and every bound: a forward finds the tax it *)
(* forwards, a contract is notified of tokens it has, the contract pays    *)
(* nothing of its own and keeps no tax, no payment makes a whale or lets   *)
(* one grow, and each step of a transaction leaves less of it to do.       *)
(***************************************************************************)
EXTENDS Cw20TaxedProofs

-----------------------------------------------------------------------------
\* Amounts of the messages of a list: v gives the amount of each message.

AmountsOf(v, msgs) == [i \in DOMAIN msgs |-> v[msgs[i]]]
TotalOf(v, msgs) == TotalBalance(AmountsOf(v, msgs))

Values == UNION {[Message -> 0 .. M] : M \in Nat}

LEMMA AmountsOfType ==
    ASSUME NEW M \in Nat, NEW v \in [Message -> 0 .. M], NEW s \in Seq(Message)
    PROVE  AmountsOf(v, s) \in [1 .. Len(s) -> 0 .. M]
<1>1. \A i \in 1 .. Len(s) : s[i] \in Message
  BY ElementOfSeq
<1>2. DOMAIN s = 1 .. Len(s)
  BY LenProperties
<1>. QED
  BY <1>1, <1>2 DEF AmountsOf

LEMMA TotalOfType ==
    ASSUME NEW v \in Values, NEW s \in Seq(Message)
    PROVE  TotalOf(v, s) \in Nat
<1>1. PICK M \in Nat : v \in [Message -> 0 .. M]
  BY DEF Values
<1>2. Len(s) \in Nat /\ IsFiniteSet(1 .. Len(s))
  BY LenProperties, FS_Interval
<1>3. AmountsOf(v, s) \in [1 .. Len(s) -> 0 .. M]
  BY <1>1, AmountsOfType
<1>4. IsFiniteSet(Units(AmountsOf(v, s)))
  BY <1>2, <1>3, UnitsFinite
<1>. QED
  BY <1>4, FS_CardinalityType DEF TotalOf, TotalBalance

LEMMA TotalOfConcat ==
    ASSUME NEW v \in Values, NEW s \in Seq(Message), NEW t \in Seq(Message)
    PROVE  TotalOf(v, s \o t) = TotalOf(v, s) + TotalOf(v, t)
<1>. DEFINE n == Len(s)
            k == Len(t)
            f == AmountsOf(v, s)
            g == AmountsOf(v, t)
            h == AmountsOf(v, s \o t)
<1>0. PICK M \in Nat : v \in [Message -> 0 .. M]
  BY DEF Values
<1>1. n \in Nat /\ k \in Nat
  BY LenProperties
<1>2. /\ s \o t \in Seq(Message)
      /\ Len(s \o t) = n + k
      /\ \A i \in 1 .. (n + k) : (s \o t)[i] = IF i <= n THEN s[i] ELSE t[i - n]
  BY ConcatProperties
<1>3. /\ f \in [1 .. n -> 0 .. M] /\ g \in [1 .. k -> 0 .. M]
      /\ h \in [1 .. (n + k) -> 0 .. M]
  <2>1. h \in [1 .. Len(s \o t) -> 0 .. M]
    BY <1>0, <1>2, AmountsOfType
  <2>. QED
    BY <1>0, <1>2, <2>1, AmountsOfType
<1>4. DOMAIN s = 1 .. n /\ DOMAIN t = 1 .. k /\ DOMAIN (s \o t) = 1 .. (n + k)
  BY <1>2, LenProperties
<1>5. \A i \in 1 .. n : h[i] = f[i]
  <2>1. \A i \in 1 .. n : i \in 1 .. (n + k) /\ i <= n
    BY <1>1
  <2>. QED
    BY <1>2, <1>4, <2>1 DEF AmountsOf
<1>6. \A i \in 1 .. k : h[n + i] = g[i]
  <2>1. \A i \in 1 .. k : n + i \in 1 .. (n + k) /\ ~(n + i <= n) /\ (n + i) - n = i
    BY <1>1
  <2>. QED
    BY <1>2, <1>4, <2>1 DEF AmountsOf
<1>. HIDE DEF n, k, f, g, h
<1>7. TotalBalance(h) = TotalBalance(f) + TotalBalance(g)
  BY <1>0, <1>1, <1>3, <1>5, <1>6, TotalOfJoin, ZenonT(60)
<1>. QED
  BY <1>7 DEF TotalOf, f, g, h

LEMMA TotalOfSingle ==
    ASSUME NEW v \in Values, NEW m \in Message
    PROVE  TotalOf(v, <<m>>) = v[m]
<1>1. DOMAIN AmountsOf(v, <<m>>) = {1} /\ AmountsOf(v, <<m>>)[1] = v[m]
  BY DEF AmountsOf
<1>2. v[m] \in Nat
  BY DEF Values
<1>. QED
  BY <1>1, <1>2, TotalOfOne DEF TotalOf

LEMMA TotalOfNothing ==
    ASSUME NEW v, NEW s, \A i \in DOMAIN s : v[s[i]] = 0
    PROVE  TotalOf(v, s) = 0
<1>1. \A i \in DOMAIN AmountsOf(v, s) : AmountsOf(v, s)[i] = 0
  BY DEF AmountsOf
<1>. QED
  BY <1>1, TotalOfZeros DEF TotalOf

\* The message at hand and the others.
LEMMA TotalOfHeadTail ==
    ASSUME NEW v \in Values, NEW s \in Seq(Message), s # <<>>
    PROVE  TotalOf(v, s) = v[Head(s)] + TotalOf(v, Tail(s))
<1>1. Head(s) \in Message /\ Tail(s) \in Seq(Message)
  BY HeadTailProperties
<1>2. s = <<Head(s)>> \o Tail(s)
  BY <1>1
<1>3. <<Head(s)>> \in Seq(Message)
  BY <1>1
<1>4. TotalOf(v, <<Head(s)>> \o Tail(s)) = TotalOf(v, <<Head(s)>>) + TotalOf(v, Tail(s))
  BY <1>1, <1>3, TotalOfConcat
<1>. QED
  BY <1>1, <1>2, <1>4, TotalOfSingle

-----------------------------------------------------------------------------
\* What the pending messages owe.

OwedBy(m) == IF m.op = "transfer" /\ m.sender = Self THEN m.amount ELSE 0
OwedValue == [m \in Message |-> OwedBy(m)]

LEMMA OwedByType ==
    ASSUME NEW m \in Message
    PROVE  OwedBy(m) \in 0 .. MaxUint /\ OwedBy(m) \in Nat
<1>1. m.op = "transfer" => m.amount \in 0 .. MaxUint
  BY MessageByOp DEF TransferMsg, Uint
<1>. QED
  BY <1>1, RatesAssumption DEF OwedBy

LEMMA OwedValueType == OwedValue \in Values
BY OwedByType, RatesAssumption DEF OwedValue, Values

LEMMA OwedIsTotal ==
    ASSUME NEW s \in Seq(Message)
    PROVE  Owed(s) = TotalOf(OwedValue, s)
<1>1. \A i \in DOMAIN s : s[i] \in Message
  BY ElementOfSeq, LenProperties
<1>2. AmountsOf(OwedValue, s) = [i \in DOMAIN s |-> OwedBy(s[i])]
  BY <1>1 DEF AmountsOf, OwedValue
<1>. QED
  BY <1>2 DEF Owed, OwedBy, TotalOf

LEMMA OwedType ==
    ASSUME NEW s \in Seq(Message)
    PROVE  Owed(s) \in Nat
BY OwedIsTotal, OwedValueType, TotalOfType

LEMMA OwedNone == Owed(<<>>) = 0
<1>1. <<>> \in Seq(Message) /\ DOMAIN <<>> = {}
  BY EmptySeq
<1>2. TotalOf(OwedValue, <<>>) = 0
  BY <1>1, TotalOfNothing
<1>. QED
  BY <1>1, <1>2, OwedIsTotal

LEMMA OwedOne ==
    ASSUME NEW m \in Message
    PROVE  Owed(<<m>>) = OwedBy(m)
<1>1. <<m>> \in Seq(Message)
  OBVIOUS
<1>2. TotalOf(OwedValue, <<m>>) = OwedValue[m]
  BY OwedValueType, TotalOfSingle
<1>. QED
  BY <1>1, <1>2, OwedIsTotal DEF OwedValue

LEMMA OwedConcat ==
    ASSUME NEW s \in Seq(Message), NEW t \in Seq(Message)
    PROVE  Owed(s \o t) = Owed(s) + Owed(t)
<1>1. s \o t \in Seq(Message)
  BY ConcatProperties
<1>2. TotalOf(OwedValue, s \o t) = TotalOf(OwedValue, s) + TotalOf(OwedValue, t)
  BY OwedValueType, TotalOfConcat
<1>. QED
  BY <1>1, <1>2, OwedIsTotal

LEMMA OwedHeadTail ==
    ASSUME NEW s \in Seq(Message), s # <<>>
    PROVE  Owed(s) = OwedBy(Head(s)) + Owed(Tail(s))
<1>1. Head(s) \in Message /\ Tail(s) \in Seq(Message)
  BY HeadTailProperties
<1>2. TotalOf(OwedValue, s) = OwedValue[Head(s)] + TotalOf(OwedValue, Tail(s))
  BY OwedValueType, TotalOfHeadTail
<1>. QED
  BY <1>1, <1>2, OwedIsTotal DEF OwedValue

\* Messages of others owe nothing.
LEMMA OwedByOthers ==
    ASSUME NEW s \in Seq(Message), \A i \in DOMAIN s : s[i].sender # Self
    PROVE  Owed(s) = 0
<1>1. \A i \in DOMAIN s : s[i] \in Message
  BY ElementOfSeq, LenProperties
<1>2. \A i \in DOMAIN s : OwedValue[s[i]] = 0
  BY <1>1 DEF OwedValue, OwedBy
<1>3. TotalOf(OwedValue, s) = 0
  BY <1>2, TotalOfNothing
<1>. QED
  BY <1>3, OwedIsTotal

-----------------------------------------------------------------------------
\* The invariant, on top of IInv.

\* A message of an account, or a forward of the token contract.
PlainMsgs == {m \in ExecuteMsg : m.sender = Self => m.op = "transfer"}

\* A notification runs before anything else does, with the tokens in place.
Queued(msgs, b) ==
    msgs # <<>> =>
        /\ Tail(msgs) \in Seq(PlainMsgs)
        /\ \/ Head(msgs) \in PlainMsgs
           \/ Head(msgs) \in ReceiveMsg /\ Head(msgs).amount <= b[Head(msgs).contract]

\* The token contract grants no allowances: it sends transfers only.
NoGrants(s) ==
    \A p \in Addr : s.allowances[<<Self, p>>] = None /\ s.allowances_spender[<<p, Self>>] = None

EInv ==
    /\ Queued(pending, balances)
    /\ NoGrants(Store) /\ NoGrants(committed)
    /\ committed.balances[Self] + Owed(pending) <= balances[Self]

\* What a step of a transaction does for EInv: the contract keeps what it had when
\* the transaction began, beside the taxes in transit.
Settles ==
    /\ Queued(pending', balances')
    /\ NoGrants(Store')
    /\ committed.balances[Self] + Owed(pending') <= balances'[Self]

LEMMA NoGrantsNow ==
    NoGrants(Store) <=>
        \A p \in Addr : allowances[<<Self, p>>] = None /\ allowances_spender[<<p, Self>>] = None
BY DEF NoGrants, Store

LEMMA NoGrantsNext ==
    NoGrants(Store') <=>
        \A p \in Addr : allowances'[<<Self, p>>] = None /\ allowances_spender'[<<p, Self>>] = None
BY DEF NoGrants, Store

LEMMA PlainAreMessages ==
    ASSUME NEW s \in Seq(PlainMsgs)
    PROVE  s \in Seq(Message)
<1>1. PlainMsgs \subseteq Message
  BY DEF PlainMsgs, Message
<1>. QED
  BY <1>1, SeqMonotonic

LEMMA PlainQueued ==
    ASSUME NEW s \in Seq(PlainMsgs), NEW b
    PROVE  Queued(s, b)
BY HeadTailProperties DEF Queued

\* The messages of a handler go before the others.
LEMMA QueuedConcat ==
    ASSUME NEW s \in Seq(Message), NEW b, Queued(s, b), NEW t \in Seq(PlainMsgs)
    PROVE  Queued(s \o t, b)
<1>1. CASE s = <<>>
  <2>1. s \o t = t
    BY <1>1, ConcatEmptySeq
  <2>. QED
    BY <2>1, PlainQueued
<1>2. CASE s # <<>>
  <2>1. t \in Seq(Message)
    BY PlainAreMessages
  <2>2. Head(s \o t) = Head(s) /\ Tail(s \o t) = Tail(s) \o t
    BY <1>2, <2>1
  <2>3. Tail(s) \o t \in Seq(PlainMsgs)
    BY <1>2, ConcatProperties DEF Queued
  <2>. QED
    BY <1>2, <2>2, <2>3 DEF Queued
<1>. QED
  BY <1>1, <1>2

\* A commit takes over what a step has settled.
LEMMA SettlesKeeps ==
    ASSUME IInv, IInv', EInv, Settles, committed' = IF pending' = <<>> THEN Store' ELSE committed
    PROVE  EInv' /\ committed'.balances[Self] >= committed.balances[Self]
<1>1. /\ committed.balances[Self] \in Nat
      /\ balances'[Self] \in Nat /\ pending' \in Seq(Message)
  BY StoresNow, StoresNext
<1>2. Owed(pending') \in Nat
  BY <1>1, OwedType
<1>3. CASE pending' = <<>>
  <2>1. committed'.balances = balances' /\ committed' = Store'
    BY <1>3 DEF Store
  <2>2. Owed(pending') = 0
    BY <1>3, OwedNone
  <2>. QED
    BY <1>1, <2>1, <2>2 DEF EInv, Settles
<1>4. CASE pending' # <<>>
  BY <1>1, <1>4 DEF EInv, Settles
<1>. QED
  BY <1>3, <1>4

\* What a handler has to show: what it returns is queued and paid for.
LEMMA ReturnSettles ==
    ASSUME IInv, IInv', EInv, pending # <<>>, NEW msgs \in Seq(Message), Return(msgs),
           Queued(msgs, balances'), NoGrants(Store'),
           balances[Self] + Owed(msgs) <= balances'[Self] + OwedBy(Head(pending))
    PROVE  Settles
<1>1. Head(pending) \in Message /\ Tail(pending) \in Seq(Message)
  BY HeadIsMessage
<1>2. Tail(pending) \in Seq(PlainMsgs)
  BY DEF EInv, Queued
<1>3. pending' = msgs \o Tail(pending)
  BY DEF Return
<1>4. Owed(pending') = Owed(msgs) + Owed(Tail(pending))
  BY <1>1, <1>3, OwedConcat
<1>5. Owed(pending) = OwedBy(Head(pending)) + Owed(Tail(pending))
  BY StoresNow, OwedHeadTail
<1>6. /\ Owed(msgs) \in Nat /\ Owed(Tail(pending)) \in Nat
      /\ OwedBy(Head(pending)) \in Nat
  BY <1>1, OwedType, OwedByType
<1>7. /\ balances[Self] \in Nat /\ committed.balances[Self] \in Nat
      /\ balances'[Self] \in Nat
  BY StoresNow, StoresNext
<1>8. committed.balances[Self] + Owed(pending') <= balances'[Self]
  <2>1. committed.balances[Self] + Owed(pending) <= balances[Self]
    BY DEF EInv
  <2>. QED
    BY <1>4, <1>5, <1>6, <1>7, <2>1, SMTT(30)
<1>9. Queued(pending', balances')
  BY <1>2, <1>3, QueuedConcat
<1>. QED
  BY <1>8, <1>9 DEF Settles

\* The message at hand has a sender, and the contract sends transfers only.
LEMMA HeadNotOwn ==
    ASSUME IInv, EInv, pending # <<>>, Head(pending).op # "receive"
    PROVE  /\ Head(pending) \in PlainMsgs /\ Head(pending).sender \in Addr
           /\ Head(pending).op # "transfer" =>
                 Head(pending).sender # Self /\ OwedBy(Head(pending)) = 0
<1>1. Head(pending) \in PlainMsgs
  BY DEF EInv, Queued, ReceiveMsg
<1>2. Head(pending).sender \in Addr
  BY <1>1 DEF PlainMsgs, ExecuteMsg, TransferMsg, FromMsg, BurnMsg, BurnFromMsg, MintMsg,
     AllowanceMsg, UpdateMinterMsg, SetTaxMapMsg, SetWhaleInfoMsg, SetAdminMsg
<1>. QED
  BY <1>1, <1>2 DEF PlainMsgs, OwedBy

\* A handler that moves nothing and returns nothing.
LEMMA SilentSettles ==
    ASSUME IInv, IInv', EInv, pending # <<>>, Return(<<>>), NoGrants(Store'),
           balances'[Self] >= balances[Self]
    PROVE  Settles
<1>1. <<>> \in Seq(Message) /\ <<>> \in Seq(PlainMsgs)
  BY EmptySeq
<1>2. Queued(<<>>, balances')
  BY <1>1, PlainQueued
<1>3. OwedBy(Head(pending)) \in Nat
  BY HeadIsMessage, OwedByType
<1>4. balances[Self] + Owed(<<>>) <= balances'[Self] + OwedBy(Head(pending))
  BY <1>3, OwedNone, StoresNow, StoresNext
<1>. QED
  BY <1>1, <1>2, <1>4, ReturnSettles

-----------------------------------------------------------------------------
\* Payments.

\* The forward takes the tax from the contract.
LEMMA ForwardOwes ==
    ASSUME NEW m, TaxInfoOf(m) \in TaxInfo, SplitOf(m).tax \in Uint
    PROVE  Forward(m) \in Seq(PlainMsgs) /\ Owed(Forward(m)) = SplitOf(m).tax
<1>. DEFINE msg == TaxMsg(TaxInfoOf(m).proceeds, SplitOf(m).tax)
<1>1. msg \in TransferMsg /\ msg.op = "transfer" /\ msg.sender = Self
      /\ msg.amount = SplitOf(m).tax
  BY ChainAssumption DEF TaxMsg, TransferMsg, TaxInfo
<1>2. msg \in PlainMsgs /\ msg \in Message
  BY <1>1 DEF PlainMsgs, ExecuteMsg, Message
<1>3. Owed(<<msg>>) = SplitOf(m).tax
  BY <1>1, <1>2, OwedOne DEF OwedBy
<1>4. CASE SplitOf(m).tax > 0
  BY <1>2, <1>3, <1>4 DEF Forward
<1>5. CASE ~(SplitOf(m).tax > 0)
  <2>1. SplitOf(m).tax = 0
    BY <1>5, RatesAssumption DEF Uint
  <2>. QED
    BY <1>5, <2>1, OwedNone, EmptySeq DEF Forward
<1>. QED
  BY <1>4, <1>5

\* ... and so do the notification and the forward together.
LEMMA NotifyAndForwardOwe ==
    ASSUME NEW m, TaxInfoOf(m) \in TaxInfo, SplitOf(m).tax \in Uint, SplitOf(m).net \in Uint,
           m.recipient \in Addr, m.sender \in Addr,
           NEW b, SplitOf(m).net <= b[m.recipient]
    PROVE  LET msgs == <<NotifyMsg(m)>> \o Forward(m)
           IN  /\ msgs \in Seq(Message)
               /\ Queued(msgs, b)
               /\ Owed(msgs) = SplitOf(m).tax
<1>. DEFINE one == <<NotifyMsg(m)>>
<1>1. NotifyMsg(m) \in ReceiveMsg /\ NotifyMsg(m).contract = m.recipient
      /\ NotifyMsg(m).amount = SplitOf(m).net /\ NotifyMsg(m).op = "receive"
  BY DEF NotifyMsg, ReceiveMsg
<1>2. NotifyMsg(m) \in Message
  BY <1>1 DEF Message
<1>3. one \in Seq(Message) /\ one # <<>> /\ Head(one) = NotifyMsg(m) /\ Tail(one) = <<>>
  BY <1>2
<1>4. Queued(one, b)
  BY <1>1, <1>3, EmptySeq DEF Queued
<1>5. Owed(one) = 0
  BY <1>1, <1>2, OwedOne DEF OwedBy
<1>6. Forward(m) \in Seq(PlainMsgs) /\ Owed(Forward(m)) = SplitOf(m).tax
  BY ForwardOwes
<1>7. Forward(m) \in Seq(Message)
  BY <1>6, PlainAreMessages
<1>. HIDE DEF one
<1>8. one \o Forward(m) \in Seq(Message) /\ Queued(one \o Forward(m), b)
  BY <1>3, <1>4, <1>6, <1>7, QueuedConcat, ConcatProperties
<1>9. Owed(one \o Forward(m)) = SplitOf(m).tax
  <2>1. Owed(one \o Forward(m)) = Owed(one) + Owed(Forward(m))
    BY <1>3, <1>7, OwedConcat
  <2>. QED
    BY <1>5, <1>6, <2>1, RatesAssumption DEF Uint
<1>. QED
  BY <1>8, <1>9 DEF one

\* A payment whose payer is its sender or, with an allowance, another account but
\* the contract itself, settles: what it returns is the forward alone ...
LEMMA PaymentSettles ==
    ASSUME IInv, IInv', EInv, pending # <<>>, NEW payer \in Addr,
           Head(pending).recipient \in Addr, Head(pending).amount \in Uint,
           Head(pending).sender \in Addr,
           TaxInfoOf(Head(pending)) \in TaxInfo, TaxOk(Head(pending)),
           Head(pending).amount <= balances[payer],
           payer = Self => OwedBy(Head(pending)) = Head(pending).amount,
           balances' = Paid(payer, Head(pending)), NoGrants(Store'),
           \/ Return(Forward(Head(pending)))
           \/ Return(<<NotifyMsg(Head(pending))>> \o Forward(Head(pending)))
    PROVE  Settles
<1>. DEFINE m == Head(pending)
<1>1. StoreSound /\ balances[Self] \in Nat
  BY StoresNow
<1>2. SplitOf(m).net \in Uint /\ SplitOf(m).tax \in Uint
  BY <1>1, PaidSound
<1>3. /\ balances'[m.recipient] >= SplitOf(m).net
      /\ balances'[Self] >= balances[Self] + SplitOf(m).tax
                               - (IF payer = Self THEN m.amount ELSE 0)
  BY <1>1, PaidAt
<1>4. balances'[Self] \in Nat /\ balances'[m.recipient] \in Nat
  BY StoresNext, RatesAssumption DEF StoreSound, Uint
<1>5. OwedBy(m) \in Nat /\ m.amount \in Nat /\ SplitOf(m).tax \in Nat /\ SplitOf(m).net \in Nat
  BY <1>2, HeadIsMessage, OwedByType, RatesAssumption DEF Uint
<1>6. balances[Self] + SplitOf(m).tax <= balances'[Self] + OwedBy(m)
  BY <1>1, <1>3, <1>4, <1>5
<1>7. CASE Return(Forward(m))
  <2>1. Forward(m) \in Seq(PlainMsgs) /\ Owed(Forward(m)) = SplitOf(m).tax
    BY <1>2, ForwardOwes
  <2>2. Forward(m) \in Seq(Message) /\ Queued(Forward(m), balances')
    BY <2>1, PlainAreMessages, PlainQueued
  <2>. QED
    BY <1>6, <1>7, <2>1, <2>2, ReturnSettles
<1>8. CASE Return(<<NotifyMsg(m)>> \o Forward(m))
  <2>. DEFINE msgs == <<NotifyMsg(m)>> \o Forward(m)
  <2>1. SplitOf(m).net <= balances'[m.recipient]
    BY <1>3, <1>4, <1>5
  <2>2. msgs \in Seq(Message) /\ Queued(msgs, balances') /\ Owed(msgs) = SplitOf(m).tax
    BY <1>2, <2>1, NotifyAndForwardOwe
  <2>. HIDE DEF msgs
  <2>3. Return(msgs)
    BY <1>8 DEF msgs
  <2>. QED
    BY <1>6, <2>2, <2>3, ReturnSettles
<1>. QED
  BY <1>7, <1>8

LEMMA TransferSettles ==
    ASSUME IInv, IInv', EInv, Transfer
    PROVE  Settles
<1>. DEFINE m == Head(pending)
<1>1. pending # <<>> /\ m.op = "transfer" /\ TransferOk(m)
  BY DEF Transfer, Executing
<1>2. m.sender \in Addr /\ m.amount \in Uint
  BY <1>1, HeadIsMessage, MessageByOp DEF TransferMsg
<1>3. TaxInfoOf(m) \in TaxInfo
  BY <1>1, StoresNow, TaxInfoType
<1>4. NoGrants(Store')
  BY NoGrantsNow, NoGrantsNext DEF EInv, Transfer
<1>5. m.sender = Self => OwedBy(m) = m.amount
  BY <1>1 DEF OwedBy
<1>6. m.recipient \in Addr /\ TaxOk(m) /\ m.amount <= balances[m.sender]
  BY <1>1 DEF TransferOk
<1>7. balances' = Paid(m.sender, m) /\ Return(Forward(m))
  BY DEF Transfer
<1>. QED
  BY <1>1, <1>2, <1>3, <1>4, <1>5, <1>6, <1>7, PaymentSettles

LEMMA SendSettles ==
    ASSUME IInv, IInv', EInv, Send
    PROVE  Settles
<1>. DEFINE m == Head(pending)
<1>1. pending # <<>> /\ m.op = "send" /\ SendOk(m)
  BY DEF Send, Executing
<1>2. m.sender \in Addr /\ m.amount \in Uint
  BY <1>1, HeadIsMessage, MessageByOp DEF TransferMsg
<1>3. TaxInfoOf(m) \in TaxInfo
  BY <1>1, StoresNow, TaxInfoType
<1>4. NoGrants(Store')
  BY NoGrantsNow, NoGrantsNext DEF EInv, Send
<1>5. m.sender # Self
  BY <1>1, HeadNotOwn
<1>6. m.recipient \in Addr /\ TaxOk(m) /\ m.amount <= balances[m.sender]
  BY <1>1 DEF SendOk
<1>7. balances' = Paid(m.sender, m) /\ Return(<<NotifyMsg(m)>> \o Forward(m))
  BY DEF Send
<1>. QED
  BY <1>1, <1>2, <1>3, <1>4, <1>5, <1>6, <1>7, PaymentSettles

-----------------------------------------------------------------------------
\* Allowances: the contract is no owner, so its own tokens cannot be spent for it.

LEMMA NoGrantsKept ==
    ASSUME StoreSound, NoGrants(Store), NEW owner \in Addr \ {Self}, NEW spender \in Addr,
           NEW x, NEW y,
           allowances' = [allowances EXCEPT ![<<owner, spender>>] = x],
           allowances_spender' = [allowances_spender EXCEPT ![<<spender, owner>>] = y]
    PROVE  NoGrants(Store')
<1>. SUFFICES ASSUME NEW p \in Addr
              PROVE  /\ allowances'[<<Self, p>>] = None
                     /\ allowances_spender'[<<p, Self>>] = None
  BY NoGrantsNext
<1>1. /\ allowances[<<Self, p>>] = None
      /\ allowances_spender[<<p, Self>>] = None
  BY NoGrantsNow
<1>2. <<Self, p>> # <<owner, spender>> /\ <<p, Self>> # <<spender, owner>>
  OBVIOUS
<1>3. /\ DOMAIN allowances = Addr \X Addr /\ DOMAIN allowances_spender = Addr \X Addr
      /\ <<Self, p>> \in Addr \X Addr /\ <<p, Self>> \in Addr \X Addr
  BY ChainAssumption DEF StoreSound, AllowanceMap
<1>. QED
  BY <1>1, <1>2, <1>3

LEMMA DeductAllowanceNoGrants ==
    ASSUME IInv, NoGrants(Store), NEW owner \in Addr, NEW spender \in Addr, NEW n,
           DeductAllowanceOk(owner, spender, n), DeductAllowance(owner, spender, n)
    PROVE  owner # Self /\ NoGrants(Store')
<1>1. owner # Self
  BY NoGrantsNow DEF DeductAllowanceOk, Spendable
<1>. DEFINE x == [allowances[<<owner, spender>>] EXCEPT !.allowance = @ - n]
            y == [allowances_spender[<<spender, owner>>] EXCEPT !.allowance = @ - n]
<1>2. /\ allowances' = [allowances EXCEPT ![<<owner, spender>>] = x]
      /\ allowances_spender' = [allowances_spender EXCEPT ![<<spender, owner>>] = y]
  BY DEF DeductAllowance
<1>. HIDE DEF x, y
<1>. QED
  BY <1>1, <1>2, StoresNow, NoGrantsKept

LEMMA TransferFromSettles ==
    ASSUME IInv, IInv', EInv, TransferFrom
    PROVE  Settles
<1>. DEFINE m == Head(pending)
<1>1. pending # <<>> /\ m.op = "transfer_from" /\ TransferFromOk(m)
  BY DEF TransferFrom, Executing
<1>2. m.sender \in Addr /\ m.amount \in Uint
  BY <1>1, HeadIsMessage, MessageByOp DEF FromMsg
<1>3. TaxInfoOf(m) \in TaxInfo
  BY <1>1, StoresNow, TaxInfoType
<1>4. /\ m.recipient \in Addr /\ m.owner \in Addr /\ TaxOk(m) /\ m.amount <= balances[m.owner]
      /\ DeductAllowanceOk(m.owner, m.sender, m.amount)
  BY <1>1 DEF TransferFromOk
<1>5. /\ balances' = Paid(m.owner, m) /\ Return(Forward(m))
      /\ DeductAllowance(m.owner, m.sender, m.amount)
  BY DEF TransferFrom
<1>6. m.owner # Self /\ NoGrants(Store')
  BY <1>2, <1>4, <1>5, DeductAllowanceNoGrants DEF EInv
<1>. QED
  BY <1>1, <1>2, <1>3, <1>4, <1>5, <1>6, PaymentSettles

LEMMA SendFromSettles ==
    ASSUME IInv, IInv', EInv, SendFrom
    PROVE  Settles
<1>. DEFINE m == Head(pending)
<1>1. pending # <<>> /\ m.op = "send_from" /\ SendFromOk(m)
  BY DEF SendFrom, Executing
<1>2. m.sender \in Addr /\ m.amount \in Uint
  BY <1>1, HeadIsMessage, MessageByOp DEF FromMsg
<1>3. TaxInfoOf(m) \in TaxInfo
  BY <1>1, StoresNow, TaxInfoType
<1>4. /\ m.recipient \in Addr /\ m.owner \in Addr /\ TaxOk(m) /\ m.amount <= balances[m.owner]
      /\ DeductAllowanceOk(m.owner, m.sender, m.amount)
  BY <1>1 DEF SendFromOk
<1>5. /\ balances' = Paid(m.owner, m) /\ Return(<<NotifyMsg(m)>> \o Forward(m))
      /\ DeductAllowance(m.owner, m.sender, m.amount)
  BY DEF SendFrom
<1>6. m.owner # Self /\ NoGrants(Store')
  BY <1>2, <1>4, <1>5, DeductAllowanceNoGrants DEF EInv
<1>. QED
  BY <1>1, <1>2, <1>3, <1>4, <1>5, <1>6, PaymentSettles

LEMMA IncreaseAllowanceSettles ==
    ASSUME IInv, IInv', EInv, IncreaseAllowance
    PROVE  Settles
<1>. DEFINE m == Head(pending)
            x == Raised(allowances[<<m.sender, m.spender>>], m)
            y == Raised(allowances_spender[<<m.spender, m.sender>>], m)
<1>1. pending # <<>> /\ m.op = "increase_allowance" /\ m.spender \in Addr
  BY DEF IncreaseAllowance, IncreaseAllowanceOk, Executing
<1>2. m.sender \in Addr \ {Self}
  BY <1>1, HeadNotOwn
<1>3. /\ allowances' = [allowances EXCEPT ![<<m.sender, m.spender>>] = x]
      /\ allowances_spender' = [allowances_spender EXCEPT ![<<m.spender, m.sender>>] = y]
  BY DEF IncreaseAllowance
<1>. HIDE DEF x, y
<1>4. NoGrants(Store')
  BY <1>1, <1>2, <1>3, StoresNow, NoGrantsKept DEF EInv
<1>5. balances' = balances /\ Return(<<>>)
  BY DEF IncreaseAllowance
<1>. QED
  BY <1>1, <1>4, <1>5, StoresNow, SilentSettles

LEMMA DecreaseAllowanceSettles ==
    ASSUME IInv, IInv', EInv, DecreaseAllowance
    PROVE  Settles
<1>. DEFINE m == Head(pending)
<1>1. pending # <<>> /\ m.op = "decrease_allowance" /\ m.spender \in Addr
  BY DEF DecreaseAllowance, DecreaseAllowanceOk, Executing
<1>2. m.sender \in Addr \ {Self}
  BY <1>1, HeadNotOwn
<1>3. /\ allowances' = [allowances EXCEPT ![<<m.sender, m.spender>>] = Lowered(m)]
      /\ allowances_spender' =
            [allowances_spender EXCEPT ![<<m.spender, m.sender>>] = Lowered(m)]
  BY DEF DecreaseAllowance
<1>4. NoGrants(Store')
  BY <1>1, <1>2, <1>3, StoresNow, NoGrantsKept DEF EInv
<1>5. balances' = balances /\ Return(<<>>)
  BY DEF DecreaseAllowance
<1>. QED
  BY <1>1, <1>4, <1>5, StoresNow, SilentSettles

-----------------------------------------------------------------------------
\* Supply and policies.

LEMMA BurnSettles ==
    ASSUME IInv, IInv', EInv, Burn
    PROVE  Settles
<1>. DEFINE m == Head(pending)
<1>1. pending # <<>> /\ m.op = "burn"
  BY DEF Burn, Executing
<1>2. m.sender \in Addr /\ m.sender # Self
  BY <1>1, HeadNotOwn
<1>3. NoGrants(Store')
  BY NoGrantsNow, NoGrantsNext DEF EInv, Burn
<1>4. balances'[Self] = balances[Self] /\ Return(<<>>)
  BY <1>2, StoresNow, ChainAssumption DEF Burn, Debit, StoreSound
<1>. QED
  BY <1>1, <1>3, <1>4, StoresNow, SilentSettles

LEMMA BurnFromSettles ==
    ASSUME IInv, IInv', EInv, BurnFrom
    PROVE  Settles
<1>. DEFINE m == Head(pending)
<1>1. /\ pending # <<>> /\ m.op = "burn_from" /\ m.owner \in Addr
      /\ DeductAllowanceOk(m.owner, m.sender, m.amount)
      /\ DeductAllowance(m.owner, m.sender, m.amount)
  BY DEF BurnFrom, BurnFromOk, Executing
<1>2. m.sender \in Addr
  BY <1>1, HeadNotOwn
<1>3. m.owner # Self /\ NoGrants(Store')
  BY <1>1, <1>2, DeductAllowanceNoGrants DEF EInv
<1>4. balances'[Self] = balances[Self] /\ Return(<<>>)
  BY <1>3, StoresNow, ChainAssumption DEF BurnFrom, Debit, StoreSound
<1>. QED
  BY <1>1, <1>3, <1>4, StoresNow, SilentSettles

LEMMA MintSettles ==
    ASSUME IInv, IInv', EInv, Mint
    PROVE  Settles
<1>. DEFINE m == Head(pending)
<1>1. pending # <<>> /\ m.op = "mint" /\ m.recipient \in Addr
  BY DEF Mint, MintOk, Executing
<1>2. m.amount \in Nat
  BY <1>1, HeadIsMessage, MessageByOp, RatesAssumption DEF MintMsg, Uint
<1>3. NoGrants(Store')
  BY NoGrantsNow, NoGrantsNext DEF EInv, Mint
<1>4. balances \in [Addr -> Int]
  BY StoresNow, RatesAssumption DEF StoreSound, Uint
<1>5. balances' = Credit(balances, m.recipient, m.amount) /\ Return(<<>>)
  BY DEF Mint
<1>6. balances'[Self] >= balances[Self]
  BY <1>1, <1>2, <1>4, <1>5, CreditIs, ChainAssumption
<1>. QED
  BY <1>1, <1>3, <1>5, <1>6, SilentSettles

LEMMA PolicySettles ==
    ASSUME IInv, IInv', EInv,
           UpdateMinter \/ SetTaxMap \/ SetTaxAdmin \/ SetWhaleInfo \/ SetWhaleAdmin
    PROVE  Settles
<1>1. /\ pending # <<>> /\ Return(<<>>)
      /\ UNCHANGED <<balances, allowances, allowances_spender>>
  BY DEF UpdateMinter, SetTaxMap, SetTaxAdmin, SetWhaleInfo, SetWhaleAdmin, Executing
<1>2. NoGrants(Store')
  BY <1>1, NoGrantsNow, NoGrantsNext DEF EInv
<1>. QED
  BY <1>1, <1>2, StoresNow, SilentSettles

-----------------------------------------------------------------------------
\* The chain.

\* The transactions of accounts and the calls of contracts.
LEMMA CallsOfOthers ==
    ASSUME NEW calls \in Txs \cup Reactions
    PROVE  /\ calls \in Seq(PlainMsgs) /\ calls \in Seq(Message)
           /\ Owed(calls) = 0
<1>1. calls \in Seq(ExecuteMsg)
  BY MessagesAssumption
<1>2. \A i \in DOMAIN calls : calls[i].sender # Self
  BY MessagesAssumption, ChainAssumption
<1>3. calls \in Seq(PlainMsgs)
  <2>1. \A i \in 1 .. Len(calls) : calls[i] \in PlainMsgs
    <3>1. \A i \in 1 .. Len(calls) : calls[i] \in ExecuteMsg /\ calls[i].sender # Self
      BY <1>1, <1>2, ElementOfSeq, LenProperties
    <3>. QED
      BY <3>1 DEF PlainMsgs
  <2>2. Len(calls) \in Nat /\ calls = [i \in 1 .. Len(calls) |-> calls[i]]
    BY <1>1, LenProperties
  <2>. QED
    BY <2>1, <2>2
<1>4. calls \in Seq(Message)
  BY <1>3, PlainAreMessages
<1>. QED
  BY <1>2, <1>3, <1>4, OwedByOthers

LEMMA ReceiveSettles ==
    ASSUME IInv, IInv', EInv, Receive
    PROVE  Settles
<1>1. pending # <<>> /\ Head(pending).op = "receive" /\ UNCHANGED store
  BY DEF Receive, Executing
<1>2. NoGrants(Store')
  BY <1>1, NoGrantsNow, NoGrantsNext DEF EInv, store
<1>3. balances' = balances
  BY <1>1 DEF store
<1>4. CASE Return(<<>>)
  BY <1>1, <1>2, <1>3, <1>4, StoresNow, SilentSettles
<1>5. CASE \E calls \in Reactions : Return(calls)
  <2>1. PICK calls \in Reactions : Return(calls)
    BY <1>5
  <2>2. calls \in Seq(PlainMsgs) /\ calls \in Seq(Message) /\ Owed(calls) = 0
    BY CallsOfOthers
  <2>3. Queued(calls, balances')
    BY <2>2, PlainQueued
  <2>4. OwedBy(Head(pending)) = 0
    BY <1>1 DEF OwedBy
  <2>5. balances[Self] + Owed(calls) <= balances'[Self] + OwedBy(Head(pending))
    BY <1>3, <2>2, <2>4, StoresNow
  <2>. QED
    BY <1>1, <1>2, <2>1, <2>2, <2>3, <2>5, ReturnSettles
<1>. QED
  BY <1>4, <1>5 DEF Receive

\* What every step does: it keeps the invariant and takes nothing from the contract.
Keeps == EInv' /\ committed'.balances[Self] >= committed.balances[Self]

LEMMA FailKeepsEscrow ==
    ASSUME IInv, IInv', EInv, Fail
    PROVE  Keeps
<1>1. pending' = <<>> /\ balances' = committed.balances /\ committed' = committed
  BY DEF Fail
<1>2. NoGrants(Store')
  BY NoGrantsNext DEF EInv, Fail, NoGrants
<1>3. Queued(pending', balances')
  BY <1>1 DEF Queued
<1>4. Owed(pending') = 0
  BY <1>1, OwedNone
<1>. QED
  BY <1>1, <1>2, <1>3, <1>4, StoresNow DEF Keeps, EInv

LEMMA SubmitKeepsEscrow ==
    ASSUME IInv, IInv', EInv, Submit
    PROVE  Keeps
<1>1. pending = <<>> /\ pending' \in Txs /\ balances' = balances /\ committed' = committed
  BY DEF Submit, store
<1>2. NoGrants(Store')
  BY NoGrantsNow, NoGrantsNext DEF EInv, Submit, store
<1>3. pending' \in Seq(PlainMsgs) /\ Owed(pending') = 0
  BY <1>1, CallsOfOthers
<1>4. Queued(pending', balances')
  BY <1>3, PlainQueued
<1>5. Owed(pending) = 0
  BY <1>1, OwedNone
<1>. QED
  BY <1>1, <1>2, <1>3, <1>4, <1>5, StoresNow DEF Keeps, EInv

LEMMA StutterKeepsEscrow ==
    ASSUME IInv, EInv, UNCHANGED <<store, pending, committed>>
    PROVE  Keeps
<1>1. NoGrants(Store')
  BY NoGrantsNow, NoGrantsNext DEF EInv, store
<1>2. balances' = balances /\ pending' = pending /\ committed' = committed
  BY DEF store
<1>. QED
  BY <1>1, <1>2, StoresNow DEF Keeps, EInv

LEMMA NextKeepsEscrow ==
    ASSUME IInv, IInv', EInv, [Next]_vars
    PROVE  Keeps
<1>1. CASE Execute \/ Receive
  <2>1. Settles
    BY <1>1, TransferSettles, TransferFromSettles, SendSettles, SendFromSettles,
       BurnSettles, BurnFromSettles, MintSettles, IncreaseAllowanceSettles,
       DecreaseAllowanceSettles, PolicySettles, ReceiveSettles DEF Execute
  <2>2. committed' = IF pending' = <<>> THEN Store' ELSE committed
    BY <1>1 DEF Execute, Receive, Transfer, TransferFrom, Send, SendFrom, Burn, BurnFrom,
       Mint, IncreaseAllowance, DecreaseAllowance, UpdateMinter, SetTaxMap, SetTaxAdmin,
       SetWhaleInfo, SetWhaleAdmin, Return
  <2>. QED
    BY <2>1, <2>2, SettlesKeeps DEF Keeps
<1>2. CASE Fail
  BY <1>2, FailKeepsEscrow
<1>3. CASE Submit
  BY <1>3, SubmitKeepsEscrow
<1>4. CASE NextBlock \/ UNCHANGED vars
  <2>1. UNCHANGED <<store, pending, committed>>
    BY <1>4 DEF NextBlock, vars
  <2>. QED
    BY <2>1, StutterKeepsEscrow
<1>. QED
  BY <1>1, <1>2, <1>3, <1>4 DEF Next, TxStep

LEMMA InitEstablishesEscrow == Init => EInv
<1>. SUFFICES ASSUME Init
              PROVE  EInv
  OBVIOUS
<1>1. IInv
  BY InitEstablishesInv
<1>2. pending = <<>> /\ committed = Store /\ committed.balances = balances
  BY DEF Init, Store
<1>3. NoGrants(Store)
  BY NoGrantsNow, ChainAssumption DEF Init
<1>4. Queued(pending, balances) /\ Owed(pending) = 0
  BY <1>2, OwedNone DEF Queued
<1>. QED
  BY <1>1, <1>2, <1>3, <1>4, StoresNow DEF EInv

LEMMA EscrowInvariant == Spec => [](IInv /\ EInv)
<1>1. Init => IInv /\ EInv
  BY InitEstablishesInv, InitEstablishesEscrow
<1>2. IInv /\ EInv /\ [Next]_vars => (IInv /\ EInv)'
  <2>1. IInv /\ [Next]_vars => IInv'
    BY NextKeepsInv
  <2>2. IInv /\ IInv' /\ EInv /\ [Next]_vars => EInv'
    BY NextKeepsEscrow DEF Keeps
  <2>. QED
    BY <2>1, <2>2
<1>. QED
  BY <1>1, <1>2, PTL DEF Spec

-----------------------------------------------------------------------------
\* The theorems.

\* Whatever a notified contract makes the token do before a forward runs, the
\* contract still has every tax it parked (send, send_from: the submessage to the
\* recipient precedes the one that forwards the tax).
THEOREM EscrowIsCovered == Spec => []EscrowCovered
<1>1. IInv /\ EInv => EscrowCovered
  <2>. SUFFICES ASSUME IInv, EInv
                PROVE  Owed(pending) <= balances[Self]
    BY DEF EscrowCovered
  <2>1. /\ Owed(pending) \in Nat /\ balances[Self] \in Nat
        /\ committed.balances[Self] \in Nat
    BY StoresNow, OwedType
  <2>. QED
    BY <2>1 DEF EInv
<1>. QED
  BY <1>1, EscrowInvariant, PTL

LEMMA CoveredNotifications ==
    ASSUME IInv, EInv
    PROVE  NotifiedInFull
BY DEF EInv, Queued, NotifiedInFull, Executing, PlainMsgs, ExecuteMsg, TransferMsg, FromMsg,
   BurnMsg, BurnFromMsg, MintMsg, AllowanceMsg, UpdateMinterMsg, SetTaxMapMsg,
   SetWhaleInfoMsg, SetAdminMsg

\* A contract that is notified of a payment has at least the tokens it is told of:
\* the notification carries the net amount and runs before any other message.
THEOREM NotificationsInFull == Spec => []NotifiedInFull
<1>1. IInv /\ EInv => NotifiedInFull
  BY CoveredNotifications
<1>. QED
  BY <1>1, EscrowInvariant, PTL

\* No transaction leaves the contract with fewer tokens than it found it with:
\* what is forwarded is what was parked, and nobody has an allowance of it.
THEOREM ContractPaysNothing == Spec => SelfNeverPays
<1>1. IInv /\ IInv' /\ EInv /\ [Next]_vars =>
          [committed'.balances[Self] >= committed.balances[Self]]_vars
  BY NextKeepsEscrow DEF Keeps
<1>2. Spec => []IInv
  BY InvIsInvariant
<1>. QED
  BY <1>1, <1>2, EscrowInvariant, PTL DEF Spec, SelfNeverPays

-----------------------------------------------------------------------------
\* The limit of the anti-whale policy.

LimitOf(s) == (s.token_info.total_supply * s.whale_info.threshold) \div One

\* Between two stores: the limit is not lowered, the whitelist loses nobody.
LimitKept(old, new) ==
    /\ LimitOf(old) <= LimitOf(new)
    /\ old.whale_info.whitelist \subseteq new.whale_info.whitelist

\* Nobody is above the limit, the contract not counting the taxes it has parked.
WithinLimit(s, parked) ==
    \A a \in Addr \ s.whale_info.whitelist :
        s.balances[a] <= LimitOf(s) + (IF a = Self THEN parked ELSE 0)

\* The invariant, on top of IInv and EInv.
WInv ==
    /\ WithinLimit(Store, Owed(pending))
    /\ WithinLimit(committed, 0)
    /\ LimitKept(committed, Store)

\* What a handler does for WInv.
StaysWithin == WithinLimit(Store', Owed(pending')) /\ LimitKept(Store, Store')

LEMMA LimitType ==
    ASSUME NEW s, Sound(s)
    PROVE  LimitOf(s) \in Nat /\ \A a \in Addr : s.balances[a] \in Nat
<1>1. s.token_info.total_supply \in Nat /\ s.whale_info.threshold \in Nat
  BY RatesAssumption DEF Sound, StoreType, TokenInfo, WhaleInfo, Uint
<1>2. s.token_info.total_supply * s.whale_info.threshold \in Nat
  BY <1>1, Z3
<1>3. LimitOf(s) \in Nat
  BY <1>2, DivMul, RatesAssumption DEF LimitOf
<1>. QED
  BY <1>3, RatesAssumption DEF Sound, StoreType, Uint

\* The store and the committed one, before and after a step.
LEMMA LimitsNow ==
    ASSUME IInv
    PROVE  /\ LimitOf(Store) \in Nat /\ LimitOf(committed) \in Nat
           /\ \A a \in Addr : Store.balances[a] \in Nat /\ committed.balances[a] \in Nat
           /\ Owed(pending) \in Nat
BY LimitType, OwedType DEF IInv

LEMMA LimitsNext ==
    ASSUME IInv'
    PROVE  /\ LimitOf(Store') \in Nat /\ LimitOf(committed') \in Nat
           /\ \A a \in Addr : Store'.balances[a] \in Nat /\ committed'.balances[a] \in Nat
           /\ Owed(pending') \in Nat
<1>1. Sound(Store') /\ Sound(committed') /\ pending' \in Seq(Message)
  BY DEF IInv
<1>. QED
  BY <1>1, LimitType, OwedType

LEMMA LimitKeptReflexive ==
    ASSUME NEW s, LimitOf(s) \in Nat
    PROVE  LimitKept(s, s)
BY DEF LimitKept

LEMMA LimitKeptTransitive ==
    ASSUME NEW r, NEW s, NEW t, LimitOf(r) \in Nat, LimitOf(s) \in Nat, LimitOf(t) \in Nat,
           LimitKept(r, s), LimitKept(s, t)
    PROVE  LimitKept(r, t)
BY DEF LimitKept

\* A commit takes over a store that stayed within the limit; nothing is parked then.
LEMMA StaysWithinKeeps ==
    ASSUME IInv, IInv', WInv, StaysWithin,
           committed' = IF pending' = <<>> THEN Store' ELSE committed
    PROVE  WInv'
<1>1. LimitOf(Store) \in Nat /\ LimitOf(committed) \in Nat /\ LimitOf(Store') \in Nat
  BY LimitsNow, LimitsNext
<1>2. LimitKept(committed, Store')
  BY <1>1, LimitKeptTransitive DEF WInv, StaysWithin
<1>3. CASE pending' = <<>>
  <2>1. Owed(pending') = 0 /\ committed' = Store'
    BY <1>3, OwedNone
  <2>2. WithinLimit(committed', 0) /\ LimitKept(committed', Store')
    BY <1>1, <2>1, LimitKeptReflexive DEF StaysWithin
  <2>. QED
    BY <2>2 DEF WInv, StaysWithin
<1>4. CASE pending' # <<>>
  BY <1>2, <1>4 DEF WInv, StaysWithin
<1>. QED
  BY <1>3, <1>4

\* What the messages of a handler change in what is parked.
LEMMA OwedAfterReturn ==
    ASSUME IInv, pending # <<>>, NEW msgs \in Seq(Message), Return(msgs)
    PROVE  Owed(pending') = Owed(pending) - OwedBy(Head(pending)) + Owed(msgs)
<1>1. Head(pending) \in Message /\ Tail(pending) \in Seq(Message)
  BY HeadIsMessage
<1>2. Owed(pending') = Owed(msgs) + Owed(Tail(pending))
  BY <1>1, OwedConcat DEF Return
<1>3. Owed(pending) = OwedBy(Head(pending)) + Owed(Tail(pending))
  BY StoresNow, OwedHeadTail
<1>4. /\ Owed(msgs) \in Nat /\ Owed(Tail(pending)) \in Nat
      /\ OwedBy(Head(pending)) \in Nat
  BY <1>1, OwedType, OwedByType
<1>. QED
  BY <1>2, <1>3, <1>4

\* A payment parks its tax, whether or not the recipient is notified.
LEMMA OwedAfterPayment ==
    ASSUME IInv, pending # <<>>, NEW payer \in Addr,
           Head(pending).recipient \in Addr, Head(pending).amount \in Uint,
           Head(pending).sender \in Addr,
           TaxInfoOf(Head(pending)) \in TaxInfo, TaxOk(Head(pending)),
           Head(pending).amount <= balances[payer],
           \/ Return(Forward(Head(pending)))
           \/ Return(<<NotifyMsg(Head(pending))>> \o Forward(Head(pending)))
    PROVE  Owed(pending') = Owed(pending) - OwedBy(Head(pending)) + SplitOf(Head(pending)).tax
<1>. DEFINE m == Head(pending)
<1>1. StoreSound
  BY StoresNow
<1>2. SplitOf(m).net \in Uint /\ SplitOf(m).tax \in Uint
  BY <1>1, PaidSound
<1>3. CASE Return(Forward(m))
  BY <1>2, <1>3, ForwardOwes, PlainAreMessages, OwedAfterReturn
<1>4. CASE Return(<<NotifyMsg(m)>> \o Forward(m))
  <2>1. SplitOf(m).net <= Paid(payer, m)[m.recipient]
    BY <1>1, PaidAt
  <2>2. LET msgs == <<NotifyMsg(m)>> \o Forward(m)
        IN  msgs \in Seq(Message) /\ Owed(msgs) = SplitOf(m).tax
    BY <1>2, <2>1, NotifyAndForwardOwe
  <2>. QED
    BY <1>4, <2>2, OwedAfterReturn
<1>. QED
  BY <1>3, <1>4

\* A handler that pays nobody, and returns no message of the contract.
LEMMA UnpaidStaysWithin ==
    ASSUME IInv, IInv', WInv, pending # <<>>, OwedBy(Head(pending)) = 0,
           NEW msgs \in Seq(Message), Return(msgs), Owed(msgs) = 0,
           \A a \in Addr : balances'[a] <= balances[a],
           LimitKept(Store, Store')
    PROVE  StaysWithin
<1>1. Owed(pending') = Owed(pending)
  BY OwedAfterReturn, LimitsNow
<1>. SUFFICES ASSUME NEW a \in Addr \ Store'.whale_info.whitelist
              PROVE  Store'.balances[a] <= LimitOf(Store')
                                           + (IF a = Self THEN Owed(pending') ELSE 0)
  BY DEF StaysWithin, WithinLimit
<1>2. a \in Addr \ Store.whale_info.whitelist /\ LimitOf(Store) <= LimitOf(Store')
  BY DEF LimitKept
<1>3. Store.balances[a] <= LimitOf(Store) + (IF a = Self THEN Owed(pending) ELSE 0)
  BY <1>2 DEF WInv, WithinLimit
<1>4. Store'.balances[a] <= Store.balances[a]
  BY DEF Store
<1>5. /\ Store.balances[a] \in Nat /\ Store'.balances[a] \in Nat
      /\ LimitOf(Store) \in Nat /\ LimitOf(Store') \in Nat /\ Owed(pending) \in Nat
  BY LimitsNow, LimitsNext
<1>. QED
  BY <1>1, <1>2, <1>3, <1>4, <1>5

\* A payment whose recipient was measured, with the tax parked or before that.
LEMMA PaymentStaysWithin ==
    ASSUME IInv, IInv', WInv, pending # <<>>, NEW payer \in Addr,
           Head(pending).recipient \in Addr, Head(pending).amount \in Uint,
           Head(pending).sender \in Addr,
           TaxInfoOf(Head(pending)) \in TaxInfo, TaxOk(Head(pending)),
           Head(pending).amount <= balances[payer],
           OwedBy(Head(pending)) = IF payer = Self THEN Head(pending).amount ELSE 0,
           \/ WhaleOk(Head(pending).recipient,
                      Paid(payer, Head(pending))[Head(pending).recipient])
           \/ WhaleOk(Head(pending).recipient,
                      Delivered(payer, Head(pending))[Head(pending).recipient]),
           balances' = Paid(payer, Head(pending)), UNCHANGED <<token_info, whale_info>>,
           \/ Return(Forward(Head(pending)))
           \/ Return(<<NotifyMsg(Head(pending))>> \o Forward(Head(pending)))
    PROVE  StaysWithin
<1>. DEFINE m == Head(pending)
            n == m.amount
            net == SplitOf(m).net
            tax == SplitOf(m).tax
            payee == m.recipient
            limit == LimitOf(Store)
<1>1. StoreSound /\ n \in Nat
  BY StoresNow, RatesAssumption DEF Uint
<1>2. SplitOf(m).net \in Uint /\ SplitOf(m).tax \in Uint
  BY <1>1, PaidSound
<1>3. /\ net \in Nat /\ tax \in Nat /\ Self \in Addr
      /\ \A a \in Addr :
            Paid(payer, m)[a] = balances[a] - (IF a = payer THEN n ELSE 0)
                                + (IF a = payee THEN net ELSE 0) + (IF a = Self THEN tax ELSE 0)
  BY <1>1, PaidIs, ChainAssumption
<1>4. Delivered(payer, m) \in [Addr -> Int]
  <2>1. balances \in [Addr -> Int]
    BY <1>1, RatesAssumption DEF StoreSound, Uint
  <2>2. Debit(balances, payer, n) \in [Addr -> Int]
    BY <1>1, <2>1 DEF Debit
  <2>. QED
    BY <1>3, <2>2, CreditIs DEF Delivered
<1>5. Paid(payer, m)[payee] = Delivered(payer, m)[payee] + (IF payee = Self THEN tax ELSE 0)
  <2>. DEFINE e == Delivered(payer, m)
  <2>1. e \in [Addr -> Int] /\ payee \in Addr
    BY <1>4
  <2>2. Paid(payer, m) = Credit(e, Self, tax)
    BY DEF Paid
  <2>3. tax \in Nat /\ Self \in Addr
    BY <1>3
  <2>. HIDE DEF e, tax, payee
  <2>4. Credit(e, Self, tax)[payee] = e[payee] + (IF payee = Self THEN tax ELSE 0)
    BY ONLY <2>1, <2>3 DEF Credit
  <2>. QED
    BY <2>2, <2>4 DEF e
<1>6. Owed(pending') = Owed(pending) - OwedBy(m) + tax
  BY <1>1, OwedAfterPayment
<1>7. /\ LimitOf(Store') = limit /\ Store'.whale_info = Store.whale_info
      /\ Store'.balances = Paid(payer, m) /\ Store.balances = balances
      /\ limit = MaxAllowed
  BY DEF LimitOf, Store, MaxAllowed
<1>8. /\ limit \in Nat /\ Owed(pending) \in Nat /\ Owed(pending') \in Nat
      /\ \A a \in Addr : balances[a] \in Nat /\ Paid(payer, m)[a] \in Nat
  BY <1>7, LimitsNow, LimitsNext
<1>9. LimitKept(Store, Store')
  BY <1>7, <1>8 DEF LimitKept
<1>10. ASSUME NEW a \in Addr \ Store.whale_info.whitelist
       PROVE  Paid(payer, m)[a] <= limit + (IF a = Self THEN Owed(pending') ELSE 0)
  <2>1. balances[a] <= limit + (IF a = Self THEN Owed(pending) ELSE 0)
    BY <1>7 DEF WInv, WithinLimit
  <2>2. CASE a = payee
    <3>1. a \notin whale_info.whitelist
      BY DEF Store
    <3>2. \/ Paid(payer, m)[payee] <= limit
          \/ Delivered(payer, m)[payee] <= limit
      BY <1>7, <2>2, <3>1 DEF WhaleOk
    <3>3. tax <= Owed(pending')
      <4>1. Owed(Tail(pending)) \in Nat /\ OwedBy(m) \in Nat
            /\ Owed(pending) = OwedBy(m) + Owed(Tail(pending))
        BY HeadIsMessage, StoresNow, OwedHeadTail, OwedType, OwedByType
      <4>. QED
        BY <1>3, <1>6, <4>1
    <3>4. Delivered(payer, m)[payee] \in Int
      BY <1>4
    <3>. HIDE DEF m, n, net, tax, limit, payee
    <3>. QED
      BY <1>3, <1>5, <1>8, <2>2, <3>2, <3>3, <3>4
  <2>3. CASE a # payee
    <3>1. Paid(payer, m)[a] = balances[a] - (IF a = payer THEN n ELSE 0)
                              + (IF a = Self THEN tax ELSE 0)
      BY <1>1, <1>3, <1>8, <2>3
    <3>2. OwedBy(m) = IF payer = Self THEN n ELSE 0
      OBVIOUS
    <3>3. balances[a] \in Nat
      BY <1>8
    <3>. HIDE DEF m, n, net, tax, limit, payee
    <3>. QED
      BY <1>1, <1>3, <1>6, <1>8, <2>1, <3>1, <3>2, <3>3
  <2>. QED
    BY <2>2, <2>3
<1>. QED
  BY <1>7, <1>9, <1>10 DEF StaysWithin, WithinLimit

\* The payments ask assert_no_whale of what they leave their recipient with.
LEMMA PaymentsStayWithin ==
    ASSUME IInv, IInv', EInv, WInv, Transfer \/ TransferFrom \/ Send \/ SendFrom
    PROVE  StaysWithin
<1>. DEFINE m == Head(pending)
            payer == IF Transfer \/ Send THEN m.sender ELSE m.owner
<1>1. /\ pending # <<>> /\ m.op \in {"transfer", "transfer_from", "send", "send_from"}
      /\ m.recipient \in Addr /\ TaxOk(m)
      /\ UNCHANGED <<token_info, whale_info>>
  BY DEF Transfer, TransferFrom, Send, SendFrom, Executing, TransferOk, TransferFromOk,
         SendOk, SendFromOk
<1>2. m.sender \in Addr /\ m.amount \in Uint
  BY <1>1, HeadIsMessage, MessageByOp DEF TransferMsg, FromMsg
<1>3. TaxInfoOf(m) \in TaxInfo
  BY <1>1, StoresNow, TaxInfoType
<1>4. CASE Transfer \/ Send
  <2>1. /\ m.amount <= balances[m.sender] /\ balances' = Paid(m.sender, m)
        /\ \/ WhaleOk(m.recipient, Paid(m.sender, m)[m.recipient])
           \/ WhaleOk(m.recipient, Delivered(m.sender, m)[m.recipient])
        /\ Return(Forward(m)) \/ Return(<<NotifyMsg(m)>> \o Forward(m))
    BY <1>4 DEF Transfer, Send, TransferOk, SendOk
  <2>2. OwedBy(m) = IF m.sender = Self THEN m.amount ELSE 0
    BY <1>4, HeadNotOwn DEF OwedBy, Transfer, Send, Executing
  <2>. QED
    BY <1>1, <1>2, <1>3, <2>1, <2>2, PaymentStaysWithin
<1>5. CASE TransferFrom \/ SendFrom
  <2>1. /\ m.owner \in Addr /\ m.amount <= balances[m.owner] /\ balances' = Paid(m.owner, m)
        /\ \/ WhaleOk(m.recipient, Paid(m.owner, m)[m.recipient])
           \/ WhaleOk(m.recipient, Delivered(m.owner, m)[m.recipient])
        /\ Return(Forward(m)) \/ Return(<<NotifyMsg(m)>> \o Forward(m))
        /\ DeductAllowanceOk(m.owner, m.sender, m.amount)
        /\ DeductAllowance(m.owner, m.sender, m.amount)
    BY <1>5 DEF TransferFrom, SendFrom, TransferFromOk, SendFromOk
  <2>2. m.owner # Self
    BY <1>2, <2>1, DeductAllowanceNoGrants DEF EInv
  <2>3. OwedBy(m) = IF m.owner = Self THEN m.amount ELSE 0
    BY <1>5, <2>2 DEF OwedBy, TransferFrom, SendFrom, Executing
  <2>. QED
    BY <1>1, <1>2, <1>3, <2>1, <2>3, PaymentStaysWithin
<1>. QED
  BY <1>4, <1>5

\* The handlers that pay nobody.
LEMMA NothingReceived ==
    ASSUME IInv, \/ Burn \/ BurnFrom \/ IncreaseAllowance \/ DecreaseAllowance \/ UpdateMinter
                 \/ SetTaxMap \/ SetTaxAdmin \/ SetWhaleInfo \/ SetWhaleAdmin
    PROVE  \A a \in Addr : balances'[a] <= balances[a]
<1>. DEFINE m == Head(pending)
<1>1. balances \in [Addr -> Int] /\ \A a \in Addr : balances[a] \in Nat
  BY StoresNow, RatesAssumption DEF StoreSound, Uint
<1>2. CASE Burn \/ BurnFrom
  <2>1. PICK payer : balances' = Debit(balances, payer, m.amount)
    BY <1>2 DEF Burn, BurnFrom
  <2>2. m.amount \in Nat
    BY <1>2, HeadIsMessage, MessageByOp, RatesAssumption
       DEF BurnMsg, BurnFromMsg, Uint, Burn, BurnFrom, Executing
  <2>3. \A a \in Addr : balances'[a] = balances[a] - (IF a = payer THEN m.amount ELSE 0)
    BY <1>1, <2>1 DEF Debit
  <2>. QED
    BY <1>1, <2>2, <2>3
<1>3. CASE UNCHANGED balances
  BY <1>1, <1>3
<1>. QED
  BY <1>2, <1>3 DEF IncreaseAllowance, DecreaseAllowance, UpdateMinter, SetTaxMap,
     SetTaxAdmin, SetWhaleInfo, SetWhaleAdmin

\* The other handlers, but for a mint, leave nobody with more than before.
LEMMA OthersStayWithin ==
    ASSUME IInv, IInv', WInv, LimitKept(Store, Store'),
           \/ Burn \/ BurnFrom \/ IncreaseAllowance \/ DecreaseAllowance \/ UpdateMinter
           \/ SetTaxMap \/ SetTaxAdmin \/ SetWhaleInfo \/ SetWhaleAdmin
    PROVE  StaysWithin
<1>. DEFINE m == Head(pending)
<1>1. /\ pending # <<>> /\ Return(<<>>)
      /\ m.op \in {"burn", "burn_from", "increase_allowance", "decrease_allowance",
                   "update_minter", "set_tax_map", "set_tax_admin", "set_whale_info",
                   "set_whale_admin"}
  BY DEF Burn, BurnFrom, IncreaseAllowance, DecreaseAllowance, UpdateMinter, SetTaxMap,
         SetTaxAdmin, SetWhaleInfo, SetWhaleAdmin, Executing
<1>2. OwedBy(m) = 0 /\ <<>> \in Seq(Message) /\ Owed(<<>>) = 0
  BY <1>1, OwedNone, EmptySeq DEF OwedBy
<1>3. \A a \in Addr : balances'[a] <= balances[a]
  BY NothingReceived
<1>. QED
  BY <1>1, <1>2, <1>3, UnpaidStaysWithin

LEMMA ReceiveStaysWithin ==
    ASSUME IInv, IInv', WInv, Receive
    PROVE  StaysWithin
<1>1. pending # <<>> /\ OwedBy(Head(pending)) = 0 /\ UNCHANGED store
  BY DEF Receive, Executing, OwedBy
<1>2. Store' = Store /\ balances' = balances
  BY <1>1 DEF store, Store
<1>3. LimitKept(Store, Store')
  BY <1>2, LimitsNow, LimitKeptReflexive
<1>4. \A a \in Addr : balances'[a] <= balances[a]
  BY <1>2, StoresNow, RatesAssumption DEF StoreSound, Uint
<1>5. PICK msgs \in {<<>>} \cup Reactions : Return(msgs)
  BY DEF Receive
<1>6. msgs \in Seq(Message) /\ Owed(msgs) = 0
  BY CallsOfOthers, OwedNone, EmptySeq
<1>. QED
  BY <1>1, <1>3, <1>4, <1>5, <1>6, UnpaidStaysWithin

\* The steps that are no handler's: nothing moves, or the committed store is back.
LEMMA OtherStepsKeepWithin ==
    ASSUME IInv, IInv', WInv, Submit \/ NextBlock \/ Fail \/ UNCHANGED vars
    PROVE  WInv'
<1>1. committed' = committed
  BY DEF Submit, NextBlock, Fail, vars
<1>2. CASE Fail
  <2>1. Store' = committed /\ pending' = <<>>
    BY <1>2 DEF Fail, Store, IInv, Sound, StoreType
  <2>2. LimitKept(committed', Store')
    BY <1>1, <2>1, LimitsNow, LimitKeptReflexive
  <2>3. Owed(pending') = 0
    BY <2>1, OwedNone
  <2>. QED
    BY <1>1, <2>1, <2>2, <2>3 DEF WInv
<1>3. CASE Submit \/ NextBlock \/ UNCHANGED vars
  <2>1. Store' = Store
    BY <1>3 DEF Submit, NextBlock, vars, store, Store
  <2>2. Owed(pending') = Owed(pending)
    <3>1. CASE Submit
      BY <3>1, CallsOfOthers, OwedNone DEF Submit
    <3>2. CASE NextBlock \/ UNCHANGED vars
      BY <3>2 DEF NextBlock, vars
    <3>. QED
      BY <1>3, <3>1, <3>2
  <2>. QED
    BY <1>1, <2>1, <2>2 DEF WInv
<1>. QED
  BY <1>2, <1>3

\* No handler mints, lowers the limit or takes an account off the whitelist.
LimitStands == Execute => ~Mint /\ LimitKept(Store, Store')

LEMMA NextKeepsWithin ==
    ASSUME IInv, IInv', EInv, WInv, [Next]_vars, LimitStands
    PROVE  WInv'
<1>1. CASE Execute \/ Receive
  <2>1. StaysWithin
    BY <1>1, PaymentsStayWithin, OthersStayWithin, ReceiveStaysWithin DEF LimitStands, Execute
  <2>2. committed' = IF pending' = <<>> THEN Store' ELSE committed
    BY <1>1 DEF Execute, Receive, Transfer, TransferFrom, Send, SendFrom, Burn, BurnFrom,
       Mint, IncreaseAllowance, DecreaseAllowance, UpdateMinter, SetTaxMap, SetTaxAdmin,
       SetWhaleInfo, SetWhaleAdmin, Return
  <2>. QED
    BY <2>1, <2>2, StaysWithinKeeps
<1>. QED
  BY <1>1, OtherStepsKeepWithin DEF Next, TxStep

LEMMA InitEstablishesWithin == Init /\ NoWhale => WInv
<1>. SUFFICES ASSUME Init, NoWhale
              PROVE  WInv
  OBVIOUS
<1>1. IInv
  BY InitEstablishesInv
<1>2. committed = Store /\ pending = <<>>
  BY DEF Init
<1>3. LimitOf(Store) = MaxAllowed /\ LimitOf(Store) \in Nat
  BY <1>1, LimitsNow DEF LimitOf, Store, MaxAllowed
<1>4. \A a \in Addr \ Store.whale_info.whitelist : Store.balances[a] <= LimitOf(Store)
  BY <1>2, <1>3 DEF NoWhale, Store
<1>5. \A a \in Addr : Store.balances[a] \in Nat
  BY <1>1, LimitsNow
<1>6. WithinLimit(Store, 0)
  <2>. SUFFICES ASSUME NEW a \in Addr \ Store.whale_info.whitelist
                PROVE  Store.balances[a] <= LimitOf(Store) + (IF a = Self THEN 0 ELSE 0)
    BY DEF WithinLimit
  <2>1. Store.balances[a] <= LimitOf(Store) /\ Store.balances[a] \in Nat
    BY <1>4, <1>5
  <2>. QED
    BY <1>3, <2>1
<1>. QED
  BY <1>2, <1>3, <1>6, OwedNone, LimitKeptReflexive DEF WInv

LEMMA WithinIsNoWhale ==
    ASSUME IInv, WInv
    PROVE  NoWhale
<1>1. LimitOf(Store) = MaxAllowed /\ Store.balances = balances
      /\ Store.whale_info.whitelist = whale_info.whitelist
  BY DEF LimitOf, Store, MaxAllowed
<1>2. /\ LimitOf(Store) \in Nat /\ LimitOf(committed) \in Nat
      /\ \A a \in Addr : balances[a] \in Nat /\ committed.balances[a] \in Nat
  BY <1>1, LimitsNow
<1>. SUFFICES ASSUME NEW a \in Addr \ whale_info.whitelist
              PROVE  /\ a # Self => balances[a] <= MaxAllowed
                     /\ committed.balances[a] <= MaxAllowed
  BY DEF NoWhale
<1>3. a # Self => balances[a] <= MaxAllowed
  BY <1>1, <1>2 DEF WInv, WithinLimit
<1>4. committed.balances[a] <= LimitOf(committed) /\ LimitOf(committed) <= LimitOf(Store)
  BY <1>1, <1>2 DEF WInv, WithinLimit, LimitKept
<1>. QED
  BY <1>1, <1>2, <1>3, <1>4

\* As long as no handler mints, lowers the limit or shortens the whitelist, no payment,
\* forward, tax, re-entrant call or failure makes a whale of anybody (assert_no_whale
\* in the four payments): neither while a transaction runs nor once it is over.
THEOREM NoWhaleWhileTheLimitStands == Spec /\ NoWhale /\ [][LimitStands]_vars => []NoWhale
<1>1. Init /\ NoWhale => WInv
  BY InitEstablishesWithin
<1>2. IInv /\ IInv' /\ EInv /\ WInv /\ [Next]_vars /\ [LimitStands]_vars => WInv'
  <2>1. IInv /\ IInv' /\ EInv /\ WInv /\ [Next]_vars /\ LimitStands => WInv'
    BY NextKeepsWithin
  <2>2. IInv /\ IInv' /\ WInv /\ UNCHANGED vars => WInv'
    BY OtherStepsKeepWithin
  <2>. QED
    BY <2>1, <2>2
<1>3. IInv /\ WInv => NoWhale
  BY WithinIsNoWhale
<1>. QED
  BY <1>1, <1>2, <1>3, EscrowInvariant, PTL DEF Spec

\* The messages that leave the limit where it is.
LimitMovers == {"mint", "burn", "burn_from", "set_whale_info"}
QuietMsgs == {m \in Message : m.op \notin LimitMovers}
NobodyMovesLimit ==
    \A calls \in Txs \cup Reactions : \A i \in DOMAIN calls : calls[i].op \notin LimitMovers
Quiet == pending \in Seq(QuietMsgs)

LEMMA QuietCalls ==
    ASSUME NobodyMovesLimit, NEW calls \in Txs \cup Reactions
    PROVE  calls \in Seq(QuietMsgs)
<1>1. calls \in Seq(Message)
  BY CallsOfOthers
<1>2. \A i \in 1 .. Len(calls) : calls[i] \in QuietMsgs
  BY <1>1, ElementOfSeq, LenProperties DEF NobodyMovesLimit, QuietMsgs
<1>3. Len(calls) \in Nat /\ calls = [i \in 1 .. Len(calls) |-> calls[i]]
  BY <1>1, LenProperties
<1>. QED
  BY <1>2, <1>3

LEMMA QuietReturn ==
    ASSUME Quiet, pending # <<>>, NEW msgs \in Seq(QuietMsgs), Return(msgs)
    PROVE  Quiet'
<1>1. Tail(pending) \in Seq(QuietMsgs)
  BY HeadTailProperties DEF Quiet
<1>. QED
  BY <1>1, ConcatProperties DEF Quiet, Return

\* The token itself sends forwards and notifications.
LEMMA QuietPayments ==
    ASSUME IInv, Quiet, Transfer \/ TransferFrom \/ Send \/ SendFrom
    PROVE  Quiet'
<1>. DEFINE m == Head(pending)
<1>1. /\ pending # <<>> /\ m.op \in {"transfer", "transfer_from", "send", "send_from"}
      /\ m.recipient \in Addr /\ TaxOk(m)
      /\ Return(Forward(m)) \/ Return(<<NotifyMsg(m)>> \o Forward(m))
  BY DEF Transfer, TransferFrom, Send, SendFrom, Executing, TransferOk, TransferFromOk,
         SendOk, SendFromOk
<1>2. m.sender \in Addr /\ m.amount \in Uint
  BY <1>1, HeadIsMessage, MessageByOp DEF TransferMsg, FromMsg
<1>3. StoreSound /\ TaxInfoOf(m) \in TaxInfo
  BY <1>1, StoresNow, TaxInfoType
<1>4. \E payer \in Addr : m.amount <= balances[payer]
  <2>1. CASE Transfer \/ Send
    BY <1>2, <2>1 DEF Transfer, Send, TransferOk, SendOk
  <2>2. CASE TransferFrom \/ SendFrom
    BY <2>2 DEF TransferFrom, SendFrom, TransferFromOk, SendFromOk
  <2>. QED
    BY <2>1, <2>2
<1>5. SplitOf(m).net \in Uint /\ SplitOf(m).tax \in Uint
  BY <1>1, <1>2, <1>3, <1>4, PaidSound
<1>6. Forward(m) \in Seq(QuietMsgs)
  <2>. DEFINE x == TaxMsg(TaxInfoOf(m).proceeds, SplitOf(m).tax)
  <2>1. x \in TransferMsg /\ x.op = "transfer"
    BY <1>3, <1>5, ChainAssumption DEF TaxMsg, TransferMsg, TaxInfo
  <2>2. x \in QuietMsgs
    BY <2>1 DEF QuietMsgs, Message, ExecuteMsg, LimitMovers
  <2>. HIDE DEF x
  <2>3. Forward(m) = <<x>> \/ Forward(m) = <<>>
    BY DEF Forward, x
  <2>4. <<x>> \in Seq(QuietMsgs) /\ <<>> \in Seq(QuietMsgs)
    BY ONLY <2>2
  <2>. QED
    BY <2>3, <2>4
<1>7. <<NotifyMsg(m)>> \in Seq(QuietMsgs)
  <2>1. NotifyMsg(m) \in ReceiveMsg /\ NotifyMsg(m).op = "receive"
    BY <1>1, <1>2, <1>5 DEF NotifyMsg, ReceiveMsg
  <2>2. NotifyMsg(m) \in QuietMsgs
    BY <2>1 DEF QuietMsgs, Message, LimitMovers
  <2>. QED
    BY <2>2
<1>8. <<NotifyMsg(m)>> \o Forward(m) \in Seq(QuietMsgs)
  BY <1>6, <1>7, ConcatProperties
<1>. QED
  BY <1>1, <1>6, <1>8, QuietReturn

LEMMA NextKeepsQuiet ==
    ASSUME NobodyMovesLimit, IInv, Quiet, [Next]_vars
    PROVE  Quiet'
<1>1. <<>> \in Seq(QuietMsgs)
  BY EmptySeq
<1>2. CASE Transfer \/ TransferFrom \/ Send \/ SendFrom
  BY <1>2, QuietPayments
<1>3. CASE \/ Burn \/ BurnFrom \/ Mint \/ IncreaseAllowance \/ DecreaseAllowance \/ UpdateMinter
           \/ SetTaxMap \/ SetTaxAdmin \/ SetWhaleInfo \/ SetWhaleAdmin
  <2>1. pending # <<>> /\ Return(<<>>)
    BY <1>3 DEF Burn, BurnFrom, Mint, IncreaseAllowance, DecreaseAllowance, UpdateMinter,
       SetTaxMap, SetTaxAdmin, SetWhaleInfo, SetWhaleAdmin, Executing
  <2>. QED
    BY <1>1, <2>1, QuietReturn
<1>4. CASE Receive
  <2>1. PICK msgs \in {<<>>} \cup Reactions : pending # <<>> /\ Return(msgs)
    BY <1>4 DEF Receive, Executing
  <2>2. msgs \in Seq(QuietMsgs)
    BY <1>1, QuietCalls
  <2>. QED
    BY <2>1, <2>2, QuietReturn
<1>5. CASE Submit
  BY <1>5, QuietCalls DEF Quiet, Submit
<1>6. CASE Fail
  BY <1>1, <1>6 DEF Quiet, Fail
<1>7. CASE NextBlock \/ UNCHANGED vars
  BY <1>7 DEF Quiet, NextBlock, vars
<1>. QED
  BY <1>2, <1>3, <1>4, <1>5, <1>6, <1>7 DEF Next, TxStep, Execute

LEMMA QuietLeavesLimit ==
    ASSUME IInv, IInv', Quiet
    PROVE  LimitStands
<1>. SUFFICES ASSUME Execute
              PROVE  ~Mint /\ LimitKept(Store, Store')
  BY DEF LimitStands
<1>1. pending # <<>>
  BY DEF Execute, Transfer, TransferFrom, Send, SendFrom, Burn, BurnFrom, Mint,
         IncreaseAllowance, DecreaseAllowance, UpdateMinter, SetTaxMap, SetTaxAdmin,
         SetWhaleInfo, SetWhaleAdmin, Executing
<1>2. Head(pending).op \notin LimitMovers
  BY <1>1, HeadTailProperties DEF Quiet, QuietMsgs
<1>3. ~(Mint \/ Burn \/ BurnFrom \/ SetWhaleInfo)
  BY <1>2 DEF Mint, Burn, BurnFrom, SetWhaleInfo, Executing, LimitMovers
<1>4. token_info \in TokenInfo /\ whale_info \in WhaleInfo
  BY StoresNow DEF StoreSound
<1>5. token_info'.total_supply = token_info.total_supply
  <2>1. CASE UpdateMinter
    BY <1>4, <2>1 DEF UpdateMinter, TokenInfo
  <2>2. CASE UNCHANGED token_info
    BY <2>2
  <2>. QED
    BY <1>3, <2>1, <2>2 DEF Execute, Transfer, TransferFrom, Send, SendFrom,
       IncreaseAllowance, DecreaseAllowance, SetTaxMap, SetTaxAdmin, SetWhaleAdmin
<1>6. /\ whale_info'.threshold = whale_info.threshold
      /\ whale_info'.whitelist = whale_info.whitelist
  <2>1. CASE SetWhaleAdmin
    BY <1>4, <2>1 DEF SetWhaleAdmin, WhaleInfo
  <2>2. CASE UNCHANGED whale_info
    BY <2>2
  <2>. QED
    BY <1>3, <2>1, <2>2 DEF Execute, Transfer, TransferFrom, Send, SendFrom,
       IncreaseAllowance, DecreaseAllowance, UpdateMinter, SetTaxMap, SetTaxAdmin
<1>7. LimitOf(Store') = LimitOf(Store) /\ Store'.whale_info.whitelist = Store.whale_info.whitelist
  BY <1>5, <1>6 DEF LimitOf, Store
<1>. QED
  BY <1>3, <1>7, LimitsNow DEF LimitKept

\* In particular where no account and no contract mints, burns or replaces the whale
\* policy, whatever else they send: the setting of the run `payments`.
THEOREM NoWhaleByPayments ==
    ASSUME NobodyMovesLimit
    PROVE  Spec /\ NoWhale => []NoWhale
<1>1. Init => Quiet
  BY EmptySeq DEF Init, Quiet
<1>2. IInv /\ Quiet /\ [Next]_vars => Quiet'
  BY NextKeepsQuiet
<1>3. IInv /\ IInv' /\ Quiet => [LimitStands]_vars
  BY QuietLeavesLimit
<1>4. Spec => [][LimitStands]_vars
  BY <1>1, <1>2, <1>3, InvIsInvariant, PTL DEF Spec
<1>. QED
  BY <1>4, NoWhaleWhileTheLimitStands, PTL
-----------------------------------------------------------------------------
\* Growing, wherever the limit is.

\* What a step does to one account.
GrowsWithin(a) ==
    \/ balances'[a] <= balances[a]
    \/ balances'[a] <= MaxAllowed
    \/ balances'[a] - balances[a] = token_info'.total_supply - token_info.total_supply

\* A payment adds to the recipient, whom assert_no_whale has measured, and to the
\* contract; measured with the tax parked or before that is the same for all others.
LEMMA PaymentGrowsWithin ==
    ASSUME StoreSound, NEW payer \in Addr, NEW m, m.recipient \in Addr, m.amount \in Uint,
           TaxInfoOf(m) \in TaxInfo, TaxOk(m),
           \/ WhaleOk(m.recipient, Paid(payer, m)[m.recipient])
           \/ WhaleOk(m.recipient, Delivered(payer, m)[m.recipient]),
           balances' = Paid(payer, m),
           NEW a \in Addr \ (whale_info.whitelist \cup {Self})
    PROVE  GrowsWithin(a)
<1>. DEFINE n == m.amount
            net == SplitOf(m).net
            tax == SplitOf(m).tax
<1>1. n \in Nat /\ balances[a] \in Nat
  BY RatesAssumption DEF StoreSound, Uint
<1>2. /\ net \in Nat /\ tax \in Nat
      /\ Paid(payer, m)[a] = balances[a] - (IF a = payer THEN n ELSE 0)
                             + (IF a = m.recipient THEN net ELSE 0) + (IF a = Self THEN tax ELSE 0)
  BY PaidIs
<1>3. CASE a = m.recipient
  <2>1. Paid(payer, m)[a] = Delivered(payer, m)[a]
    BY DEF Paid, Credit
  <2>. QED
    BY <1>3, <2>1 DEF WhaleOk, GrowsWithin
<1>4. CASE a # m.recipient
  <2>1. Paid(payer, m)[a] = balances[a] - (IF a = payer THEN n ELSE 0)
    BY <1>1, <1>2, <1>4
  <2>2. balances'[a] <= balances[a]
    BY <1>1, <2>1
  <2>. QED
    BY <2>2 DEF GrowsWithin
<1>. QED
  BY <1>3, <1>4

LEMMA HandlersGrowWithin ==
    ASSUME IInv, Execute
    PROVE  \A a \in Addr \ (whale_info.whitelist \cup {Self}) : GrowsWithin(a)
<1>. DEFINE m == Head(pending)
<1>0. TAKE a \in Addr \ (whale_info.whitelist \cup {Self})
<1>1. CASE Transfer \/ TransferFrom \/ Send \/ SendFrom
  <2>1. m.op \in {"transfer", "transfer_from", "send", "send_from"} /\ pending # <<>>
    BY <1>1 DEF Transfer, TransferFrom, Send, SendFrom, Executing
  <2>2. m.sender \in Addr /\ m.amount \in Uint
    BY <2>1, HeadIsMessage, MessageByOp DEF TransferMsg, FromMsg
  <2>3. StoreSound /\ TaxInfoOf(m) \in TaxInfo
    BY <2>1, StoresNow, TaxInfoType
  <2>4. PICK payer \in Addr :
          /\ m.recipient \in Addr /\ TaxOk(m)
          /\ balances' = Paid(payer, m)
          /\ \/ WhaleOk(m.recipient, Paid(payer, m)[m.recipient])
             \/ WhaleOk(m.recipient, Delivered(payer, m)[m.recipient])
    <3>1. CASE Transfer \/ Send
      BY <2>2, <3>1 DEF Transfer, Send, TransferOk, SendOk
    <3>2. CASE TransferFrom \/ SendFrom
      BY <3>2 DEF TransferFrom, SendFrom, TransferFromOk, SendFromOk
    <3>. QED
      BY <1>1, <3>1, <3>2
  <2>. QED
    BY <2>2, <2>3, <2>4, PaymentGrowsWithin
<1>2. CASE Mint
  <2>1. m.amount \in Nat /\ m.recipient \in Addr
    BY <1>2, HeadIsMessage, MessageByOp, RatesAssumption
       DEF Mint, MintOk, Executing, MintMsg, Uint
  <2>2. balances \in [Addr -> Int] /\ balances[a] \in Nat
    BY StoresNow, RatesAssumption DEF StoreSound, Uint
  <2>3. token_info \in TokenInfo /\ token_info.total_supply \in Nat
    BY StoresNow, RatesAssumption DEF StoreSound, TokenInfo, Uint
  <2>4. /\ balances' = Credit(balances, m.recipient, m.amount)
        /\ token_info'.total_supply = token_info.total_supply + m.amount
    BY <1>2, <2>3 DEF Mint, TokenInfo
  <2>5. balances'[a] = balances[a] + (IF a = m.recipient THEN m.amount ELSE 0)
    BY <2>1, <2>2, <2>4 DEF Credit
  <2>. QED
    BY <2>1, <2>2, <2>3, <2>4, <2>5 DEF GrowsWithin
<1>3. CASE \/ Burn \/ BurnFrom \/ IncreaseAllowance \/ DecreaseAllowance \/ UpdateMinter
           \/ SetTaxMap \/ SetTaxAdmin \/ SetWhaleInfo \/ SetWhaleAdmin
  BY <1>3, NothingReceived DEF GrowsWithin
<1>. QED
  BY <1>1, <1>2, <1>3 DEF Execute

\* Even where a burn or a new policy has lowered the limit under what an account holds,
\* no payment adds to that account: only a mint does, and by what it adds to the supply.
THEOREM WhalesGrowOnlyByMint == Spec => WhalesStopGrowing
<1>. DEFINE Growth == Execute =>
                         \A a \in Addr \ (whale_info.whitelist \cup {Self}) : GrowsWithin(a)
<1>1. IInv => Growth
  BY HandlersGrowWithin
<1>2. Spec => [][Growth]_vars
  BY <1>1, InvIsInvariant, PTL DEF Spec
<1>. QED
  BY <1>2 DEF WhalesStopGrowing, GrowsWithin

-----------------------------------------------------------------------------
\* Taxes pass on.

\* What the contract holds beside the taxes in transit.
OwnFunds == balances[Self] - Owed(pending)

\* A message that gives tokens to the contract itself.  A forward does where the
\* contract is its own wallet.
PaysSelf(m) ==
    /\ m.op \in {"transfer", "transfer_from", "send", "send_from", "mint"}
    /\ m.recipient = Self
NobodyPaysSelf == Execute => ~PaysSelf(Head(pending))

\* Nothing is left in the contract by the transaction that runs.
KInv == OwnFunds <= committed.balances[Self]

LEMMA FundsType ==
    /\ IInv => balances[Self] \in Nat /\ committed.balances[Self] \in Nat /\ Owed(pending) \in Nat
    /\ IInv' => balances'[Self] \in Nat /\ Owed(pending') \in Nat
<1>1. IInv => balances[Self] \in Nat /\ committed.balances[Self] \in Nat /\ Owed(pending) \in Nat
  BY StoresNow, OwedType
<1>2. IInv' => balances'[Self] \in Nat /\ Owed(pending') \in Nat
  BY StoresNext, OwedType
<1>. QED
  BY <1>1, <1>2

\* What a payment adds to the contract, it parks: the tax, and no more.
LEMMA PaymentLeavesNoTax ==
    ASSUME IInv, IInv', pending # <<>>, NEW payer \in Addr,
           Head(pending).recipient \in Addr, Head(pending).amount \in Uint,
           Head(pending).sender \in Addr, Head(pending).recipient # Self,
           TaxInfoOf(Head(pending)) \in TaxInfo, TaxOk(Head(pending)),
           Head(pending).amount <= balances[payer],
           OwedBy(Head(pending)) = IF payer = Self THEN Head(pending).amount ELSE 0,
           balances' = Paid(payer, Head(pending)),
           \/ Return(Forward(Head(pending)))
           \/ Return(<<NotifyMsg(Head(pending))>> \o Forward(Head(pending)))
    PROVE  OwnFunds' <= OwnFunds
<1>. DEFINE m == Head(pending)
            n == m.amount
            tax == SplitOf(m).tax
<1>1. StoreSound /\ n \in Nat /\ Self \in Addr
  BY StoresNow, ChainAssumption, RatesAssumption DEF Uint
<1>2. tax \in Nat
  BY <1>1, PaidIs
<1>3. balances'[Self] = balances[Self] - (IF Self = payer THEN n ELSE 0) + tax
  <2>1. /\ SplitOf(m).net \in Nat
        /\ Paid(payer, m)[Self] = balances[Self] - (IF Self = payer THEN n ELSE 0)
                                  + (IF Self = m.recipient THEN SplitOf(m).net ELSE 0)
                                  + (IF Self = Self THEN tax ELSE 0)
    BY <1>1, PaidIs
  <2>. HIDE DEF n, tax
  <2>. QED
    BY <1>1, <1>2, <2>1, FundsType
<1>4. Owed(pending') = Owed(pending) - OwedBy(m) + tax
  BY OwedAfterPayment
<1>5. OwedBy(m) = IF payer = Self THEN n ELSE 0
  OBVIOUS
<1>6. /\ balances[Self] \in Nat /\ Owed(pending) \in Nat
      /\ balances'[Self] \in Nat /\ Owed(pending') \in Nat
  BY FundsType
<1>. HIDE DEF n, tax, m
<1>. QED
  BY <1>1, <1>2, <1>3, <1>4, <1>5, <1>6 DEF OwnFunds

LEMMA PaymentsLeaveNoTax ==
    ASSUME IInv, IInv', EInv, Transfer \/ TransferFrom \/ Send \/ SendFrom,
           ~PaysSelf(Head(pending))
    PROVE  OwnFunds' <= OwnFunds
<1>. DEFINE m == Head(pending)
<1>1. /\ pending # <<>> /\ m.op \in {"transfer", "transfer_from", "send", "send_from"}
      /\ m.recipient \in Addr /\ TaxOk(m)
  BY DEF Transfer, TransferFrom, Send, SendFrom, Executing, TransferOk, TransferFromOk,
         SendOk, SendFromOk
<1>2. m.sender \in Addr /\ m.amount \in Uint
  BY <1>1, HeadIsMessage, MessageByOp DEF TransferMsg, FromMsg
<1>3. TaxInfoOf(m) \in TaxInfo
  BY <1>1, StoresNow, TaxInfoType
<1>4. m.recipient # Self
  BY <1>1 DEF PaysSelf
<1>5. CASE Transfer \/ Send
  <2>1. /\ m.amount <= balances[m.sender] /\ balances' = Paid(m.sender, m)
        /\ Return(Forward(m)) \/ Return(<<NotifyMsg(m)>> \o Forward(m))
    BY <1>5 DEF Transfer, Send, TransferOk, SendOk
  <2>2. OwedBy(m) = IF m.sender = Self THEN m.amount ELSE 0
    BY <1>5, HeadNotOwn DEF OwedBy, Transfer, Send, Executing
  <2>. QED
    BY <1>1, <1>2, <1>3, <1>4, <2>1, <2>2, PaymentLeavesNoTax
<1>6. CASE TransferFrom \/ SendFrom
  <2>1. /\ m.owner \in Addr /\ m.amount <= balances[m.owner] /\ balances' = Paid(m.owner, m)
        /\ Return(Forward(m)) \/ Return(<<NotifyMsg(m)>> \o Forward(m))
        /\ DeductAllowanceOk(m.owner, m.sender, m.amount)
        /\ DeductAllowance(m.owner, m.sender, m.amount)
    BY <1>6 DEF TransferFrom, SendFrom, TransferFromOk, SendFromOk
  <2>2. m.owner # Self
    BY <1>2, <2>1, DeductAllowanceNoGrants DEF EInv
  <2>3. OwedBy(m) = IF m.owner = Self THEN m.amount ELSE 0
    BY <1>6, <2>2 DEF OwedBy, TransferFrom, SendFrom, Executing
  <2>. QED
    BY <1>1, <1>2, <1>3, <1>4, <2>1, <2>3, PaymentLeavesNoTax
<1>. QED
  BY <1>5, <1>6

\* What returns no message of the contract, and is none, and gives it nothing.
LEMMA SilentLeavesNoTax ==
    ASSUME IInv, IInv', pending # <<>>, OwedBy(Head(pending)) = 0,
           NEW msgs \in Seq(Message), Return(msgs), Owed(msgs) = 0,
           balances'[Self] <= balances[Self]
    PROVE  OwnFunds' <= OwnFunds
<1>1. Owed(pending') = Owed(pending)
  BY OwedAfterReturn, FundsType
<1>. QED
  BY <1>1, FundsType DEF OwnFunds

LEMMA HandlersLeaveNoTax ==
    ASSUME IInv, IInv', EInv, Execute, ~PaysSelf(Head(pending))
    PROVE  OwnFunds' <= OwnFunds
<1>. DEFINE m == Head(pending)
<1>1. CASE Transfer \/ TransferFrom \/ Send \/ SendFrom
  BY <1>1, PaymentsLeaveNoTax
<1>2. CASE Mint
  <2>1. /\ pending # <<>> /\ m.op = "mint" /\ m.recipient \in Addr \ {Self} /\ Return(<<>>)
        /\ balances' = Credit(balances, m.recipient, m.amount)
    BY <1>2 DEF Mint, MintOk, Executing, PaysSelf
  <2>2. m.amount \in Nat /\ Self \in Addr
    BY <2>1, HeadIsMessage, MessageByOp, ChainAssumption, RatesAssumption DEF MintMsg, Uint
  <2>3. balances \in [Addr -> Int]
    BY StoresNow, RatesAssumption DEF StoreSound, Uint
  <2>4. balances'[Self] = balances[Self]
    BY <2>1, <2>2, <2>3, CreditIs
  <2>5. balances'[Self] <= balances[Self]
    BY <2>4, FundsType
  <2>6. OwedBy(m) = 0
    BY <2>1 DEF OwedBy
  <2>. QED
    BY <2>1, <2>5, <2>6, OwedNone, EmptySeq, SilentLeavesNoTax
<1>3. CASE \/ Burn \/ BurnFrom \/ IncreaseAllowance \/ DecreaseAllowance \/ UpdateMinter
           \/ SetTaxMap \/ SetTaxAdmin \/ SetWhaleInfo \/ SetWhaleAdmin
  <2>1. /\ pending # <<>> /\ Return(<<>>)
        /\ m.op \in {"burn", "burn_from", "increase_allowance", "decrease_allowance",
                     "update_minter", "set_tax_map", "set_tax_admin", "set_whale_info",
                     "set_whale_admin"}
    BY <1>3 DEF Burn, BurnFrom, IncreaseAllowance, DecreaseAllowance, UpdateMinter, SetTaxMap,
       SetTaxAdmin, SetWhaleInfo, SetWhaleAdmin, Executing
  <2>2. OwedBy(m) = 0
    BY <2>1 DEF OwedBy
  <2>3. balances'[Self] <= balances[Self]
    BY <1>3, NothingReceived, ChainAssumption
  <2>. QED
    BY <2>1, <2>2, <2>3, OwedNone, EmptySeq, SilentLeavesNoTax
<1>. QED
  BY <1>1, <1>2, <1>3 DEF Execute

LEMMA ReceiveLeavesNoTax ==
    ASSUME IInv, IInv', Receive
    PROVE  OwnFunds' <= OwnFunds
<1>1. pending # <<>> /\ OwedBy(Head(pending)) = 0 /\ balances' = balances
  BY DEF Receive, Executing, OwedBy, store
<1>2. PICK msgs \in {<<>>} \cup Reactions : Return(msgs)
  BY DEF Receive
<1>3. msgs \in Seq(Message) /\ Owed(msgs) = 0
  BY CallsOfOthers, OwedNone, EmptySeq
<1>. QED
  BY <1>1, <1>2, <1>3, FundsType, SilentLeavesNoTax

\* Every step keeps KInv, and a commit leaves the contract no more than before.
LEMMA NextLeavesNoTax ==
    ASSUME IInv, IInv', EInv, KInv, [Next]_vars, [NobodyPaysSelf]_vars
    PROVE  /\ KInv'
           /\ committed'.balances[Self] <= committed.balances[Self]
<1>1. CASE /\ Execute \/ Receive
           /\ ~(UNCHANGED vars)
  <2>1. OwnFunds' <= OwnFunds
    BY <1>1, HandlersLeaveNoTax, ReceiveLeavesNoTax DEF NobodyPaysSelf
  <2>2. committed' = IF pending' = <<>> THEN Store' ELSE committed
    BY <1>1 DEF Execute, Receive, Transfer, TransferFrom, Send, SendFrom, Burn, BurnFrom,
       Mint, IncreaseAllowance, DecreaseAllowance, UpdateMinter, SetTaxMap, SetTaxAdmin,
       SetWhaleInfo, SetWhaleAdmin, Return
  <2>3. balances'[Self] - Owed(pending') <= committed.balances[Self]
    BY <2>1, FundsType DEF KInv, OwnFunds
  <2>4. CASE pending' = <<>>
    <3>1. committed'.balances = balances'
      BY <2>2, <2>4 DEF Store
    <3>2. Owed(pending') = 0
      BY <2>4, OwedNone
    <3>. QED
      BY <2>3, <3>1, <3>2, FundsType DEF KInv, OwnFunds
  <2>5. CASE pending' # <<>>
    BY <2>2, <2>3, <2>5, FundsType DEF KInv, OwnFunds
  <2>. QED
    BY <2>4, <2>5
<1>2. CASE Fail
  <2>1. pending' = <<>> /\ balances' = committed.balances /\ committed' = committed
    BY <1>2 DEF Fail
  <2>2. Owed(pending') = 0
    BY <2>1, OwedNone
  <2>. QED
    BY <2>1, <2>2, FundsType DEF KInv, OwnFunds
<1>3. CASE Submit
  <2>1. pending = <<>> /\ pending' \in Txs /\ balances' = balances /\ committed' = committed
    BY <1>3 DEF Submit, store
  <2>2. Owed(pending) = 0 /\ Owed(pending') = 0
    BY <2>1, OwedNone, CallsOfOthers
  <2>. QED
    BY <2>1, <2>2, FundsType DEF KInv, OwnFunds
<1>4. CASE NextBlock \/ UNCHANGED vars
  <2>1. balances' = balances /\ pending' = pending /\ committed' = committed
    BY <1>4 DEF NextBlock, vars, store
  <2>. QED
    BY <2>1, FundsType DEF KInv, OwnFunds
<1>. QED
  BY <1>1, <1>2, <1>3, <1>4 DEF Next, TxStep

\* Where nobody pays the contract itself, every tax moves on to its wallet or fails with
\* its payment, whatever the policies, the re-entrant calls and the taxes on forwards:
\* no transaction changes what the contract holds (process_cw20_messages sends what
\* the payments of contract.rs and allowances.rs have credited to the contract).
THEOREM TaxesPassOn == Spec /\ [][NobodyPaysSelf]_vars => NoTaxKept
<1>1. Init => KInv
  <2>. SUFFICES ASSUME Init
                PROVE  KInv
    OBVIOUS
  <2>1. committed.balances = balances /\ Owed(pending) = 0
    BY OwedNone DEF Init, Store
  <2>. QED
    BY <2>1, InitEstablishesInv, FundsType DEF KInv, OwnFunds
<1>2. /\ IInv /\ IInv' /\ EInv /\ KInv /\ [Next]_vars /\ [NobodyPaysSelf]_vars => KInv'
      /\ IInv /\ IInv' /\ EInv /\ KInv /\ [Next]_vars /\ [NobodyPaysSelf]_vars
         => committed'.balances[Self] = committed.balances[Self]
  <2>. SUFFICES ASSUME IInv, IInv', EInv, KInv, [Next]_vars, [NobodyPaysSelf]_vars
                PROVE  KInv' /\ committed'.balances[Self] = committed.balances[Self]
    OBVIOUS
  <2>1. committed'.balances[Self] >= committed.balances[Self]
    BY NextKeepsEscrow DEF Keeps
  <2>2. committed.balances[Self] \in Nat /\ committed'.balances[Self] \in Nat
    BY StoresNow, StoresNext
  <2>. QED
    BY <2>1, <2>2, NextLeavesNoTax
<1>. QED
  BY <1>1, <1>2, EscrowInvariant, InvIsInvariant, PTL DEF Spec, NoTaxKept

-----------------------------------------------------------------------------
\* Transactions run down.

WorkValue == [m \in Message |-> WorkOf(m)]
Work(msgs) == TotalOf(WorkValue, msgs)

\* What WorkLeft takes off where the last forward is at hand.
Last == IF AtLastForward THEN 1 ELSE 0

LEMMA WorkValueType == WorkValue \in Values
<1>1. WorkValue \in [Message -> 0 .. 4]
  BY DEF WorkValue, WorkOf
<1>. QED
  BY <1>1 DEF Values

LEMMA WorkNone == <<>> \in Seq(Message) /\ Work(<<>>) = 0
<1>1. <<>> \in Seq(Message) /\ DOMAIN <<>> = {}
  BY EmptySeq
<1>. QED
  BY <1>1, TotalOfNothing DEF Work

LEMMA WorkOne ==
    ASSUME NEW m \in Message
    PROVE  <<m>> \in Seq(Message) /\ Work(<<m>>) = WorkOf(m)
<1>1. Work(<<m>>) = WorkValue[m]
  BY WorkValueType, TotalOfSingle DEF Work
<1>. QED
  BY <1>1 DEF WorkValue

LEMMA WorkConcat ==
    ASSUME NEW s \in Seq(Message), NEW t \in Seq(Message)
    PROVE  Work(s \o t) = Work(s) + Work(t)
BY WorkValueType, TotalOfConcat DEF Work

LEMMA WorkType ==
    ASSUME NEW s \in Seq(Message)
    PROVE  Work(s) \in Nat
BY WorkValueType, TotalOfType DEF Work

LEMMA WorkHeadTail ==
    ASSUME NEW s \in Seq(Message), s # <<>>
    PROVE  Work(s) = WorkOf(Head(s)) + Work(Tail(s))
<1>1. Head(s) \in Message
  BY HeadTailProperties
<1>2. Work(s) = WorkValue[Head(s)] + Work(Tail(s))
  BY WorkValueType, TotalOfHeadTail DEF Work
<1>. QED
  BY <1>1, <1>2 DEF WorkValue

LEMMA WorkIsTotal ==
    ASSUME NEW s \in Seq(Message)
    PROVE  TotalBalance([i \in DOMAIN s |-> WorkOf(s[i])]) = Work(s)
<1>1. \A i \in DOMAIN s : s[i] \in Message
  BY ElementOfSeq, LenProperties
<1>2. AmountsOf(WorkValue, s) = [i \in DOMAIN s |-> WorkOf(s[i])]
  BY <1>1 DEF AmountsOf, WorkValue
<1>. QED
  BY <1>2 DEF Work, TotalOf

LEMMA WorkLeftNow ==
    ASSUME IInv
    PROVE  WorkLeft = Work(pending) - Last /\ Work(pending) \in Nat
BY StoresNow, WorkIsTotal, WorkType DEF WorkLeft, Last

LEMMA WorkLeftNext ==
    ASSUME IInv'
    PROVE  WorkLeft' = Work(pending') - Last' /\ Work(pending') \in Nat
BY StoresNext, WorkIsTotal, WorkType DEF WorkLeft, Last

\* A handler is done with the message at hand: what it returns has to weigh less.
LEMMA ReturnLowersWork ==
    ASSUME IInv, IInv', pending # <<>>, NEW msgs \in Seq(Message), Return(msgs),
           Work(msgs) - Last' < WorkOf(Head(pending)) - Last
    PROVE  WorkLeft' < WorkLeft
<1>1. Head(pending) \in Message /\ Tail(pending) \in Seq(Message)
  BY HeadIsMessage
<1>2. Work(pending') = Work(msgs) + Work(Tail(pending))
  BY <1>1, WorkConcat DEF Return
<1>3. Work(pending) = WorkOf(Head(pending)) + Work(Tail(pending))
  BY StoresNow, WorkHeadTail
<1>4. Work(msgs) \in Nat /\ Work(Tail(pending)) \in Nat
  BY <1>1, WorkType
<1>5. WorkOf(Head(pending)) \in Nat /\ Last \in {0, 1} /\ Last' \in {0, 1}
  BY DEF WorkOf, Last
<1>. QED
  BY <1>2, <1>3, <1>4, <1>5, WorkLeftNow, WorkLeftNext

LEMMA SilentLowersWork ==
    ASSUME IInv, IInv', pending # <<>>, Return(<<>>)
    PROVE  WorkLeft' < WorkLeft
<1>1. 0 < WorkOf(Head(pending)) - Last
  BY DEF WorkOf, Last, AtLastForward, Executing
<1>2. Last' \in {0, 1} /\ WorkOf(Head(pending)) \in Nat /\ Last \in {0, 1}
  BY DEF Last, WorkOf
<1>3. Work(<<>>) - Last' < WorkOf(Head(pending)) - Last
  BY <1>1, <1>2, WorkNone
<1>. QED
  BY <1>3, WorkNone, ReturnLowersWork

\* A forward is one message more; a notification weighs 1.
LEMMA PaymentWork ==
    ASSUME NEW m, TaxInfoOf(m) \in TaxInfo, SplitOf(m).net \in Uint, SplitOf(m).tax \in Uint,
           m.recipient \in Addr, m.sender \in Addr
    PROVE  /\ Work(Forward(m)) = IF SplitOf(m).tax > 0 THEN 2 ELSE 0
           /\ Work(<<NotifyMsg(m)>> \o Forward(m)) <= 3
<1>. DEFINE msg == TaxMsg(TaxInfoOf(m).proceeds, SplitOf(m).tax)
<1>1. msg \in TransferMsg /\ WorkOf(msg) = 2
  BY ChainAssumption DEF TaxMsg, TransferMsg, TaxInfo, WorkOf
<1>2. Work(<<msg>>) = 2
  BY <1>1, WorkOne DEF Message, ExecuteMsg
<1>3. Work(Forward(m)) = IF SplitOf(m).tax > 0 THEN 2 ELSE 0
  BY <1>2, WorkNone DEF Forward
<1>4. NotifyMsg(m) \in Message /\ WorkOf(NotifyMsg(m)) = 1
  BY DEF NotifyMsg, ReceiveMsg, Message, WorkOf
<1>5. Work(<<NotifyMsg(m)>>) = 1 /\ <<NotifyMsg(m)>> \in Seq(Message)
  BY <1>4, WorkOne
<1>6. Forward(m) \in Seq(Message)
  BY PaymentMessages
<1>7. Work(<<NotifyMsg(m)>> \o Forward(m)) = 1 + Work(Forward(m))
  BY <1>5, <1>6, WorkConcat
<1>. QED
  BY <1>3, <1>7

LEMMA SplitType ==
    ASSUME NEW m, m.amount \in Uint, TaxInfoOf(m) \in TaxInfo, TaxOk(m)
    PROVE  SplitOf(m).net \in Uint /\ SplitOf(m).tax \in Uint
<1>1. m.amount \in Nat /\ m.amount <= MaxUint
  BY RatesAssumption DEF Uint
<1>2. /\ SplitOf(m).net \in Nat /\ SplitOf(m).tax \in Nat
      /\ SplitOf(m).net + SplitOf(m).tax = m.amount
  BY <1>1, DeductTaxSplits DEF SplitOf, TaxOk
<1>. QED
  BY <1>1, <1>2, RatesAssumption DEF Uint

\* A message of an account weighs more than a notification and a forward.
LEMMA AccountPaymentsRunDown ==
    ASSUME IInv, IInv', TransferFrom \/ Send \/ SendFrom \/ (Transfer /\ Head(pending).sender # Self)
    PROVE  WorkLeft' < WorkLeft
<1>. DEFINE m == Head(pending)
<1>1. m.op \in {"transfer", "transfer_from", "send", "send_from"} /\ pending # <<>>
  BY DEF Transfer, TransferFrom, Send, SendFrom, Executing
<1>2. m.sender \in Addr /\ m.amount \in Uint
  BY <1>1, HeadIsMessage, MessageByOp DEF TransferMsg, FromMsg
<1>3. m.recipient \in Addr /\ TaxOk(m)
  BY DEF Transfer, TransferFrom, Send, SendFrom, TransferOk, TransferFromOk, SendOk, SendFromOk
<1>4. StoreSound /\ TaxInfoOf(m) \in TaxInfo
  BY <1>1, StoresNow, TaxInfoType
<1>5. SplitOf(m).net \in Uint /\ SplitOf(m).tax \in Uint
  BY <1>2, <1>3, <1>4, SplitType
<1>6. WorkOf(m) = 4 /\ Last = 0
  BY DEF Transfer, TransferFrom, Send, SendFrom, Executing, WorkOf, Last, AtLastForward
<1>7. PICK msgs \in Seq(Message) : Return(msgs) /\ Work(msgs) \in 0 .. 3
  <2>1. /\ Forward(m) \in Seq(Message)
        /\ <<NotifyMsg(m)>> \o Forward(m) \in Seq(Message)
    BY <1>2, <1>3, <1>4, <1>5, PaymentMessages
  <2>2. /\ Work(Forward(m)) = IF SplitOf(m).tax > 0 THEN 2 ELSE 0
        /\ Work(<<NotifyMsg(m)>> \o Forward(m)) <= 3
    BY <1>2, <1>3, <1>4, <1>5, PaymentWork
  <2>3. Work(<<NotifyMsg(m)>> \o Forward(m)) \in Nat
    BY <2>1, WorkType
  <2>4. Work(Forward(m)) \in 0 .. 3 /\ Work(<<NotifyMsg(m)>> \o Forward(m)) \in 0 .. 3
    BY <2>2, <2>3
  <2>5. Return(Forward(m)) \/ Return(<<NotifyMsg(m)>> \o Forward(m))
    BY DEF Transfer, TransferFrom, Send, SendFrom
  <2>. QED
    BY <2>1, <2>4, <2>5
<1>8. Work(msgs) - Last' < WorkOf(m) - Last
  <2>1. Last' \in {0, 1}
    BY DEF Last
  <2>. QED
    BY <1>6, <1>7, <2>1
<1>. QED
  BY <1>1, <1>7, <1>8, ReturnLowersWork

\* A forward that is taxed was not bound for the wallet of the transfer tax, and what
\* it returns is: deduct_tax exempts payments to that wallet, and no message runs
\* between the two that could name another one.
LEMMA ForwardsRunDown ==
    ASSUME IInv, IInv', Transfer, Head(pending).sender = Self
    PROVE  WorkLeft' < WorkLeft
<1>. DEFINE m == Head(pending)
            msg == TaxMsg(TaxInfoOf(m).proceeds, SplitOf(m).tax)
<1>1. m.op = "transfer" /\ pending # <<>> /\ TransferOk(m) /\ Return(Forward(m))
  BY DEF Transfer, Executing
<1>2. m.sender \in Addr /\ m.amount \in Uint
  BY <1>1, HeadIsMessage, MessageByOp DEF TransferMsg
<1>3. m.recipient \in Addr /\ TaxOk(m)
  BY <1>1 DEF TransferOk
<1>4. StoreSound /\ TaxInfoOf(m) \in TaxInfo /\ TaxInfoOf(m) = tax_info.on_transfer
  BY <1>1, StoresNow, TaxInfoType DEF TaxInfoOf
<1>5. SplitOf(m).net \in Uint /\ SplitOf(m).tax \in Uint
  BY <1>2, <1>3, <1>4, SplitType
<1>6. WorkOf(m) = 2
  BY <1>1 DEF WorkOf
<1>7. CASE SplitOf(m).tax > 0
  <2>1. m.recipient # tax_info.on_transfer.proceeds
    BY <1>4, <1>7 DEF SplitOf, DeductTax, MovementTaxed, Split
  <2>2. Last = 0
    BY <2>1 DEF Last, AtLastForward
  <2>3. msg \in Message /\ msg.op = "transfer" /\ msg.sender = Self
        /\ msg.recipient = tax_info.on_transfer.proceeds
    BY <1>4, <1>5, ChainAssumption DEF TaxMsg, TransferMsg, TaxInfo, Message, ExecuteMsg
  <2>4. <<msg>> \in Seq(Message) /\ Work(<<msg>>) = 2
    BY <2>3, WorkOne DEF WorkOf
  <2>5. Return(<<msg>>)
    BY <1>1, <1>7 DEF Forward
  <2>6. pending' # <<>> /\ Head(pending') = msg
    BY <2>3, <2>5, HeadIsMessage, <1>1 DEF Return
  <2>7. tax_info' = tax_info
    BY DEF Transfer
  <2>8. Last' = 1
    BY <2>3, <2>6, <2>7 DEF Last, AtLastForward, Executing
  <2>9. Work(<<msg>>) - Last' < WorkOf(m) - Last
    BY <1>6, <2>2, <2>4, <2>8
  <2>. QED
    BY <1>1, <2>4, <2>5, <2>9, ReturnLowersWork
<1>8. CASE ~(SplitOf(m).tax > 0)
  BY <1>1, <1>8, SilentLowersWork DEF Forward
<1>. QED
  BY <1>7, <1>8

LEMMA FailRunsDown ==
    ASSUME IInv, IInv', Fail
    PROVE  WorkLeft' < WorkLeft
<1>1. pending # <<>> /\ pending' = <<>>
  BY DEF Fail
<1>2. Work(pending') = 0 /\ Last' = 0
  BY <1>1, WorkNone DEF Last, AtLastForward, Executing
<1>3. Work(pending) = WorkOf(Head(pending)) + Work(Tail(pending))
  BY <1>1, StoresNow, WorkHeadTail
<1>4. 0 < WorkOf(Head(pending)) - Last /\ WorkOf(Head(pending)) \in Nat /\ Last \in {0, 1}
  BY DEF WorkOf, Last, AtLastForward, Executing
<1>5. Work(Tail(pending)) \in Nat
  BY <1>1, HeadIsMessage, WorkType
<1>. QED
  BY <1>2, <1>3, <1>4, <1>5, WorkLeftNow, WorkLeftNext

LEMMA StepsRunDown ==
    ASSUME IInv, IInv', TxStep
    PROVE  reactions' > reactions \/ WorkLeft' < WorkLeft
<1>1. CASE Transfer
  BY <1>1, AccountPaymentsRunDown, ForwardsRunDown
<1>2. CASE TransferFrom \/ Send \/ SendFrom
  BY <1>2, AccountPaymentsRunDown
<1>3. CASE \/ Burn \/ BurnFrom \/ Mint \/ IncreaseAllowance \/ DecreaseAllowance
           \/ UpdateMinter \/ SetTaxMap \/ SetTaxAdmin \/ SetWhaleInfo \/ SetWhaleAdmin
  <2>1. pending # <<>> /\ Return(<<>>)
    BY <1>3 DEF Burn, BurnFrom, Mint, IncreaseAllowance, DecreaseAllowance, UpdateMinter,
       SetTaxMap, SetTaxAdmin, SetWhaleInfo, SetWhaleAdmin, Executing
  <2>. QED
    BY <2>1, SilentLowersWork
<1>4. CASE Receive
  <2>1. pending # <<>>
    BY <1>4 DEF Receive, Executing
  <2>2. CASE Return(<<>>)
    BY <2>1, <2>2, SilentLowersWork
  <2>3. CASE reactions' = reactions + 1
    <3>1. reactions \in Nat
      BY ChainAssumption DEF IInv
    <3>. QED
      BY <2>3, <3>1
  <2>. QED
    BY <1>4, <2>2, <2>3 DEF Receive
<1>5. CASE Fail
  BY <1>5, FailRunsDown
<1>. QED
  BY <1>1, <1>2, <1>3, <1>4, <1>5 DEF TxStep, Execute

\* However the policy is replaced on the way and whichever forward is taxed, the token
\* alone keeps no transaction going: every step but a notification that leads to calls
\* leaves less to do, and of those there are as many as the contracts pay for.
THEOREM TransactionsRunDown == Spec => RunsDown
<1>1. IInv /\ [Next]_vars => IInv'
  BY NextKeepsInv
<1>2. IInv /\ IInv' => (TxStep => reactions' > reactions \/ WorkLeft' < WorkLeft)
  BY StepsRunDown
<1>3. Spec => [][TxStep => reactions' > reactions \/ WorkLeft' < WorkLeft]_vars
  BY <1>2, InvIsInvariant, PTL DEF Spec
<1>. QED
  BY <1>3 DEF RunsDown
=============================================================================
