------------------------ MODULE WithdrawFlow_proofs ------------------------
(***************************************************************************)
(* The safety properties of WithdrawFlow for all transactions, chains and  *)
(* bounds, on top of what WalletState_proofs shows of the wallet: every    *)
(* step of the flow is a step of the wallet (FlowImplementsWallet).        *)
(*                                                                         *)
(* What the listener has handled left its trace: a request a row           *)
(* (HandledRequests), a payment an order past aggregating (HandledOrders), *)
(* its end spent inputs (HandledFinals).  Such an order is accepted        *)
(* (PastAccepted), and no withdrawal it pays is selectable unless a rival  *)
(* took it over (PastPaid): the row of a selectable withdrawal names the   *)
(* newest order that pays it (NewestNamed).                                *)
(***************************************************************************)
EXTENDS WithdrawFlow, WalletState_proofs

USE NoTxAssumption, TxAssumption, MaxOrderAssumption

Past == {"init", "pending", "confirmed", "processed"}
Selectable == {"none", "create", "aggregating"}   \* or may become so

AcceptedTxs == {t \in Tx : Accepted(t)}
MinedTxs == {t \in Tx : Mined(t)}
PastTxs == {order[o].txid : o \in {o \in OrderId : order[o].status \in Past}}
RowTxs == {order[o].txid : o \in OrderId}

LogTyped == (\E S : l2log \in Seq(S)) /\ (\E S : btcLog \in Seq(S))
PlaceTyped ==
  /\ synced \in Nat /\ savedSync \in Nat /\ savedSync <= synced /\ synced <= Len(l2log)
  /\ halfDone = TRUE => synced < Len(l2log)
ScanTyped == scanned \in Nat /\ savedScan \in Nat

\* what layer 2 lets into a block
Sound(b, i) ==
  /\ b = Block(b.kind, b.of)
  /\ b.kind \in {"request", "cancel", "canceled"} => b.of \in Withdraw
  /\ b.kind \in {"processing", "consolidation", "finalized"} => b.of \in Tx
  /\ b.kind = "deposit" => b.of \in Utxo
  /\ b.kind = "consolidation" => Pays[b.of] = {}
  /\ b.kind = "processing" =>
       \A w \in Pays[b.of] : \E j \in 1 .. (i - 1) : l2log[j] = Block("request", w)
  /\ b.kind = "finalized" => \E j \in 1 .. (i - 1) : l2log[j] = Block("processing", b.of)
LogSound == \A i \in DOMAIN l2log : Sound(l2log[i], i)

HandledRequests ==
  \A i \in 1 .. synced : l2log[i].kind = "request" => withdraw[l2log[i].of].status # "none"
HandledOrders ==
  \A i \in 1 .. synced : l2log[i].kind = "processing" => l2log[i].of \in PastTxs
HandledFinals ==
  \A i \in 1 .. synced : l2log[i].kind = "finalized" =>
    \A u \in Ins[l2log[i].of] : utxo[u] = "spent"
HalfHandled ==
  halfDone = TRUE /\ l2log[synced + 1].kind = "processing" => l2log[synced + 1].of \in RowTxs

PastAccepted == PastTxs \subseteq AcceptedTxs
MinedAccepted == MinedTxs \subseteq AcceptedTxs

NoneUnnamed == \A w \in Withdraw : withdraw[w].status = "none" => withdraw[w].order = 0

NewestNamed ==
  \A w \in Withdraw, o \in OrderId :
    order[o].txid \in Tx /\ w \in Pays[order[o].txid] /\ withdraw[w].status \in Selectable =>
      o <= withdraw[w].order

PastPaid ==
  \A t \in Tx \cap PastTxs : \A w \in Pays[t] :
    withdraw[w].status \in Selectable => \E s \in RowTxs \cap (Tx \ {t}) : w \in Pays[s]

FlowInv ==
  /\ IInv /\ LogTyped /\ PlaceTyped /\ ScanTyped /\ LogSound
  /\ HandledRequests /\ HandledOrders /\ HandledFinals /\ HalfHandled
  /\ PastAccepted /\ MinedAccepted /\ NoneUnnamed /\ NewestNamed /\ PastPaid

-----------------------------------------------------------------------------
(* The two chains *)

LEMMA FlowAppended ==
  ASSUME NEW S, NEW s \in Seq(S), NEW e
  PROVE  /\ Append(s, e) \in Seq(S \cup {e})
         /\ DOMAIN s = 1 .. Len(s) /\ Len(s) \in Nat
         /\ Len(Append(s, e)) = Len(s) + 1
         /\ DOMAIN Append(s, e) = 1 .. (Len(s) + 1)
         /\ \A i \in 1 .. Len(s) : Append(s, e)[i] = s[i]
         /\ Append(s, e)[Len(s) + 1] = e
<1> DEFINE T == S \cup {e}
<1>1. s \in Seq(T) /\ e \in T
  OBVIOUS
<1> HIDE DEF T
<1>2. /\ Append(s, e) \in Seq(T) /\ Len(Append(s, e)) = Len(s) + 1
      /\ \A i \in 1 .. Len(s) : Append(s, e)[i] = s[i]
      /\ Append(s, e)[Len(s) + 1] = e
  BY <1>1
<1>3. DOMAIN s = 1 .. Len(s) /\ Len(s) \in Nat
  BY <1>1
<1>4. DOMAIN Append(s, e) = 1 .. (Len(s) + 1)
  BY <1>2
<1> QED BY <1>2, <1>3, <1>4 DEF T

LEMMA Domains ==
  ASSUME LogTyped
  PROVE  /\ DOMAIN l2log = 1 .. Len(l2log) /\ Len(l2log) \in Nat
         /\ DOMAIN btcLog = 1 .. Len(btcLog) /\ Len(btcLog) \in Nat
<1>1. PICK S : l2log \in Seq(S)
  BY DEF LogTyped
<1>2. PICK T : btcLog \in Seq(T)
  BY DEF LogTyped
<1> QED BY <1>1, <1>2

LEMMA InitFlow == FlowInit => FlowInv
<1> SUFFICES ASSUME FlowInit PROVE FlowInv
  OBVIOUS
<1>1. IInv
  BY InitIInv DEF FlowInit
<1>2. /\ l2log = <<>> /\ synced = 0 /\ savedSync = 0 /\ halfDone = FALSE
      /\ btcLog = Funding /\ ScanTyped
  BY DEF FlowInit, ScanTyped
<1>3. <<>> \in Seq({}) /\ Len(<<>>) = 0 /\ DOMAIN <<>> = {} /\ 1 .. 0 = {}
  OBVIOUS
<1>4. LogTyped /\ PlaceTyped
  <2>1. \E S : l2log \in Seq(S)
    BY <1>2, <1>3
  <2>2. \E S : btcLog \in Seq(S)
    BY <1>2, FundingAssumption
  <2>3. Len(l2log) = 0
    BY <1>2, <1>3
  <2>4. PlaceTyped
    BY <1>2, <2>3 DEF PlaceTyped
  <2> QED BY <2>1, <2>2, <2>4 DEF LogTyped
<1>5. LogSound /\ HandledRequests /\ HandledOrders /\ HandledFinals /\ HalfHandled
  BY <1>2, <1>3 DEF LogSound, HandledRequests, HandledOrders, HandledFinals, HalfHandled
<1>6. order = [o \in OrderId |-> [txid |-> NoTx, status |-> "none"]]
  BY DEF FlowInit, Init
<1>7. PastTxs = {}
  BY <1>6 DEF PastTxs, Past
<1>8. MinedTxs = {}
  <2>1. ASSUME NEW t \in Tx, NEW i \in DOMAIN Funding, Funding[i] = t PROVE FALSE
    <3>1. Funding[i] \in Outside
      BY FundingAssumption
    <3> QED BY <2>1, <3>1, FundingAssumption DEF Outside
  <2> QED BY <1>2, <2>1 DEF MinedTxs, Mined
<1>9. NewestNamed /\ NoneUnnamed
  BY <1>6 DEF NewestNamed, NoneUnnamed, FlowInit, Init, NoRow
<1> QED BY <1>1, <1>2, <1>4, <1>5, <1>7, <1>8, <1>9 DEF FlowInv, PastAccepted, MinedAccepted, PastPaid

\* what a step does to the logs and to the listener's place
LogAppended ==
  \E k \in Kinds : \E x : /\ MayLog(Block(k, x)) /\ l2log' = Append(l2log, Block(k, x))
                         /\ UNCHANGED <<vars, btcLog, l2Vars>>
ListenerMoved ==
  \/ UNCHANGED l2Vars
  \/ synced < Len(l2log) /\ (BlockDone \/ HalfDone)
  \/ halfDone' = FALSE /\ UNCHANGED <<synced, savedSync>>
  \/ savedSync' \in savedSync .. synced /\ synced' = savedSync' /\ halfDone' = FALSE
BlockMined == btcLog' = btcLog \/ \E t \in AcceptedTxs : btcLog' = Append(btcLog, t)

LEMMA LogCases ==
  [FlowNext]_allVars => (LogAppended \/ (l2log' = l2log /\ ListenerMoved)) /\ BlockMined
<1> SUFFICES ASSUME [FlowNext]_allVars
             PROVE  (LogAppended \/ (l2log' = l2log /\ ListenerMoved)) /\ BlockMined
  OBVIOUS
<1> USE DEF BlockMined, ListenerMoved
<1>1. CASE Layer2Block
  BY <1>1 DEF Layer2Block, LogAppended
<1>2. CASE BitcoinBlock
  BY <1>2 DEF BitcoinBlock, AcceptedTxs
<1>3. CASE HandleEvent
  BY <1>3 DEF HandleEvent, ListenerUnchanged, externals
<1>4. CASE HandleProcessing
  BY <1>4 DEF HandleProcessing, Handling, ListenerUnchanged, externals
<1>5. CASE HandleElected
  BY <1>5 DEF HandleElected, Handling, externals
<1>6. CASE Scanner
  BY <1>6 DEF Scanner, ScanOut, ScanConfirm, externals
<1>7. CASE InitWithdrawSig \/ BuildNothing \/ EndSig \/ \E w \in Withdraw : CloseDust(w)
  BY <1>7 DEF InitWithdrawSig, BuildNothing, EndSig, CloseDust, externals
<1>8. ASSUME NEW t \in Tx,
             \/ BuildOrder(t) \/ JoinOrder(t) \/ BroadcastOrder(t)
             \/ HearBroadcast(t) \/ RevertPending(t) \/ ConfirmPending(t)
      PROVE  UNCHANGED <<l2log, btcLog, l2Vars>>
  BY <1>8 DEF BuildOrder, JoinOrder, BroadcastOrder, HearBroadcast, RevertPending,
              ConfirmPending, externals, flowVars
<1>9. CASE Restart
  BY <1>9 DEF Restart, externals
<1>10. CASE StartClean
  BY <1>10 DEF StartClean, externals, flowVars
<1>11. CASE RetryBlock
  BY <1>11 DEF RetryBlock, externals
<1>12. CASE UNCHANGED allVars
  BY <1>12 DEF allVars, flowVars, externals
<1> QED
  BY <1>1, <1>2, <1>3, <1>4, <1>5, <1>6, <1>7, <1>8, <1>9, <1>10, <1>11, <1>12
  DEF FlowNext, Listener

\* the log only grows, and what is in it stays
LEMMA LogGrows ==
  ASSUME LogTyped, [FlowNext]_allVars
  PROVE  /\ \E S : l2log' \in Seq(S)
         /\ Len(l2log') \in Nat /\ Len(l2log) \in Nat /\ Len(l2log) <= Len(l2log')
         /\ \A i \in 1 .. Len(l2log) : l2log'[i] = l2log[i]
         /\ DOMAIN l2log = 1 .. Len(l2log) /\ DOMAIN l2log' = 1 .. Len(l2log')
<1>0. PICK S : l2log \in Seq(S)
  BY DEF LogTyped
<1>1. ASSUME NEW k \in Kinds, NEW x, l2log' = Append(l2log, Block(k, x))
      PROVE  /\ \E T : l2log' \in Seq(T)
             /\ Len(l2log') = Len(l2log) + 1 /\ Len(l2log) \in Nat
             /\ \A i \in 1 .. Len(l2log) : l2log'[i] = l2log[i]
             /\ DOMAIN l2log = 1 .. Len(l2log) /\ DOMAIN l2log' = 1 .. (Len(l2log) + 1)
  <2> DEFINE e == Block(k, x)
  <2>1. l2log' = Append(l2log, e)
    BY <1>1
  <2> HIDE DEF e
  <2>2. l2log' \in Seq(S \cup {e})
    BY <1>0, <2>1, FlowAppended
  <2> QED BY <1>0, <2>1, <2>2, FlowAppended
<1>2. CASE LogAppended
  BY <1>1, <1>2 DEF LogAppended
<1>3. CASE l2log' = l2log
  <2>1. DOMAIN l2log = 1 .. Len(l2log) /\ Len(l2log) \in Nat
    BY Domains
  <2> QED BY <1>0, <1>3, <2>1
<1> QED BY <1>2, <1>3, LogCases

LEMMA LogTypedStep == LogTyped /\ PlaceTyped /\ [FlowNext]_allVars => LogTyped' /\ PlaceTyped'
<1> SUFFICES ASSUME LogTyped, PlaceTyped, [FlowNext]_allVars PROVE LogTyped' /\ PlaceTyped'
  OBVIOUS
<1>1. \E S : btcLog' \in Seq(S)
  <2>1. PICK S : btcLog \in Seq(S)
    BY DEF LogTyped
  <2>2. ASSUME NEW t, btcLog' = Append(btcLog, t) PROVE \E T : btcLog' \in Seq(T)
    <3>1. btcLog' \in Seq(S \cup {t})
      BY <2>1, <2>2, FlowAppended
    <3> QED BY <3>1
  <2> QED BY <2>1, <2>2, LogCases DEF BlockMined
<1>2. LogTyped'
  BY <1>1, LogGrows DEF LogTyped
<1> SUFFICES PlaceTyped'
  BY <1>2
<1>3. Len(l2log') \in Nat /\ Len(l2log) \in Nat /\ Len(l2log) <= Len(l2log')
  BY LogGrows
<1>4. CASE UNCHANGED l2Vars
  BY <1>3, <1>4 DEF PlaceTyped, l2Vars
<1>5. CASE l2log' = l2log /\ ListenerMoved
  <2>1. CASE synced < Len(l2log) /\ BlockDone
    BY <1>3, <1>5, <2>1 DEF PlaceTyped, BlockDone
  <2>2. CASE synced < Len(l2log) /\ HalfDone
    BY <1>3, <1>5, <2>2 DEF PlaceTyped, HalfDone
  <2>3. CASE halfDone' = FALSE /\ UNCHANGED <<synced, savedSync>>
    BY <1>3, <1>5, <2>3 DEF PlaceTyped
  <2>4. CASE savedSync' \in savedSync .. synced /\ synced' = savedSync' /\ halfDone' = FALSE
    BY <1>3, <1>5, <2>4 DEF PlaceTyped
  <2> QED BY <1>4, <1>5, <2>1, <2>2, <2>3, <2>4 DEF ListenerMoved
<1> QED BY <1>4, <1>5, LogCases DEF LogAppended

LEMMA AcceptedSound ==
  ASSUME LogTyped, NEW k, NEW x, MayLog(Block(k, x))
  PROVE  Sound(Block(k, x), Len(l2log) + 1)
<1> DEFINE b == Block(k, x)
           n == Len(l2log) + 1
<1>0. b.kind = k /\ b.of = x /\ b = Block(b.kind, b.of)
  BY DEF Block
<1>1. DOMAIN l2log = 1 .. (n - 1)
  BY Domains
<1> HIDE DEF b, n
<1>2. MayLog(b)
  BY DEF b
<1>3. k \in {"request", "cancel", "canceled"} => x \in Withdraw
  BY <1>0, <1>2 DEF MayLog
<1>4. k \in {"processing", "consolidation", "finalized"} => x \in Tx
  BY <1>0, <1>2 DEF MayLog
<1>5. k = "deposit" => x \in Utxo
  BY <1>0, <1>2 DEF MayLog, Outside
<1>6. k = "consolidation" => Pays[x] = {}
  BY <1>0, <1>2 DEF MayLog, IsConsolidation
<1>7. ASSUME k = "processing", NEW w \in Pays[x]
      PROVE  \E j \in 1 .. (n - 1) : l2log[j] = Block("request", w)
  BY <1>0, <1>1, <1>2, <1>7 DEF MayLog, MayAccept, Payable, Logged
<1>8. k = "finalized" => \E j \in 1 .. (n - 1) : l2log[j] = Block("processing", x)
  BY <1>0, <1>1, <1>2 DEF MayLog, Logged
<1> QED BY <1>0, <1>3, <1>4, <1>5, <1>6, <1>7, <1>8 DEF Sound, b, n


LEMMA ScanTypedStep == ScanTyped /\ [FlowNext]_allVars => ScanTyped'
<1> SUFFICES ASSUME ScanTyped, [FlowNext]_allVars PROVE ScanTyped'
  OBVIOUS
<1> USE DEF ScanTyped, btcVars
<1>1. CASE Layer2Block \/ BitcoinBlock
  BY <1>1 DEF Layer2Block, BitcoinBlock
<1>2. CASE Listener
  BY <1>2 DEF Listener, HandleEvent, HandleProcessing, HandleElected, ListenerUnchanged
<1>3. CASE Scanner
  BY <1>3 DEF Scanner, ScanOut, ScanConfirm
<1>4. CASE InitWithdrawSig \/ BuildNothing \/ EndSig \/ \E w \in Withdraw : CloseDust(w)
  BY <1>4 DEF InitWithdrawSig, BuildNothing, EndSig, CloseDust
<1>5. ASSUME NEW t \in Tx,
             \/ BuildOrder(t) \/ JoinOrder(t) \/ BroadcastOrder(t)
             \/ HearBroadcast(t) \/ RevertPending(t) \/ ConfirmPending(t)
      PROVE  UNCHANGED btcVars
  BY <1>5 DEF BuildOrder, JoinOrder, BroadcastOrder, HearBroadcast, RevertPending,
              ConfirmPending, flowVars
<1>6. CASE Restart \/ StartClean \/ RetryBlock
  BY <1>6 DEF Restart, StartClean, RetryBlock, flowVars
<1>7. CASE UNCHANGED allVars
  BY <1>7 DEF allVars, flowVars
<1> QED BY <1>1, <1>2, <1>3, <1>4, <1>5, <1>6, <1>7 DEF FlowNext

LEMMA LogSoundStep == LogTyped /\ LogSound /\ [FlowNext]_allVars => LogSound'
<1> SUFFICES ASSUME LogTyped, LogSound, [FlowNext]_allVars, NEW i \in DOMAIN l2log'
             PROVE  Sound(l2log[i], i)'
  BY DEF LogSound
<1>1. CASE l2log' = l2log
  BY <1>1 DEF LogSound, Sound
<1>2. CASE LogAppended
  <2>0. PICK k \in Kinds : \E x : MayLog(Block(k, x)) /\ l2log' = Append(l2log, Block(k, x))
    BY <1>2 DEF LogAppended
  <2>1. PICK x : MayLog(Block(k, x)) /\ l2log' = Append(l2log, Block(k, x))
    BY <2>0
  <2> DEFINE n == Len(l2log)
  <2>2. n \in Nat /\ DOMAIN l2log = 1 .. n /\ DOMAIN l2log' = 1 .. (n + 1)
        /\ (\A j \in 1 .. n : l2log'[j] = l2log[j])
        /\ l2log'[n + 1] = Block(k, x)
    <3>1. PICK S : l2log \in Seq(S)
      BY DEF LogTyped
    <3> DEFINE e == Block(k, x)
    <3>2. l2log' = Append(l2log, e)
      BY <2>1
    <3> HIDE DEF e
    <3> QED BY <3>1, <3>2, FlowAppended DEF e
  <2>3. Sound(l2log'[i], i)
    <3>1. CASE i \in 1 .. n
      BY <3>1, <2>2 DEF LogSound
    <3>2. CASE i = n + 1
      BY <2>1, <2>2, <3>2, AcceptedSound
    <3> QED BY <2>2, <3>1, <3>2
  <2>4. \A j \in 1 .. (i - 1) : l2log'[j] = l2log[j]
    BY <2>2
  <2> HIDE DEF n
  <2> QED BY <2>3, <2>4 DEF Sound
<1> QED BY <1>1, <1>2, LogCases

LEMMA AcceptedKept == LogTyped /\ [FlowNext]_allVars => AcceptedTxs \subseteq AcceptedTxs'
<1> SUFFICES ASSUME LogTyped, [FlowNext]_allVars, NEW t \in AcceptedTxs PROVE t \in AcceptedTxs'
  OBVIOUS
<1>1. PICK i \in DOMAIN l2log : l2log[i] = Block("processing", t) \/ l2log[i] = Block("consolidation", t)
  BY DEF AcceptedTxs, Accepted, Logged
<1>2. i \in DOMAIN l2log' /\ l2log'[i] = l2log[i]
  BY LogGrows
<1> QED BY <1>1, <1>2 DEF AcceptedTxs, Accepted, Logged

LEMMA MinedStep ==
  LogTyped /\ MinedAccepted /\ [FlowNext]_allVars => MinedAccepted'
<1> SUFFICES ASSUME LogTyped, MinedAccepted, [FlowNext]_allVars, NEW t \in MinedTxs'
             PROVE  t \in AcceptedTxs
  BY AcceptedKept DEF MinedAccepted
<1>1. PICK i \in DOMAIN btcLog' : btcLog'[i] = t
  BY DEF MinedTxs, Mined
<1>2. t \in Tx
  BY DEF MinedTxs
<1>3. CASE btcLog' = btcLog
  BY <1>1, <1>2, <1>3 DEF MinedAccepted, MinedTxs, Mined
<1>4. ASSUME NEW s \in AcceptedTxs, btcLog' = Append(btcLog, s) PROVE t \in AcceptedTxs
  <2>1. PICK S : btcLog \in Seq(S)
    BY DEF LogTyped
  <2>2. CASE i \in 1 .. Len(btcLog)
    BY <1>1, <1>2, <1>4, <2>1, <2>2, FlowAppended DEF MinedAccepted, MinedTxs, Mined
  <2>3. CASE i = Len(btcLog) + 1
    BY <1>1, <1>4, <2>1, <2>3, FlowAppended
  <2> QED BY <1>4, <2>1, <2>2, <2>3, FlowAppended
<1> QED BY <1>3, <1>4, LogCases DEF BlockMined


-----------------------------------------------------------------------------
(* What a step of the flow does to the wallet, and when *)

Stored(t) == \A w \in Pays[t] : withdraw[w].status # "none"

WalletStep ==
  \/ UNCHANGED vars
  \/ \E w \in Withdraw :
       CreateWithdrawal(w) \/ UpdateWithdrawCanceling(w) \/ UpdateWithdrawCanceled(w)
  \/ \E t \in Tx, isProposer \in BOOLEAN : CreateSendOrder(t, isProposer)
  \/ \E t \in AcceptedTxs :
       \/ Stored(t) /\ RecoverSendOrder(t)
       \/ UpdateWithdrawInitialized(t)
       \/ UpdateSendOrderPending(t, Ins[t], Pays[t])
       \/ UpdateSendOrderConfirmed(t)
  \/ \E t \in Tx :
       \/ UpdateWithdrawFinalized(t)
       \/ t \in PastTxs /\ (UpdateSendOrderPending(t, {}, {}) \/ UpdateSendOrderInitlized(t))
  \/ CleanProcessingWithdraw
  \/ \E u \in Utxo : AddUtxo(u, "confirmed") \/ AddDepositResult(u)

LEMMA WalletStepNext == WalletStep => [Next]_vars
<1> SUFFICES ASSUME WalletStep PROVE [Next]_vars
  OBVIOUS
<1>1. AcceptedTxs \subseteq Tx
  BY DEF AcceptedTxs
<1>2. ASSUME NEW t \in Tx, NEW us \in SUBSET Ins[t], NEW ws \in SUBSET Pays[t],
             UpdateSendOrderPending(t, us, ws)
      PROVE  Next
  BY <1>2 DEF Next
<1>3. ASSUME NEW t \in Tx,
             \/ RecoverSendOrder(t) \/ UpdateSendOrderInitlized(t) \/ UpdateSendOrderConfirmed(t)
             \/ UpdateWithdrawInitialized(t) \/ UpdateWithdrawFinalized(t)
      PROVE  Next
  BY <1>3 DEF Next
<1>4. ASSUME NEW t \in Tx, \/ UpdateSendOrderPending(t, Ins[t], Pays[t])
                           \/ UpdateSendOrderPending(t, {}, {})
      PROVE  Next
  <2>1. Ins[t] \in SUBSET Ins[t] /\ Pays[t] \in SUBSET Pays[t]
        /\ {} \in SUBSET Ins[t] /\ {} \in SUBSET Pays[t]
    OBVIOUS
  <2> QED BY <1>2, <1>4, <2>1
<1>5. ASSUME NEW u \in Utxo, AddUtxo(u, "confirmed") \/ AddDepositResult(u) PROVE Next
  BY <1>5 DEF Next, Spendable
<1>6. ASSUME NEW t \in Tx, NEW isProposer \in BOOLEAN, CreateSendOrder(t, isProposer) PROVE Next
  BY <1>6 DEF Next
<1>7. ASSUME NEW w \in Withdraw,
             CreateWithdrawal(w) \/ UpdateWithdrawCanceling(w) \/ UpdateWithdrawCanceled(w)
      PROVE  Next
  BY <1>7 DEF Next
<1>8. ASSUME CleanProcessingWithdraw PROVE Next
  BY <1>8 DEF Next
<1> QED BY <1>1, <1>3, <1>4, <1>5, <1>6, <1>7, <1>8 DEF WalletStep

\* the block that the listener handles
LEMMA Handles ==
  ASSUME FlowInv, synced < Len(l2log)
  PROVE  /\ synced \in Nat /\ synced + 1 \in DOMAIN l2log
         /\ Sound(Next2, synced + 1)
         /\ Next2.kind \in {"processing", "consolidation"} => Next2.of \in AcceptedTxs
<1>1. synced \in Nat /\ synced + 1 \in DOMAIN l2log
  BY Domains DEF FlowInv, PlaceTyped
<1>2. Sound(Next2, synced + 1)
  BY <1>1 DEF FlowInv, LogSound, Next2
<1>3. Next2.kind \in {"processing", "consolidation"} => Next2.of \in AcceptedTxs
  BY <1>1, <1>2 DEF Sound, Next2, AcceptedTxs, Accepted, Logged
<1> QED BY <1>1, <1>2, <1>3

LEMMA HandledStored ==
  ASSUME FlowInv, synced < Len(l2log), Next2.kind = "processing"
  PROVE  Stored(Next2.of)
<1> SUFFICES ASSUME NEW w \in Pays[Next2.of] PROVE withdraw[w].status # "none"
  BY DEF Stored
<1>1. PICK j \in 1 .. synced : l2log[j] = Block("request", w)
  BY Handles DEF Sound
<1>2. l2log[j].kind = "request" /\ l2log[j].of = w
  BY <1>1 DEF Block
<1> QED BY <1>2 DEF FlowInv, HandledRequests

LEMMA FlowStep == FlowInv /\ [FlowNext]_allVars => WalletStep
<1> SUFFICES ASSUME FlowInv, [FlowNext]_allVars PROVE WalletStep
  OBVIOUS
<1>0. MinedTxs \subseteq AcceptedTxs
  BY DEF FlowInv, MinedAccepted
<1>1. CASE Layer2Block \/ BitcoinBlock
  BY <1>1 DEF Layer2Block, BitcoinBlock, WalletStep
<1>2. CASE HandleEvent
  <2> DEFINE x == Next2.of
  <2>0. synced < Len(l2log)
    BY <1>2 DEF HandleEvent
  <2>1. /\ Next2.kind \in {"request", "cancel", "canceled"} => x \in Withdraw
        /\ Next2.kind = "finalized" => x \in Tx
        /\ Next2.kind = "deposit" => x \in Utxo
        /\ Next2.kind = "consolidation" => x \in AcceptedTxs
    BY <2>0, Handles DEF Sound
  <2>2. \/ Next2.kind = "request" /\ CreateWithdrawal(x)
        \/ Next2.kind = "cancel" /\ UpdateWithdrawCanceling(x)
        \/ Next2.kind = "canceled" /\ UpdateWithdrawCanceled(x)
        \/ Next2.kind = "consolidation" /\ UpdateWithdrawInitialized(x)
        \/ Next2.kind = "finalized" /\ UpdateWithdrawFinalized(x)
        \/ Next2.kind = "deposit" /\ AddDepositResult(x)
    BY <1>2 DEF HandleEvent
  <2> HIDE DEF x
  <2> QED BY <2>1, <2>2 DEF WalletStep
<1>3. CASE HandleProcessing
  <2>1. synced < Len(l2log) /\ Next2.kind = "processing"
    BY <1>3 DEF HandleProcessing, Handling
  <2>2. RecoverSendOrder(Next2.of) \/ UpdateWithdrawInitialized(Next2.of)
    BY <1>3 DEF HandleProcessing
  <2> QED BY <2>1, <2>2, Handles, HandledStored DEF WalletStep
<1>4. CASE HandleElected
  BY <1>4 DEF HandleElected, WalletStep
<1>5. CASE Scanner
  <2>1. ASSUME NEW u \in Utxo, ScanOut(u) PROVE WalletStep
    BY <2>1 DEF ScanOut, WalletStep
  <2>2. CASE ScanConfirm
    <3> DEFINE x == btcLog[scanned + 1]
    <3>1. UNCHANGED vars \/ (x \in Tx /\ UpdateSendOrderConfirmed(x))
      BY <2>2 DEF ScanConfirm
    <3>2. x \in Tx => x \in MinedTxs
      <4>1. scanned + 1 \in DOMAIN btcLog
        BY <2>2, Domains DEF ScanConfirm, FlowInv, ScanTyped
      <4> QED BY <4>1 DEF MinedTxs, Mined
    <3> HIDE DEF x
    <3> QED BY <1>0, <3>1, <3>2 DEF WalletStep
  <2> QED BY <1>5, <2>1, <2>2 DEF Scanner
<1>6. CASE InitWithdrawSig \/ BuildNothing \/ EndSig \/ \E w \in Withdraw : CloseDust(w)
  BY <1>6 DEF InitWithdrawSig, BuildNothing, EndSig, CloseDust, WalletStep
<1>7. ASSUME NEW t \in Tx, BuildOrder(t) \/ JoinOrder(t) PROVE WalletStep
  BY <1>7 DEF BuildOrder, JoinOrder, WalletStep
<1>8. ASSUME NEW t \in Tx, NEW s \in {"init", "pending"}, HasOrderIn(t, s) PROVE t \in PastTxs
  BY <1>8 DEF HasOrderIn, OrdersOf, PastTxs, Past
<1>9. ASSUME NEW t \in Tx, BroadcastOrder(t) \/ RevertPending(t) PROVE WalletStep
  BY <1>8, <1>9 DEF BroadcastOrder, RevertPending, WalletStep
<1>10. ASSUME NEW t \in Tx, HearBroadcast(t) \/ ConfirmPending(t) PROVE WalletStep
  <2>1. t \in AcceptedTxs
    BY <1>0, <1>10 DEF HearBroadcast, ConfirmPending, MinedTxs, AcceptedTxs
  <2> QED BY <1>10, <2>1 DEF HearBroadcast, ConfirmPending, WalletStep
<1>11. CASE Restart \/ StartClean \/ RetryBlock
  BY <1>11 DEF Restart, StartClean, RetryBlock, WalletStep
<1>12. CASE UNCHANGED allVars
  BY <1>12 DEF allVars, WalletStep
<1> QED
  BY <1>1, <1>2, <1>3, <1>4, <1>5, <1>6, <1>7, <1>9, <1>10, <1>11, <1>12
  DEF FlowNext, Listener


-----------------------------------------------------------------------------
(* Orders that are past aggregating *)

Rival(w, t) == \E s \in RowTxs \cap (Tx \ {t}) : w \in Pays[s]

\* a selectable withdrawal that the newest order of t pays: its row names that
\* order or the order of a rival
LEMMA NewestRival ==
  ASSUME FlowInv, NEW t \in Tx, NEW o, IsLatest(o, t), NEW w \in Pays[t],
         withdraw[w].status \in Selectable, withdraw[w].order # o
  PROVE  Rival(w, t)
<1> DEFINE p == withdraw[w].order
<1>1. w \in Withdraw /\ o \in OrderId /\ order[o].txid = t
  BY DEF IsLatest, OrdersOf
<1>2. o <= p
  BY <1>1 DEF FlowInv, NewestNamed
<1>3. p # 0 /\ p > o
  BY <1>1, <1>2 DEF OrderId, FlowInv, IInv, TypeOK
<1>4. p \in OrderId /\ order[p].txid \in Tx /\ w \in Pays[order[p].txid]
  BY <1>1, <1>3 DEF FlowInv, IInv, WithdrawNamesItsOrder
<1>5. order[p].txid # t
  BY <1>1, <1>3, <1>4 DEF IsLatest, OrdersOf, OrderId
<1> QED BY <1>4, <1>5 DEF Rival, RowTxs

LEMMA NewestStored ==
  ASSUME FlowInv, NEW t \in Tx, NEW o \in OrdersOf(t), NEW w \in Pays[t]
  PROVE  withdraw[w].status # "none"
<1>1. w \in Withdraw /\ o \in OrderId /\ order[o].txid = t
  BY DEF OrdersOf
<1> SUFFICES ASSUME withdraw[w].status = "none" PROVE FALSE
  OBVIOUS
<1>2. o <= 0
  BY <1>1 DEF FlowInv, NewestNamed, NoneUnnamed, Selectable
<1> QED BY <1>1, <1>2 DEF OrderId

\* an update that takes the withdrawals of the newest order out of selection
LEMMA NewestTaken ==
  ASSUME FlowInv, NEW t \in Tx, NEW o, IsLatest(o, t), NEW W, NEW s, s \notin Selectable,
         \A w \in WithdrawsOf({o}) : withdraw[w].status \in {"create", "aggregating"} => w \in W,
         withdraw' = Mark(withdraw, W, s),
         NEW w \in Pays[t], withdraw'[w].status \in Selectable
  PROVE  Rival(w, t)
<1>1. w \in Withdraw /\ o \in OrdersOf(t)
  BY DEF IsLatest
<1>2. withdraw'[w].status = IF w \in W THEN s ELSE withdraw[w].status
  BY <1>1 DEF Mark, FlowInv, IInv, TypeOK
<1>3. w \notin W /\ withdraw[w].status \in Selectable
  BY <1>2
<1>4. withdraw[w].status # "none"
  BY <1>1, NewestStored
<1>5. withdraw[w].order # o
  BY <1>1, <1>3, <1>4 DEF WithdrawsOf, Selectable
<1> QED BY <1>3, <1>5, NewestRival

\* an order becomes past only for an accepted transaction, and takes the
\* withdrawals it pays out of selection, save those of a rival
BecomesPast(o) == order[o].status \notin Past /\ order'[o].status \in Past
Takes(o) ==
  LET t == order'[o].txid IN
  \/ t \in PastTxs
  \/ /\ t \in AcceptedTxs
     /\ \A w \in Pays[t] : withdraw'[w].status \in Selectable => Rival(w, t)

LEMMA MarkPast ==
  ASSUME TypeOK, NEW S, NEW s, order' = Mark(order, S, s), NEW o \in OrderId
  PROVE  /\ order'[o].txid = order[o].txid
         /\ order'[o].status = IF o \in S THEN s ELSE order[o].status
         /\ BecomesPast(o) => o \in S
<1>1. order'[o] = IF o \in S THEN [order[o] EXCEPT !.status = s] ELSE order[o]
  BY DEF Mark, TypeOK
<1>2. order[o] \in [txid : Tx \cup {NoTx}, status : OrderStatus \cup {"none"}]
  BY DEF TypeOK
<1> QED BY <1>1, <1>2 DEF BecomesPast

LEMMA InsertPast ==
  ASSUME IInv, NEW t \in Tx, NEW s \in Live, InsertOrder(t, s), NEW o \in OrderId
  PROVE  /\ lastOrder + 1 \in OrderId /\ order[lastOrder + 1].status = "none"
         /\ order'[o] = IF o = lastOrder + 1 THEN [txid |-> t, status |-> s] ELSE order[o]
         /\ BecomesPast(o) => o = lastOrder + 1 /\ order'[o].txid = t /\ s # "aggregating"
<1>1. /\ lastOrder + 1 \in OrderId
      /\ order'[o] = IF o = lastOrder + 1 THEN [txid |-> t, status |-> s] ELSE order[o]
  BY DEF InsertOrder, IInv, TypeOK, OrderId
<1>2. order[lastOrder + 1].status = "none"
  BY <1>1 DEF IInv, TypeOK, RowsInserted
<1> QED BY <1>1, <1>2 DEF BecomesPast, Past


PastStep(o) ==
  /\ order[o].status \in Past => order'[o].status \in Past
  /\ BecomesPast(o) => Takes(o)

LEMMA SamePast == ASSUME order' = order, NEW o PROVE PastStep(o)
BY DEF PastStep, BecomesPast

\* the newest live order of t is marked
LEMMA MarkLatestPast ==
  ASSUME FlowInv, NEW t \in Tx, NEW s \in Past, NEW o \in OrderId,
         NEW S \in SUBSET {p \in OrdersOf(t) : IsLatest(p, t) /\ order[p].status \in Live},
         order' = Mark(order, S, s),
         \/ t \in PastTxs
         \/ t \in AcceptedTxs /\ withdraw' = Mark(withdraw, WithdrawsOf(S), s)
  PROVE  PastStep(o)
<1>1. /\ order'[o].txid = order[o].txid
      /\ order'[o].status = IF o \in S THEN s ELSE order[o].status
      /\ BecomesPast(o) => o \in S
  BY MarkPast DEF FlowInv, IInv
<1>2. ASSUME BecomesPast(o) PROVE Takes(o)
  <2>1. o \in S /\ order'[o].txid = t /\ IsLatest(o, t)
    BY <1>1, <1>2 DEF OrdersOf
  <2>2. CASE t \in PastTxs
    BY <2>1, <2>2 DEF Takes
  <2>3. CASE t \in AcceptedTxs /\ withdraw' = Mark(withdraw, WithdrawsOf(S), s)
    <3>1. ASSUME NEW w \in Pays[t], withdraw'[w].status \in Selectable PROVE Rival(w, t)
      <4>1. \A v \in WithdrawsOf({o}) : v \in WithdrawsOf(S)
        BY <2>1 DEF WithdrawsOf
      <4>2. s \notin Selectable
        BY DEF Past, Selectable
      <4> QED BY <2>1, <2>3, <3>1, <4>1, <4>2, NewestTaken
    <3> QED BY <2>1, <2>3, <3>1 DEF Takes
  <2> QED BY <2>2, <2>3
<1> QED BY <1>1, <1>2 DEF PastStep

LEMMA RecoverPast ==
  ASSUME FlowInv, NEW t \in AcceptedTxs, Stored(t), RecoverSendOrder(t), NEW o \in OrderId
  PROVE  PastStep(o)
<1>0. t \in Tx
  BY DEF AcceptedTxs
<1>1. CASE UNCHANGED vars
  BY <1>1, SamePast DEF vars
<1>2. CASE ~ UNCHANGED vars
  <2> DEFINE W == Pays[t] \cap WithdrawsIn({"create", "aggregating"})
  <2>1. InsertOrder(t, "init") /\ withdraw' = Assign(withdraw, W, lastOrder + 1, t, "init")
    BY <1>2 DEF RecoverSendOrder
  <2>2. /\ order'[o] = IF o = lastOrder + 1 THEN [txid |-> t, status |-> "init"] ELSE order[o]
        /\ order[lastOrder + 1].status = "none"
        /\ BecomesPast(o) => order'[o].txid = t
    BY <1>0, <2>1, InsertPast DEF FlowInv, Live
  <2>3. ASSUME NEW w \in Pays[t], withdraw'[w].status \in Selectable PROVE FALSE
    <3>1. w \in Withdraw /\ withdraw[w].status # "none"
      BY <1>0 DEF Stored
    <3>2. withdraw'[w].status = IF w \in W THEN "init" ELSE withdraw[w].status
      BY <2>1, <3>1 DEF Assign, FlowInv, IInv, TypeOK
    <3>3. w \notin W => withdraw[w].status \notin {"create", "aggregating"}
      BY <3>1 DEF WithdrawsIn
    <3> QED BY <2>3, <3>1, <3>2, <3>3 DEF Selectable
  <2>4. BecomesPast(o) => Takes(o)
    BY <2>2, <2>3 DEF Takes
  <2> QED BY <2>2, <2>4 DEF PastStep, Past
<1> QED BY <1>1, <1>2

LEMMA PendingPast ==
  ASSUME FlowInv, NEW t \in Tx, NEW us, NEW ws, UpdateSendOrderPending(t, us, ws),
         t \in PastTxs \/ (t \in AcceptedTxs /\ ws = Pays[t]),
         NEW o \in OrderId
  PROVE  PastStep(o)
<1> DEFINE S == {p \in OrdersOf(t) : IsLatest(p, t) /\ order[p].status \in Live}
<1>1. \/ order' = Mark(order, S, "pending") /\ withdraw' = Mark(withdraw, WithdrawsOf(S), "pending")
      \/ /\ OrdersOf(t) = {} /\ InsertOrder(t, "pending")
         /\ withdraw' = Assign(withdraw, ws, lastOrder + 1, t, "pending")
  BY DEF UpdateSendOrderPending
<1>2. CASE order' = Mark(order, S, "pending") /\ withdraw' = Mark(withdraw, WithdrawsOf(S), "pending")
  BY <1>2, MarkLatestPast DEF Past
<1>3. CASE /\ OrdersOf(t) = {} /\ InsertOrder(t, "pending")
           /\ withdraw' = Assign(withdraw, ws, lastOrder + 1, t, "pending")
  <2>1. t \notin PastTxs
    BY <1>3 DEF PastTxs, OrdersOf
  <2>2. /\ order'[o] = IF o = lastOrder + 1 THEN [txid |-> t, status |-> "pending"] ELSE order[o]
        /\ order[lastOrder + 1].status = "none"
        /\ BecomesPast(o) => order'[o].txid = t
    BY <1>3, InsertPast DEF FlowInv, Live
  <2>3. ASSUME NEW w \in Pays[t], withdraw'[w].status \in Selectable PROVE FALSE
    <3>1. w \in Withdraw /\ w \in ws
      BY <2>1
    <3>2. withdraw'[w].status = "pending"
      BY <1>3, <3>1 DEF Assign, FlowInv, IInv, TypeOK
    <3> QED BY <2>3, <3>2 DEF Selectable
  <2>4. BecomesPast(o) => Takes(o)
    BY <2>1, <2>2, <2>3 DEF Takes
  <2> QED BY <2>2, <2>4 DEF PastStep, Past
<1> QED BY <1>1, <1>2, <1>3

LEMMA ConfirmedPast ==
  ASSUME FlowInv, NEW t \in AcceptedTxs, UpdateSendOrderConfirmed(t), NEW o \in OrderId
  PROVE  PastStep(o)
<1>1. ASSUME NEW p \in OrdersOf(t), IsLatest(p, t), order[p].status \in Live,
             order' = Mark(order, {p}, "confirmed"),
             withdraw' = Mark(withdraw, WithdrawsOf({p}), "confirmed")
      PROVE  PastStep(o)
  BY <1>1, MarkLatestPast DEF Past, AcceptedTxs
<1>2. CASE order' = order
  BY <1>2, SamePast
<1> QED BY <1>1, <1>2 DEF UpdateSendOrderConfirmed, vars

LEMMA InitializedPast ==
  ASSUME FlowInv, NEW t \in AcceptedTxs, UpdateWithdrawInitialized(t), NEW o \in OrderId
  PROVE  PastStep(o)
<1> DEFINE S == {p \in OrdersOf(t) : order[p].status \in {"aggregating", "closed"}}
           reopened == {p \in S : IsLatest(p, t)}
           st == [p \in OrderId |-> IF p \in reopened THEN "init" ELSE "closed"]
           W == WithdrawsOf(S) \cap WithdrawsIn({"create", "aggregating", "closed"})
<1>0. t \in Tx
  BY DEF AcceptedTxs
<1>1. /\ order' = [p \in OrderId |->
           IF p \in S THEN [order[p] EXCEPT !.status = st[p]] ELSE order[p]]
      /\ withdraw' = Mark(withdraw, W, "init")
  BY DEF UpdateWithdrawInitialized
<1>2. st[o] = IF o \in reopened THEN "init" ELSE "closed"
  OBVIOUS
<1>3. o \in S => order[o].status \in {"aggregating", "closed"} /\ order[o].txid = t
  BY DEF OrdersOf
<1>4. o \in reopened => IsLatest(o, t) /\ o \in S
  OBVIOUS
<1>5. \A w \in WithdrawsOf({o}) :
        o \in S /\ withdraw[w].status \in {"create", "aggregating"} => w \in W
  BY DEF WithdrawsOf, WithdrawsIn
<1> HIDE DEF S, reopened, st, W
<1>6. /\ order'[o].txid = order[o].txid
      /\ order'[o].status = IF o \in S THEN st[o] ELSE order[o].status
  <2>1. order'[o] = IF o \in S THEN [order[o] EXCEPT !.status = st[o]] ELSE order[o]
    BY <1>1
  <2>2. order[o] \in [txid : Tx \cup {NoTx}, status : OrderStatus \cup {"none"}]
    BY DEF FlowInv, IInv, TypeOK
  <2> QED BY <2>1, <2>2
<1>7. ASSUME BecomesPast(o) PROVE Takes(o)
  <2>1. o \in reopened /\ order'[o].txid = t
    BY <1>2, <1>3, <1>4, <1>6, <1>7 DEF BecomesPast, Past
  <2>2. ASSUME NEW w \in Pays[t], withdraw'[w].status \in Selectable PROVE Rival(w, t)
    BY <1>0, <1>1, <1>4, <1>5, <2>1, <2>2, NewestTaken DEF Selectable
  <2> QED BY <2>1, <2>2 DEF Takes
<1> QED BY <1>3, <1>6, <1>7 DEF PastStep, Past


LEMMA OrdersPast == FlowInv /\ WalletStep => \A o \in OrderId : PastStep(o)
<1> SUFFICES ASSUME FlowInv, WalletStep, NEW o \in OrderId PROVE PastStep(o)
  OBVIOUS
<1>0. TypeOK /\ IInv
  BY DEF FlowInv, IInv
<1>1. CASE order' = order
  BY <1>1, SamePast
<1>2. ASSUME NEW t \in Tx, NEW isProposer \in BOOLEAN, CreateSendOrder(t, isProposer)
      PROVE  PastStep(o)
  <2>1. InsertOrder(t, "aggregating")
    BY <1>2 DEF CreateSendOrder
  <2>2. ~ BecomesPast(o) /\ (order[o].status \in Past => order'[o] = order[o])
    BY <1>0, <2>1, InsertPast DEF Live, Past
  <2> QED BY <2>2 DEF PastStep
<1>3. ASSUME NEW t \in AcceptedTxs,
             \/ Stored(t) /\ RecoverSendOrder(t)
             \/ UpdateWithdrawInitialized(t)
             \/ UpdateSendOrderPending(t, Ins[t], Pays[t])
             \/ UpdateSendOrderConfirmed(t)
      PROVE  PastStep(o)
  <2>1. t \in Tx
    BY DEF AcceptedTxs
  <2> QED BY <1>3, <2>1, RecoverPast, InitializedPast, PendingPast, ConfirmedPast
<1>4. ASSUME NEW t \in Tx, UpdateWithdrawFinalized(t) PROVE PastStep(o)
  <2> DEFINE S == {p \in OrdersOf(t) : order[p].status \in {"init", "pending", "confirmed"}}
  <2>1. order' = order \/ order' = Mark(order, S, "processed")
    BY <1>4 DEF UpdateWithdrawFinalized, vars
  <2>2. o \in S => order[o].status \in Past
    BY DEF Past
  <2> HIDE DEF S
  <2>3. CASE order' = Mark(order, S, "processed")
    BY <1>0, <2>2, <2>3, MarkPast DEF PastStep, BecomesPast, Past
  <2> QED BY <1>1, <2>1, <2>3
<1>5. ASSUME NEW t \in PastTxs \cap Tx, UpdateSendOrderPending(t, {}, {}) PROVE PastStep(o)
  BY <1>5, PendingPast
<1>6. ASSUME NEW t \in PastTxs \cap Tx, UpdateSendOrderInitlized(t) PROVE PastStep(o)
  BY <1>6, MarkLatestPast DEF UpdateSendOrderInitlized, Past
<1>7. ASSUME NEW p \in OrderId, CloseAggregating(p) PROVE PastStep(o)
  <2>1. order[p].status = "aggregating" /\ order' = Mark(order, {p}, "closed")
    BY <1>7 DEF CloseAggregating
  <2> QED BY <1>0, <2>1, MarkPast DEF PastStep, BecomesPast, Past
<1>8. CASE CleanProcessingWithdraw
  BY <1>1, <1>7, <1>8 DEF CleanProcessingWithdraw, Aggregating
<1> QED
  BY <1>1, <1>2, <1>3, <1>4, <1>5, <1>6, <1>8
  DEF WalletStep, vars, orderVars, CreateWithdrawal, UpdateWithdrawCanceling,
      UpdateWithdrawCanceled, AddUtxo, AddDepositResult

-----------------------------------------------------------------------------
(* Withdrawals that may be selected *)

SelectionStep(w) ==
  /\ withdraw'[w].status \in Selectable => withdraw[w].status \in Selectable
  /\ withdraw'[w].status = "none" => withdraw'[w] = withdraw[w]

LEMMA MarkSelection ==
  ASSUME TypeOK, NEW W, NEW s, withdraw' = Mark(withdraw, W, s), NEW w \in Withdraw,
         s # "none",
         w \in W /\ s \in Selectable => withdraw[w].status \in Selectable
  PROVE  SelectionStep(w)
<1>1. /\ withdraw'[w].status = IF w \in W THEN s ELSE withdraw[w].status
      /\ w \notin W => withdraw'[w] = withdraw[w]
  BY DEF Mark, TypeOK
<1> QED BY <1>1 DEF SelectionStep

LEMMA AssignSelection ==
  ASSUME TypeOK, NEW W, NEW o, NEW t, NEW s, withdraw' = Assign(withdraw, W, o, t, s),
         NEW w \in Withdraw, s # "none",
         w \in W /\ s \in Selectable => withdraw[w].status \in Selectable
  PROVE  SelectionStep(w) /\ (w \in W => withdraw'[w].order = o /\ withdraw'[w].status = s)
<1>1. withdraw'[w] = IF w \in W THEN [status |-> s, order |-> o, txid |-> t] ELSE withdraw[w]
  BY DEF Assign, TypeOK
<1> QED BY <1>1 DEF SelectionStep

LEMMA SelectionKept == FlowInv /\ WalletStep => \A w \in Withdraw : SelectionStep(w)
<1> SUFFICES ASSUME FlowInv, WalletStep, NEW w \in Withdraw PROVE SelectionStep(w)
  OBVIOUS
<1>0. TypeOK
  BY DEF FlowInv, IInv
<1>1. CASE withdraw' = withdraw
  BY <1>1 DEF SelectionStep
<1>2. ASSUME NEW v \in Withdraw,
             CreateWithdrawal(v) \/ UpdateWithdrawCanceling(v) \/ UpdateWithdrawCanceled(v)
      PROVE  SelectionStep(w)
  BY <1>0, <1>1, <1>2, MarkSelection
  DEF CreateWithdrawal, UpdateWithdrawCanceling, UpdateWithdrawCanceled, Selectable
<1>3. ASSUME NEW t \in Tx, NEW isProposer \in BOOLEAN, CreateSendOrder(t, isProposer)
      PROVE  SelectionStep(w)
  <2>1. withdraw' = Assign(withdraw, Pays[t], lastOrder + 1, t, "aggregating")
        /\ (w \in Pays[t] => withdraw[w].status \in {"create", "aggregating"})
    BY <1>3 DEF CreateSendOrder, MayJoin
  <2> QED BY <1>0, <2>1, AssignSelection DEF Selectable
<1>4. ASSUME NEW t \in Tx, RecoverSendOrder(t) PROVE SelectionStep(w)
  <2> DEFINE W == Pays[t] \cap WithdrawsIn({"create", "aggregating"})
  <2>1. withdraw' = withdraw \/ withdraw' = Assign(withdraw, W, lastOrder + 1, t, "init")
    BY <1>4 DEF RecoverSendOrder, vars
  <2> HIDE DEF W
  <2> QED BY <1>0, <1>1, <2>1, AssignSelection DEF Selectable
<1>5. ASSUME NEW t \in Tx, NEW us, NEW ws, UpdateSendOrderPending(t, us, ws)
      PROVE  SelectionStep(w)
  <2> DEFINE S == {p \in OrdersOf(t) : IsLatest(p, t) /\ order[p].status \in Live}
  <2>1. \/ withdraw' = Mark(withdraw, WithdrawsOf(S), "pending")
        \/ withdraw' = Assign(withdraw, ws, lastOrder + 1, t, "pending")
    BY <1>5 DEF UpdateSendOrderPending
  <2> HIDE DEF S
  <2> QED BY <1>0, <2>1, MarkSelection, AssignSelection DEF Selectable
<1>6. ASSUME NEW t \in Tx, UpdateSendOrderConfirmed(t) PROVE SelectionStep(w)
  <2>1. withdraw' = withdraw \/ \E W, s : withdraw' = Mark(withdraw, W, s) /\ s \in {"confirmed", "processed"}
    BY <1>6 DEF UpdateSendOrderConfirmed, vars
  <2> QED BY <1>0, <1>1, <2>1, MarkSelection DEF Selectable
<1>7. ASSUME NEW t \in Tx, UpdateWithdrawInitialized(t) PROVE SelectionStep(w)
  <2>1. \E W : withdraw' = Mark(withdraw, W, "init")
    BY <1>7 DEF UpdateWithdrawInitialized
  <2> QED BY <1>0, <2>1, MarkSelection DEF Selectable
<1>8. ASSUME NEW t \in Tx, UpdateWithdrawFinalized(t) PROVE SelectionStep(w)
  <2>1. withdraw' = withdraw \/ \E W : withdraw' = Mark(withdraw, W, "processed")
    BY <1>8 DEF UpdateWithdrawFinalized, vars
  <2> QED BY <1>0, <1>1, <2>1, MarkSelection DEF Selectable
<1>9. ASSUME CleanProcessingWithdraw PROVE SelectionStep(w)
  <2> DEFINE A == WithdrawsIn({"aggregating"})
  <2>1. A \subseteq {v \in Withdraw : withdraw[v].status = "aggregating"}
    BY DEF WithdrawsIn
  <2>2. \/ withdraw' = Mark(withdraw, A, "create")
        \/ \E o \in OrderId : withdraw' = Mark(withdraw, WithdrawsOf({o}) \cap A, "create")
    BY <1>9 DEF CleanProcessingWithdraw, CloseAggregating, Aggregating
  <2> HIDE DEF A
  <2>3. ASSUME NEW W \in SUBSET A, withdraw' = Mark(withdraw, W, "create")
        PROVE  SelectionStep(w)
    BY <1>0, <2>1, <2>3, MarkSelection DEF Selectable
  <2>4. ASSUME NEW o \in OrderId, withdraw' = Mark(withdraw, WithdrawsOf({o}) \cap A, "create")
        PROVE  SelectionStep(w)
    <3>1. WithdrawsOf({o}) \cap A \in SUBSET A
      OBVIOUS
    <3> QED BY <2>3, <2>4, <3>1
  <2> QED BY <2>2, <2>3, <2>4
<1>10. AcceptedTxs \subseteq Tx
  BY DEF AcceptedTxs
<1> QED
  BY <1>1, <1>2, <1>3, <1>4, <1>5, <1>6, <1>7, <1>8, <1>9, <1>10
  DEF WalletStep, vars, UpdateSendOrderInitlized, AddUtxo, AddDepositResult

\* a new order is named by the withdrawals it pays, unless they cannot be selected
LEMMA InsertionNames ==
  ASSUME FlowInv, WalletStep, NEW t \in Tx, lastOrder' = lastOrder + 1,
         order'[lastOrder + 1].txid = t, NEW w \in Pays[t]
  PROVE  withdraw'[w].order = lastOrder + 1 \/ withdraw'[w].status \notin Selectable
<1>0. TypeOK /\ w \in Withdraw /\ lastOrder' # lastOrder
  BY DEF FlowInv, IInv, TypeOK
<1>1. ASSUME NEW x \in Tx, NEW s \in Live, InsertOrder(x, s) PROVE x = t
  <2>1. lastOrder + 1 \in OrderId
    BY <1>0, <1>1 DEF InsertOrder, TypeOK, OrderId
  <2>2. order'[lastOrder + 1] = [txid |-> x, status |-> s]
    BY <1>0, <1>1, <2>1 DEF InsertOrder, TypeOK
  <2> QED BY <2>2
<1>2. ASSUME NEW x \in Tx, NEW isProposer \in BOOLEAN, CreateSendOrder(x, isProposer)
      PROVE  withdraw'[w].order = lastOrder + 1
  <2>1. InsertOrder(x, "aggregating")
        /\ withdraw' = Assign(withdraw, Pays[x], lastOrder + 1, x, "aggregating")
    BY <1>2 DEF CreateSendOrder
  <2>2. x = t
    BY <1>1, <2>1 DEF Live
  <2>3. withdraw'[w] = [status |-> "aggregating", order |-> lastOrder + 1, txid |-> x]
    BY <1>0, <2>1, <2>2 DEF Assign, TypeOK
  <2> QED BY <2>3
<1>3. ASSUME NEW x \in AcceptedTxs, Stored(x), RecoverSendOrder(x)
      PROVE  withdraw'[w].status \notin Selectable
  <2> DEFINE W == Pays[x] \cap WithdrawsIn({"create", "aggregating"})
  <2>1. InsertOrder(x, "init") /\ withdraw' = Assign(withdraw, W, lastOrder + 1, x, "init")
    BY <1>0, <1>3 DEF RecoverSendOrder, vars
  <2>2. x = t
    BY <1>1, <2>1 DEF Live, AcceptedTxs
  <2>3. w \in W \/ withdraw[w].status \notin Selectable
    <3>1. w \in Pays[x] /\ withdraw[w].status # "none"
      BY <1>3, <2>2 DEF Stored
    <3> QED BY <1>0, <3>1 DEF WithdrawsIn, Selectable
  <2>4. withdraw'[w].status = IF w \in W THEN "init" ELSE withdraw[w].status
    BY <1>0, <2>1 DEF Assign, TypeOK
  <2> HIDE DEF W
  <2> QED BY <2>3, <2>4 DEF Selectable
<1>4. ASSUME NEW x \in AcceptedTxs, UpdateSendOrderPending(x, Ins[x], Pays[x])
      PROVE  withdraw'[w].status \notin Selectable
  <2>1. InsertOrder(x, "pending") /\ withdraw' = Assign(withdraw, Pays[x], lastOrder + 1, x, "pending")
    BY <1>0, <1>4 DEF UpdateSendOrderPending
  <2>2. x = t
    BY <1>1, <2>1 DEF Live, AcceptedTxs
  <2>3. withdraw'[w].status = "pending"
    BY <1>0, <2>1, <2>2 DEF Assign, TypeOK
  <2> QED BY <2>3 DEF Selectable
<1>5. ASSUME NEW x \in Tx, UpdateSendOrderPending(x, {}, {}) PROVE FALSE
  BY <1>0, <1>5 DEF UpdateSendOrderPending
<1>6. ASSUME NEW x \in Tx,
             \/ UpdateWithdrawInitialized(x) \/ UpdateSendOrderConfirmed(x)
             \/ UpdateWithdrawFinalized(x) \/ UpdateSendOrderInitlized(x)
      PROVE  FALSE
  BY <1>0, <1>6 DEF UpdateWithdrawInitialized, UpdateSendOrderConfirmed,
                    UpdateWithdrawFinalized, UpdateSendOrderInitlized, vars
<1>7. ASSUME CleanProcessingWithdraw PROVE FALSE
  BY <1>0, <1>7 DEF CleanProcessingWithdraw, CloseAggregating
<1>8. AcceptedTxs \subseteq Tx
  BY DEF AcceptedTxs
<1>9. ASSUME \/ UNCHANGED vars
             \/ \E v \in Withdraw :
                  CreateWithdrawal(v) \/ UpdateWithdrawCanceling(v) \/ UpdateWithdrawCanceled(v)
             \/ \E u \in Utxo : AddUtxo(u, "confirmed") \/ AddDepositResult(u)
      PROVE  FALSE
  BY <1>0, <1>9 DEF vars, orderVars, CreateWithdrawal, UpdateWithdrawCanceling,
                    UpdateWithdrawCanceled, AddUtxo, AddDepositResult
<1> QED BY <1>2, <1>3, <1>4, <1>5, <1>6, <1>7, <1>8, <1>9 DEF WalletStep


-----------------------------------------------------------------------------
(* The invariant, part by part *)

LEMMA TxidsKept ==
  ASSUME FlowInv, WalletStep
  PROVE  /\ \A o \in OrderId : order[o].status # "none" => order'[o].txid = order[o].txid
         /\ \/ Restatus
            \/ \E t \in Tx, s \in Live : InsertOrder(t, s)
<1>1. Restatus \/ Insertion
  BY OrderTableStep, WalletStepNext DEF FlowInv, IInv
<1>2. ASSUME NEW t \in Tx, NEW s \in Live, InsertOrder(t, s),
             NEW o \in OrderId, order[o].status # "none"
      PROVE  order'[o].txid = order[o].txid
  BY <1>2, InsertPast DEF FlowInv
<1> QED BY <1>1, <1>2 DEF Restatus, Insertion

LEMMA TxsKept ==
  ASSUME FlowInv, WalletStep
  PROVE  PastTxs \subseteq PastTxs' /\ RowTxs \cap Tx \subseteq RowTxs'
<1>1. ASSUME NEW t \in PastTxs PROVE t \in PastTxs'
  <2>1. PICK o \in OrderId : order[o].status \in Past /\ order[o].txid = t
    BY DEF PastTxs
  <2>2. order'[o].status \in Past /\ order'[o].txid = t
    BY <2>1, TxidsKept, OrdersPast DEF PastStep, Past
  <2> QED BY <2>2 DEF PastTxs
<1>2. ASSUME NEW t \in RowTxs \cap Tx PROVE t \in RowTxs'
  <2>1. PICK o \in OrderId : order[o].txid = t
    BY DEF RowTxs
  <2>2. order[o].status # "none"
    BY <2>1 DEF FlowInv, IInv, RowsInserted
  <2>3. order'[o].txid = t
    BY <2>1, <2>2, TxidsKept
  <2> QED BY <2>3 DEF RowTxs
<1> QED BY <1>1, <1>2

LEMMA PastAcceptedStep ==
  FlowInv /\ WalletStep /\ AcceptedTxs \subseteq AcceptedTxs' => PastAccepted'
<1> SUFFICES ASSUME FlowInv, WalletStep, AcceptedTxs \subseteq AcceptedTxs', NEW t \in PastTxs'
             PROVE  t \in AcceptedTxs'
  BY DEF PastAccepted
<1>0. PastTxs \subseteq AcceptedTxs
  BY DEF FlowInv, PastAccepted
<1>1. PICK o \in OrderId : order'[o].status \in Past /\ order'[o].txid = t
  BY DEF PastTxs
<1>2. CASE order[o].status \in Past
  <2>1. order[o].txid = t
    BY <1>1, <1>2, TxidsKept DEF Past
  <2>2. t \in PastTxs
    BY <1>2, <2>1 DEF PastTxs
  <2> QED BY <1>0, <2>2
<1>3. CASE order[o].status \notin Past
  <2>1. Takes(o)
    BY <1>1, <1>3, OrdersPast DEF PastStep, BecomesPast
  <2> QED BY <1>0, <1>1, <2>1 DEF Takes
<1> QED BY <1>2, <1>3

LEMMA PastPaidStep == FlowInv /\ WalletStep => PastPaid'
<1> SUFFICES ASSUME FlowInv, WalletStep, NEW t \in Tx \cap PastTxs', NEW w \in Pays[t],
                    withdraw'[w].status \in Selectable
             PROVE  \E s \in RowTxs' \cap (Tx \ {t}) : w \in Pays[s]
  BY DEF PastPaid
<1>1. SUFFICES Rival(w, t)
  BY TxsKept DEF Rival
<1>2. CASE t \in PastTxs
  <2>1. withdraw[w].status \in Selectable
    BY SelectionKept DEF SelectionStep
  <2> QED BY <1>2, <2>1 DEF FlowInv, PastPaid, Rival
<1>3. CASE t \notin PastTxs
  <2>1. PICK o \in OrderId : order'[o].status \in Past /\ order'[o].txid = t
    BY DEF PastTxs
  <2>2. order[o].status \notin Past
    BY <1>3, <2>1, TxidsKept DEF PastTxs, Past
  <2>3. Takes(o)
    BY <2>1, <2>2, OrdersPast DEF PastStep, BecomesPast
  <2> QED BY <1>3, <2>1, <2>3 DEF Takes
<1> QED BY <1>2, <1>3

LEMMA NamedStep ==
  ASSUME FlowInv, WalletStep, NEW w \in Withdraw
  PROVE  \/ SameOrder(w)
         \/ /\ withdraw'[w].order = lastOrder + 1
            /\ \E t \in Tx, s \in Live : InsertOrder(t, s)
BY WithdrawTableStep, WalletStepNext DEF FlowInv, IInv, Assigned, Live

LEMMA NoneUnnamedStep == FlowInv /\ WalletStep => NoneUnnamed'
<1> SUFFICES ASSUME FlowInv, WalletStep, NEW w \in Withdraw, withdraw'[w].status = "none"
             PROVE  withdraw'[w].order = 0
  BY DEF NoneUnnamed
<1>1. withdraw'[w] = withdraw[w]
  BY SelectionKept DEF SelectionStep
<1> QED BY <1>1 DEF FlowInv, NoneUnnamed

LEMMA NewestNamedStep == FlowInv /\ WalletStep => NewestNamed'
<1> SUFFICES ASSUME FlowInv, WalletStep, NEW w \in Withdraw, NEW o \in OrderId,
                    order'[o].txid \in Tx, w \in Pays[order'[o].txid],
                    withdraw'[w].status \in Selectable
             PROVE  o <= withdraw'[w].order
  BY DEF NewestNamed
<1>1. withdraw[w].status \in Selectable
  BY SelectionKept DEF SelectionStep
<1>2. o \in Nat /\ lastOrder \in Nat /\ withdraw[w].order \in Nat
  BY DEF OrderId, FlowInv, IInv, TypeOK
<1>3. CASE order'[o].txid = order[o].txid
  <2>1. o <= withdraw[w].order
    BY <1>1, <1>3 DEF FlowInv, NewestNamed
  <2>2. o <= lastOrder
    BY <1>2, <1>3 DEF FlowInv, IInv, RowsInserted
  <2> QED BY <1>2, <2>1, <2>2, NamedStep DEF SameOrder
<1>4. CASE order'[o].txid # order[o].txid
  <2>1. PICK t \in Tx, s \in Live : InsertOrder(t, s)
    BY <1>4, TxidsKept DEF Restatus
  <2>2. o = lastOrder + 1
    BY <1>4, <2>1, InsertPast DEF FlowInv
  <2>3. order'[lastOrder + 1].txid = t /\ lastOrder' = lastOrder + 1
    <3>1. order'[o] = [txid |-> t, status |-> s]
      BY <2>1, <2>2, InsertPast DEF FlowInv
    <3> QED BY <2>1, <2>2, <3>1 DEF InsertOrder
  <2>4. withdraw'[w].order = lastOrder + 1
    BY <2>1, <2>2, <2>3, InsertionNames
  <2> QED BY <1>2, <2>2, <2>4
<1> QED BY <1>3, <1>4


\* a block that this step finishes
LEMMA NewlyHandled ==
  ASSUME FlowInv, [FlowNext]_allVars, NEW i \in 1 .. synced', i \notin 1 .. synced
  PROVE  /\ i = synced + 1 /\ synced < Len(l2log) /\ i \in DOMAIN l2log
         /\ l2log[i].kind = "request" => CreateWithdrawal(l2log[i].of)
         /\ l2log[i].kind = "processing" =>
              halfDone = TRUE /\ UpdateWithdrawInitialized(l2log[i].of)
         /\ l2log[i].kind = "finalized" => UpdateWithdrawFinalized(l2log[i].of)
<1>0. synced \in Nat /\ savedSync \in Nat /\ savedSync <= synced
  BY DEF FlowInv, PlaceTyped
<1>1. synced' # synced
  BY <1>0
<1>2. ~ (savedSync' \in savedSync .. synced /\ synced' = savedSync')
  BY <1>0
<1>3. HandleEvent \/ HandleProcessing \/ HandleElected
  <2>1. ~ Layer2Block /\ ~ BitcoinBlock /\ ~ Scanner /\ ~ InitWithdrawSig /\ ~ BuildNothing /\ ~ EndSig
    BY <1>1 DEF Layer2Block, BitcoinBlock, Scanner, ScanOut, ScanConfirm, InitWithdrawSig,
                BuildNothing, EndSig, l2Vars
  <2>2. \A w \in Withdraw : ~ CloseDust(w)
    BY <1>1 DEF CloseDust, l2Vars
  <2>3. \A t \in Tx : ~ (\/ BuildOrder(t) \/ JoinOrder(t) \/ BroadcastOrder(t)
                         \/ HearBroadcast(t) \/ RevertPending(t) \/ ConfirmPending(t))
    BY <1>1 DEF BuildOrder, JoinOrder, BroadcastOrder, HearBroadcast, RevertPending,
                ConfirmPending, flowVars, l2Vars
  <2>4. ~ Restart /\ ~ StartClean /\ ~ RetryBlock /\ ~ UNCHANGED allVars
    BY <1>1, <1>2 DEF Restart, StartClean, RetryBlock, allVars, flowVars, l2Vars
  <2> QED BY <2>1, <2>2, <2>3, <2>4 DEF FlowNext, Listener
<1>4. synced < Len(l2log) /\ BlockDone
  BY <1>1, <1>3 DEF HandleEvent, HandleProcessing, HandleElected, Handling, HalfDone
<1>5. i = synced + 1
  BY <1>0, <1>4 DEF BlockDone
<1>6. i \in DOMAIN l2log
  BY <1>4, <1>5, Handles
<1>7. CASE HandleEvent
  BY <1>4, <1>5, <1>6, <1>7 DEF HandleEvent, Next2
<1>8. CASE HandleProcessing
  BY <1>1, <1>4, <1>5, <1>6, <1>8 DEF HandleProcessing, Handling, Next2, HalfDone
<1>9. CASE HandleElected
  BY <1>4, <1>5, <1>6, <1>9 DEF HandleElected, Handling, Next2
<1> QED BY <1>3, <1>7, <1>8, <1>9

LEMMA LogKept ==
  ASSUME FlowInv, [FlowNext]_allVars, NEW i \in DOMAIN l2log
  PROVE  l2log'[i] = l2log[i]
BY LogGrows DEF FlowInv

LEMMA HandledDomain ==
  ASSUME FlowInv, NEW i \in 1 .. synced
  PROVE  i \in DOMAIN l2log /\ Sound(l2log[i], i)
BY Domains DEF FlowInv, PlaceTyped, LogSound

LEMMA HandledRequestsStep == FlowInv /\ [FlowNext]_allVars => HandledRequests'
<1> SUFFICES ASSUME FlowInv, [FlowNext]_allVars, NEW i \in 1 .. synced',
                    l2log'[i].kind = "request"
             PROVE  withdraw'[l2log'[i].of].status # "none"
  BY DEF HandledRequests
<1>1. CASE i \in 1 .. synced
  <2>1. l2log'[i] = l2log[i] /\ l2log[i].of \in Withdraw
    BY <1>1, HandledDomain, LogKept DEF Sound
  <2>2. withdraw[l2log[i].of].status # "none"
    BY <1>1, <2>1 DEF FlowInv, HandledRequests
  <2> QED BY <2>1, <2>2, FlowStep, SelectionKept DEF SelectionStep
<1>2. CASE i \notin 1 .. synced
  <2> DEFINE w == l2log[i].of
  <2>1. l2log'[i] = l2log[i] /\ w \in Withdraw /\ CreateWithdrawal(w)
    <3>1. i \in DOMAIN l2log /\ l2log'[i] = l2log[i]
      BY <1>2, NewlyHandled, LogKept
    <3>2. Sound(l2log[i], i)
      BY <3>1 DEF FlowInv, LogSound
    <3> QED BY <1>2, <3>1, <3>2, NewlyHandled DEF Sound
  <2> HIDE DEF w
  <2>2. withdraw'[w].status # "none"
    BY <2>1 DEF CreateWithdrawal, Mark, FlowInv, IInv, TypeOK
  <2> QED BY <2>1, <2>2 DEF w
<1> QED BY <1>1, <1>2

LEMMA HandledOrdersStep == FlowInv /\ [FlowNext]_allVars => HandledOrders'
<1> SUFFICES ASSUME FlowInv, [FlowNext]_allVars, NEW i \in 1 .. synced',
                    l2log'[i].kind = "processing"
             PROVE  l2log'[i].of \in PastTxs'
  BY DEF HandledOrders
<1>0. PastTxs \subseteq PastTxs'
  BY FlowStep, TxsKept
<1>1. CASE i \in 1 .. synced
  <2>1. l2log'[i] = l2log[i]
    BY <1>1, HandledDomain, LogKept
  <2> QED BY <1>0, <1>1, <2>1 DEF FlowInv, HandledOrders
<1>2. CASE i \notin 1 .. synced
  <2> DEFINE t == l2log[i].of
  <2>1. l2log'[i] = l2log[i] /\ t \in Tx /\ UpdateWithdrawInitialized(t) /\ t \in RowTxs
    <3>1. i \in DOMAIN l2log /\ l2log'[i] = l2log[i]
      BY <1>2, NewlyHandled, LogKept
    <3>2. Sound(l2log[i], i)
      BY <3>1 DEF FlowInv, LogSound
    <3> QED BY <1>2, <3>1, <3>2, NewlyHandled DEF Sound, FlowInv, HalfHandled
  <2> HIDE DEF t
  <2>2. PICK o \in OrdersOf(t) : IsLatest(o, t)
    <3>1. OrdersOf(t) # {}
      BY <2>1 DEF RowTxs, OrdersOf
    <3> QED BY <3>1, LatestExists
  <2>3. o \in OrderId /\ order[o].txid = t /\ order[o].status # "none"
    BY <2>1, RowsExist DEF FlowInv, IInv
  <2>4. CASE order[o].status \in Past
    BY <1>0, <2>1, <2>3, <2>4 DEF PastTxs, t
  <2>5. CASE order[o].status \in {"aggregating", "closed"}
    <3>1. order'[o] = [order[o] EXCEPT !.status = "init"]
      BY <2>1, <2>2, <2>3, <2>5 DEF UpdateWithdrawInitialized
    <3>2. order[o] \in [txid : Tx \cup {NoTx}, status : OrderStatus \cup {"none"}]
      BY <2>3 DEF FlowInv, IInv, TypeOK
    <3>3. order'[o].status \in Past /\ order'[o].txid = t
      BY <2>3, <3>1, <3>2 DEF Past
    <3> QED BY <2>1, <2>3, <3>3 DEF PastTxs, t
  <2>6. order[o].status \in OrderStatus
    BY <2>3 DEF FlowInv, IInv, TypeOK
  <2> QED BY <2>4, <2>5, <2>6 DEF OrderStatus, Past
<1> QED BY <1>1, <1>2

LEMMA HandledFinalsStep == FlowInv /\ [FlowNext]_allVars => HandledFinals'
<1> SUFFICES ASSUME FlowInv, [FlowNext]_allVars, NEW i \in 1 .. synced',
                    l2log'[i].kind = "finalized", NEW u \in Ins[l2log'[i].of]
             PROVE  utxo'[u] = "spent"
  BY DEF HandledFinals
<1>0. TypeOK /\ SettledInputsSpent /\ [Next]_vars
  BY FlowStep, WalletStepNext DEF FlowInv, IInv
<1> DEFINE t == l2log[i].of
<1>1. i \in DOMAIN l2log
  BY HandledDomain, NewlyHandled
<1>2. l2log'[i] = l2log[i] /\ t \in Tx /\ u \in Ins[t] /\ u \in Utxo
      /\ \E j \in 1 .. (i - 1) : l2log[j] = Block("processing", t)
  BY <1>1, LogKept DEF Sound, FlowInv, LogSound
<1> HIDE DEF t
<1>3. CASE i \in 1 .. synced
  <2>1. utxo[u] = "spent"
    BY <1>2, <1>3 DEF FlowInv, HandledFinals, t
  <2> QED BY <1>0, <1>2, <2>1, SpentStep
<1>4. CASE i \notin 1 .. synced
  <2>1. UpdateWithdrawFinalized(t) /\ i = synced + 1
    BY <1>2, <1>4, NewlyHandled DEF t
  <2>2. t \in PastTxs
    <3>1. PICK j \in 1 .. (i - 1) : l2log[j] = Block("processing", t)
      BY <1>2
    <3>2. j \in 1 .. synced
      BY <2>1 DEF FlowInv, PlaceTyped
    <3> QED BY <3>1, <3>2 DEF FlowInv, HandledOrders, Block
  <2>3. PICK o \in OrderId : order[o].txid = t /\ order[o].status \in Past
    BY <2>2 DEF PastTxs
  <2> DEFINE S == {p \in OrdersOf(t) : order[p].status \in {"init", "pending", "confirmed"}}
  <2>4. CASE o \in S
    <3>1. utxo' = MarkUtxos(Ins[t], "spent")
      BY <2>1, <2>3, <2>4 DEF UpdateWithdrawFinalized, OrdersOf
    <3> QED BY <1>2, <3>1 DEF MarkUtxos
  <2>5. CASE o \notin S
    <3>1. order[o].status = "processed"
      BY <2>3, <2>5 DEF Past, OrdersOf
    <3>2. utxo[u] = "spent"
      BY <1>0, <1>2, <2>3, <3>1 DEF SettledInputsSpent, Settled
    <3> QED BY <1>0, <1>2, <3>2, SpentStep
  <2> QED BY <2>4, <2>5
<1> QED BY <1>3, <1>4


LEMMA RecoveredRow ==
  ASSUME FlowInv, NEW t \in Tx, RecoverSendOrder(t)
  PROVE  t \in RowTxs'
<1>1. CASE UNCHANGED vars
  <2>1. PICK o \in OrdersOf(t) : order[o].status \in {"init", "aggregating"}
    <3>1. ASSUME InsertOrder(t, "init") PROVE FALSE
      <4>1. lastOrder' = lastOrder + 1 /\ lastOrder \in Nat
        BY <3>1 DEF InsertOrder, FlowInv, IInv, TypeOK
      <4> QED BY <1>1, <4>1 DEF vars
    <3> QED BY <3>1 DEF RecoverSendOrder
  <2> QED BY <1>1, <2>1 DEF OrdersOf, RowTxs, vars
<1>2. CASE ~ UNCHANGED vars
  <2>1. InsertOrder(t, "init")
    BY <1>2 DEF RecoverSendOrder
  <2>2. lastOrder + 1 \in OrderId /\ order'[lastOrder + 1] = [txid |-> t, status |-> "init"]
    BY <2>1 DEF InsertOrder, FlowInv, IInv, TypeOK, OrderId
  <2> QED BY <2>2 DEF RowTxs
<1> QED BY <1>1, <1>2

LEMMA HalfHandledStep == FlowInv /\ [FlowNext]_allVars => HalfHandled'
<1> SUFFICES ASSUME FlowInv, [FlowNext]_allVars, halfDone' = TRUE,
                    l2log'[synced' + 1].kind = "processing"
             PROVE  l2log'[synced' + 1].of \in RowTxs'
  BY DEF HalfHandled
<1>1. CASE UNCHANGED l2Vars
  <2> DEFINE i == synced + 1
  <2>1. synced < Len(l2log) /\ halfDone = TRUE /\ synced' = synced
    BY <1>1 DEF FlowInv, PlaceTyped, l2Vars
  <2>2. l2log'[i] = l2log[i] /\ Sound(l2log[i], i)
    BY <2>1, Handles, LogKept DEF Next2
  <2>3. l2log[i].of \in Tx \cap RowTxs
    BY <2>1, <2>2 DEF FlowInv, HalfHandled, Sound
  <2> QED BY <2>1, <2>2, <2>3, FlowStep, TxsKept
<1>2. CASE HandleProcessing
  <2>1. /\ synced < Len(l2log) /\ Next2.kind = "processing"
        /\ RecoverSendOrder(Next2.of) /\ synced' = synced /\ l2log' = l2log
    BY <1>2 DEF HandleProcessing, Handling, HalfDone, BlockDone, ListenerUnchanged, externals
  <2>2. Next2.of \in Tx
    BY <2>1, Handles DEF Sound
  <2> QED BY <2>1, <2>2, RecoveredRow DEF Next2
<1>3. CASE HandleElected
  BY <1>3 DEF HandleElected, Handling, HalfDone, BlockDone, externals, Next2
<1>4. CASE HandleEvent
  BY <1>4 DEF HandleEvent, BlockDone
<1>5. CASE Layer2Block \/ BitcoinBlock \/ Scanner
  BY <1>1, <1>5 DEF Layer2Block, BitcoinBlock, Scanner, ScanOut, ScanConfirm
<1>6. CASE InitWithdrawSig \/ BuildNothing \/ EndSig \/ \E w \in Withdraw : CloseDust(w)
  BY <1>1, <1>6 DEF InitWithdrawSig, BuildNothing, EndSig, CloseDust
<1>7. ASSUME NEW t \in Tx,
             \/ BuildOrder(t) \/ JoinOrder(t) \/ BroadcastOrder(t)
             \/ HearBroadcast(t) \/ RevertPending(t) \/ ConfirmPending(t)
      PROVE  UNCHANGED l2Vars
  BY <1>7 DEF BuildOrder, JoinOrder, BroadcastOrder, HearBroadcast, RevertPending,
              ConfirmPending, flowVars
<1>8. CASE Restart \/ RetryBlock
  BY <1>8 DEF Restart, RetryBlock
<1>9. CASE StartClean \/ UNCHANGED allVars
  BY <1>1, <1>9 DEF StartClean, allVars, flowVars
<1> QED
  BY <1>1, <1>2, <1>3, <1>4, <1>5, <1>6, <1>7, <1>8, <1>9 DEF FlowNext, Listener

LEMMA FlowInvStep == FlowInv /\ [FlowNext]_allVars => FlowInv'
<1> SUFFICES ASSUME FlowInv, [FlowNext]_allVars PROVE FlowInv'
  OBVIOUS
<1>1. WalletStep /\ [Next]_vars
  BY FlowStep, WalletStepNext
<1>2. IInv'
  BY <1>1, NextIInv DEF FlowInv
<1>3. LogTyped' /\ PlaceTyped' /\ ScanTyped' /\ LogSound' /\ MinedAccepted'
      /\ AcceptedTxs \subseteq AcceptedTxs'
  BY LogTypedStep, ScanTypedStep, LogSoundStep, MinedStep, AcceptedKept DEF FlowInv
<1>4. HandledRequests' /\ HandledOrders' /\ HandledFinals' /\ HalfHandled'
  BY HandledRequestsStep, HandledOrdersStep, HandledFinalsStep, HalfHandledStep
<1>5. PastAccepted' /\ NoneUnnamed' /\ NewestNamed' /\ PastPaid'
  BY <1>1, <1>3, PastAcceptedStep, NoneUnnamedStep, NewestNamedStep, PastPaidStep
<1> QED BY <1>2, <1>3, <1>4, <1>5 DEF FlowInv

LEMMA FlowInvariant == FlowSpec => []FlowInv
BY InitFlow, FlowInvStep, PTL DEF FlowSpec

-----------------------------------------------------------------------------
(* The goroutines of a relayer do to its wallet nothing but what WalletState  *)
(* allows: the order in which listener, scanner, wallet loop and broadcaster  *)
(* call the writers of State is one of its interleavings, restarts and        *)
(* retried blocks included, so its theorems hold of the flow.                 *)
THEOREM FlowImplementsWallet == FlowSpec => Spec
<1>1. FlowInit => Init
  BY DEF FlowInit
<1>2. FlowInv /\ [FlowNext]_allVars => [Next]_vars
  BY FlowStep, WalletStepNext
<1> QED BY <1>1, <1>2, FlowInvariant, PTL DEF FlowSpec, Spec

(* An order that may be broadcast, or was mined, is one that layer 2 accepted,*)
(* whichever of its own loops or of the proposer's messages moved it: an order*)
(* leaves aggregating only through an accepted message, event or broadcast,   *)
(* and the later steps find it by txid.                                       *)
THEOREM BroadcastIsAgreed == FlowSpec => []AgreedBeforeBroadcast
<1>1. FlowInv => AgreedBeforeBroadcast
  <2> SUFFICES ASSUME FlowInv, NEW o \in OrderId,
                      order[o].status \in {"init", "pending"} \cup Settled
               PROVE  Accepted(order[o].txid)
    BY DEF AgreedBeforeBroadcast
  <2>1. order[o].txid \in PastTxs
    BY DEF PastTxs, Past, Settled
  <2> QED BY <2>1 DEF FlowInv, PastAccepted, AcceptedTxs
<1> QED BY <1>1, FlowInvariant, PTL

(* A payment that the listener has handled as final has its inputs spent,     *)
(* before the block scanner sees it: its order was stored when the payment    *)
(* was accepted (RecoverSendOrder), and UpdateWithdrawFinalized spends them   *)
(* unless the order is settled already.                                       *)
THEOREM FinalizedIsSpentAtOnce == FlowSpec => []FinalizedInputsSpent
<1>1. FlowInv => FinalizedInputsSpent
  <2> SUFFICES ASSUME FlowInv, NEW t \in Tx, NEW i \in 1 .. synced,
                      l2log[i] = Block("finalized", t), NEW u \in Ins[t]
               PROVE  utxo[u] = "spent"
    BY DEF FinalizedInputsSpent, Handled
  <2>1. l2log[i].kind = "finalized" /\ l2log[i].of = t
    BY DEF Block
  <2> QED BY <2>1 DEF FlowInv, HandledFinals
<1> QED BY <1>1, FlowInvariant, PTL

(* A withdrawal whose payment the listener has handled as accepted is not     *)
(* selected again, unless an order of another transaction that pays it is     *)
(* stored: the payment's order took it out of selection when it became past,  *)
(* and nothing puts it back (CleanProcessingWithdraw takes aggregating only). *)
THEOREM AcceptedIsTaken == FlowSpec => []AcceptedNotSelectable
<1>1. FlowInv => AcceptedNotSelectable
  <2> SUFFICES ASSUME FlowInv, NEW t \in Tx, NEW i \in 1 .. synced,
                      l2log[i] = Block("processing", t),
                      NEW w \in Pays[t], withdraw[w].status = "create"
               PROVE  TakenOver(w, t)
    BY DEF AcceptedNotSelectable, Handled
  <2>1. l2log[i].kind = "processing" /\ l2log[i].of = t
    BY DEF Block
  <2>2. t \in PastTxs
    BY <2>1 DEF FlowInv, HandledOrders
  <2>3. \E s \in RowTxs \cap (Tx \ {t}) : w \in Pays[s]
    BY <2>2 DEF FlowInv, PastPaid, Selectable
  <2> QED BY <2>3 DEF TakenOver, RowTxs
<1> QED BY <1>1, FlowInvariant, PTL

=============================================================================
