---------------------------- MODULE WithdrawFlow ----------------------------
(***************************************************************************)
(* One relayer between two chains: the goroutines that write its wallet,   *)
(* in the order in which they really call it.                              *)
(*                                                                         *)
(*   layer 2 listener    replays accepted messages and events, block by    *)
(*                       block, from its saved height (internal/layer2)    *)
(*   block scanner       replays confirmed bitcoin blocks from its saved   *)
(*                       height (internal/btc, internal/wallet)            *)
(*   wallet loop         builds send orders while this relayer is proposer *)
(*   signer              stores the order a remote proposer asks to sign   *)
(*   broadcaster         sends orders, hears of the proposer's broadcasts, *)
(*                       and watches pending transactions                  *)
(*                                                                         *)
(* Layer 2, bitcoin and the other relayers are external: layer 2 accepts   *)
(* transactions that compete neither for a withdrawal nor for an input,    *)
(* and bitcoin mines accepted transactions.  A layer 2 block here holds    *)
(* one transaction or event, a bitcoin block one transaction.  Safebox     *)
(* orders and their events are not part of this flow.                      *)
(***************************************************************************)
EXTENDS WalletState, Sequences

CONSTANTS
  Funding,     \* deposits and donations mined before, in block order
  MaxBuild,    \* bound: orders built or joined while the table has this many rows
  MaxLog,      \* bound: layer 2 blocks
  MaxFault     \* bound: restarts and retried blocks

\* outputs that no relayer transaction creates
Outside == Utxo \ UNION {Outs[t] : t \in Tx}

ASSUME FundingAssumption ==
  /\ Funding \in Seq(Outside)
  /\ \A u \in Outside : \E i \in DOMAIN Funding : Funding[i] = u
  /\ Tx \cap Utxo = {}
ASSUME BoundAssumption == MaxBuild \in Nat /\ MaxLog \in Nat /\ MaxFault \in Nat

VARIABLES
  l2log,       \* external: layer 2 blocks, [kind, of]
  btcLog,      \* external: confirmed blocks, each a transaction or an outside deposit
  synced,      \* L2SyncStatus.LastSyncBlock in memory
  savedSync,   \* a height that is certainly in the database
  halfDone,    \* the block synced + 1 has run the first of its two handlers
  scanned,     \* BtcSyncStatus.ConfirmedHeight in memory
  savedScan,   \* a height that is certainly in the database
  added,       \* outputs of the block scanned + 1 already added
  proposer,    \* this relayer is the epoch's proposer
  sigStatus,   \* WalletServer.sigStatus: a signature round is open
  building,    \* the wallet loop has cleaned up and selects inputs
  picked,      \* the withdrawals it has read to be paid
  faults       \* faults so far

l2Vars == <<synced, savedSync, halfDone>>
btcVars == <<scanned, savedScan, added>>
roleVars == <<proposer, sigStatus, building, picked>>
externals == <<l2log, btcLog>>
flowVars == <<externals, l2Vars, btcVars, roleVars, faults>>
allVars == <<vars, flowVars>>

-----------------------------------------------------------------------------
(* External: the two chains *)

Kinds == {"request", "cancel", "canceled", "processing", "consolidation",
          "finalized", "deposit", "elected"}
Block(k, x) == [kind |-> k, of |-> x]

Logged(k, x) == \E i \in DOMAIN l2log : l2log[i] = Block(k, x)
Accepted(t) == Logged("processing", t) \/ Logged("consolidation", t)
Mined(x) == \E i \in DOMAIN btcLog : btcLog[i] = x

OnBitcoin(u) == Mined(u) \/ \E t \in Tx : u \in Outs[t] /\ Mined(t)

IsConsolidation(t) == Pays[t] = {} /\ Secures[t] = {}

Payable(w) ==
  /\ Logged("request", w)
  /\ ~ Logged("canceled", w)
  /\ \A t \in Tx : w \in Pays[t] => ~ Accepted(t)

MayAccept(t) ==
  /\ \A w \in Pays[t] : Payable(w)
  /\ \A u \in Ins[t] : OnBitcoin(u)
  /\ \A s \in Tx : Accepted(s) => Ins[s] \cap Ins[t] = {}

MayLog(b) ==
  \/ b.kind = "request" /\ b.of \in Withdraw /\ ~ Logged("request", b.of)
  \/ b.kind = "cancel" /\ b.of \in Withdraw /\ Payable(b.of) /\ ~ Logged("cancel", b.of)
  \/ b.kind = "canceled" /\ b.of \in Withdraw /\ Payable(b.of) /\ Logged("cancel", b.of)
  \/ b.kind = "processing" /\ b.of \in Tx /\ ~ IsConsolidation(b.of) /\ MayAccept(b.of)
  \/ b.kind = "consolidation" /\ b.of \in Tx /\ IsConsolidation(b.of) /\ MayAccept(b.of)
  \/ b.kind = "finalized" /\ b.of \in Tx /\ Logged("processing", b.of) /\ Mined(b.of)
       /\ ~ Logged("finalized", b.of)
  \/ b.kind = "deposit" /\ b.of \in Outside /\ Mined(b.of) /\ ~ Logged("deposit", b.of)
  \/ b.kind = "elected" /\ b.of = NoTx

Layer2Block ==
  /\ Len(l2log) < MaxLog
  /\ \E k \in Kinds, x \in Tx \cup {NoTx} \cup Utxo \cup Withdraw :
       /\ MayLog(Block(k, x))
       /\ l2log' = Append(l2log, Block(k, x))
  /\ UNCHANGED <<vars, btcLog, l2Vars, btcVars, roleVars, faults>>

BitcoinBlock ==
  /\ \E t \in Tx :
       /\ Accepted(t) /\ ~ Mined(t)
       /\ \A u \in Ins[t] : OnBitcoin(u)
       /\ btcLog' = Append(btcLog, t)
  /\ UNCHANGED <<vars, l2log, l2Vars, btcVars, roleVars, faults>>

-----------------------------------------------------------------------------
(* The layer 2 listener *)

Next2 == l2log[synced + 1]      \* the block to handle
Handling(k) == synced < Len(l2log) /\ Next2.kind = k

BlockDone == synced' = synced + 1 /\ halfDone' = FALSE /\ UNCHANGED savedSync
HalfDone == halfDone' = TRUE /\ UNCHANGED <<synced, savedSync>>

ListenerUnchanged == UNCHANGED <<externals, btcVars, roleVars, faults>>

\* one handler, one database transaction
HandleEvent ==
  /\ synced < Len(l2log)
  /\ LET x == Next2.of IN
       \/ Next2.kind = "request" /\ CreateWithdrawal(x)
       \/ Next2.kind = "cancel" /\ UpdateWithdrawCanceling(x)
       \/ Next2.kind = "canceled" /\ UpdateWithdrawCanceled(x)
       \/ Next2.kind = "consolidation" /\ UpdateWithdrawInitialized(x)
       \/ Next2.kind = "finalized" /\ UpdateWithdrawFinalized(x)
       \/ Next2.kind = "deposit" /\ AddDepositResult(x)
  /\ BlockDone
  /\ ListenerUnchanged

\* MsgProcessWithdrawalV2: the message first, then the event it raised
HandleProcessing ==
  /\ Handling("processing")
  /\ \/ ~ halfDone /\ RecoverSendOrder(Next2.of) /\ HalfDone
     \/ halfDone /\ UpdateWithdrawInitialized(Next2.of) /\ BlockDone
  /\ ListenerUnchanged

\* an election: the epoch is stored, then half-built orders are cleaned
HandleElected ==
  /\ Handling("elected")
  /\ \/ /\ ~ halfDone
        /\ proposer' \in BOOLEAN
        /\ HalfDone
        /\ UNCHANGED <<vars, sigStatus, building, picked>>
     \/ /\ halfDone
        /\ CleanProcessingWithdraw
        /\ BlockDone
        /\ UNCHANGED roleVars
  /\ UNCHANGED <<externals, btcVars, faults>>

-----------------------------------------------------------------------------
(* The bitcoin block scanner *)

BlockOuts(x) == IF x \in Tx THEN Outs[x] ELSE {x}

\* (bug) the scanner waits until the listener has caught up
ScanOutAfterListener(u) ==
  /\ synced = Len(l2log)
  /\ scanned < Len(btcLog)
  /\ u \in BlockOuts(btcLog[scanned + 1]) \ added
  /\ AddUtxo(u, "confirmed")
  /\ added' = added \cup {u}
  /\ UNCHANGED <<externals, l2Vars, scanned, savedScan, roleVars, faults>>

ScanOut(u) ==
  /\ scanned < Len(btcLog)
  /\ u \in BlockOuts(btcLog[scanned + 1]) \ added
  /\ AddUtxo(u, "confirmed")
  /\ added' = added \cup {u}
  /\ UNCHANGED <<externals, l2Vars, scanned, savedScan, roleVars, faults>>

\* a transaction is recognised by its send order; a failed update is only logged
ScanConfirm ==
  /\ scanned < Len(btcLog)
  /\ LET x == btcLog[scanned + 1] IN
       /\ BlockOuts(x) \subseteq added
       /\ IF x \in Tx /\ OrdersOf(x) # {}
          THEN UpdateSendOrderConfirmed(x) \/ (~ InputsStored(x) /\ UNCHANGED vars)
          ELSE UNCHANGED vars
  /\ added' = {}
  /\ scanned' = scanned + 1
  /\ UNCHANGED <<externals, l2Vars, savedScan, roleVars, faults>>

-----------------------------------------------------------------------------
(* The wallet loop *)

CanConsolidate(t) == IsConsolidation(t) => \A o \in OrderId : order[o].status \notin Live

\* initWithdrawSig: a proposer without an open round, or a voter that has one
InitWithdrawSig ==
  /\ ~ building
  /\ proposer # sigStatus
  /\ CleanProcessingWithdraw
  /\ sigStatus' = FALSE
  /\ building' = proposer
  /\ picked' = {w \in Withdraw : proposer /\ withdraw'[w].status = "create"}
  /\ UNCHANGED <<externals, l2Vars, btcVars, proposer, faults>>

BuildOrder(t) ==
  /\ building
  /\ lastOrder < MaxBuild
  /\ CanConsolidate(t)
  /\ CreateSendOrder(t, TRUE)
  /\ building' = FALSE /\ picked' = {}
  /\ sigStatus' = TRUE
  /\ UNCHANGED <<externals, l2Vars, btcVars, proposer, faults>>

\* nothing to do, or no inputs
BuildNothing ==
  /\ building
  /\ building' = FALSE /\ picked' = {}
  /\ UNCHANGED <<vars, externals, l2Vars, btcVars, proposer, sigStatus, faults>>

\* a withdrawal too small to pay for its output is closed whatever became of
\* it since it was read
CloseDust(w) ==
  /\ w \in picked
  /\ UpdateWithdrawCanceled(w)
  /\ building' = FALSE /\ picked' = picked \ {w}
  /\ UNCHANGED <<externals, l2Vars, btcVars, proposer, sigStatus, faults>>

\* SigFinish, SigFailed or SigTimeout
EndSig ==
  /\ sigStatus
  /\ sigStatus' = FALSE
  /\ UNCHANGED <<vars, externals, l2Vars, btcVars, proposer, building, picked, faults>>

-----------------------------------------------------------------------------
(* The signer of a voter, and the broadcaster *)

JoinOrder(t) ==
  /\ ~ proposer
  /\ lastOrder < MaxBuild
  /\ CanConsolidate(t)
  /\ CreateSendOrder(t, FALSE)
  /\ UNCHANGED flowVars

\* (bug) any live order is taken for one in status s
HasLiveOrder(t, s) == \E o \in OrdersOf(t) : order[o].status \in Live

HasOrderIn(t, s) == \E o \in OrdersOf(t) : order[o].status = s

BroadcastOrder(t) ==
  /\ proposer
  /\ HasOrderIn(t, "init")
  /\ UpdateSendOrderPending(t, {}, {})
  /\ UNCHANGED flowVars

\* the proposer broadcasts an order that layer 2 accepted
HearBroadcast(t) ==
  /\ Accepted(t)
  /\ UpdateSendOrderPending(t, Ins[t], Pays[t])
  /\ UNCHANGED flowVars

\* CheckPending's answers: failed or unknown, or confirmed
RevertPending(t) ==
  /\ HasOrderIn(t, "pending")
  /\ UpdateSendOrderInitlized(t)
  /\ UNCHANGED flowVars

ConfirmPending(t) ==
  /\ HasOrderIn(t, "pending")
  /\ Mined(t)
  /\ UpdateSendOrderConfirmed(t)
  /\ UNCHANGED flowVars

-----------------------------------------------------------------------------
(* Faults *)

\* The process dies: the databases survive, memory is lost.  A height is saved
\* at the end of each range of blocks, so any height since the last restart may
\* be the one found.
Restart ==
  /\ faults < MaxFault
  /\ faults' = faults + 1
  /\ savedSync' \in savedSync .. synced
  /\ synced' = savedSync'
  /\ halfDone' = FALSE
  /\ savedScan' \in savedScan .. scanned
  /\ scanned' = savedScan'
  /\ added' = {}
  /\ sigStatus' = FALSE
  /\ building' = FALSE /\ picked' = {}
  /\ UNCHANGED <<vars, externals, proposer>>

\* withdrawLoop starts by cleaning up, when bitcoin is not behind
StartClean ==
  /\ faults > 0
  /\ ~ sigStatus /\ ~ building
  /\ CleanProcessingWithdraw
  /\ UNCHANGED flowVars

\* the second half of a block fails: the block is fetched again
RetryBlock ==
  /\ faults < MaxFault
  /\ faults' = faults + 1
  /\ halfDone
  /\ halfDone' = FALSE
  /\ UNCHANGED <<vars, externals, synced, savedSync, btcVars, roleVars>>

-----------------------------------------------------------------------------
FlowInit ==
  /\ Init
  /\ l2log = <<>> /\ btcLog = Funding
  /\ synced = 0 /\ savedSync = 0 /\ halfDone = FALSE
  /\ scanned = 0 /\ savedScan = 0 /\ added = {}
  /\ proposer \in BOOLEAN /\ sigStatus = FALSE /\ building = FALSE /\ picked = {}
  /\ faults = 0

Listener == HandleEvent \/ HandleProcessing \/ HandleElected
Scanner == (\E u \in Utxo : ScanOut(u)) \/ ScanConfirm

FlowNext ==
  \/ Layer2Block \/ BitcoinBlock
  \/ Listener \/ Scanner
  \/ InitWithdrawSig \/ BuildNothing \/ EndSig
  \/ \E t \in Tx : BuildOrder(t) \/ JoinOrder(t) \/ BroadcastOrder(t)
                   \/ HearBroadcast(t) \/ RevertPending(t) \/ ConfirmPending(t)
  \/ \E w \in Withdraw : CloseDust(w)
  \/ Restart \/ StartClean \/ RetryBlock

FlowSpec == FlowInit /\ [][FlowNext]_allVars
FairFlow == FlowSpec /\ WF_allVars(Listener) /\ WF_allVars(Scanner)

-----------------------------------------------------------------------------
(* The wallet never treats a transaction as agreed on its own: an order that *)
(* may be broadcast, or was mined, is one that layer 2 accepted.             *)
AgreedBeforeBroadcast ==
  \A o \in OrderId : order[o].status \in {"init", "pending"} \cup Settled =>
    Accepted(order[o].txid)

(* What the listener has handled, fully, since its database began, and what  *)
(* the block scanner has.                                                    *)
Handled(k, x) == \E i \in 1 .. synced : l2log[i] = Block(k, x)
(* Once the listener has seen that t is final, its inputs are spent, however *)
(* far the block scanner is behind and whatever was cleaned up meanwhile.    *)
FinalizedInputsSpent ==
  \A t \in Tx : Handled("finalized", t) => \A u \in Ins[t] : utxo[u] = "spent"

(* A withdrawal whose payment layer 2 accepted is not selected for another   *)
(* payment, unless the row was taken over by the order of a rival: updates   *)
(* by order id then miss it (UpdateWithdrawInitialized, RecoverSendOrder,    *)
(* CleanProcessingWithdraw).                                                 *)
TakenOver(w, t) == \E o \in OrderId : order[o].txid \in Tx \ {t} /\ w \in Pays[order[o].txid]

AcceptedNotSelectable ==
  \A t \in Tx : Handled("processing", t) =>
    \A w \in Pays[t] : withdraw[w].status = "create" => TakenOver(w, t)

(* Both chains being read, a payment that layer 2 declared final has its     *)
(* inputs spent here in the end: the listener may have to wait for the block *)
(* scanner, which never waits for the listener.                              *)
FinalizedIsSpent ==
  \A t \in Tx : Logged("finalized", t) ~> \A u \in Ins[t] : utxo[u] = "spent"
=============================================================================
