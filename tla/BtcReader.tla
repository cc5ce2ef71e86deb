----------------------------- MODULE BtcReader -----------------------------
(***************************************************************************)
(* How confirmed bitcoin blocks reach the wallet of one relayer.           *)
(*                                                                         *)
(* The notifier (btc/notifier.go) asks a node for the blocks from the last *)
(* synced height to the confirmed one, hands each to the poller through a  *)
(* channel and waits on blockDoneCh until the wallet has taken it in.  The *)
(* poller (btc/poller.go) saves the block's row and publishes it on the    *)
(* event bus (state/eventbus.go); the wallet (wallet/btc_blocks.go) takes  *)
(* it from there.  The layer 2 listener moves the same rows when layer 2   *)
(* accepts a block hash.  The bus also carries the signer's events to      *)
(* slower readers.  The process may crash, or be asked to stop             *)
(* (cmd/app.go).  What a block does to the wallet is in WalletState and    *)
(* Deposit: here a block is its height.                                    *)
(***************************************************************************)
EXTENDS Integers, Sequences, FiniteSetsExt

CONSTANTS
  StartHeight,   \* config.BTCStartHeight
  L2Start,       \* the height layer 2 starts from
  MaxHeight,     \* bound: the blocks of bitcoin
  MaxRange,      \* config.BTCMaxRange
  Cap,           \* capacity of a subscriber's channel (10 in the code)
  MaxFault,      \* bound: crashes, failed fetches and failed saves
  MaxStop        \* bound: requests to stop

ASSUME HeightAssumption ==
  /\ {StartHeight, L2Start, MaxHeight} \subseteq Nat
  /\ 0 < StartHeight /\ StartHeight <= L2Start + 1
  /\ StartHeight <= MaxHeight /\ L2Start <= MaxHeight
ASSUME BoundAssumption ==
  {MaxRange, Cap} \subseteq Nat \ {0} /\ {MaxFault, MaxStop} \subseteq Nat

Heights == StartHeight .. MaxHeight
None == 0   \* no block in hand, no row

VARIABLES
  tip,        \* newest height with enough confirmations
  accepted,   \* newest height layer 2 accepted
  rows,       \* btc_block: the status of each height's row
  saved,      \* btc_sync_status: ConfirmedHeight
  handled,    \* heights whose block is completely in the wallet's database
  heard,      \* newest accepted height the layer 2 listener handled
  savedHeard, \* the same at its last saved height
  up,         \* the process
  latest,     \* btcHeadState.Latest.Height
  synced,     \* the notifier's syncStatus.ConfirmedHeight
  syncing,    \* btcHeadState.Syncing: no withdrawal is signed meanwhile
  scan,       \* where checkConfirmations is
  confirmChan, poller,   \* the poller's channel, and the block it holds
  blockCh, wallet,       \* the wallet's channel, and the block it holds
  waiting,    \* events in the channel of another subscriber of the bus
  locked,     \* a publisher waits for the bus's lock, which it holds
  faults, stops

chainVars == <<tip, accepted>>
dbVars == <<rows, saved, handled>>
listenerVars == <<heard, savedHeard, latest>>
scanVars == <<synced, syncing, scan>>
pipeVars == <<confirmChan, poller, blockCh, wallet>>
busVars == <<waiting, locked>>
runVars == <<up, faults, stops>>
vars == <<chainVars, dbVars, listenerVars, scanVars, pipeVars, busVars, runVars>>

Alive == up # "dead"
Idle == [at |-> "idle", last |-> 0, end |-> 0, target |-> 0]
Newest(S) == IF S = {} THEN None ELSE Max(S)
Processed == {h \in Heights : rows[h] = "processed"}
Known == {h \in Heights : rows[h] # "none"}

Fault == faults < MaxFault /\ faults' = faults + 1 /\ UNCHANGED <<up, stops>>

-----------------------------------------------------------------------------
(* The two chains *)

Mine ==
  /\ tip < MaxHeight
  /\ tip' = tip + 1
  /\ UNCHANGED <<accepted, dbVars, listenerVars, scanVars, pipeVars, busVars, runVars>>

\* voters who may be ahead of this one have a confirmed block accepted
Accept ==
  /\ accepted < tip
  /\ accepted' = accepted + 1
  /\ UNCHANGED <<tip, dbVars, listenerVars, scanVars, pipeVars, busVars, runVars>>

-----------------------------------------------------------------------------
(* The rows of the blocks *)

\* (bug) a scanned block is new, whatever layer 2 has seen
ScannedIsNew(h) == [rows EXCEPT ![h] = "confirmed"]

\* a block layer 2 is past is processed, and stays so
SaveConfirmBtcBlock(h) ==
  [rows EXCEPT ![h] =
     IF @ = "processed" \/ h <= latest THEN "processed" ELSE "confirmed"]

\* layer 2 accepted block h, which the scan may not have reached
UpdateProcessedBtcBlock(h) ==
  IF rows[h] = "processed" THEN UNCHANGED <<rows, latest>>
  ELSE rows' = [rows EXCEPT ![h] = "processed"] /\ latest' = h

HearBlock ==
  /\ Alive
  /\ heard < accepted
  /\ heard' = heard + 1
  /\ UpdateProcessedBtcBlock(heard + 1)
  /\ UNCHANGED <<chainVars, saved, handled, savedHeard, scanVars, pipeVars, busVars, runVars>>

\* the row cannot be read: Latest is of this block already, the listener fetches
\* the layer 2 block again
HearFails ==
  /\ Alive
  /\ heard < accepted
  /\ Fault
  /\ latest' = heard + 1
  /\ UNCHANGED <<chainVars, dbVars, heard, savedHeard, scanVars, pipeVars, busVars>>

-----------------------------------------------------------------------------
(* The notifier: checkConfirmations *)

\* (bug) the loop stops short of the confirmed height
RangeEndShort == Min({synced + MaxRange, tip - 1})

RangeEnd == Min({synced + MaxRange, tip})

Tick ==
  /\ Alive /\ scan.at = "idle"
  /\ syncing' = (synced < tip)
  /\ scan' = IF synced >= tip THEN Idle
             ELSE [at |-> "fetch", last |-> synced, target |-> tip,
                   end |-> RangeEnd]
  /\ UNCHANGED <<chainVars, dbVars, listenerVars, synced, pipeVars, busVars, runVars>>

\* (bug) the notifier hands the block over and does not wait for the wallet
FetchOn == [scan EXCEPT !.last = @ + 1]

AfterFetch == [scan EXCEPT !.at = "wait"]

\* processBlockAtHeight, to the wait on blockDoneCh
Fetch ==
  /\ Alive /\ scan.at = "fetch" /\ scan.last < scan.end
  /\ confirmChan' = Append(confirmChan, scan.last + 1)
  /\ scan' = AfterFetch
  /\ UNCHANGED <<chainVars, dbVars, listenerVars, synced, syncing, poller, blockCh,
                 wallet, busVars, runVars>>

\* saveSyncStatus, its memory; a range without a new block saves nothing
EndScan ==
  /\ scan' = Idle
  /\ synced' = scan.last
  /\ syncing' = (syncing /\ ~ (synced < scan.last /\ scan.target <= scan.last))

\* (bug) a range that ended early is saved as a whole
SaveRange == EndScan /\ saved' = IF scan.last = synced THEN saved ELSE scan.end

SaveScan == EndScan /\ saved' = IF scan.last = synced THEN saved ELSE scan.last

FinishScan ==
  /\ Alive /\ scan.at = "fetch" /\ scan.last = scan.end
  /\ SaveScan
  /\ UNCHANGED <<chainVars, rows, handled, listenerVars, pipeVars, busVars, runVars>>

\* the database does not take the height: it is logged
SaveFails ==
  /\ Alive /\ scan.at = "fetch" /\ scan.last = scan.end
  /\ EndScan
  /\ Fault
  /\ UNCHANGED <<chainVars, dbVars, listenerVars, pipeVars, busVars>>

\* the node does not answer: the range ends early
FetchFails ==
  /\ Alive /\ scan.at = "fetch" /\ scan.last < scan.end
  /\ SaveScan
  /\ Fault
  /\ UNCHANGED <<chainVars, rows, handled, listenerVars, pipeVars, busVars>>

\* the block is done: the next one
BlockDone == scan' = [scan EXCEPT !.at = "fetch", !.last = @ + 1]

-----------------------------------------------------------------------------
(* The poller and the wallet *)

\* handleConfirmedBlock, to the publication
PollerTake ==
  /\ Alive
  /\ poller = None /\ confirmChan # <<>>
  /\ poller' = Head(confirmChan)
  /\ confirmChan' = Tail(confirmChan)
  /\ rows' = SaveConfirmBtcBlock(Head(confirmChan))
  /\ UNCHANGED <<chainVars, saved, handled, listenerVars, scanVars, blockCh, wallet,
                 busVars, runVars>>

\* Publish finds a full channel: it waits for a lock that it holds itself
PublishBlock ==
  /\ Alive /\ ~ locked
  /\ poller # None
  /\ IF Len(blockCh) < Cap
     THEN blockCh' = Append(blockCh, poller) /\ poller' = None /\ UNCHANGED locked
     ELSE locked' = TRUE /\ UNCHANGED <<blockCh, poller>>
  /\ UNCHANGED <<chainVars, dbVars, listenerVars, scanVars, confirmChan, wallet,
                 waiting, runVars>>

WalletTake ==
  /\ Alive
  /\ wallet = None /\ blockCh # <<>>
  /\ wallet' = Head(blockCh)
  /\ blockCh' = Tail(blockCh)
  /\ UNCHANGED <<chainVars, dbVars, listenerVars, scanVars, confirmChan, poller,
                 busVars, runVars>>

\* processBlock has returned, and the notifier hears of it
WalletDone ==
  /\ up = "running" /\ wallet # None
  /\ scan.at = "wait"
  /\ handled' = handled \cup {wallet}
  /\ wallet' = None
  /\ BlockDone
  /\ UNCHANGED <<chainVars, rows, saved, listenerVars, synced, syncing, confirmChan,
                 poller, blockCh, busVars, runVars>>

-----------------------------------------------------------------------------
(* The bus: the signer publishes to loops that read at their own pace *)

OtherPublish ==
  /\ Alive /\ ~ locked
  /\ IF waiting < Cap THEN waiting' = waiting + 1 /\ UNCHANGED locked
     ELSE locked' = TRUE /\ UNCHANGED waiting
  /\ UNCHANGED <<chainVars, dbVars, listenerVars, scanVars, pipeVars, runVars>>

OtherTake ==
  /\ Alive /\ waiting > 0
  /\ waiting' = waiting - 1
  /\ UNCHANGED <<chainVars, dbVars, listenerVars, scanVars, pipeVars, locked, runVars>>

-----------------------------------------------------------------------------
(* Ends and starts of the process *)

NewestRow(h) == h \in Known /\ \A g \in Known : g <= h

\* (bug) the scan goes on from the newest row
FromNewestRow == IF Known = {} THEN {saved} ELSE {h \in Known : NewestRow(h)}

\* NewBTCNotifier: the saved height, or the newest row when that is older
FromSaved ==
  IF \E h \in Known : NewestRow(h) /\ h < saved THEN {h \in Known : NewestRow(h)}
  ELSE {saved}

\* a new process loads what the databases hold
Load ==
  /\ up' = "running"
  /\ latest' = Newest(Processed)
  /\ savedHeard' \in savedHeard .. heard /\ heard' = savedHeard'
  /\ synced' \in FromSaved /\ syncing' = FALSE /\ scan' = Idle
  /\ confirmChan' = <<>> /\ poller' = None /\ blockCh' = <<>> /\ wallet' = None
  /\ waiting' = 0 /\ locked' = FALSE

\* any point of any step, log.Fatalf included
Crash ==
  /\ up = "running"
  /\ faults < MaxFault /\ faults' = faults + 1
  /\ Load
  /\ UNCHANGED <<chainVars, dbVars, stops>>

\* main closes blockDoneCh, cancels and waits for the components
Stop ==
  /\ up = "running"
  /\ stops < MaxStop /\ stops' = stops + 1
  /\ up' = "stopping"
  /\ UNCHANGED <<chainVars, dbVars, listenerVars, scanVars, pipeVars, busVars, faults>>

\* a receive from the closed channel returns at once
WaitEnds ==
  /\ up = "stopping" /\ scan.at = "wait"
  /\ BlockDone
  /\ UNCHANGED <<chainVars, dbVars, listenerVars, synced, syncing, pipeVars, busVars, runVars>>

\* the wallet sends on the closed channel: the process panics
WalletPanics ==
  /\ up = "stopping" /\ wallet # None
  /\ handled' = handled \cup {wallet}
  /\ up' = "dead"
  /\ UNCHANGED <<chainVars, rows, saved, listenerVars, scanVars, pipeVars, busVars,
                 faults, stops>>

\* the stopped process is gone and is started again
Exit ==
  /\ up # "running"
  /\ Load
  /\ UNCHANGED <<chainVars, dbVars, faults, stops>>

-----------------------------------------------------------------------------
Init ==
  /\ tip = Max({StartHeight, L2Start}) /\ accepted = L2Start
  /\ rows = [h \in Heights |-> "none"]
  /\ saved = StartHeight - 1 /\ handled = {}
  /\ heard = L2Start /\ savedHeard = L2Start /\ latest = None
  /\ up = "running"
  /\ synced = StartHeight - 1 /\ syncing = FALSE /\ scan = Idle
  /\ confirmChan = <<>> /\ poller = None /\ blockCh = <<>> /\ wallet = None
  /\ waiting = 0 /\ locked = FALSE
  /\ faults = 0 /\ stops = 0

Next ==
  \/ Mine \/ Accept \/ HearBlock \/ HearFails
  \/ Tick \/ Fetch \/ FetchFails \/ FinishScan \/ SaveFails
  \/ PollerTake \/ PublishBlock \/ WalletTake \/ WalletDone
  \/ OtherPublish \/ OtherTake
  \/ Crash \/ Stop \/ WaitEnds \/ WalletPanics \/ Exit

Spec == Init /\ [][Next]_vars

\* the loops run, and a process that was asked to stop ends and is started again
FairSpec ==
  /\ Spec
  /\ WF_vars(Tick) /\ WF_vars(Fetch) /\ WF_vars(FinishScan)
  /\ WF_vars(PollerTake) /\ WF_vars(PublishBlock)
  /\ WF_vars(WalletTake) /\ WF_vars(WalletDone)
  /\ WF_vars(OtherTake) /\ WF_vars(Exit)

-----------------------------------------------------------------------------
Held(b) == IF b = None THEN 0 ELSE 1
InFlight == Len(confirmChan) + Held(poller) + Len(blockCh) + Held(wallet)

(* The wallet takes the blocks in the order of the chain and has every block *)
(* up to the height a new process starts from, whatever crashed or failed    *)
(* between the two databases' writes (NewBTCNotifier, saveSyncStatus).  A    *)
(* request to stop is the one exception: it ends the wait for a block the    *)
(* wallet is still taking in.                                                *)
BlocksHandledInOrder ==
  stops = 0 =>
    \A h \in Heights : h <= saved \/ (\E g \in handled : h <= g) => h \in handled

(* Flow control: blockDoneCh keeps a single block between the notifier and   *)
(* the wallet, so a block never finds the wallet's channel full, and the     *)
(* bus is never locked by a block (processBlockAtHeight, Publish).           *)
OneBlockInFlight ==
  up = "running" =>
    /\ InFlight <= 1
    /\ InFlight = 1 <=> scan.at = "wait"

(* The listener and the poller write the same rows in either order, and the  *)
(* listener may fail halfway and hear of a block again: a row is processed   *)
(* only when layer 2 accepted its height, and every height the listener      *)
(* heard of, or that is below a processed one, is processed and not offered  *)
(* for signing again (SaveConfirmBtcBlock, UpdateProcessedBtcBlock,          *)
(* InitializeState).                                                         *)
RowsFollowLayer2 ==
  /\ \A h \in Processed : h <= accepted
  /\ L2Start + 1 .. heard \subseteq Processed
  /\ \A h \in Processed : L2Start + 1 .. h \subseteq Processed

(* A block with enough confirmations reaches the wallet in the end, through  *)
(* crashes and failed calls, unless a full channel has locked the bus or the *)
(* process was asked to stop.                                                *)
EveryBlockHandled ==
  \A h \in Heights :
    tip >= h ~> h \in handled \/ locked \/ stops > 0

(* Withdrawals do not stay off: the scan that closed the gate opens it again *)
(* (UpdateBtcSyncing), unless the bus is locked.                             *)
SyncingEnds == syncing ~> ~ syncing \/ locked
=============================================================================
