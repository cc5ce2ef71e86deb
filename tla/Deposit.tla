------------------------------- MODULE Deposit -------------------------------
(***************************************************************************)
(* Deposits in one relayer: from a user's transaction to a utxo the group  *)
(* can spend (internal/wallet/deposit.go, the deposit part of              *)
(* internal/state/deposit.go and wallet.go, bls/handle_deposit.go, the     *)
(* recovery of internal/btc/notifier.go).                                  *)
(*                                                                         *)
(* Four goroutines meet in two databases.  The deposit loop registers      *)
(* deposits, asks bitcoin about unconfirmed ones and, when this relayer is *)
(* proposer, has the signer submit confirmed ones.  The layer 2 listener   *)
(* handles block hashes and mints in two writes each.  The block processor *)
(* scans confirmed blocks.  The notifier fetches what the mints of others  *)
(* left unknown.  depositMu covers one access to the deposit rows and      *)
(* their in-memory queue, walletMu one access to utxos and deposit         *)
(* results; AddUtxo holds walletMu across writes to both databases.        *)
(*                                                                         *)
(* A deposit is an outpoint: version 0 pays a P2WSH address derived from   *)
(* the user's address and is found only by asking for its transaction,     *)
(* version 1 pays the group and is found in the scan of its block.         *)
(* Addresses and raw transactions are left out, and amounts: all are at    *)
(* least MinDepositAmount.                                                 *)
(***************************************************************************)
EXTENDS Integers, FiniteSets, Sequences, Merkle

CONSTANTS
  Txid,        \* bitcoin transactions
  Outputs,     \* [Txid -> sequence of receivers]: users, Group, Data, others
  User,        \* the P2WSH addresses derived from users' addresses
  Group,       \* the P2PKH and P2WPKH addresses of the group's key
  Data,        \* OP_RETURN with the deposit magic and a user's address
  BadSize,     \* transactions too short or too long to be submitted
  Chains,      \* possible chains: sequences of blocks, a block a sequence of txids
  Dropped,     \* transactions the bitcoin node does not know unless they are in its chain
  Batch,       \* rows a check of unconfirmed deposits reads, 50 in the code
  SignBatch,   \* rows a submission reads, 16 in the code
  NoDeposit,
  BlockHash,   \* a block hash event, while it is handled
  Expiring,    \* bound: deposits that can stay unconfirmed for 72 hours
  MaxRequest,  \* bound: submissions in flight; with 0 this relayer is never proposer
  MaxRestart,  \* bound: the relayer restarts, or a query of rows fails, after fewer
               \* faults than this
  MaxReplay    \* bound: an event is handled again after fewer faults than this

\* IsUtxoGoatDepositV1: the first output pays the group, the second is the data
V1Outputs(t) ==
  {i \in {1} : Len(Outputs[t]) >= 2 /\ Outputs[t][1] = Group /\ Outputs[t][2] = Data}

\* IsUtxoGoatDepositV0: every output to the user's address
V0Outputs(t, user) == {i \in DOMAIN Outputs[t] : Outputs[t][i] = user}

\* VerifyDeposit: the outputs the RPC service registers for the user
VerifyDeposit(t, user) == IF V1Outputs(t) # {} THEN V1Outputs(t) ELSE V0Outputs(t, user)

Outpoint == UNION {{t} \X DOMAIN Outputs[t] : t \in Txid}
V0 == {d \in Outpoint : Outputs[d[1]][d[2]] \in User}
V1 == {d \in Outpoint : d[2] \in V1Outputs(d[1])}
Deposit == V0 \cup V1
TxOf(d) == d[1]
UserOf(d) == Outputs[d[1]][d[2]]

\* IsUtxoGoatDepositV0Json: the first output to the user's address
FirstOf(d) ==
  <<d[1], CHOOSE i \in V0Outputs(d[1], UserOf(d)) : \A j \in V0Outputs(d[1], UserOf(d)) : i <= j>>

ASSUME DepositAssumption ==
  /\ {NoDeposit, BlockHash} \cap Deposit = {} /\ NoDeposit # BlockHash
  /\ Outputs \in [Txid -> Seq(User \cup {Group, Data})]
  /\ {Group, Data} \cap User = {} /\ Group # Data

\* a chain is a sequence of blocks, a block a sequence of transaction ids
IsSequence(s) == s \in Seq({s[i] : i \in DOMAIN s})
ASSUME ChainAssumption ==
  \A c \in Chains : IsSequence(c) /\ \A h \in DOMAIN c : IsSequence(c[h])

ASSUME BoundAssumption == Batch \in Nat \ {0} /\ MaxRequest \in Nat
ASSUME FaultAssumption == MaxRestart \in Nat /\ MaxReplay \in Nat

DepositStatus == {"unconfirm", "confirmed", "processed"}

VARIABLES
  chain,       \* bitcoin: its blocks
  tip,         \* bitcoin: how many of them have enough confirmations
  hashes,      \* layer 2: how many block hashes it accepted
  minted,      \* layer 2: deposits it minted
  isProposer,  \* layer 2: this relayer is proposer of the epoch
  row,         \* [Deposit -> status, block height and id]; status "none": no row
  lastId,      \* id of the last inserted row
  expired,     \* deposits created more than 72 hours ago
  queue,       \* [Deposit -> status of the copy in UnconfirmQueue, or "none"]
  utxo,        \* [Deposit -> utxo status], "none": no row
  script,      \* utxos whose row has its sub script
  result,      \* [Deposit -> id of its deposit_result row, 0: none]
  lastResult,
  needFetch,   \* deposit results with need_fetch_sub_script
  writing,     \* AddUtxo of the deposit loop or the scan between its writes
  fetching,    \* deposit whose utxo the notifier found missing
  cursor,      \* nextUnfirmIdx
  batch,       \* rows read by checkUnconfirmDeposit and not checked yet
  latest,      \* btcHead.Latest.Height
  seen,        \* block hash events handled
  handled,     \* mint events handled
  half,        \* the deposit, or BlockHash, whose event is between its two writes
  scanned,     \* deposits of version 1 whose block was scanned since the start
  status,      \* sigDepositStatus: a submission is in progress
  cooling,     \* less than two layer 2 blocks since the last submission
  sigStart,    \* submissions on their way to the signer
  feedback,    \* SigFailed and SigFinish on their way back
  faults

outside == <<chain, tip, hashes, minted, isProposer>>
rows == <<row, lastId, expired, queue>>
utxos == <<utxo, script, result, lastResult, needFetch>>
checking == <<cursor, batch, scanned>>
events == <<latest, seen, handled, half>>
signing == <<status, cooling, sigStart, feedback>>
vars == <<outside, rows, utxos, writing, fetching, checking, events, signing, faults>>

NoWrite == [dep |-> NoDeposit, status |-> "none", check |-> 0]

-----------------------------------------------------------------------------
(* Bitcoin and layer 2 as the relayer sees them *)

InBlock(d, h) == \E i \in DOMAIN chain[h] : chain[h][i] = TxOf(d)

HeightOf(d) ==
  IF \E h \in 1 .. tip : InBlock(d, h) THEN CHOOSE h \in 1 .. tip : InBlock(d, h) ELSE 0
Mined(d) == HeightOf(d) > 0

\* the node has no such transaction, or has it no more
Unknown(d) == TxOf(d) \in Dropped /\ \A h \in DOMAIN chain : ~InBlock(d, h)

Confirmations ==
  /\ tip < Len(chain)
  /\ tip' = tip + 1
  /\ UNCHANGED <<chain, hashes, minted, isProposer, rows, utxos, writing, fetching,
                 checking, events, signing, faults>>

AcceptHash ==
  /\ hashes < tip
  /\ hashes' = hashes + 1
  /\ UNCHANGED <<chain, tip, minted, isProposer, rows, utxos, writing, fetching,
                 checking, events, signing, faults>>

\* another relayer submitted d
MintByOther(d) ==
  /\ d \notin minted /\ TxOf(d) \notin BadSize /\ Mined(d) /\ HeightOf(d) <= hashes
  /\ minted' = minted \cup {d}
  /\ UNCHANGED <<chain, tip, hashes, isProposer, rows, utxos, writing, fetching,
                 checking, events, signing, faults>>

Elect ==
  /\ MaxRequest > 0
  /\ isProposer' = ~isProposer
  /\ UNCHANGED <<chain, tip, hashes, minted, rows, utxos, writing, fetching,
                 checking, events, signing, faults>>

Age(d) ==
  /\ d \in Expiring /\ row[d].status = "unconfirm"
  /\ expired' = expired \cup {d}
  /\ UNCHANGED <<outside, row, lastId, queue, utxos, writing, fetching, checking, events,
                 signing, faults>>

-----------------------------------------------------------------------------
(* Deposit rows and their queue, under depositMu *)

Insert(d, s, h) == [row EXCEPT ![d] = [status |-> s, block |-> h, id |-> lastId + 1]]

Absent(d) == row[d].status = "none"

AddUnconfirmDeposit(d) ==
  /\ Absent(d)
  /\ row' = Insert(d, "unconfirm", 0)
  /\ lastId' = lastId + 1
  /\ queue' = [queue EXCEPT ![d] = "unconfirm"]

\* a user names a transaction to the RPC service: the node must know it and
\* layer 2 must not have minted it; one call per output
NewTransaction(d) ==
  /\ ~Unknown(d) /\ d \notin minted
  /\ \E user \in User : d[2] \in VerifyDeposit(TxOf(d), user)
  /\ AddUnconfirmDeposit(d)
  /\ UNCHANGED <<outside, expired, utxos, writing, fetching, checking, events, signing,
                 faults>>

\* the relayer that was told so tells the others, who take its word
ReceiveDeposit(d) ==
  /\ AddUnconfirmDeposit(d)
  /\ UNCHANGED <<outside, expired, utxos, writing, fetching, checking, events, signing,
                 faults>>

\* (bug) a processed deposit is confirmed again
ConfirmAnyway(d, h) ==
  /\ row' = IF Absent(d) THEN Insert(d, "confirmed", h)
            ELSE [row EXCEPT ![d].status = "confirmed", ![d].block = h]
  /\ lastId' = IF Absent(d) THEN lastId + 1 ELSE lastId
  /\ queue' = [queue EXCEPT ![d] = "none"]

SaveConfirmDeposit(d, h) ==
  /\ row' = IF Absent(d) THEN Insert(d, "confirmed", h)
            ELSE IF row[d].status = "processed" THEN row
            ELSE [row EXCEPT ![d].status = "confirmed", ![d].block = h]
  /\ lastId' = IF Absent(d) THEN lastId + 1 ELSE lastId
  /\ queue' = [queue EXCEPT ![d] = "none"]

\* (bug) the copy in the queue survives
ProcessedKeepsCopy(d) ==
  /\ row' = IF Absent(d) THEN Insert(d, "processed", 0) ELSE [row EXCEPT ![d].status = "processed"]
  /\ lastId' = IF Absent(d) THEN lastId + 1 ELSE lastId
  /\ queue' = queue

UpdateProcessedDeposit(d) ==
  /\ row' = IF Absent(d) THEN Insert(d, "processed", 0) ELSE [row EXCEPT ![d].status = "processed"]
  /\ lastId' = IF Absent(d) THEN lastId + 1 ELSE lastId
  /\ queue' = [queue EXCEPT ![d] = "none"]

\* the copies in the queue are saved over their rows, and stay there
UpdateConfirmedDepositsByBtcHeight(h) ==
  LET S == {d \in Deposit : queue[d] = "unconfirm" /\ InBlock(d, h)} IN
  /\ row' = [d \in Deposit |->
       IF d \in S THEN [status |-> "confirmed", block |-> h, id |-> row[d].id] ELSE row[d]]
  /\ queue' = [d \in Deposit |-> IF d \in S THEN "confirmed" ELSE queue[d]]

-----------------------------------------------------------------------------
(* Utxos and deposit results, under walletMu *)

Credited(d) == result[d] > 0

\* AddUtxo up to its last write: a deposit that layer 2 does not know yet is
\* saved as confirmed first
BeginAddUtxo(d, check) ==
  LET s == IF utxo[d] = "none" THEN "confirmed" ELSE utxo[d] IN
  /\ writing = NoWrite
  /\ \/ /\ s = "confirmed" /\ ~Credited(d) /\ TxOf(d) \notin BadSize
        /\ SaveConfirmDeposit(d, HeightOf(d))
        /\ writing' = [dep |-> d, status |-> s, check |-> check]
     \/ /\ s = "confirmed" /\ Credited(d)
        /\ writing' = [dep |-> d, status |-> "processed", check |-> check]
        /\ UNCHANGED <<row, lastId, queue>>
     \/ /\ s # "confirmed"
        /\ writing' = [dep |-> d, status |-> s, check |-> check]
        /\ UNCHANGED <<row, lastId, queue>>

\* a transaction of a bad size: AddUtxo returns before it writes anything
Refused(d) == TxOf(d) \in BadSize /\ utxo[d] \in {"none", "confirmed"} /\ ~Credited(d)

\* saveUtxo; the deposit loop then moves on from the row it checked
EndAddUtxo ==
  /\ writing # NoWrite
  /\ utxo' = [utxo EXCEPT ![writing.dep] = writing.status]
  /\ script' = script \cup {writing.dep}
  /\ cursor' = IF writing.check > 0 THEN writing.check ELSE cursor
  /\ writing' = NoWrite
  /\ UNCHANGED <<outside, rows, result, lastResult, needFetch, fetching, batch, scanned,
                 events, signing, faults>>

\* (bug) the utxo found before keeps its status
AddResultOnly(d) ==
  /\ result' = [result EXCEPT ![d] = IF Credited(d) THEN @ ELSE lastResult + 1]
  /\ lastResult' = IF Credited(d) THEN lastResult ELSE lastResult + 1
  /\ needFetch' = IF utxo[d] = "none" \/ d \notin script THEN needFetch \cup {d} ELSE needFetch \ {d}
  /\ UNCHANGED <<utxo, script>>

AddDepositResult(d) ==
  /\ utxo' = [utxo EXCEPT ![d] = IF @ = "confirmed" THEN "processed" ELSE @]
  /\ result' = [result EXCEPT ![d] = IF Credited(d) THEN @ ELSE lastResult + 1]
  /\ lastResult' = IF Credited(d) THEN lastResult ELSE lastResult + 1
  /\ needFetch' = IF utxo[d] = "none" \/ d \notin script THEN needFetch \cup {d} ELSE needFetch \ {d}
  /\ UNCHANGED script

-----------------------------------------------------------------------------
(* The deposit loop: unconfirmed deposits *)

Unconfirmed ==
  {d \in Deposit : row[d].status = "unconfirm" /\ row[d].id > cursor /\ d \notin expired}

OldestOf(S, n) == {d \in S : Cardinality({e \in S : row[e].id < row[d].id}) < n}

\* the loop is not inside AddUtxo
LoopFree == writing.check = 0

\* (bug) the cursor never goes back to the first row
QueryWithoutReset ==
  /\ LoopFree /\ batch = {}
  /\ batch' = OldestOf(Unconfirmed, Batch)
  /\ UNCHANGED <<outside, rows, utxos, writing, fetching, cursor, scanned, events, signing, faults>>

QueryUnConfirmDeposit ==
  /\ LoopFree /\ batch = {}
  /\ batch' = OldestOf(Unconfirmed, Batch)
  /\ cursor' = IF Unconfirmed = {} THEN 0 ELSE cursor
  /\ UNCHANGED <<outside, rows, utxos, writing, fetching, scanned, events, signing, faults>>

\* the query reports an error
QueryFails ==
  /\ LoopFree /\ batch = {} /\ faults < MaxRestart
  /\ faults' = faults + 1
  /\ cursor' = 0
  /\ UNCHANGED <<outside, rows, utxos, writing, fetching, batch, scanned, events, signing>>

\* the next row of the batch, as it was when the batch was read
Checking(d) == LoopFree /\ d \in OldestOf(batch, 1) /\ batch' = batch \ {d}

\* the node reports an error: the cursor stays where it is
CheckFails(d) ==
  /\ Checking(d)
  /\ UNCHANGED <<outside, rows, utxos, writing, fetching, cursor, scanned, events, signing, faults>>

\* too few confirmations, not of version 0, or refused
CheckSkips(d) ==
  /\ Checking(d)
  /\ ~Unknown(d)
  /\ ~Mined(d) \/ d \notin V0 \/ Refused(FirstOf(d))
  /\ cursor' = row[d].id
  /\ UNCHANGED <<outside, rows, utxos, writing, fetching, scanned, events, signing, faults>>

CheckConfirms(d) ==
  /\ Checking(d)
  /\ Mined(d) /\ d \in V0 /\ ~Refused(FirstOf(d))
  /\ BeginAddUtxo(FirstOf(d), row[d].id)
  /\ UNCHANGED <<outside, expired, utxos, fetching, cursor, scanned, events, signing, faults>>

\* the block processor finds d in the block it scans; after a restart it may
\* scan the block again
Scan(d) ==
  /\ d \in V1 \ scanned /\ Mined(d) /\ ~Refused(d)
  /\ BeginAddUtxo(d, 0)
  /\ scanned' = scanned \cup {d}
  /\ UNCHANGED <<outside, expired, utxos, fetching, cursor, batch, events, signing, faults>>

-----------------------------------------------------------------------------
(* The layer 2 listener.  Block hashes and mints come in the order layer 2   *)
(* emitted them: a mint after the hash of its block.                         *)

\* processNewBtcBlockHash: UpdateProcessedBtcBlock
BeginBlockHash ==
  /\ half = NoDeposit /\ seen < hashes
  /\ half' = BlockHash
  /\ latest' = seen + 1
  /\ UNCHANGED <<outside, rows, utxos, writing, fetching, checking, seen, handled, signing,
                 faults>>

\* and once the node gave the block's transactions
EndBlockHash ==
  /\ half = BlockHash
  /\ half' = NoDeposit
  /\ seen' = seen + 1
  /\ UpdateConfirmedDepositsByBtcHeight(seen + 1)
  /\ UNCHANGED <<outside, lastId, expired, utxos, writing, fetching, checking, latest,
                 handled, signing, faults>>

\* processNewDeposit
BeginNewDeposit(d) ==
  /\ half = NoDeposit /\ d \in minted \ handled /\ HeightOf(d) <= seen
  /\ half' = d
  /\ UpdateProcessedDeposit(d)
  /\ UNCHANGED <<outside, expired, utxos, writing, fetching, checking, latest, seen,
                 handled, signing, faults>>

EndNewDeposit(d) ==
  /\ half = d /\ writing = NoWrite
  /\ half' = NoDeposit
  /\ handled' = handled \cup {d}
  /\ AddDepositResult(d)
  /\ UNCHANGED <<outside, rows, writing, fetching, checking, latest, seen, signing, faults>>

\* a later step of the same layer 2 block fails: the listener starts the block again
HandleAgain ==
  /\ faults < MaxReplay
  /\ faults' = faults + 1
  /\ half' = NoDeposit
  /\ \/ /\ half = BlockHash
        /\ UpdateConfirmedDepositsByBtcHeight(seen + 1)
        /\ UNCHANGED utxos
     \/ /\ half = BlockHash
        /\ UNCHANGED <<row, queue, utxos>>
     \/ /\ half \in Deposit /\ writing = NoWrite
        /\ AddDepositResult(half)
        /\ UNCHANGED <<row, queue>>
     \/ /\ half \in Deposit
        /\ UNCHANGED <<row, queue, utxos>>
  /\ UNCHANGED <<outside, lastId, expired, writing, fetching, checking, latest, seen, handled,
                 signing>>

-----------------------------------------------------------------------------
(* The notifier: one deposit result that needs its sub script, the oldest    *)

\* (bug) the youngest
NewestFetch(d) == d \in needFetch /\ \A e \in needFetch : result[d] >= result[e]

NextFetch(d) == d \in needFetch /\ \A e \in needFetch : result[d] <= result[e]

\* UpdateUtxoSubScript, on a utxo that has a row; otherwise handleP2WSHDeposit,
\* which knows the first output with the address only
FetchSubScript(d) ==
  /\ fetching = NoDeposit /\ writing = NoWrite
  /\ NextFetch(d) /\ ~Unknown(d)
  /\ \/ /\ utxo[d] # "none"
        /\ script' = script \cup {d}
        /\ needFetch' = needFetch \ {d}
        /\ UNCHANGED fetching
     \/ /\ utxo[d] = "none" /\ d \in V0 /\ FirstOf(d) = d
        /\ fetching' = d
        /\ UNCHANGED <<script, needFetch>>
  /\ UNCHANGED <<outside, rows, utxo, result, lastResult, writing, checking, events,
                 signing, faults>>

\* AddUtxo once more, of a row without a script
HandleP2WSHDeposit ==
  /\ fetching # NoDeposit /\ writing = NoWrite
  /\ utxo' = [utxo EXCEPT ![fetching] = IF @ \in {"none", "confirmed"} THEN "processed" ELSE @]
  /\ script' = script \ {fetching}
  /\ fetching' = NoDeposit
  /\ UNCHANGED <<outside, rows, result, lastResult, needFetch, writing, checking, events,
                 signing, faults>>

-----------------------------------------------------------------------------
(* Submissions: the deposit loop as proposer, and the signer *)

\* deposits whose proof verifies, of the oldest ones layer 2 knows the block of
Provable(d) ==
  LET proof == SpvProof(TxOf(d), chain[row[d].block]) IN
  /\ row[d].block \in DOMAIN chain /\ InBlock(d, row[d].block)
  /\ Verifies(TxOf(d), proof.root, proof.index, proof.path)

GetDepositForSign ==
  OldestOf({d \in Deposit : row[d].status = "confirmed" /\ row[d].block <= latest}, SignBatch)

InitDepositSig ==
  /\ LoopFree /\ isProposer /\ ~status /\ ~cooling
  /\ Len(sigStart) + Len(feedback) < MaxRequest
  /\ \E d \in GetDepositForSign : Provable(d)
  /\ sigStart' = Append(sigStart, {d \in GetDepositForSign : Provable(d)})
  /\ status' = TRUE
  /\ UNCHANGED <<outside, rows, utxos, writing, fetching, checking, events, cooling,
                 feedback, faults>>

\* (bug) the role is looked at after the status
VoterReturnsFirst ==
  /\ LoopFree /\ ~isProposer /\ ~status
  /\ UNCHANGED <<outside, rows, utxos, writing, fetching, checking, events, status, cooling,
                 sigStart, feedback, faults>>

\* a relayer that is proposer no more forgets its submission
VoterForgets ==
  /\ LoopFree /\ ~isProposer /\ status
  /\ status' = FALSE
  /\ UNCHANGED <<outside, rows, utxos, writing, fetching, checking, events, cooling,
                 sigStart, feedback, faults>>

\* handleSigStartNewDeposit returns an error and publishes nothing when layer 2
\* is catching up or this relayer is not the proposer
RefuseSubmission ==
  /\ sigStart # <<>>
  /\ sigStart' = Tail(sigStart)
  /\ UNCHANGED <<outside, rows, utxos, writing, fetching, checking, events, status,
                 cooling, feedback, faults>>

\* layer 2 takes all deposits of a message or none
Submit ==
  /\ sigStart # <<>> /\ isProposer
  /\ sigStart' = Tail(sigStart)
  /\ \/ /\ \A d \in Head(sigStart) : d \notin minted /\ TxOf(d) \notin BadSize
        /\ minted' = minted \cup Head(sigStart)
        /\ feedback' = Append(feedback, "finish")
     \/ /\ feedback' = Append(feedback, "failed")
        /\ UNCHANGED minted
  /\ UNCHANGED <<chain, tip, hashes, isProposer, rows, utxos, writing, fetching, checking,
                 events, status, cooling, faults>>

\* handleDepositSigFailed, handleDepositSigFinish: whichever request it answers
HandleFeedback ==
  /\ LoopFree /\ feedback # <<>>
  /\ feedback' = Tail(feedback)
  /\ status' = FALSE
  /\ cooling' = (cooling \/ (status /\ Head(feedback) = "finish"))
  /\ UNCHANGED <<outside, rows, utxos, writing, fetching, checking, events, sigStart, faults>>

TwoBlocks ==
  /\ cooling
  /\ cooling' = FALSE
  /\ UNCHANGED <<outside, rows, utxos, writing, fetching, checking, events, status,
                 sigStart, feedback, faults>>

-----------------------------------------------------------------------------
\* a crash anywhere; the queue is loaded from the rows
Restart ==
  /\ faults < MaxRestart
  /\ faults' = faults + 1
  /\ queue' = [d \in Deposit |->
       IF row[d].status \in {"unconfirm", "confirmed"} THEN row[d].status ELSE "none"]
  /\ writing' = NoWrite /\ fetching' = NoDeposit
  /\ cursor' = 0 /\ batch' = {} /\ scanned' = {}
  /\ half' = NoDeposit
  /\ status' = FALSE /\ cooling' = FALSE
  /\ sigStart' = <<>> /\ feedback' = <<>>
  /\ UNCHANGED <<outside, row, lastId, expired, utxos, latest, seen, handled>>

Init ==
  /\ chain \in Chains
  /\ tip = 0 /\ hashes = 0 /\ minted = {} /\ isProposer = FALSE
  /\ row = [d \in Deposit |-> [status |-> "none", block |-> 0, id |-> 0]]
  /\ lastId = 0 /\ expired = {}
  /\ queue = [d \in Deposit |-> "none"]
  /\ utxo = [d \in Deposit |-> "none"]
  /\ script = {} /\ needFetch = {}
  /\ result = [d \in Deposit |-> 0] /\ lastResult = 0
  /\ writing = NoWrite /\ fetching = NoDeposit
  /\ cursor = 0 /\ batch = {} /\ scanned = {}
  /\ latest = 0 /\ seen = 0 /\ handled = {} /\ half = NoDeposit
  /\ status = FALSE /\ cooling = FALSE
  /\ sigStart = <<>> /\ feedback = <<>>
  /\ faults = 0

Environment ==
  Confirmations \/ AcceptHash \/ Elect \/ \E d \in Deposit : MintByOther(d) \/ Age(d)
DepositLoop ==
  \/ \E d \in Deposit : 
       NewTransaction(d) \/ ReceiveDeposit(d) \/ CheckFails(d) \/ CheckSkips(d) \/ CheckConfirms(d)
  \/ QueryUnConfirmDeposit \/ QueryFails \/ InitDepositSig \/ VoterForgets \/ HandleFeedback
Listener ==
  \/ BeginBlockHash \/ EndBlockHash \/ HandleAgain
  \/ \E d \in Deposit : BeginNewDeposit(d) \/ EndNewDeposit(d)
Notifier == HandleP2WSHDeposit \/ \E d \in Deposit : FetchSubScript(d)

Next ==
  \/ Environment \/ DepositLoop \/ Listener \/ Notifier
  \/ EndAddUtxo \/ \E d \in Deposit : Scan(d)
  \/ RefuseSubmission \/ Submit \/ TwoBlocks
  \/ Restart
Spec == Init /\ [][Next]_vars

\* Every goroutine keeps running, a mutex is handed over in turn (strong
\* fairness of the steps that wait for one), the node's errors about a
\* transaction it knows pass, and so do 72 hours.
Fairness ==
  /\ WF_vars(QueryUnConfirmDeposit \/ \E d \in Deposit : CheckFails(d))
  /\ \A d \in Deposit : SF_vars(CheckSkips(d) \/ CheckConfirms(d))
  /\ WF_vars(EndAddUtxo) /\ SF_vars(\E d \in Deposit : Scan(d))
  /\ WF_vars(BeginBlockHash \/ EndBlockHash \/ \E d \in Deposit : BeginNewDeposit(d))
  /\ SF_vars(\E d \in Deposit : EndNewDeposit(d))
  /\ SF_vars(HandleP2WSHDeposit \/ \E d \in Deposit : FetchSubScript(d))
  /\ WF_vars(\E d \in Deposit : Age(d))

FairSpec == Spec /\ Fairness

\* the deposit loop alone, whose ticker comes back after every event
LoopSpec == Spec /\ WF_vars(EndAddUtxo) /\ WF_vars(VoterForgets)

-----------------------------------------------------------------------------
(* Properties *)

(* The rows of deposits, results and utxos hold the values their columns   *)
(* allow; a deposit leaves the queue once it is processed.                 *)
TypeOK ==
  /\ row \in [Deposit -> [status : DepositStatus \cup {"none"}, block : Nat, id : Nat]]
  /\ lastId \in Nat /\ cursor \in Nat /\ tip \in Nat /\ seen \in Nat
  /\ queue \in [Deposit -> {"none", "unconfirm", "confirmed"}]
  /\ utxo \in [Deposit -> {"none", "confirmed", "processed"}]
  /\ result \in [Deposit -> Nat] /\ lastResult \in Nat
  /\ script \subseteq Deposit /\ needFetch \subseteq Deposit /\ scanned \subseteq Deposit
  /\ writing = NoWrite
     \/ writing \in [dep : Deposit, status : {"confirmed", "processed"}, check : Nat]
  /\ fetching \in Deposit \cup {NoDeposit}
  /\ half \in Deposit \cup {NoDeposit, BlockHash}

(* UnconfirmQueue is a cache that a block hash saves over the table: its   *)
(* copies are never staler than their rows, and no unconfirmed row is      *)
(* missing from it, whichever of the four goroutines wrote last.           *)
QueueMatchesTable ==
  \A d \in Deposit :
    /\ queue[d] # "none" => row[d].status = queue[d]
    /\ row[d].status = "unconfirm" => queue[d] = "unconfirm"

(* A deposit confirmed by any of the three ways (its own check, the scan,  *)
(* the block hash event) names a block from which GenerateSPVProof builds  *)
(* a merkle proof that verifies: it can be submitted.                      *)
ConfirmedProvable == \A d \in Deposit : row[d].status = "confirmed" => Provable(d)

(* Once layer 2 minted a deposit its utxo is never taken for one that      *)
(* waits for the mint, although AddUtxo and AddDepositResult each read     *)
(* what the other writes.                                                  *)
CreditedProcessed == \A d \in Deposit : Credited(d) => utxo[d] # "confirmed"

(* No check, scan, block hash or replay takes a minted deposit back, or    *)
(* changes its row: it would be submitted to layer 2 once more.            *)
ProcessedIsFinal == [][\A d \in Deposit : row[d].status = "processed" => row'[d] = row[d]]_vars

\* the check of d looks for the first output to the user, and skips a bad size
Checkable(d) == FirstOf(d) = d /\ TxOf(d) \notin BadSize

\* layer 2 has the block of d, and this relayer has yet to handle its hash
HashAhead(d) == HeightOf(d) \in seen + 1 .. hashes

(* A deposit to a user's address that bitcoin confirms does not stay       *)
(* unconfirmed, although the node fails to answer at first or holds up the *)
(* check with a deposit it does not know.  Its own check confirms it, or,  *)
(* when it is registered in time, the hash of its block; a second output   *)
(* to the user and a transaction of a bad size have only the hash.         *)
ConfirmedEventually ==
  \A d \in V0 :
    (row[d].status = "unconfirm" /\ Mined(d) /\ (Checkable(d) \/ HashAhead(d)))
      ~> (row[d].status # "unconfirm" \/ d \in expired)

\* handleP2WSHDeposit finds no first output of the user in it, or the node
\* does not know the transaction: it stays the oldest result to fetch
Unfinishable(d) ==
  Unknown(d) \/ (utxo[d] = "none" /\ d \in V0 /\ FirstOf(d) # d)
Blocked(d) == \E e \in needFetch : Unfinishable(e) /\ result[e] <= result[d]

(* What layer 2 minted becomes a utxo with the script needed to spend it,  *)
(* although this relayer may never have heard of the deposit, unless it is *)
(* a result the notifier can never finish or is younger than such a one:   *)
(* the notifier takes them one by one, and a younger one holds up nothing. *)
FetchedEventually ==
  <>[](\A d \in Deposit : Credited(d) => d \in script \/ Blocked(d))

(* A relayer that is proposer no longer gives up the submission it waits   *)
(* for: it can submit when its turn comes again.                           *)
FlagReleased == (<>[]~isProposer) => <>[]~status

\* the deposits as WalletState sees them: no orders, utxos and deposit results
Wallet == INSTANCE WalletState WITH
  Tx <- {}, NoTx <- NoDeposit, Utxo <- Deposit, Withdraw <- {}, Task <- {},
  Ins <- <<>>, Outs <- <<>>, Pays <- <<>>, Secures <- <<>>, MaxOrder <- 0,
  lastOrder <- 0, order <- <<>>, vin <- <<>>, vout <- <<>>, withdraw <- <<>>, task <- <<>>,
  depositResult <- {d \in Deposit : Credited(d)}

(* AddUtxo in two writes, the notifier's lookup and the replayed mints     *)
(* together do to utxos and deposit results what the atomic AddUtxo and    *)
(* AddDepositResult of WalletState allow.                                  *)
ImplementsWallet == Wallet!Spec
=============================================================================
