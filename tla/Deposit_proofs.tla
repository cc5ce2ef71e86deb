--------------------------- MODULE Deposit_proofs ---------------------------
(***************************************************************************)
(* Theorems about Deposit, for every set of transactions and every chain.  *)
(***************************************************************************)
EXTENDS Deposit, Merkle_proofs, WellFoundedInduction, TLAPS

DepositRows ==
  [Deposit -> [status : DepositStatus \cup {"none"}, block : Nat, id : Nat]]
Copies == [Deposit -> {"none", "unconfirm", "confirmed"}]

-----------------------------------------------------------------------------
(* What the writers of the deposit rows leave behind. *)

LEMMA HeightIsNat ==
  ASSUME TypeOK, NEW d
  PROVE  HeightOf(d) \in Nat
<1>1. CASE \E h \in 1 .. tip : InBlock(d, h)
  <2>1. HeightOf(d) \in 1 .. tip BY <1>1 DEF HeightOf
  <2> QED BY <2>1 DEF TypeOK
<1>2. CASE ~ \E h \in 1 .. tip : InBlock(d, h)
  BY <1>2 DEF HeightOf
<1> QED BY <1>1, <1>2

LEMMA AddUnconfirmType ==
  ASSUME TypeOK, NEW d \in Deposit, AddUnconfirmDeposit(d)
  PROVE  row' \in DepositRows /\ lastId' \in Nat /\ queue' \in Copies
BY DEF TypeOK, AddUnconfirmDeposit, Insert, DepositRows, Copies, DepositStatus

LEMMA SaveConfirmType ==
  ASSUME TypeOK, NEW d \in Deposit, NEW h \in Nat, SaveConfirmDeposit(d, h)
  PROVE  row' \in DepositRows /\ lastId' \in Nat /\ queue' \in Copies
<1>1. lastId' \in Nat /\ queue' \in Copies
  BY DEF TypeOK, SaveConfirmDeposit, Copies
<1>2. CASE Absent(d)
  BY <1>1, <1>2 DEF TypeOK, SaveConfirmDeposit, Insert, DepositRows, DepositStatus
<1>3. CASE ~ Absent(d)
  <2>1. [row EXCEPT ![d].status = "confirmed"] \in DepositRows
    BY DEF TypeOK, DepositRows, DepositStatus
  <2>2. [row EXCEPT ![d].status = "confirmed", ![d].block = h] \in DepositRows
    BY ZenonT(60), <2>1 DEF DepositRows
  <2> QED BY <1>1, <1>3, <2>2 DEF TypeOK, SaveConfirmDeposit, DepositRows
<1> QED BY <1>2, <1>3

LEMMA ProcessedType ==
  ASSUME TypeOK, NEW d \in Deposit, UpdateProcessedDeposit(d)
  PROVE  row' \in DepositRows /\ lastId' \in Nat /\ queue' \in Copies
BY DEF TypeOK, UpdateProcessedDeposit, Insert, DepositRows, Copies, DepositStatus

LEMMA BlockType ==
  ASSUME TypeOK, NEW h \in Nat, UpdateConfirmedDepositsByBtcHeight(h)
  PROVE  row' \in DepositRows /\ queue' \in Copies
BY DEF TypeOK, UpdateConfirmedDepositsByBtcHeight, DepositRows, Copies, DepositStatus

LEMMA ResultType ==
  ASSUME TypeOK, NEW d \in Deposit, AddDepositResult(d)
  PROVE  /\ utxo' \in [Deposit -> {"none", "confirmed", "processed"}]
         /\ result' \in [Deposit -> Nat] /\ lastResult' \in Nat
         /\ script' \subseteq Deposit /\ needFetch' \subseteq Deposit
BY DEF TypeOK, AddDepositResult

\* what AddUtxo is about to save, or writes first
LEMMA BeginCases ==
  ASSUME TypeOK, NEW d \in Deposit, NEW c \in Nat, BeginAddUtxo(d, c)
  PROVE  /\ writing = NoWrite
         /\ writing' \in [dep : Deposit, status : {"confirmed", "processed"}, check : Nat]
         /\ \/ SaveConfirmDeposit(d, HeightOf(d))
            \/ UNCHANGED <<row, lastId, queue>>
BY DEF TypeOK, BeginAddUtxo

LEMMA BeginType ==
  ASSUME TypeOK, NEW d \in Deposit, NEW c \in Nat, BeginAddUtxo(d, c)
  PROVE  /\ writing' \in [dep : Deposit, status : {"confirmed", "processed"}, check : Nat]
         /\ row' \in DepositRows /\ lastId' \in Nat /\ queue' \in Copies
<1>1. UNCHANGED <<row, lastId, queue>> \/ SaveConfirmDeposit(d, HeightOf(d))
  BY BeginCases
<1>2. CASE UNCHANGED <<row, lastId, queue>>
  BY <1>2, BeginCases DEF TypeOK, DepositRows, Copies
<1>3. CASE SaveConfirmDeposit(d, HeightOf(d))
  BY <1>3, BeginCases, HeightIsNat, SaveConfirmType
<1> QED BY <1>1, <1>2, <1>3

LEMMA FirstIsDeposit ==
  ASSUME NEW d \in V0
  PROVE  FirstOf(d) \in Deposit
<1> DEFINE S == V0Outputs(TxOf(d), UserOf(d))
<1>1. PICK t \in Txid : d \in {t} \X DOMAIN Outputs[t]
  BY DEF V0, Outpoint
<1>2. Outputs[t] \in Seq(User \cup {Group, Data})
  BY DepositAssumption
<1>3. /\ TxOf(d) = t /\ d[2] \in DOMAIN Outputs[t]
      /\ UserOf(d) = Outputs[t][d[2]] /\ UserOf(d) \in User
  BY <1>1 DEF TxOf, UserOf, V0
<1>4. d[2] \in S /\ S \subseteq Nat /\ S \subseteq DOMAIN Outputs[t]
  BY <1>2, <1>3 DEF V0Outputs
<1>5. \E i \in S : \A j \in S : i <= j
  <2> DEFINE R == OpToRel(<, Nat)
  <2>1. PICK i \in S : \A j \in S : <<j, i>> \notin R
    <3> HIDE DEF R, S
    <3>1. IsWellFoundedOn(R, Nat) BY NatLessThanWellFounded DEF R
    <3> QED BY <1>4, <3>1, WFMin
  <2>2. \A j \in S : ~ (j < i)
    <3> HIDE DEF S
    <3> QED BY <1>4, <2>1 DEF OpToRel
  <2> HIDE DEF S
  <2> QED BY <1>4, <2>2
<1>6. PICK i \in S : FirstOf(d) = <<t, i>>
  BY <1>3, <1>5 DEF FirstOf, TxOf
<1>7. Outputs[t][i] \in User /\ i \in DOMAIN Outputs[t]
  BY <1>3, <1>6 DEF V0Outputs
<1> QED BY <1>6, <1>7 DEF Deposit, V0, Outpoint
-----------------------------------------------------------------------------
(* The type invariant, action by action. *)

LEMMA TypeStep == TypeOK /\ [Next]_vars => TypeOK'
<1> SUFFICES ASSUME TypeOK, [Next]_vars PROVE TypeOK'
  OBVIOUS
<1> USE DEF outside, rows, utxos, checking, events, signing
<1>1. CASE Confirmations BY <1>1 DEF TypeOK, Confirmations
<1>2. CASE AcceptHash BY <1>2 DEF TypeOK, AcceptHash
<1>3. CASE Elect BY <1>3 DEF TypeOK, Elect
<1>4. ASSUME NEW d \in Deposit, MintByOther(d) PROVE TypeOK'
  BY <1>4 DEF TypeOK, MintByOther
<1>5. ASSUME NEW d \in Deposit, Age(d) PROVE TypeOK'
  BY <1>5 DEF TypeOK, Age
<1>6. ASSUME NEW d \in Deposit, NewTransaction(d) \/ ReceiveDeposit(d) PROVE TypeOK'
  <2>1. AddUnconfirmDeposit(d) BY <1>6 DEF NewTransaction, ReceiveDeposit
  <2>2. /\ row' \in DepositRows /\ lastId' \in Nat /\ queue' \in Copies
        /\ UNCHANGED <<outside, utxos, writing, fetching, checking, events>>
    BY <1>6, <2>1, AddUnconfirmType DEF NewTransaction, ReceiveDeposit
  <2> QED BY <2>2 DEF TypeOK, DepositRows, Copies
<1>7. ASSUME NEW d \in Deposit, CheckFails(d) PROVE TypeOK'
  BY <1>7 DEF TypeOK, CheckFails
<1>8. ASSUME NEW d \in Deposit, CheckSkips(d) PROVE TypeOK'
  BY <1>8 DEF TypeOK, CheckSkips
<1>9. ASSUME NEW d \in Deposit, CheckConfirms(d) PROVE TypeOK'
  <2>1. /\ BeginAddUtxo(FirstOf(d), row[d].id) /\ d \in V0
        /\ UNCHANGED <<outside, utxos, fetching, cursor, scanned, events>>
    BY <1>9 DEF CheckConfirms
  <2>2. FirstOf(d) \in Deposit /\ row[d].id \in Nat
    BY <2>1, FirstIsDeposit DEF TypeOK
  <2>3. /\ writing' \in [dep : Deposit, status : {"confirmed", "processed"}, check : Nat]
        /\ row' \in DepositRows /\ lastId' \in Nat /\ queue' \in Copies
    BY <2>1, <2>2, BeginType
  <2> QED BY <2>1, <2>3 DEF TypeOK, DepositRows, Copies
<1>10. ASSUME NEW d \in Deposit, Scan(d) PROVE TypeOK'
  <2>1. /\ BeginAddUtxo(d, 0)
        /\ UNCHANGED <<outside, utxos, fetching, cursor, batch, events>>
        /\ scanned' = scanned \cup {d}
    BY <1>10 DEF Scan
  <2>2. /\ writing' \in [dep : Deposit, status : {"confirmed", "processed"}, check : Nat]
        /\ row' \in DepositRows /\ lastId' \in Nat /\ queue' \in Copies
    BY <2>1, BeginType
  <2> QED BY <2>1, <2>2 DEF TypeOK, DepositRows, Copies
<1>11. CASE QueryUnConfirmDeposit \/ QueryFails
  BY <1>11 DEF TypeOK, QueryUnConfirmDeposit, QueryFails
<1>12. CASE InitDepositSig \/ VoterForgets \/ HandleFeedback
  BY <1>12 DEF TypeOK, InitDepositSig, VoterForgets, HandleFeedback
<1>13. CASE BeginBlockHash BY <1>13 DEF TypeOK, BeginBlockHash
<1>14. CASE EndBlockHash
  <2>1. /\ UpdateConfirmedDepositsByBtcHeight(seen + 1) /\ seen' = seen + 1
        /\ half' = NoDeposit
        /\ UNCHANGED <<outside, lastId, expired, utxos, writing, fetching, checking>>
    BY <1>14 DEF EndBlockHash
  <2>2. row' \in DepositRows /\ queue' \in Copies
    BY <2>1, BlockType DEF TypeOK
  <2> QED BY <2>1, <2>2 DEF TypeOK, DepositRows, Copies
<1>15. ASSUME NEW d \in Deposit, BeginNewDeposit(d) PROVE TypeOK'
  <2>1. /\ UpdateProcessedDeposit(d) /\ half' = d
        /\ UNCHANGED <<outside, expired, utxos, writing, fetching, checking, latest, seen>>
    BY <1>15 DEF BeginNewDeposit
  <2> QED BY <2>1, ProcessedType DEF TypeOK, DepositRows, Copies
<1>16. ASSUME NEW d \in Deposit, EndNewDeposit(d) PROVE TypeOK'
  <2>1. /\ AddDepositResult(d) /\ half' = NoDeposit
        /\ UNCHANGED <<outside, rows, writing, fetching, checking, latest, seen>>
    BY <1>16 DEF EndNewDeposit
  <2> QED BY <2>1, ResultType DEF TypeOK
<1>17. CASE HandleAgain
  <2>1. /\ half' = NoDeposit
        /\ UNCHANGED <<outside, lastId, expired, writing, fetching, checking, latest, seen>>
    BY <1>17 DEF HandleAgain
  <2>2. CASE UpdateConfirmedDepositsByBtcHeight(seen + 1) /\ UNCHANGED utxos
    BY <2>1, <2>2, BlockType DEF TypeOK, DepositRows, Copies
  <2>3. CASE UNCHANGED <<row, queue, utxos>>
    BY <2>1, <2>3 DEF TypeOK
  <2>4. CASE half \in Deposit /\ AddDepositResult(half) /\ UNCHANGED <<row, queue>>
    BY <2>1, <2>4, ResultType DEF TypeOK
  <2> QED BY <1>17, <2>2, <2>3, <2>4 DEF HandleAgain
<1>18. ASSUME NEW d \in Deposit, FetchSubScript(d) PROVE TypeOK'
  BY <1>18 DEF TypeOK, FetchSubScript
<1>19. CASE HandleP2WSHDeposit
  BY <1>19 DEF TypeOK, HandleP2WSHDeposit
<1>20. CASE EndAddUtxo
  <2>1. writing \in [dep : Deposit, status : {"confirmed", "processed"}, check : Nat]
    BY <1>20 DEF TypeOK, EndAddUtxo
  <2> QED BY <1>20, <2>1 DEF TypeOK, EndAddUtxo
<1>21. CASE RefuseSubmission \/ Submit \/ TwoBlocks
  BY <1>21 DEF TypeOK, RefuseSubmission, Submit, TwoBlocks
<1>22. CASE Restart
  <2>1. queue' \in Copies BY <1>22 DEF TypeOK, Restart, Copies
  <2> QED BY <1>22, <2>1 DEF TypeOK, Restart, Copies
<1>23. CASE UNCHANGED vars BY <1>23 DEF TypeOK, vars
<1> QED
  BY <1>1, <1>2, <1>3, <1>4, <1>5, <1>6, <1>7, <1>8, <1>9, <1>10, <1>11, <1>12, <1>13,
     <1>14, <1>15, <1>16, <1>17, <1>18, <1>19, <1>20, <1>21, <1>22, <1>23
  DEF Next, Environment, DepositLoop, Listener, Notifier

LEMMA InitType == Init => TypeOK
BY DEF Init, TypeOK, DepositStatus

(* The rows of deposits, results and utxos keep their types, whatever the    *)
(* order in which the four goroutines write them.                            *)
THEOREM TypeCorrect == Spec => []TypeOK
BY InitType, TypeStep, PTL DEF Spec
-----------------------------------------------------------------------------
(* Who writes the deposit rows: everything else is a step of nobody here.    *)

\* a step that saves deposit rows does it through one of five writers
RowStep ==
  \/ \E d \in Deposit : AddUnconfirmDeposit(d)
  \/ \E d \in Deposit : Mined(d) /\ SaveConfirmDeposit(d, HeightOf(d))
  \/ \E d \in Deposit : UpdateProcessedDeposit(d)
  \/ half = BlockHash /\ UpdateConfirmedDepositsByBtcHeight(seen + 1)
  \/ row' = row /\ queue' = [d \in Deposit |->
       IF row[d].status \in {"unconfirm", "confirmed"} THEN row[d].status ELSE "none"]
  \/ UNCHANGED <<row, queue>>

LEMMA RowCases == TypeOK /\ [Next]_vars => RowStep
<1> SUFFICES ASSUME TypeOK, [Next]_vars PROVE RowStep
  OBVIOUS
<1> USE DEF rows
<1>1. CASE Environment
  BY <1>1 DEF Environment, Confirmations, AcceptHash, MintByOther, Elect, Age, RowStep
<1>2. ASSUME NEW d \in Deposit, NewTransaction(d) \/ ReceiveDeposit(d) PROVE RowStep
  BY <1>2 DEF NewTransaction, ReceiveDeposit, RowStep
<1>3. ASSUME NEW d \in Deposit, CheckFails(d) \/ CheckSkips(d) PROVE RowStep
  BY <1>3 DEF CheckFails, CheckSkips, RowStep
<1>4. ASSUME NEW d \in Deposit, CheckConfirms(d) PROVE RowStep
  <2>1. BeginAddUtxo(FirstOf(d), row[d].id) /\ FirstOf(d) \in Deposit /\ row[d].id \in Nat
    BY <1>4, FirstIsDeposit DEF CheckConfirms, TypeOK
  <2>2. Mined(d) /\ TxOf(FirstOf(d)) = TxOf(d)
    BY <1>4 DEF CheckConfirms, FirstOf, TxOf
  <2>3. Mined(FirstOf(d))
    BY <2>2 DEF Mined, HeightOf, InBlock
  <2> QED BY <2>1, <2>3, BeginCases DEF RowStep
<1>5. ASSUME NEW d \in Deposit, Scan(d) PROVE RowStep
  BY <1>5, BeginCases DEF Scan, RowStep
<1>6. CASE QueryUnConfirmDeposit \/ QueryFails \/ InitDepositSig \/ VoterForgets \/ HandleFeedback
  BY <1>6 DEF QueryUnConfirmDeposit, QueryFails, InitDepositSig, VoterForgets, HandleFeedback, RowStep
<1>7. CASE BeginBlockHash \/ EndBlockHash \/ HandleAgain
  BY <1>7 DEF BeginBlockHash, EndBlockHash, HandleAgain, RowStep
<1>8. ASSUME NEW d \in Deposit, BeginNewDeposit(d) \/ EndNewDeposit(d) PROVE RowStep
  BY <1>8 DEF BeginNewDeposit, EndNewDeposit, RowStep
<1>9. CASE Notifier
  BY <1>9 DEF Notifier, HandleP2WSHDeposit, FetchSubScript, RowStep
<1>10. CASE EndAddUtxo \/ RefuseSubmission \/ Submit \/ TwoBlocks
  BY <1>10 DEF EndAddUtxo, RefuseSubmission, Submit, TwoBlocks, RowStep
<1>11. CASE Restart
  BY <1>11 DEF Restart, RowStep
<1>12. CASE UNCHANGED vars
  BY <1>12 DEF vars, RowStep
<1> QED
  BY <1>1, <1>2, <1>3, <1>4, <1>5, <1>6, <1>7, <1>8, <1>9, <1>10, <1>11, <1>12
  DEF Next, DepositLoop, Listener

LEMMA QueueStep == TypeOK /\ QueueMatchesTable /\ RowStep => QueueMatchesTable'
<1> SUFFICES ASSUME TypeOK, QueueMatchesTable, RowStep, NEW e \in Deposit
             PROVE  /\ queue'[e] # "none" => row'[e].status = queue'[e]
                    /\ row'[e].status = "unconfirm" => queue'[e] = "unconfirm"
  BY DEF QueueMatchesTable
<1>1. ASSUME NEW d \in Deposit, AddUnconfirmDeposit(d)
      PROVE  /\ queue'[e] # "none" => row'[e].status = queue'[e]
             /\ row'[e].status = "unconfirm" => queue'[e] = "unconfirm"
  BY <1>1 DEF AddUnconfirmDeposit, Insert, TypeOK, QueueMatchesTable
<1>2. ASSUME NEW d \in Deposit, SaveConfirmDeposit(d, HeightOf(d))
      PROVE  /\ queue'[e] # "none" => row'[e].status = queue'[e]
             /\ row'[e].status = "unconfirm" => queue'[e] = "unconfirm"
  <2>1. CASE e # d
    BY <1>2, <2>1 DEF SaveConfirmDeposit, Insert, TypeOK, QueueMatchesTable
  <2>2. CASE e = d
    <3>1. queue'[e] = "none" BY <1>2, <2>2 DEF SaveConfirmDeposit, TypeOK
    <3>2. row'[e].status # "unconfirm"
      <4> DEFINE r1 == [row EXCEPT ![d].status = "confirmed"]
      <4>1. r1[d].status = "confirmed" /\ r1 \in DepositRows
        BY DEF TypeOK, DepositRows, DepositStatus
      <4>2. [r1 EXCEPT ![d].block = HeightOf(d)][d].status = "confirmed"
        BY <4>1 DEF DepositRows
      <4> QED BY <1>2, <2>2, <4>2 DEF SaveConfirmDeposit, Insert, TypeOK
    <3> QED BY <3>1, <3>2
  <2> QED BY <2>1, <2>2
<1>3. ASSUME NEW d \in Deposit, UpdateProcessedDeposit(d)
      PROVE  /\ queue'[e] # "none" => row'[e].status = queue'[e]
             /\ row'[e].status = "unconfirm" => queue'[e] = "unconfirm"
  BY <1>3 DEF UpdateProcessedDeposit, Insert, TypeOK, QueueMatchesTable
<1>4. CASE UpdateConfirmedDepositsByBtcHeight(seen + 1)
  BY <1>4 DEF UpdateConfirmedDepositsByBtcHeight, TypeOK, QueueMatchesTable
<1>5. CASE row' = row /\ queue' = [d \in Deposit |->
        IF row[d].status \in {"unconfirm", "confirmed"} THEN row[d].status ELSE "none"]
  BY <1>5 DEF TypeOK, QueueMatchesTable
<1>6. CASE UNCHANGED <<row, queue>>
  BY <1>6 DEF QueueMatchesTable
<1> QED BY <1>1, <1>2, <1>3, <1>4, <1>5, <1>6 DEF RowStep

(* The copy of a deposit in UnconfirmQueue is never staler than its row.     *)
THEOREM QueueFollowsTable == Spec => []QueueMatchesTable
<1>1. Init => QueueMatchesTable BY DEF Init, QueueMatchesTable
<1>2. TypeOK /\ QueueMatchesTable /\ [Next]_vars => QueueMatchesTable'
  BY RowCases, QueueStep
<1> QED BY <1>1, <1>2, TypeCorrect, PTL DEF Spec

-----------------------------------------------------------------------------
(* Confirmed rows name the block of their transaction.                       *)

\* layer 2 accepts confirmed blocks only, and the listener follows layer 2
Follows ==
  /\ chain \in Chains
  /\ tip \in Nat /\ hashes \in Nat /\ seen \in Nat
  /\ seen <= hashes /\ hashes <= tip /\ tip <= Len(chain)
  /\ half = BlockHash => seen < hashes

\* whichever way a deposit was confirmed, its row has the height of its block
Placed ==
  \A d \in Deposit : row[d].status = "confirmed" =>
    row[d].block \in DOMAIN chain /\ InBlock(d, row[d].block)

PlacedInv == TypeOK /\ Follows /\ Placed

LEMMA ChainLength ==
  ASSUME chain \in Chains
  PROVE  Len(chain) \in Nat /\ DOMAIN chain = 1 .. Len(chain)
BY ChainAssumption DEF IsSequence

LEMMA FollowsStep == TypeOK /\ Follows /\ [Next]_vars => Follows'
<1> SUFFICES ASSUME TypeOK, Follows, [Next]_vars PROVE Follows'
  OBVIOUS
<1> USE DEF outside, events
<1>1. Len(chain) \in Nat
  BY ChainLength DEF Follows
<1>2. CASE Confirmations BY <1>1, <1>2 DEF Follows, Confirmations
<1>3. CASE AcceptHash BY <1>1, <1>3 DEF Follows, AcceptHash
<1>4. CASE Elect \/ \E d \in Deposit : MintByOther(d) \/ Age(d)
  BY <1>4 DEF Follows, Elect, MintByOther, Age
<1>5. CASE DepositLoop
  BY <1>5 DEF DepositLoop, Follows, NewTransaction, ReceiveDeposit, CheckFails, CheckSkips,
    CheckConfirms, QueryUnConfirmDeposit, QueryFails, InitDepositSig, VoterForgets,
    HandleFeedback
<1>6. CASE BeginBlockHash BY <1>6 DEF Follows, BeginBlockHash
<1>7. CASE EndBlockHash
  BY <1>7, DepositAssumption DEF Follows, EndBlockHash
<1>8. CASE HandleAgain BY <1>8, DepositAssumption DEF Follows, HandleAgain
<1>9. ASSUME NEW d \in Deposit, BeginNewDeposit(d) \/ EndNewDeposit(d) PROVE Follows'
  <2>1. d # BlockHash /\ NoDeposit # BlockHash
    BY DepositAssumption
  <2>2. half' # BlockHash /\ UNCHANGED <<chain, tip, hashes, seen>>
    BY <1>9, <2>1 DEF BeginNewDeposit, EndNewDeposit
  <2> QED BY <2>2 DEF Follows
<1>10. CASE Notifier \/ EndAddUtxo \/ \E d \in Deposit : Scan(d)
  BY <1>10 DEF Notifier, HandleP2WSHDeposit, FetchSubScript, EndAddUtxo, Scan, Follows
<1>11. CASE RefuseSubmission \/ Submit \/ TwoBlocks
  BY <1>11 DEF RefuseSubmission, Submit, TwoBlocks, Follows
<1>12. CASE Restart BY <1>12, DepositAssumption DEF Restart, Follows
<1>13. CASE UNCHANGED vars BY <1>13 DEF vars, Follows
<1> QED
  BY <1>2, <1>3, <1>4, <1>5, <1>6, <1>7, <1>8, <1>9, <1>10, <1>11, <1>12, <1>13
  DEF Next, Environment, Listener

LEMMA ChainStays == [Next]_vars => chain' = chain
BY DEF Next, Environment, DepositLoop, Listener, Notifier, vars, outside,
  Confirmations, AcceptHash, Elect, MintByOther, Age, NewTransaction, ReceiveDeposit,
  CheckFails, CheckSkips, CheckConfirms, QueryUnConfirmDeposit, QueryFails, InitDepositSig,
  VoterForgets, HandleFeedback, BeginBlockHash, EndBlockHash, HandleAgain, BeginNewDeposit,
  EndNewDeposit, HandleP2WSHDeposit, FetchSubScript, EndAddUtxo, Scan, RefuseSubmission,
  Submit, TwoBlocks, Restart

LEMMA MinedHeight ==
  ASSUME TypeOK, Follows, NEW d, Mined(d)
  PROVE  HeightOf(d) \in DOMAIN chain /\ InBlock(d, HeightOf(d))
<1>1. PICK h \in 1 .. tip : InBlock(d, h)
  BY DEF Mined, HeightOf, InBlock
<1>2. HeightOf(d) = CHOOSE k \in 1 .. tip : InBlock(d, k)
  BY <1>1 DEF HeightOf, InBlock
<1>3. HeightOf(d) \in 1 .. tip /\ InBlock(d, HeightOf(d))
  BY <1>1, <1>2
<1> QED BY <1>3, ChainLength DEF Follows

LEMMA PlacedStep ==
  ASSUME PlacedInv, RowStep, chain' = chain
  PROVE  Placed'
<1> SUFFICES ASSUME NEW e \in Deposit, row'[e].status = "confirmed"
             PROVE  row'[e].block \in DOMAIN chain /\ InBlock(e, row'[e].block)
  BY DEF Placed, InBlock
<1>1. row[e].status = "confirmed" => row[e].block \in DOMAIN chain /\ InBlock(e, row[e].block)
  BY DEF PlacedInv, Placed
<1>2. ASSUME NEW d \in Deposit, AddUnconfirmDeposit(d)
      PROVE  row'[e] = row[e]
  BY <1>2 DEF AddUnconfirmDeposit, Insert, TypeOK, PlacedInv
<1>3. ASSUME NEW d \in Deposit, Mined(d), SaveConfirmDeposit(d, HeightOf(d))
      PROVE  row'[e] = row[e] \/ (d = e /\ row'[e].block = HeightOf(d))
  <2>1. HeightOf(d) \in Nat
    BY HeightIsNat DEF PlacedInv
  <2>2. CASE e # d
    <3>1. row' = row \/ \E r : row' = [row EXCEPT ![d] = r]
      <4>1. row' = row \/ row' = Insert(d, "confirmed", HeightOf(d))
            \/ row' = [row EXCEPT ![d].status = "confirmed", ![d].block = HeightOf(d)]
        BY <1>3 DEF SaveConfirmDeposit
      <4> QED BY <4>1 DEF Insert
    <3> QED BY <2>2, <3>1 DEF TypeOK, PlacedInv
  <2>3. CASE e = d
    <3>1. row \in DepositRows
      BY DEF TypeOK, PlacedInv, DepositRows
    <3>2. [row EXCEPT ![d].status = "confirmed", ![d].block = HeightOf(d)][d].block = HeightOf(d)
      <4> DEFINE r1 == [row EXCEPT ![d].status = "confirmed"]
      <4>1. r1 \in DepositRows
        BY <3>1 DEF DepositRows, DepositStatus
      <4> HIDE DEF r1
      <4>2. [r1 EXCEPT ![d].block = HeightOf(d)][d].block = HeightOf(d)
        BY <4>1, <2>1 DEF DepositRows
      <4> QED BY <4>2 DEF r1
    <3>3. row' = row \/ row' = [row EXCEPT ![d].status = "confirmed", ![d].block = HeightOf(d)]
          \/ row' = Insert(d, "confirmed", HeightOf(d))
      BY <1>3 DEF SaveConfirmDeposit
    <3>4. Insert(d, "confirmed", HeightOf(d))[d].block = HeightOf(d)
      BY <3>1 DEF Insert, DepositRows
    <3> QED BY <2>3, <3>2, <3>3, <3>4
  <2> QED BY <2>2, <2>3
<1>4. ASSUME NEW d \in Deposit, UpdateProcessedDeposit(d)
      PROVE  row'[e] = row[e]
  BY <1>4 DEF UpdateProcessedDeposit, Insert, TypeOK, PlacedInv
<1>5. CASE half = BlockHash /\ UpdateConfirmedDepositsByBtcHeight(seen + 1)
  <2>1. row'[e] = row[e] \/ (InBlock(e, seen + 1) /\ row'[e].block = seen + 1)
    BY <1>5 DEF UpdateConfirmedDepositsByBtcHeight, TypeOK, PlacedInv
  <2>2. seen + 1 \in DOMAIN chain
    BY <1>5, ChainLength DEF PlacedInv, Follows
  <2> QED BY <1>1, <2>1, <2>2
<1>6. CASE UNCHANGED row
  BY <1>1, <1>6
<1> QED
  BY <1>1, <1>2, <1>3, <1>4, <1>5, <1>6, MinedHeight DEF RowStep, PlacedInv

(* A confirmed deposit, whichever of the three ways it was confirmed, names  *)
(* a block from which its proof can be built, and the proof verifies.        *)
THEOREM ConfirmedIsProvable == Spec => []ConfirmedProvable
<1>1. Init => PlacedInv
  <2> SUFFICES ASSUME Init PROVE Follows /\ Placed
    BY InitType DEF PlacedInv
  <2>1. chain \in Chains /\ Len(chain) \in Nat
    BY ChainLength DEF Init
  <2> QED BY <2>1, DepositAssumption DEF Init, Follows, Placed
<1>2. PlacedInv /\ [Next]_vars => PlacedInv'
  BY TypeStep, FollowsStep, ChainStays, RowCases, PlacedStep DEF PlacedInv
<1>3. PlacedInv => ConfirmedProvable
  <2> SUFFICES ASSUME PlacedInv, NEW d \in Deposit, row[d].status = "confirmed"
               PROVE  Provable(d)
    BY DEF ConfirmedProvable
  <2> DEFINE block == chain[row[d].block]
  <2>1. row[d].block \in DOMAIN chain /\ InBlock(d, row[d].block) /\ chain \in Chains
    BY DEF PlacedInv, Placed, Follows
  <2>2. block \in Seq({block[i] : i \in DOMAIN block})
    BY <2>1, ChainAssumption DEF IsSequence
  <2>3. \E i \in DOMAIN block : block[i] = TxOf(d)
    BY <2>1 DEF InBlock
  <2> HIDE DEF block
  <2>4. LET proof == SpvProof(TxOf(d), block) IN
        Verifies(TxOf(d), proof.root, proof.index, proof.path)
    BY <2>2, <2>3, SpvProofVerifies
  <2> QED BY <2>1, <2>4 DEF Provable, block
<1> QED BY <1>1, <1>2, <1>3, PTL DEF Spec
-----------------------------------------------------------------------------

LEMMA FinalStep ==
  ASSUME TypeOK, QueueMatchesTable, RowStep, NEW e \in Deposit, row[e].status = "processed"
  PROVE  row'[e] = row[e]
<1>1. ASSUME NEW d \in Deposit, AddUnconfirmDeposit(d) PROVE row'[e] = row[e]
  BY <1>1 DEF AddUnconfirmDeposit, Absent, Insert, TypeOK
<1>2. ASSUME NEW d \in Deposit, SaveConfirmDeposit(d, HeightOf(d)) PROVE row'[e] = row[e]
  <2>1. CASE e # d BY <1>2, <2>1 DEF SaveConfirmDeposit, Insert, TypeOK
  <2>2. CASE e = d BY <1>2, <2>2 DEF SaveConfirmDeposit, Absent, TypeOK
  <2> QED BY <2>1, <2>2
<1>3. ASSUME NEW d \in Deposit, UpdateProcessedDeposit(d) PROVE row'[e] = row[e]
  BY <1>3 DEF UpdateProcessedDeposit, Absent, Insert, TypeOK
<1>4. CASE UpdateConfirmedDepositsByBtcHeight(seen + 1)
  BY <1>4 DEF UpdateConfirmedDepositsByBtcHeight, TypeOK, QueueMatchesTable
<1>5. CASE row' = row
  BY <1>5
<1> QED BY <1>1, <1>2, <1>3, <1>4, <1>5 DEF RowStep

(* No writer takes a minted deposit back: the block hash event, which saves  *)
(* queue copies over rows, finds no copy of one.                             *)
THEOREM ProcessedForever == Spec => ProcessedIsFinal
<1>1. TypeOK /\ QueueMatchesTable /\ [Next]_vars
      => [\A d \in Deposit : row[d].status = "processed" => row'[d] = row[d]]_vars
  BY RowCases, FinalStep
<1> QED BY <1>1, TypeCorrect, QueueFollowsTable, PTL DEF Spec, ProcessedIsFinal
-----------------------------------------------------------------------------
(* Utxos and deposit results: the refinement of WalletState.                 *)

\* the status AddUtxo gives d when nobody writes in between
Saved(d) ==
  IF utxo[d] \in {"none", "confirmed"}
  THEN IF Credited(d) THEN "processed" ELSE "confirmed" ELSE utxo[d]

(* walletMu keeps what AddUtxo read true until it writes, and the notifier    *)
(* looks for minted deposits only.                                           *)
WriteAgrees ==
  /\ writing # NoWrite => writing.status = Saved(writing.dep)
  /\ \A d \in needFetch : Credited(d)
  /\ fetching # NoDeposit => Credited(fetching)

WalletInv == TypeOK /\ WriteAgrees /\ CreditedProcessed

\* the steps of Deposit that write utxos or results, and those that do not
UtxoStep ==
  \/ EndAddUtxo
  \/ \E d \in Deposit : AddDepositResult(d) /\ writing = NoWrite /\ UNCHANGED <<writing, fetching>>
  \/ HandleP2WSHDeposit
  \/ \E d \in Deposit : FetchSubScript(d)
  \/ /\ UNCHANGED utxos /\ UNCHANGED fetching
     /\ \E d \in Deposit, c \in Nat : BeginAddUtxo(d, c)
  \/ UNCHANGED utxos /\ writing' = NoWrite /\ fetching' = NoDeposit
  \/ UNCHANGED <<utxos, writing, fetching>>

LEMMA UtxoCases == TypeOK /\ [Next]_vars => UtxoStep
<1> SUFFICES ASSUME TypeOK, [Next]_vars PROVE UtxoStep
  OBVIOUS
<1>1. CASE Environment
  BY <1>1 DEF Environment, Confirmations, AcceptHash, MintByOther, Elect, Age, UtxoStep
<1>2. ASSUME NEW d \in Deposit, NewTransaction(d) \/ ReceiveDeposit(d) PROVE UtxoStep
  BY <1>2 DEF NewTransaction, ReceiveDeposit, UtxoStep
<1>3. ASSUME NEW d \in Deposit, CheckFails(d) \/ CheckSkips(d) PROVE UtxoStep
  BY <1>3 DEF CheckFails, CheckSkips, UtxoStep
<1>4. ASSUME NEW d \in Deposit, CheckConfirms(d) PROVE UtxoStep
  <2>1. BeginAddUtxo(FirstOf(d), row[d].id) /\ FirstOf(d) \in Deposit /\ row[d].id \in Nat
    BY <1>4, FirstIsDeposit DEF CheckConfirms, TypeOK
  <2>2. UNCHANGED utxos /\ UNCHANGED fetching
    BY <1>4 DEF CheckConfirms
  <2> QED BY <2>1, <2>2 DEF UtxoStep
<1>5. ASSUME NEW d \in Deposit, Scan(d) PROVE UtxoStep
  <2>1. BeginAddUtxo(d, 0) /\ UNCHANGED utxos /\ UNCHANGED fetching /\ 0 \in Nat
    BY <1>5 DEF Scan
  <2> QED BY <2>1 DEF UtxoStep
<1>6. CASE QueryUnConfirmDeposit \/ QueryFails \/ InitDepositSig \/ VoterForgets \/ HandleFeedback
  BY <1>6 DEF QueryUnConfirmDeposit, QueryFails, InitDepositSig, VoterForgets, HandleFeedback, UtxoStep
<1>7. CASE BeginBlockHash \/ EndBlockHash
  BY <1>7 DEF BeginBlockHash, EndBlockHash, UtxoStep
<1>8. CASE HandleAgain
  <2>1. UNCHANGED <<writing, fetching>> BY <1>8 DEF HandleAgain
  <2>2. CASE UNCHANGED utxos BY <2>1, <2>2 DEF UtxoStep
  <2>3. CASE half \in Deposit /\ writing = NoWrite /\ AddDepositResult(half)
    BY <2>1, <2>3 DEF UtxoStep
  <2> QED BY <1>8, <2>2, <2>3 DEF HandleAgain
<1>9. ASSUME NEW d \in Deposit, BeginNewDeposit(d) PROVE UtxoStep
  BY <1>9 DEF BeginNewDeposit, UtxoStep
<1>10. ASSUME NEW d \in Deposit, EndNewDeposit(d) PROVE UtxoStep
  BY <1>10 DEF EndNewDeposit, UtxoStep
<1>11. CASE Notifier
  BY <1>11 DEF Notifier, UtxoStep
<1>12. CASE EndAddUtxo \/ RefuseSubmission \/ Submit \/ TwoBlocks
  BY <1>12 DEF RefuseSubmission, Submit, TwoBlocks, UtxoStep
<1>13. CASE Restart
  BY <1>13 DEF Restart, UtxoStep
<1>14. CASE UNCHANGED vars
  BY <1>14 DEF vars, UtxoStep
<1> QED
  BY <1>1, <1>2, <1>3, <1>4, <1>5, <1>6, <1>7, <1>8, <1>9, <1>10, <1>11, <1>12, <1>13, <1>14
  DEF Next, DepositLoop, Listener

LEMMA WalletStep == WalletInv /\ UtxoStep => WriteAgrees' /\ CreditedProcessed'
<1> SUFFICES ASSUME TypeOK, WriteAgrees, CreditedProcessed, UtxoStep
             PROVE  WriteAgrees' /\ CreditedProcessed'
  BY DEF WalletInv
<1> USE DEF utxos, Credited
<1>1. CASE EndAddUtxo
  <2>1. /\ writing.dep \in Deposit /\ writing.status = Saved(writing.dep)
        /\ utxo' = [utxo EXCEPT ![writing.dep] = writing.status]
        /\ writing' = NoWrite /\ UNCHANGED <<result, needFetch, fetching>>
    BY <1>1 DEF EndAddUtxo, TypeOK, WriteAgrees
  <2>2. WriteAgrees' BY <2>1 DEF WriteAgrees
  <2>3. CreditedProcessed' BY <2>1 DEF CreditedProcessed, Saved, TypeOK
  <2> QED BY <2>2, <2>3
<1>2. ASSUME NEW d \in Deposit, AddDepositResult(d), writing = NoWrite,
             UNCHANGED <<writing, fetching>>
      PROVE  WriteAgrees' /\ CreditedProcessed'
  <2>1. \A e \in Deposit : Credited(e) => result'[e] > 0
    BY <1>2 DEF AddDepositResult, TypeOK
  <2>2. result'[d] > 0
    BY <1>2 DEF AddDepositResult, TypeOK
  <2>3. \A e \in needFetch' : e = d \/ e \in needFetch
    BY <1>2 DEF AddDepositResult
  <2>4. WriteAgrees'
    BY <1>2, <2>1, <2>2, <2>3 DEF WriteAgrees, TypeOK
  <2>5. CreditedProcessed'
    BY <1>2 DEF CreditedProcessed, AddDepositResult, TypeOK
  <2> QED BY <2>4, <2>5
<1>3. CASE HandleP2WSHDeposit
  BY <1>3 DEF HandleP2WSHDeposit, WriteAgrees, CreditedProcessed, TypeOK
<1>4. ASSUME NEW d \in Deposit, FetchSubScript(d) PROVE WriteAgrees' /\ CreditedProcessed'
  BY <1>4 DEF FetchSubScript, NextFetch, WriteAgrees, CreditedProcessed, TypeOK, Saved
<1>5. ASSUME UNCHANGED utxos, UNCHANGED fetching, NEW d \in Deposit, NEW c \in Nat,
             BeginAddUtxo(d, c)
      PROVE  WriteAgrees' /\ CreditedProcessed'
  <2>1. writing'.status = Saved(d) /\ writing'.dep = d
    BY <1>5 DEF BeginAddUtxo, Saved, TypeOK
  <2>2. Saved(d)' = Saved(d) BY <1>5 DEF Saved
  <2> QED BY <1>5, <2>1, <2>2 DEF WriteAgrees, CreditedProcessed, Saved
<1>6. CASE UNCHANGED utxos /\ writing' = NoWrite /\ fetching' = NoDeposit
  BY <1>6 DEF WriteAgrees, CreditedProcessed
<1>7. CASE UNCHANGED <<utxos, writing, fetching>>
  BY <1>7 DEF WriteAgrees, CreditedProcessed, Saved
<1> QED BY <1>1, <1>2, <1>3, <1>4, <1>5, <1>6, <1>7 DEF UtxoStep

LEMMA WalletInvariant == Spec => []WalletInv
<1>1. Init => WalletInv
  BY InitType DEF Init, WalletInv, WriteAgrees, CreditedProcessed, Credited
<1>2. WalletInv /\ [Next]_vars => WalletInv'
  BY TypeStep, UtxoCases, WalletStep DEF WalletInv
<1> QED BY <1>1, <1>2, PTL DEF Spec

(* A minted deposit's utxo does not wait for the mint any more.              *)
THEOREM CreditsAreProcessed == Spec => []CreditedProcessed
BY WalletInvariant, PTL DEF WalletInv
-----------------------------------------------------------------------------
(* Every step is a step of WalletState, or none of its tables changes.       *)

WalletVars == <<utxo, {d \in Deposit : Credited(d)}>>

LEMMA StepRefines == WalletInv /\ UtxoStep => [Wallet!Next]_WalletVars
<1> SUFFICES ASSUME TypeOK, WriteAgrees, CreditedProcessed, UtxoStep
             PROVE  Wallet!Next \/ UNCHANGED WalletVars
  BY DEF WalletInv
<1> USE DEF utxos, Credited
<1>1. CASE EndAddUtxo
  <2>1. /\ writing.dep \in Deposit /\ writing.status = Saved(writing.dep)
        /\ utxo' = [utxo EXCEPT ![writing.dep] = writing.status]
        /\ UNCHANGED result
    BY <1>1 DEF EndAddUtxo, TypeOK, WriteAgrees
  <2>2. Wallet!AddUtxo(writing.dep, "confirmed")
    BY ZenonT(60), <2>1 DEF Wallet!AddUtxo, Wallet!MarkUtxos, Wallet!orderVars, Saved, TypeOK
  <2> QED BY <2>1, <2>2 DEF Wallet!Next, Wallet!Spendable
<1>2. ASSUME NEW d \in Deposit, AddDepositResult(d) PROVE Wallet!Next
  <2>1. utxo' = Wallet!MarkUtxos({d} \cap {v \in Deposit : utxo[v] = "confirmed"}, "processed")
    BY <1>2 DEF AddDepositResult, Wallet!MarkUtxos, TypeOK
  <2>2. {e \in Deposit : Credited(e)}' = {e \in Deposit : Credited(e)} \cup {d}
    BY <1>2 DEF AddDepositResult, TypeOK
  <2>3. Wallet!AddDepositResult(d)
    BY <2>1, <2>2 DEF Wallet!AddDepositResult, Wallet!orderVars
  <2> QED BY <2>3 DEF Wallet!Next
<1>3. CASE HandleP2WSHDeposit
  <2>1. /\ fetching \in Deposit /\ Credited(fetching)
        /\ utxo' = [utxo EXCEPT ![fetching] = IF @ \in {"none", "confirmed"} THEN "processed" ELSE @]
        /\ UNCHANGED result
    BY <1>3 DEF HandleP2WSHDeposit, WriteAgrees, TypeOK
  <2>2. Wallet!AddUtxo(fetching, "processed")
    BY <2>1 DEF Wallet!AddUtxo, Wallet!MarkUtxos, Wallet!orderVars, TypeOK
  <2> QED BY <2>1, <2>2 DEF Wallet!Next, Wallet!Spendable
<1>4. ASSUME NEW d \in Deposit, FetchSubScript(d) PROVE UNCHANGED WalletVars
  BY <1>4 DEF FetchSubScript, WalletVars
<1>5. CASE UNCHANGED utxos
  BY <1>5 DEF WalletVars
<1> QED BY <1>1, <1>2, <1>3, <1>4, <1>5 DEF UtxoStep

LEMMA InitRefines == Init => Wallet!Init
<1> SUFFICES ASSUME Init PROVE Wallet!Init
  OBVIOUS
<1>1. Wallet!OrderId = {} BY DEF Wallet!OrderId
<1>2. {d \in Deposit : Credited(d)} = {} BY DEF Init, Credited
<1>3. utxo = [d \in Deposit |-> "none"] BY DEF Init
<1> QED BY <1>1, <1>2, <1>3 DEF Wallet!Init

(* AddUtxo in two writes, the notifier's lookup and replayed mints implement *)
(* the atomic writers of utxos and deposit results of WalletState.           *)
THEOREM DepositRefinesWallet == Spec => ImplementsWallet
<1>1. WalletInv /\ [Next]_vars => [Wallet!Next]_(Wallet!vars)
  <2>1. UNCHANGED WalletVars => UNCHANGED Wallet!vars
    BY DEF WalletVars, Wallet!vars
  <2> QED BY <2>1, UtxoCases, StepRefines DEF WalletInv
<1> QED BY <1>1, InitRefines, WalletInvariant, PTL DEF Spec, ImplementsWallet, Wallet!Spec
=============================================================================
