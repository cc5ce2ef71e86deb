------------------------- MODULE BtcReader_proofs -------------------------
(***************************************************************************)
(* BlocksHandledInOrder, OneBlockInFlight and RowsFollowLayer2 for every   *)
(* start height, range and channel capacity.                               *)
(*                                                                         *)
(* The first two rest on where the block after scan.last is: while the notifier     *)
(* waits it is at exactly one place between the notifier and the wallet,   *)
(* and otherwise nothing is (OnePlace).  Then the block the wallet         *)
(* finishes is the next one, and what it has handled stays an interval     *)
(* that covers every height a scan has passed (Covered).  The rows are     *)
(* about the listener and the scan alone: once layer 2 is heard, Latest is *)
(* a processed row with no gap below it (RowsInv).                         *)
(***************************************************************************)
EXTENDS BtcReader, TLAPS

Empty == confirmChan = <<>> /\ poller = None /\ blockCh = <<>> /\ wallet = None

\* block h, alone, at one of the four places
Carries(h) ==
  \/ confirmChan = <<h>> /\ poller = None /\ blockCh = <<>> /\ wallet = None
  \/ confirmChan = <<>> /\ poller = h /\ blockCh = <<>> /\ wallet = None
  \/ confirmChan = <<>> /\ poller = None /\ blockCh = <<h>> /\ wallet = None
  \/ confirmChan = <<>> /\ poller = None /\ blockCh = <<>> /\ wallet = h

Shape ==
  /\ {tip, saved, synced} \subseteq Nat
  /\ scan \in [at : {"idle", "fetch", "wait"}, last : Nat, end : Nat, target : Nat]
  /\ stops \in Nat
  /\ up \in {"running", "stopping", "dead"}
  /\ stops = 0 => up = "running"
  /\ StartHeight - 1 <= saved /\ StartHeight - 1 <= synced
  /\ scan.at # "idle" => StartHeight - 1 <= scan.last

OnePlace ==
  up = "running" =>
    IF scan.at = "wait" THEN Carries(scan.last + 1) ELSE Empty

\* the wallet has the blocks up to n, and no scan is past n
CoveredTo(n) ==
  /\ handled = StartHeight .. n
  /\ saved <= n /\ synced <= n
  /\ scan.at # "idle" => scan.last <= n

Covered == stops = 0 => \E n \in Int : CoveredTo(n)

IInv == Shape /\ OnePlace /\ Covered

-----------------------------------------------------------------------------
LEMMA MinOfTwo ==
  ASSUME NEW a \in Nat, NEW b \in Nat
  PROVE  Min({a, b}) \in Nat
<1>1. \E x \in {a, b} : \A y \in {a, b} : x <= y
  OBVIOUS
<1> QED BY <1>1 DEF Min

LEMMA InitIInv == Init => IInv
<1> SUFFICES ASSUME Init PROVE IInv
  OBVIOUS
<1>1. Shape
  <2>1. StartHeight \in Nat /\ L2Start \in Nat /\ StartHeight - 1 \in Nat
    BY HeightAssumption
  <2>2. tip \in Nat
    <3>1. \E x \in {StartHeight, L2Start} : \A y \in {StartHeight, L2Start} : x >= y
      BY <2>1
    <3> QED BY <2>1, <3>1 DEF Init, Max
  <2> QED BY <2>1, <2>2 DEF Init, Shape, Idle
<1>2. OnePlace
  BY DEF Init, OnePlace, Empty, Idle
<1>3. CoveredTo(StartHeight - 1)
  BY HeightAssumption DEF Init, CoveredTo, Idle
<1> QED BY <1>1, <1>2, <1>3, HeightAssumption DEF IInv, Covered

-----------------------------------------------------------------------------
(* Steps that leave the scan alone *)

\* what Shape and Covered are about, but for tip
Still == UNCHANGED <<saved, handled, synced, scan, up, stops>>

LEMMA StillKeeps ==
  ASSUME IInv, Still, tip' \in Nat, OnePlace'
  PROVE  IInv'
<1>1. Shape'
  BY DEF IInv, Shape, Still
<1>2. ASSUME NEW n \in Int, CoveredTo(n) PROVE CoveredTo(n)'
  BY <1>2 DEF CoveredTo, Still
<1>3. Covered'
  BY <1>2 DEF IInv, Covered, Still
<1> QED BY <1>1, <1>3 DEF IInv

LEMMA PipeKeeps ==
  ASSUME IInv, Still, tip' \in Nat, UNCHANGED pipeVars
  PROVE  IInv'
<1>1. OnePlace'
  BY DEF IInv, OnePlace, Carries, Empty, Still, pipeVars
<1> QED BY <1>1, StillKeeps

LEMMA MineKeeps ==
  ASSUME IInv, Mine PROVE IInv'
<1>1. tip' \in Nat
  BY DEF IInv, Shape, Mine
<1> QED BY <1>1, PipeKeeps
     DEF Mine, Still, dbVars, scanVars, runVars

LEMMA OthersKeep ==
  ASSUME IInv, Accept \/ HearBlock \/ HearFails \/ OtherPublish \/ OtherTake
  PROVE  IInv'
<1>1. tip' \in Nat
  BY DEF IInv, Shape, Accept, HearBlock, HearFails, OtherPublish, OtherTake, chainVars
<1>2. Still /\ UNCHANGED pipeVars
  BY DEF Accept, HearBlock, HearFails, OtherPublish, OtherTake, Still, Fault, dbVars, scanVars,
         runVars
<1> QED BY <1>1, <1>2, PipeKeeps

\* a block moves on towards the wallet
LEMMA PollerTakeKeeps ==
  ASSUME IInv, PollerTake PROVE IInv'
<1>1. tip' \in Nat /\ Still
  BY DEF IInv, Shape, PollerTake, Still, chainVars, scanVars, runVars
<1>2. OnePlace'
  <2> SUFFICES ASSUME up = "running" PROVE scan.at = "wait" /\ Carries(scan.last + 1)'
    BY <1>1 DEF OnePlace, Still
  <2>1. scan.at = "wait" /\ Carries(scan.last + 1) /\ confirmChan # <<>>
    BY DEF IInv, OnePlace, Empty, PollerTake
  <2>2. confirmChan = <<scan.last + 1>> /\ poller = None /\ blockCh = <<>> /\ wallet = None
    BY <2>1 DEF Carries
  <2>3. poller' = scan.last + 1 /\ confirmChan' = <<>>
    BY <2>2 DEF PollerTake
  <2> QED BY <1>1, <2>1, <2>2, <2>3 DEF Carries, PollerTake, Still
<1> QED BY <1>1, <1>2, StillKeeps

LEMMA PublishBlockKeeps ==
  ASSUME IInv, PublishBlock PROVE IInv'
<1>1. tip' \in Nat /\ Still
  BY DEF IInv, Shape, PublishBlock, Still, chainVars, dbVars, scanVars, runVars
<1>2. OnePlace'
  <2> SUFFICES ASSUME up = "running" PROVE scan.at = "wait" /\ Carries(scan.last + 1)'
    BY <1>1 DEF OnePlace, Still
  <2>1. scan.at = "wait" /\ Carries(scan.last + 1) /\ poller # None
    BY DEF IInv, OnePlace, Empty, PublishBlock
  <2>2. confirmChan = <<>> /\ poller = scan.last + 1 /\ blockCh = <<>> /\ wallet = None
    BY <2>1 DEF Carries
  <2>3. Len(blockCh) < Cap
    BY <2>2, BoundAssumption
  <2>4. blockCh' = <<scan.last + 1>> /\ poller' = None
    BY <2>2, <2>3 DEF PublishBlock
  <2> QED BY <1>1, <2>1, <2>2, <2>4 DEF Carries, PublishBlock, Still
<1> QED BY <1>1, <1>2, StillKeeps

LEMMA WalletTakeKeeps ==
  ASSUME IInv, WalletTake PROVE IInv'
<1>1. tip' \in Nat /\ Still
  BY DEF IInv, Shape, WalletTake, Still, chainVars, dbVars, scanVars, runVars
<1>2. OnePlace'
  <2> SUFFICES ASSUME up = "running" PROVE scan.at = "wait" /\ Carries(scan.last + 1)'
    BY <1>1 DEF OnePlace, Still
  <2>1. scan.at = "wait" /\ Carries(scan.last + 1) /\ blockCh # <<>>
    BY DEF IInv, OnePlace, Empty, WalletTake
  <2>2. confirmChan = <<>> /\ poller = None /\ blockCh = <<scan.last + 1>> /\ wallet = None
    BY <2>1 DEF Carries
  <2>3. wallet' = scan.last + 1 /\ blockCh' = <<>>
    BY <2>2 DEF WalletTake
  <2> QED BY <1>1, <2>1, <2>2, <2>3 DEF Carries, WalletTake, Still
<1> QED BY <1>1, <1>2, StillKeeps

-----------------------------------------------------------------------------
(* Steps of the scan *)

LEMMA TickKeeps ==
  ASSUME IInv, Tick PROVE IInv'
<1>1. RangeEnd \in Nat
  <2>1. synced + MaxRange \in Nat /\ tip \in Nat
    BY BoundAssumption DEF IInv, Shape
  <2> QED BY <2>1, MinOfTwo DEF RangeEnd
<1>2. scan' \in [at : {"idle", "fetch", "wait"}, last : Nat, end : Nat, target : Nat]
  BY <1>1 DEF Tick, Idle, IInv, Shape
<1>3. scan.at = "idle" /\ scan'.at # "wait" /\ (scan'.at # "idle" => scan'.last = synced)
  BY DEF Tick, Idle
<1>4. UNCHANGED <<tip, saved, handled, synced, up, stops, pipeVars>>
  BY DEF Tick, chainVars, dbVars, runVars
<1>5. Shape'
  BY <1>2, <1>3, <1>4 DEF IInv, Shape
<1>6. OnePlace'
  BY <1>3, <1>4 DEF IInv, OnePlace, Empty, pipeVars
<1>7. ASSUME NEW n \in Int, CoveredTo(n) PROVE CoveredTo(n)'
  BY <1>3, <1>4, <1>7 DEF CoveredTo
<1>8. Covered'
  BY <1>4, <1>7 DEF IInv, Covered
<1> QED BY <1>5, <1>6, <1>8 DEF IInv

LEMMA FetchKeeps ==
  ASSUME IInv, Fetch PROVE IInv'
<1>1. /\ scan.at = "fetch"
      /\ scan' \in [at : {"idle", "fetch", "wait"}, last : Nat, end : Nat, target : Nat]
      /\ scan'.at = "wait" /\ scan'.last = scan.last
  BY DEF IInv, Shape, Fetch, AfterFetch
<1>2. UNCHANGED <<tip, saved, handled, synced, up, stops, poller, blockCh, wallet>>
  BY DEF Fetch, chainVars, dbVars, runVars
<1>3. Shape'
  BY <1>1, <1>2 DEF IInv, Shape
<1>4. OnePlace'
  <2> SUFFICES ASSUME up = "running" PROVE Carries(scan.last + 1)'
    BY <1>1, <1>2 DEF OnePlace, Carries
  <2>1. Empty
    BY <1>1 DEF IInv, OnePlace
  <2>2. confirmChan' = <<scan.last + 1>>
    BY <2>1 DEF Empty, Fetch
  <2> QED BY <1>1, <1>2, <2>1, <2>2 DEF Empty, Carries
<1>5. ASSUME NEW n \in Int, CoveredTo(n) PROVE CoveredTo(n)'
  BY <1>1, <1>2, <1>5 DEF CoveredTo
<1>6. Covered'
  BY <1>2, <1>5 DEF IInv, Covered
<1> QED BY <1>3, <1>4, <1>6 DEF IInv

LEMMA EndKeeps ==
  ASSUME IInv, EndScan, scan.at = "fetch", saved' \in {saved, scan.last},
         UNCHANGED <<tip, handled, up, stops, pipeVars>>
  PROVE  IInv'
<1>1. Shape'
  BY DEF IInv, Shape, EndScan, Idle
<1>2. OnePlace'
  BY DEF IInv, OnePlace, Empty, EndScan, Idle, pipeVars
<1>3. ASSUME NEW n \in Int, CoveredTo(n) PROVE CoveredTo(n)'
  BY <1>3 DEF CoveredTo, EndScan, Idle
<1>4. Covered'
  BY <1>3 DEF IInv, Covered
<1> QED BY <1>1, <1>2, <1>4 DEF IInv

LEMMA EndsKeep ==
  ASSUME IInv, FinishScan \/ SaveFails \/ FetchFails
  PROVE  IInv'
<1>1. EndScan /\ scan.at = "fetch" /\ saved' \in {saved, scan.last}
  BY DEF FinishScan, SaveFails, FetchFails, SaveScan, dbVars
<1>2. UNCHANGED <<tip, handled, up, stops, pipeVars>>
  BY DEF FinishScan, SaveFails, FetchFails, chainVars, dbVars, runVars, Fault
<1> QED BY <1>1, <1>2, EndKeeps

LEMMA BlockDoneAdvances ==
  ASSUME BlockDone,
         scan \in [at : {"idle", "fetch", "wait"}, last : Nat, end : Nat, target : Nat]
  PROVE  /\ scan' \in [at : {"idle", "fetch", "wait"}, last : Nat, end : Nat, target : Nat]
         /\ scan'.at = "fetch" /\ scan'.last = scan.last + 1
<1>1. scan = [at |-> scan.at, last |-> scan.last, end |-> scan.end, target |-> scan.target]
  OBVIOUS
<1>2. [scan EXCEPT !.at = "fetch"]
        = [at |-> "fetch", last |-> scan.last, end |-> scan.end, target |-> scan.target]
  BY <1>1
<1>3. scan' = [at |-> "fetch", last |-> scan.last + 1, end |-> scan.end,
               target |-> scan.target]
  BY <1>2 DEF BlockDone
<1> QED BY <1>3

LEMMA WalletDoneKeeps ==
  ASSUME IInv, WalletDone PROVE IInv'
<1>1. up = "running" /\ scan.at = "wait" /\ wallet # None
  BY DEF WalletDone
<1>2. /\ confirmChan = <<>> /\ poller = None /\ blockCh = <<>>
      /\ wallet = scan.last + 1
  BY <1>1 DEF IInv, OnePlace, Carries
<1>3. /\ scan' \in [at : {"idle", "fetch", "wait"}, last : Nat, end : Nat, target : Nat]
      /\ scan'.at = "fetch" /\ scan'.last = scan.last + 1
  BY BlockDoneAdvances DEF IInv, Shape, WalletDone
<1>4. UNCHANGED <<tip, saved, synced, up, stops, confirmChan, poller, blockCh>>
  BY DEF WalletDone, chainVars, runVars
<1>5. Shape'
  BY <1>1, <1>3, <1>4, HeightAssumption DEF IInv, Shape
<1>6. OnePlace'
  BY <1>2, <1>3, <1>4 DEF OnePlace, Empty, WalletDone
<1>7. ASSUME stops = 0 PROVE \E n \in Int : CoveredTo(n)'
  <2>1. PICK n \in Int : CoveredTo(n)
    BY <1>7 DEF IInv, Covered
  <2>2. scan.last \in Nat /\ scan.last <= n /\ handled' = handled \cup {scan.last + 1}
    BY <1>1, <1>2, <2>1 DEF CoveredTo, IInv, Shape, WalletDone
  <2>3. StartHeight \in Nat /\ StartHeight <= scan.last + 1
    BY <1>1, HeightAssumption DEF IInv, Shape
  <2>4. CASE scan.last = n
    <3>1. handled' = StartHeight .. n + 1
      BY <2>1, <2>2, <2>3, <2>4 DEF CoveredTo
    <3>2. CoveredTo(n + 1)'
      BY <1>3, <1>4, <2>1, <2>4, <3>1 DEF CoveredTo, IInv, Shape
    <3> QED BY <3>2
  <2>5. CASE scan.last # n
    <3>1. scan.last + 1 \in StartHeight .. n
      BY <2>2, <2>3, <2>5
    <3>2. handled' = StartHeight .. n
      BY <2>1, <2>2, <3>1 DEF CoveredTo
    <3>3. CoveredTo(n)'
      BY <1>3, <1>4, <2>1, <3>1, <3>2 DEF CoveredTo
    <3> QED BY <3>3
  <2> QED BY <2>4, <2>5
<1>8. Covered'
  BY <1>4, <1>7 DEF Covered
<1> QED BY <1>5, <1>6, <1>8 DEF IInv
-----------------------------------------------------------------------------
(* Ends and starts of the process *)

LEMMA LoadKeeps ==
  ASSUME IInv, Load, UNCHANGED <<tip, saved, handled, stops>>
  PROVE  IInv'
<1>1. synced' \in Nat /\ StartHeight - 1 <= synced' /\ synced' <= saved
  <2>1. CASE synced' = saved
    BY <2>1 DEF IInv, Shape
  <2>2. CASE synced' # saved
    <3>1. /\ \E h \in Known : NewestRow(h) /\ h < saved
          /\ synced' \in {h \in Known : NewestRow(h)}
      BY <2>2 DEF Load, FromSaved
    <3>2. PICK h \in Known : NewestRow(h) /\ h < saved
      BY <3>1
    <3>3. h \in Heights /\ synced' \in Heights /\ synced' <= h
      BY <3>1, <3>2 DEF NewestRow, Known
    <3>4. synced' \in Nat /\ h \in Nat /\ StartHeight <= synced'
      BY <3>3, HeightAssumption DEF Heights
    <3> QED BY <3>2, <3>3, <3>4, HeightAssumption DEF IInv, Shape
  <2> QED BY <2>1, <2>2
<1>2. scan' = Idle /\ up' = "running"
  BY DEF Load
<1>3. Shape'
  BY <1>1, <1>2 DEF IInv, Shape, Idle
<1>4. OnePlace'
  BY <1>2 DEF OnePlace, Empty, Idle, Load
<1>5. ASSUME NEW n \in Int, CoveredTo(n) PROVE CoveredTo(n)'
  BY <1>1, <1>2, <1>5 DEF CoveredTo, Idle, IInv, Shape
<1>6. Covered'
  BY <1>5 DEF IInv, Covered
<1> QED BY <1>3, <1>4, <1>6 DEF IInv

\* after a request to stop, only the shape is kept
LEMMA StoppingKeeps ==
  ASSUME IInv, Stop \/ WaitEnds \/ WalletPanics
  PROVE  IInv'
<1>1. stops' # 0 /\ up' # "running"
  BY DEF IInv, Shape, Stop, WaitEnds, WalletPanics, runVars
<1>2. /\ scan' \in [at : {"idle", "fetch", "wait"}, last : Nat, end : Nat, target : Nat]
      /\ scan'.at # "idle" => StartHeight - 1 <= scan'.last
  <2>1. CASE Stop \/ WalletPanics
    BY <2>1 DEF IInv, Shape, Stop, WalletPanics, scanVars
  <2>2. CASE WaitEnds
    <3>1. scan'.last = scan.last + 1 /\ scan.last \in Nat /\ scan.at = "wait"
      BY <2>2, BlockDoneAdvances DEF IInv, Shape, WaitEnds
    <3> QED BY <2>2, <3>1, BlockDoneAdvances, HeightAssumption DEF IInv, Shape, WaitEnds
  <2> QED BY <2>1, <2>2
<1>3. UNCHANGED <<tip, saved, synced>>
  BY DEF Stop, WaitEnds, WalletPanics, chainVars, dbVars, scanVars
<1>4. stops' \in Nat /\ up' \in {"running", "stopping", "dead"}
  BY DEF IInv, Shape, Stop, WaitEnds, WalletPanics, runVars
<1>5. Shape'
  BY <1>1, <1>2, <1>3, <1>4 DEF IInv, Shape
<1> QED BY <1>1, <1>5 DEF IInv, OnePlace, Covered

LEMMA IInvInductive == IInv /\ [Next]_vars => IInv'
<1> SUFFICES ASSUME IInv, [Next]_vars PROVE IInv'
  OBVIOUS
<1>1. CASE Crash \/ Exit
  <2>1. Load /\ UNCHANGED <<tip, saved, handled, stops>>
    BY <1>1 DEF Crash, Exit, chainVars, dbVars
  <2> QED BY <2>1, LoadKeeps
<1>2. CASE UNCHANGED vars
  <2>1. Still /\ tip' \in Nat /\ UNCHANGED pipeVars
    BY <1>2 DEF IInv, Shape, vars, Still, chainVars, dbVars, scanVars, runVars
  <2> QED BY <2>1, PipeKeeps
<1> QED BY <1>1, <1>2, MineKeeps, OthersKeep, PollerTakeKeeps, PublishBlockKeeps,
           WalletTakeKeeps, TickKeeps, FetchKeeps, EndsKeep, WalletDoneKeeps,
           StoppingKeeps DEF Next

THEOREM Inductive == Spec => []IInv
BY InitIInv, IInvInductive, PTL DEF Spec

-----------------------------------------------------------------------------
(* For every start height, range and capacity, the wallet has every block up *)
(* to the saved height, in the order of the chain, unless the process was    *)
(* asked to stop (processBlockAtHeight, saveSyncStatus, NewBTCNotifier).     *)
THEOREM WalletReadsInOrder == Spec => []BlocksHandledInOrder
<1>1. IInv => BlocksHandledInOrder
  <2> SUFFICES ASSUME IInv, stops = 0, NEW h \in Heights,
                      h <= saved \/ \E g \in handled : h <= g
               PROVE  h \in handled
    BY DEF BlocksHandledInOrder
  <2>1. PICK n \in Int : CoveredTo(n)
    BY DEF IInv, Covered
  <2>2. h \in Int /\ StartHeight <= h
    BY HeightAssumption DEF Heights
  <2>3. h <= n
    BY <2>1, <2>2, HeightAssumption DEF CoveredTo, IInv, Shape
  <2> QED BY <2>1, <2>2, <2>3, HeightAssumption DEF CoveredTo
<1> QED BY <1>1, Inductive, PTL

(* Whatever the capacity of the channels, a running process has at most one  *)
(* block between the notifier and the wallet, and has one exactly while the  *)
(* notifier waits: blocks cannot overflow a channel of the bus.              *)
THEOREM BlocksComeSingly == Spec => []OneBlockInFlight
<1>1. IInv => OneBlockInFlight
  <2> SUFFICES ASSUME IInv, up = "running"
               PROVE  InFlight <= 1 /\ (InFlight = 1 <=> scan.at = "wait")
    BY DEF OneBlockInFlight
  <2>1. CASE scan.at # "wait"
    <3>1. Empty
      BY <2>1 DEF IInv, OnePlace
    <3>2. InFlight = 0
      BY <3>1 DEF Empty, InFlight, Held
    <3> QED BY <2>1, <3>2
  <2>2. CASE scan.at = "wait"
    <3>1. Carries(scan.last + 1) /\ scan.last + 1 # None
      BY <2>2 DEF IInv, OnePlace, Shape, None
    <3>2. Len(<<scan.last + 1>>) = 1 /\ Len(<<>>) = 0
      OBVIOUS
    <3>3. Held(scan.last + 1) = 1 /\ Held(None) = 0
      BY <3>1 DEF Held
    <3>4. Len(confirmChan) + Held(poller) + Len(blockCh) + Held(wallet) = 1
      <4>1. CASE confirmChan = <<scan.last + 1>> /\ poller = None /\ blockCh = <<>> /\ wallet = None
        BY <3>2, <3>3, <4>1
      <4>2. CASE confirmChan = <<>> /\ poller = scan.last + 1 /\ blockCh = <<>> /\ wallet = None
        BY <3>2, <3>3, <4>2
      <4>3. CASE confirmChan = <<>> /\ poller = None /\ blockCh = <<scan.last + 1>> /\ wallet = None
        BY <3>2, <3>3, <4>3
      <4>4. CASE confirmChan = <<>> /\ poller = None /\ blockCh = <<>> /\ wallet = scan.last + 1
        BY <3>2, <3>3, <4>4
      <4> QED BY <3>1, <4>1, <4>2, <4>3, <4>4 DEF Carries
    <3> QED BY <2>2, <3>4 DEF InFlight
  <2> QED BY <2>1, <2>2
<1> QED BY <1>1, Inductive, PTL
-----------------------------------------------------------------------------
(* The rows.  Above layer 2's start the processed heights have no gap, and   *)
(* they reach as far as the listener heard and to the height before Latest,  *)
(* so the next one a scan or a replay marks leaves no gap either.            *)

HasNewest(S) == S = {} \/ \E x \in S : \A y \in S : x >= y

RowsInv ==
  /\ {tip, accepted, heard, savedHeard, latest} \subseteq Nat
  /\ tip <= MaxHeight /\ accepted <= tip /\ latest <= accepted
  /\ L2Start <= savedHeard /\ savedHeard <= heard /\ heard <= accepted
  /\ rows \in [Heights -> {"none", "confirmed", "processed"}]
  /\ \A h \in Processed : h <= accepted
  /\ L2Start + 1 .. heard \subseteq Processed
  /\ L2Start + 1 .. latest - 1 \subseteq Processed
  /\ \A h \in Processed : L2Start + 1 .. h \subseteq Processed
  /\ HasNewest(Processed)

LEMMA HeightsAreNat == Heights \subseteq Nat
BY HeightAssumption DEF Heights

LEMMA ProcessedAreHeights == Processed \subseteq Heights
BY DEF Processed

LEMMA NewestWith ==
  ASSUME NEW S \in SUBSET Nat, HasNewest(S), NEW n \in Nat PROVE HasNewest(S \cup {n})
<1>1. CASE S = {}
  <2>1. \A y \in S \cup {n} : n >= y
    BY <1>1
  <2> QED BY <2>1 DEF HasNewest
<1>2. ASSUME NEW x \in S, \A y \in S : x >= y PROVE HasNewest(S \cup {n})
  <2>1. CASE x >= n
    <3>1. \A y \in S \cup {n} : x >= y
      BY <1>2, <2>1
    <3> QED BY <3>1 DEF HasNewest
  <2>2. CASE n >= x
    <3>1. \A y \in S \cup {n} : n >= y
      BY <1>2, <2>2
    <3> QED BY <3>1 DEF HasNewest
  <2> QED BY <2>1, <2>2
<1> QED BY <1>1, <1>2 DEF HasNewest

\* a row is marked when all below it, from layer 2's start, are
LEMMA OneMore ==
  ASSUME RowsInv, NEW n \in Heights, n <= accepted,
         L2Start + 1 .. n - 1 \subseteq Processed,
         Processed' \in {Processed, Processed \cup {n}},
         rows' \in [Heights -> {"none", "confirmed", "processed"}],
         UNCHANGED <<tip, accepted, heard, savedHeard, latest>>
  PROVE  RowsInv'
<1>1. Processed \subseteq Processed' /\ \A h \in Processed' : h \in Processed \/ h = n
  OBVIOUS
<1>2. \A h \in Processed' : h <= accepted'
  BY <1>1 DEF RowsInv
<1>3. \A h \in Processed' : L2Start + 1 .. h \subseteq Processed'
  <2> SUFFICES ASSUME NEW h \in Processed', NEW x \in L2Start + 1 .. h PROVE x \in Processed'
    OBVIOUS
  <2>1. CASE h \in Processed
    BY <1>1, <2>1 DEF RowsInv
  <2>2. CASE h = n /\ n \in Processed'
    <3>1. x = n \/ x \in L2Start + 1 .. n - 1
      BY <2>2, HeightsAreNat, HeightAssumption
    <3> QED BY <1>1, <2>2, <3>1
  <2> QED BY <1>1, <2>1, <2>2
<1>4. HasNewest(Processed')
  <2>1. Processed \in SUBSET Nat /\ n \in Nat /\ HasNewest(Processed)
    BY HeightsAreNat, ProcessedAreHeights DEF RowsInv
  <2> QED BY <2>1, NewestWith
<1> QED BY <1>1, <1>2, <1>3, <1>4 DEF RowsInv

LEMMA InitRows == Init => RowsInv
<1> SUFFICES ASSUME Init PROVE RowsInv
  OBVIOUS
<1>1. tip \in Nat /\ tip <= MaxHeight /\ L2Start <= tip
  <2>1. PICK m \in {StartHeight, L2Start} : \A y \in {StartHeight, L2Start} : m >= y
    BY HeightAssumption
  <2>2. tip \in {StartHeight, L2Start} /\ \A y \in {StartHeight, L2Start} : tip >= y
    BY <2>1 DEF Init, Max
  <2>3. tip \in Nat /\ tip <= MaxHeight
    BY <2>2, HeightAssumption
  <2> QED BY <2>2, <2>3
<1>2. Processed = {} /\ HasNewest(Processed)
  BY DEF Init, Processed, HasNewest
<1>3. /\ accepted = L2Start /\ heard = L2Start /\ savedHeard = L2Start /\ latest = 0
      /\ rows \in [Heights -> {"none", "confirmed", "processed"}]
  BY DEF Init, None
<1>4. L2Start + 1 .. heard = {} /\ L2Start + 1 .. latest - 1 = {}
  BY <1>3, HeightAssumption
<1> QED BY <1>1, <1>2, <1>3, <1>4, HeightAssumption DEF RowsInv

\* steps of the chains, and steps that touch no row
LEMMA OtherRows ==
  ASSUME RowsInv, UNCHANGED <<heard, savedHeard, latest, rows>>,
         UNCHANGED <<tip, accepted>> \/ Mine \/ Accept
  PROVE  RowsInv'
<1>1. Processed' = Processed
  BY DEF Processed
<1>2. /\ {tip', accepted'} \subseteq Nat /\ tip' <= MaxHeight /\ accepted' <= tip'
      /\ accepted <= accepted'
  BY HeightAssumption DEF RowsInv, Mine, Accept
<1>3. \A h \in Processed : h <= accepted'
  BY <1>2, HeightsAreNat, ProcessedAreHeights DEF RowsInv
<1> QED BY <1>1, <1>2, <1>3 DEF RowsInv

LEMMA HearBlockRows ==
  ASSUME RowsInv, HearBlock PROVE RowsInv'
<1> DEFINE n == heard + 1
<1>1. n \in Heights /\ n <= accepted /\ heard' = n /\ L2Start + 1 <= n
  BY HeightAssumption DEF RowsInv, HearBlock, Heights
<1>2. UNCHANGED <<tip, accepted, savedHeard>>
  BY DEF HearBlock, chainVars
<1>3. /\ rows' \in [Heights -> {"none", "confirmed", "processed"}]
      /\ Processed' = Processed \cup {n} /\ latest' \in {latest, n}
  <2>1. CASE rows[n] = "processed"
    <3>1. n \in Processed /\ UNCHANGED <<rows, latest>>
      BY <1>1, <2>1 DEF Processed, HearBlock, UpdateProcessedBtcBlock
    <3>2. Processed' = Processed
      BY <3>1 DEF Processed
    <3> QED BY <3>1, <3>2 DEF RowsInv
  <2>2. CASE rows[n] # "processed"
    <3>1. rows' = [rows EXCEPT ![n] = "processed"] /\ latest' = n
      BY <2>2 DEF HearBlock, UpdateProcessedBtcBlock
    <3> QED BY <1>1, <3>1 DEF Processed, RowsInv
  <2> QED BY <2>1, <2>2
<1>4. L2Start + 1 .. n - 1 \subseteq Processed
  BY DEF RowsInv
<1>5. L2Start + 1 .. n \subseteq Processed'
  <2> SUFFICES ASSUME NEW x \in L2Start + 1 .. n PROVE x \in Processed'
    OBVIOUS
  <2>1. x = n \/ x \in L2Start + 1 .. n - 1
    BY <1>1, HeightsAreNat, HeightAssumption
  <2> QED BY <1>3, <1>4, <2>1
<1>6. \A h \in Processed' : h <= accepted /\ L2Start + 1 .. h \subseteq Processed'
  BY <1>1, <1>3, <1>5 DEF RowsInv
<1>7. L2Start + 1 .. latest' - 1 \subseteq Processed'
  BY <1>3, <1>4 DEF RowsInv
<1>8. {heard', latest'} \subseteq Nat /\ latest' <= accepted /\ savedHeard <= heard'
  BY <1>1, <1>3, HeightAssumption DEF RowsInv
<1>9. HasNewest(Processed')
  <2>1. Processed \in SUBSET Nat /\ n \in Nat /\ HasNewest(Processed)
    BY <1>1, HeightsAreNat, ProcessedAreHeights DEF RowsInv
  <2> HIDE DEF n
  <2> QED BY <1>3, <2>1, NewestWith
<1> HIDE DEF n
<1> QED BY <1>1, <1>2, <1>3, <1>5, <1>6, <1>7, <1>8, <1>9, HeightAssumption DEF RowsInv

\* a read that failed puts Latest where the next try may put it
LEMMA HearFailsRows ==
  ASSUME RowsInv, HearFails PROVE RowsInv'
<1>1. /\ latest' = heard + 1 /\ heard < accepted
      /\ UNCHANGED <<tip, accepted, heard, savedHeard, rows>>
  BY DEF HearFails, chainVars, dbVars
<1>2. Processed' = Processed
  BY <1>1 DEF Processed
<1>3. latest' \in Nat /\ latest' <= accepted /\ latest' - 1 = heard
  BY <1>1 DEF RowsInv
<1> QED BY <1>1, <1>2, <1>3 DEF RowsInv

LEMMA PollerTakeRows ==
  ASSUME RowsInv, PollerTake PROVE RowsInv'
<1> DEFINE n == Head(confirmChan)
           new == IF rows[n] = "processed" \/ n <= latest THEN "processed" ELSE "confirmed"
<1>1. rows' = [rows EXCEPT ![n] = new] /\ UNCHANGED <<chainVars, listenerVars>>
  BY DEF PollerTake, SaveConfirmBtcBlock
<1>2. rows' \in [Heights -> {"none", "confirmed", "processed"}]
  BY <1>1 DEF RowsInv
<1>3. CASE n \in Heights /\ n <= latest
  <2>1. Processed' = Processed \cup {n}
    BY <1>1, <1>3 DEF Processed, RowsInv
  <2>2. n <= accepted /\ L2Start + 1 .. n - 1 \subseteq L2Start + 1 .. latest - 1
    <3>1. n \in Nat /\ latest \in Nat /\ accepted \in Nat /\ latest <= accepted /\ n <= latest
      BY <1>3, HeightsAreNat DEF RowsInv
    <3> HIDE DEF n
    <3> QED BY <3>1, HeightAssumption
  <2>3. L2Start + 1 .. n - 1 \subseteq Processed
    BY <2>2 DEF RowsInv
  <2> HIDE DEF n
  <2> QED BY <1>1, <1>2, <1>3, <2>1, <2>2, <2>3, OneMore DEF chainVars, listenerVars
<1>4. CASE ~ (n \in Heights /\ n <= latest)
  <2>1. Processed' = Processed
    BY <1>1, <1>4 DEF Processed, RowsInv
  <2> HIDE DEF n
  <2> QED BY <1>1, <1>2, <2>1 DEF RowsInv, chainVars, listenerVars
<1> QED BY <1>3, <1>4

\* a new process finds Latest again and may hear of blocks a second time
LEMMA LoadRows ==
  ASSUME RowsInv, Load, UNCHANGED <<tip, accepted, rows>> PROVE RowsInv'
<1>1. Processed' = Processed
  BY DEF Processed
<1>2. heard' = savedHeard' /\ heard' \in Nat /\ L2Start <= heard' /\ heard' <= heard
  BY HeightAssumption DEF Load, RowsInv
<1>3. latest' = 0 \/ latest' \in Processed
  <2>1. CASE Processed = {}
    BY <2>1 DEF Load, Newest, None
  <2>2. CASE Processed # {}
    <3>1. latest' = Max(Processed)
      BY <1>1, <2>2 DEF Load, Newest
    <3>2. \E x \in Processed : \A y \in Processed : x >= y
      BY <2>2 DEF RowsInv, HasNewest
    <3> QED BY <3>1, <3>2 DEF Max
  <2> QED BY <2>1, <2>2
<1>4. /\ latest' \in Nat /\ latest' <= accepted
      /\ L2Start + 1 .. latest' - 1 \subseteq Processed
  <2>1. CASE latest' = 0
    <3>1. L2Start + 1 .. latest' - 1 = {}
      BY <2>1, HeightAssumption
    <3> QED BY <2>1, <3>1 DEF RowsInv
  <2>2. CASE latest' \in Processed
    <3>1. latest' \in Nat /\ L2Start + 1 .. latest' \subseteq Processed
      BY <2>2, HeightsAreNat, ProcessedAreHeights DEF RowsInv
    <3>2. L2Start + 1 .. latest' - 1 \subseteq L2Start + 1 .. latest'
      BY <3>1, HeightAssumption
    <3> QED BY <2>2, <3>1, <3>2 DEF RowsInv
  <2> QED BY <1>3, <2>1, <2>2
<1>5. L2Start + 1 .. heard' \subseteq L2Start + 1 .. heard /\ heard' <= accepted
  BY <1>2, HeightAssumption DEF RowsInv
<1>6. L2Start + 1 .. heard' \subseteq Processed
  BY <1>5 DEF RowsInv
<1> QED BY <1>1, <1>2, <1>4, <1>5, <1>6, HeightAssumption DEF RowsInv

LEMMA RowsStep == RowsInv /\ [Next]_vars => RowsInv'
<1> SUFFICES ASSUME RowsInv, [Next]_vars PROVE RowsInv'
  OBVIOUS
<1>1. CASE Crash \/ Exit
  <2>1. Load /\ UNCHANGED <<tip, accepted, rows>>
    BY <1>1 DEF Crash, Exit, chainVars, dbVars
  <2> QED BY <2>1, LoadRows
<1>2. CASE Mine \/ Accept
  <2>1. UNCHANGED <<heard, savedHeard, latest, rows>>
    BY <1>2 DEF Mine, Accept, dbVars, listenerVars
  <2> QED BY <1>2, <2>1, OtherRows
<1>3. CASE \/ Tick \/ Fetch \/ FetchFails \/ FinishScan \/ SaveFails
           \/ PublishBlock \/ WalletTake \/ WalletDone \/ OtherPublish \/ OtherTake
           \/ Stop \/ WaitEnds \/ WalletPanics \/ UNCHANGED vars
  <2>1. UNCHANGED <<heard, savedHeard, latest, rows, tip, accepted>>
    BY <1>3 DEF Tick, Fetch, FetchFails, FinishScan, SaveFails, PublishBlock, WalletTake,
                WalletDone, OtherPublish, OtherTake, Stop, WaitEnds, WalletPanics, vars,
                chainVars, dbVars, listenerVars
  <2> QED BY <2>1, OtherRows
<1> QED BY <1>1, <1>2, <1>3, HearBlockRows, HearFailsRows, PollerTakeRows DEF Next

(* Whatever the order in which the scan and the listener write the rows and  *)
(* however often a crash or a failed read makes them write again: processed  *)
(* rows are those layer 2 accepted, and none that was heard of or is below   *)
(* another is missing (SaveConfirmBtcBlock, UpdateProcessedBtcBlock,         *)
(* InitializeState).                                                         *)
THEOREM RowsAgree == Spec => []RowsFollowLayer2
<1>1. RowsInv => RowsFollowLayer2
  BY DEF RowsInv, RowsFollowLayer2
<1> QED BY <1>1, InitRows, RowsStep, PTL DEF Spec
=============================================================================
