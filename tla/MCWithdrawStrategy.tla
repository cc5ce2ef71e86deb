-------------------------- MODULE MCWithdrawStrategy --------------------------
(***************************************************************************)
(* A proposer with three withdrawals and a safebox task.  The real sizes   *)
(* and fee rates of 1 and 2 satoshis per byte meet amounts of the same     *)
(* order, so every branch of the selection is near.  One pool is large     *)
(* enough to consolidate; in the other no single utxo pays everything.     *)
(***************************************************************************)
EXTENDS WithdrawStrategy

U(i, a, t) == [id |-> 10 + i, amount |-> a, type |-> t]
W(i, a, p, t) == [id |-> i, amount |-> a, price |-> p, type |-> t]

ThreeWithdrawals == {W(1, 900, 3, "P2WPKH"), W(2, 1300, 2, "P2TR"), W(3, 600, 2, "P2PKH")}
OneTask == {[id |-> 1, amount |-> 700, type |-> "P2WSH", deadline |-> 9]}

LargePool == {U(1, 500, "P2WSH"), U(2, 700, "P2WPKH"), U(3, 1000, "P2PKH"),
              U(4, 1200, "P2WSH"), U(5, 4000, "P2WPKH")}
ScarcePool == {U(1, 800, "P2WSH"), U(2, 1500, "P2WPKH"), U(3, 450, "P2WSH"),
               U(4, 950, "P2WPKH")}
TwoPools == {LargePool, ScarcePool}

F(f, h, s) == [fastest |-> f, halfHour |-> h, hour |-> s]
TwoFees == {F(2, 1, 1), F(4, 3, 2)}
ThreeFees == TwoFees \cup {F(5, 2, 2)}
=============================================================================
