---- MODULE MCPositionManager ----
(***************************************************************************)
(* PositionManager under every sequence of at most MaxFills fills.         *)
(***************************************************************************)
EXTENDS PositionManager

CONSTANTS
  FillSizes,
  FillPrices,
  MaxFills

VARIABLE fills

vars == <<position_size_, average_entry_price_, realized_pnl_, cash, entries, fills>>

Init == InitPosition /\ fills = 0

Fill(fill_size, fill_price) ==
  /\ fills < MaxFills
  /\ fills' = fills + 1
  /\ add_fill(fill_size, fill_price)

Next == \E s \in FillSizes, p \in FillPrices : Fill(s, p)

Spec == Init /\ [][Next]_vars

MCFillSizes == {-3, -2, -1, 0, 1, 2}

====
