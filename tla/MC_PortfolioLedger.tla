------------------------ MODULE MC_PortfolioLedger ------------------------
(* Small instances of PortfolioLedger.                                       *)
EXTENDS PortfolioLedger

New(s, n, price, fees, at) ==
  [symbol |-> s, quantity |-> n, left |-> n, price |-> price, cur |-> price,
   fees |-> fees, at |-> at]
Sale(s, n, price, fees) == [symbol |-> s, quantity |-> n, price |-> price, fees |-> fees]
Move(kind, amount) == [kind |-> kind, amount |-> amount]

(* Two lots of a symbol bought on different days, in either order, at        *)
(* different prices, one with fees that a partial sale splits.               *)
TwoBuys == {New("A", 2, 1, 2, 1), New("A", 1, 3, 0, 2)}
OneBuy == {New("A", 2, 1, 2, 1)}
(* Part of the first lot, and all of one and part of the other.              *)
TwoSales == {Sale("A", 1, 2, 1), Sale("A", 2, 4, 0)}
SomeMoves == {Move("deposit", 5), Move("withdrawal", 2), Move("fee", 1)}
(* A lot entered by hand with part of it already sold.                       *)
SomeManuals == {{[New("A", 2, 2, 2, 1) EXCEPT !.left = 1]}}
SomeUploads == {{New("A", 1, 1, 0, 3)}}
SomeQuotes == {[symbol |-> "A", price |-> 5]}
None == {}
=============================================================================
