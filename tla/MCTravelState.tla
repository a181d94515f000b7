--------------------------- MODULE MCTravelState ---------------------------
(***************************************************************************)
(* Requests at the boundaries of dates and budgets.                        *)
(***************************************************************************)
EXTENDS TravelState

\* No dates, and a unit less than three days of two travelers cost; five
\* days, more than there are highlights, at their very price; two days, whose
\* highlights differ in number, and an end before the start, without a budget.
BoundaryRequests ==
    { [dates |-> <<>>, travelers |-> 2, budget |-> 2029],
      [dates |-> <<7, 11>>, travelers |-> 1, budget |-> 1750],
      [dates |-> <<7, 8>>, travelers |-> 1, budget |-> 0],
      [dates |-> <<7, 5>>, travelers |-> 1, budget |-> 0] }
=============================================================================
