--------------------------- MODULE MCFigureQueries ----------------------------
(* A small instance of FigureQueries. *)
EXTENDS FigureQueries, TLC

CONSTANTS wished, v, c

Make(key, status, value, credits) ==
  [key |-> key, status |-> status, value |-> value, credits |-> credits]

Roles(n) == [name \in Credits |-> n]

MCDocs == {Make(1, Owned, v, Roles(1)), Make(2, Missing, Missing, Roles(0)),
           Make(3, wished, Empty, Roles(1)), Make(2, Owned, v, Roles(1)),
           Make(4, Missing, v, Roles(2))}

Ask(status, values, credits, ascending) ==
  [status |-> status, values |-> values, credits |-> credits, ascending |-> ascending]

MCQueries == {Ask(AnyStatus, {}, {}, FALSE), Ask(Owned, {}, {}, TRUE),
              Ask(AnyStatus, {v, Unspecified}, {}, TRUE), Ask(Owned, {Unspecified}, {}, FALSE),
              Ask(AnyStatus, {}, {c}, FALSE)}

Symmetry == Permutations(Ids)
=============================================================================
