------------------------------ MODULE MCReadApi ------------------------------
(* Three advisories.  w2 succeeds w1 and moves to the front; x1 has the date of   *)
(* y1, no score and a padded publisher name; y1 falls between two severity bands  *)
(* and its successor y2 is restricted.                                            *)
EXTENDS ReadApi

CONSTANTS a1, a2, a3

Rev(a, v, d) == [adv |-> a, version |-> v, len |-> v, status |-> "final", date |-> d]
w1 == Rev(a1, 1, 1)
w2 == Rev(a1, 2, 3)
x1 == Rev(a2, 1, 2)
y1 == Rev(a3, 1, 2)
y2 == Rev(a3, 2, 4)

MCRevisions == {w1, w2, x1, y1, y2}
White == [name |-> "WHITE", padded |-> FALSE]
MCLabelOf ==
    [r \in MCRevisions |->
        CASE r = x1 -> [White EXCEPT !.name = "CLEAR"]
          [] r = y2 -> [White EXCEPT !.name = "RED"]
          [] OTHER  -> White]
MCScoreOf ==
    [r \in MCRevisions |->
        CASE r = x1 -> NULL
          [] r = y1 -> 395
          [] r = w1 -> 900
          [] OTHER  -> 500]
MCPaddedNames == {x1}
MCQueries == {NoParameters, [by |-> "critical", descending |-> FALSE, filtered |-> TRUE]}
MCMatches == {w1, w2, y1}
==============================================================================
