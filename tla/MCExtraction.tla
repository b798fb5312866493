---------------------------- MODULE MCExtraction ----------------------------
(* Three documents over three CVEs: d1 and d2 agree on an order, d1 and d3 *)
(* contradict each other, and the three together can wait in a circle.     *)
EXTENDS Extraction

CONSTANTS c1, c2, c3, d1, d2, d3

MCCves == {c1, c2, c3}
MCDocuments == {d1, d2, d3}
MCCvesOf ==
    [d \in MCDocuments |->
        CASE d = d1 -> <<c1, c2, c3>>
          [] d = d2 -> <<c2, c3>>
          [] d = d3 -> <<c3, c1>>]
==============================================================================
