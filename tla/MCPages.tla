------------------------------- MODULE MCPages -------------------------------
(***************************************************************************)
(* Three rows.  As tracks, rows 1 and 2 have one GUID in two feeds; as live *)
(* items, rows 1 and 2 belong to feed 1.  The offers of feed 1 reach both  *)
(* caps, repeat a guid, and hold items with and without a window, a relay  *)
(* link and a status that the node knows.                                  *)
(***************************************************************************)
EXTENDS Pages

MCTrackGuid == <<1, 1, 2>>
MCLiveFeed == <<1, 1, 2>>

Live(g, s, e, r) == [guid |-> g, status |-> "live", lower |-> TRUE, start |-> s, end |-> e, relay |-> r]
Pending(g, s, e) == [Live(g, s, e, "none") EXCEPT !.status = "pending"]
Ended(g, s) == [Live(g, s, None, "none") EXCEPT !.status = "ended"]

MCOffers ==
    << {<<Live(1, 0, 1, "none"), Pending(2, 1, None)>>,
        <<Live(1, 0, None, "none"), Live(2, 0, None, "link")>>,
        <<[Pending(2, 0, 1) EXCEPT !.status = "other"], Pending(2, 0, 2), Live(2, 0, 1, "none")>>,
        <<Ended(1, None), Ended(2, 1), [Live(1, 1, 2, "none") EXCEPT !.lower = FALSE]>>,
        <<[Live(1, 1, 2, "none") EXCEPT !.lower = FALSE]>>},
       {<<Live(3, 0, 3, "none")>>, <<Live(3, 1, 1, "confirming")>>, <<Pending(3, None, None)>>} >>
=============================================================================
