------------------------- MODULE MCDisplayRefresher -------------------------
(* DisplayRefresher on a small instance: what a session says from a closed *)
(* port to a guest's first photo and back, with a record that differs from *)
(* the one before it in each region alone and in several at once.          *)
EXTENDS DisplayRefresher

Says(status, page, payload, delivered, error) ==
    [InitialView EXCEPT !.link_connected = TRUE, !.status = status,
        !.page = page, !.payload = payload, !.delivered = delivered,
        !.error = error]

MCReady == Says("READY", "NONE", "none", 0, "NONE")

MCPresenting == Says("PRESENTING", "WIFI", "wifi", 0, "NONE")

MCGuest == Says("GUEST_CONNECTED", "WIFI", "wifi", 1, "GUARD")

MCEnding == Says("TERMINATING", "NONE", "none", 0, "NONE")

MCFewViews == {InitialView, [InitialView EXCEPT !.events = 1],
               MCPresenting, MCGuest}
=============================================================================
