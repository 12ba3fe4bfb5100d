---------------------------- MODULE MCRemoteLink ----------------------------
(* RemoteLink on small instances: a peer that runs the demo script, and an *)
(* operator who publishes one record of a session with a guest in it.      *)
EXTENDS RemoteLink

Mode(silent, reject, demo) == [silent |-> silent, reject |-> reject, demo |-> demo]

MCDemo == {Mode(FALSE, FALSE, TRUE)}

MCReject == {Mode(FALSE, TRUE, FALSE)}

MCUnruly == {Mode(FALSE, FALSE, TRUE), Mode(FALSE, TRUE, FALSE),
             Mode(TRUE, FALSE, FALSE)}

MCGuestCommands == {<<"resend">>, <<"guest", "GUEST">>}

MCResend == {<<"resend">>}

MCUnrulyCommands == {<<"partial">>}

MCKey0 == {<<"Key0", "Short">>, <<"Key0", "Long">>}

MCKey0Long == {<<"Key0", "Long">>}

MCKey0Short == {<<"Key0", "Short">>}
=============================================================================
