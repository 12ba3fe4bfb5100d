-------------------------- MODULE MCRemoteSession --------------------------
(* RemoteSession on a small instance: three records that differ in both    *)
(* halves of the line, one of them the BAD_VERSION refusal, so that lines  *)
(* spliced from two of them differ from all of them.                       *)
EXTENDS RemoteSessionCalls

MCRecords ==
    {[BlankRecord EXCEPT !.status = "PRESENTING", !.page = "GUEST",
                         !.payload = "code"],
     [BlankRecord EXCEPT !.error = "NO_HELLO"],
     [BlankRecord EXCEPT !.error = "BAD_VERSION"]}
=============================================================================
