----------------------------- MODULE MCMastBridge -----------------------------
(* Requests for the bridge: every action, with every kind of argument.     *)
EXTENDS MastBridge

AllRequests ==
    [action : DOMAIN Words \cup {"other"}, arg : {"missing", "malformed", "huge", "fine"}]

=============================================================================
