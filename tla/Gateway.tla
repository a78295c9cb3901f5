------------------------------ MODULE Gateway ------------------------------
(***************************************************************************)
(* carbonapi: render requests beside requests for names, over backends of  *)
(* the same protocols.  The handlers share no state but what their modules *)
(* hold.                                                                   *)
(***************************************************************************)
EXTENDS Render, Browse

GatewayInit == Init /\ BrowseInit

GatewayNext ==
  \/ Next /\ UNCHANGED browseVars
  \/ BrowseNext /\ UNCHANGED vars

GatewaySpec == GatewayInit /\ [][GatewayNext]_<<vars, browseVars>>
=============================================================================
