---------------------------- MODULE MCRemoteWrite ----------------------------
(* A request has two lines here, not five: enough to be torn apart.          *)
EXTENDS RemoteWrite
=============================================================================
