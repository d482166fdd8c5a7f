------------------------ MODULE MCPlatformOperations ------------------------
(* One sensitive path and one that is not. *)
EXTENDS PlatformOperations
=============================================================================
