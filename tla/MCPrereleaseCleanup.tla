------------------------ MODULE MCPrereleaseCleanup ------------------------
(* Bounds for PrereleaseCleanup.                                              *)
EXTENDS PrereleaseCleanup
=============================================================================
