-------------------------- MODULE MCBrowsingPages ---------------------------
(* An instance of BrowsingPages for TLC; its constants are in the .cfg. *)
EXTENDS BrowsingPages
=============================================================================
