---------------------------- MODULE MCRaid10Data ----------------------------
(* Small instances of Raid10Data for TLC. *)
EXTENDS Raid10Data, TLC

(* Of the pair's pages, 0 is read from the spare disk and 1 from its mirror. *)
MCPagesOnePair == {0, 1}
=============================================================================
