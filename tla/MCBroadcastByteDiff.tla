------------------------ MODULE MCBroadcastByteDiff ------------------------
(***************************************************************************)
(* Small instances of BroadcastByteDiff for TLC: three connections, one    *)
(* URL given twice.                                                        *)
(***************************************************************************)
EXTENDS BroadcastByteDiff

MCRelays == <<"damus", "nos", "damus">>
=============================================================================
