---------------------------- MODULE MCHistoryPage ----------------------------
(* A bounded instance of HistoryPage for TLC: one service, no tags, since the *)
(* list is read by status only.                                               *)
EXTENDS HistoryPage

CONSTANT s1

MCService == {s1}
MCTag == {}
=============================================================================
