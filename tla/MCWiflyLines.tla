---------------------------- MODULE MCWiflyLines ----------------------------
(***************************************************************************)
(* A packet with a byte to escape of either kind, a plain one, one that is *)
(* not for a node, and the answers to "$$$" and "get mac".                 *)
(***************************************************************************)
EXTENDS WiflyLines

MCPackets == {<<0, 0, NL>>, <<0, 2, ESC>>, <<1, 1, 7>>}
MCTexts == {<<CMD>>, <<MAC>>}
=============================================================================
