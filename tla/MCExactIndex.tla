--------------------------- MODULE MCExactIndex ---------------------------
(* Three strings of two hashes (e.g. the NFC and NFD forms of one word and *)
(* another word), two segments, a cache of one entry.                      *)
EXTENDS ExactIndex

CONSTANTS nfc, nfd, other
MCValue == {nfc, nfd, other}
MCNone == {<<0, 0>>}
MCHashOf == [v \in MCValue |-> IF v = other THEN 2 ELSE 1]
=============================================================================
