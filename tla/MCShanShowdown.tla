--------------------------- MODULE MCShanShowdown ----------------------------
(***************************************************************************)
(* An instance of ShanShowdown for TLC: a short deck with which hands of   *)
(* every type, equal points, equal highest ranks and flushes can be dealt. *)
(***************************************************************************)
EXTENDS ShanShowdown

Of(r, s) == [rank |-> r, suit |-> s]

ShortDeck == {Of(13, 4), Of(12, 2), Of(11, 1), Of(4, 2), Of(4, 3), Of(4, 1), Of(5, 3), Of(5, 2), Of(6, 3)}
=============================================================================
