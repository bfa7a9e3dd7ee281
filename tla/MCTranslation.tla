---------------------------- MODULE MCTranslation ----------------------------
(***************************************************************************)
(* Bounds of the model-checking runs of Translation: how many inputs of    *)
(* each kind a run offers.  Kinds that are not named do not occur.         *)
(***************************************************************************)
EXTENDS Translation

Bound(f) == [kind \in Inputs |-> IF kind \in DOMAIN f THEN f[kind] ELSE 0]

\* An orderly client mines: two shares, and enough jobs for three job ids to be
\* in use when a fourth is needed.
MiningLimit ==
    Bound([setup |-> 1, open |-> 1, submit |-> 2, difficulty |-> 2, notify |-> 4])

\* Neither peer keeps to any order: handshake, shares, jobs and difficulties.
AnyLimit ==
    Bound([setup |-> 2, open |-> 1, submit |-> 2, difficulty |-> 1, notify |-> 1])

\* Everything else the peers and the send tasks do, around one channel.
OpeningLimit ==
    Bound([setup |-> 1, open |-> 1, submit |-> 1, difficulty |-> 1, notify |-> 1,
           extranonce |-> 1, reconnect |-> 1, ping |-> 1, v1_down |-> 1,
           v2_down |-> 1, end |-> 1])
=============================================================================
