------------------------------ MODULE MCPlayer ------------------------------
(* Instances of Player for TLC. *)
EXTENDS Player, TLC

CONSTANTS a, b, v   \* two songs and a video

\* An album, and a playlist that has one of its songs.
MCQueues == {<<a, b, v>>, <<b>>}

MCArtist == [t \in {a, b, v} |-> IF t = v THEN Nil ELSE "artist"]
=============================================================================
