---------------------------- MODULE MCPublication ---------------------------
(***************************************************************************)
(* Instances of Publication for TLC.  The encoder of a job yields one of   *)
(* two videos of the same codec, so that every file of it wants the same   *)
(* names; the provisional target is the first of them, as it is when the   *)
(* codec is x265.  The files of others are no videos.                      *)
(***************************************************************************)
EXTENDS Publication, TLC

CONSTANTS j1, w1, w2, bytes1, bytes2, film, film_encoded, film_encoded2

SameNames == [j \in Jobs |-> [c \in Videos |-> <<film, film_encoded, film_encoded2>>]]
FirstName == [j \in Jobs |-> film]

Symmetry == Permutations(Workers) \union Permutations(Inodes)
               \union Permutations(Contents \ {Foreign})

=============================================================================
