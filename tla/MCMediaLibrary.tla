--------------------------- MODULE MCMediaLibrary ---------------------------
(* The instance of MediaLibrary that TLC checks. *)
EXTENDS MediaLibrary

CONSTANTS film, encoded, none

\* The job of the film writes the other file.
Encodes == [f \in {film, encoded} |-> IF f = film THEN encoded ELSE none]
=============================================================================
