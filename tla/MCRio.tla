-------------------------------- MODULE MCRio --------------------------------
(***************************************************************************)
(* Rio over every stream of up to four bytes, each a newline or not, and a *)
(* buffer of two bytes.                                                    *)
(***************************************************************************)
EXTENDS Rio

MCStreams == UNION {[1 .. n -> Byte] : n \in 0 .. 4}
MCLens    == 0 .. 4
=============================================================================
