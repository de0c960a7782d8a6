---------------------- MODULE MCDisplayControlServer ----------------------
(* Small instances of DisplayControlServer for TLC.                        *)
EXTENDS DisplayControlServer, TLC

\* The guests are interchangeable: no action tells one from another.
ClientSymmetry == Permutations(Client)
=============================================================================
