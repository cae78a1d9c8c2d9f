-------------------------- MODULE MCCommandServer ---------------------------
(* The command server with its bounds, for TLC.                            *)
EXTENDS CommandServer

NoRequest == {}
SomeDamaged == {<<1, 2>>, <<2, 2>>}
SomeUnknown == {<<1, 3>>, <<2, 1>>}
=============================================================================
