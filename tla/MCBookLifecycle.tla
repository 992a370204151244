--------------------------- MODULE MCBookLifecycle ---------------------------
(* Small instances of BookLifecycle for TLC.                               *)
EXTENDS BookLifecycle

CONSTANTS b1, b2

(* Imports of a book alone, and with the other book as an alternative.     *)
MCCommands == {<<b1>>, <<b1, b2>>}
=============================================================================
