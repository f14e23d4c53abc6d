------------------------------- MODULE MCLogSync -------------------------------
(* The relay pulls from the writer, the leaf from both, and the writer from   *)
(* the leaf, from which it gets back what it has lost.  The relay is the one  *)
(* that keeps nothing on disk.                                              *)
EXTENDS LogSync

CONSTANTS writer, relay, leaf

MCLinks == {<<relay, writer>>, <<leaf, relay>>, <<leaf, writer>>, <<writer, leaf>>}
=============================================================================
