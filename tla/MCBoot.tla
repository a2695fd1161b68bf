------------------------------- MODULE MCBoot -------------------------------
(* A small instance of Boot: a new binary boots twice beside an older one  *)
(* that carries one migration less; the second migration only drops a      *)
(* table.                                                                  *)
EXTENDS Boot, TLC

CONSTANTS new1, new2, old

MCInstances == {new1, new2, old}
MCCarries == (new1 :> 3) @@ (new2 :> 3) @@ (old :> 2)

=============================================================================
