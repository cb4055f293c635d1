-------------------------- MODULE MCConfigStorage --------------------------
(* ConfigStorage on the chips of the stm32 ports. *)
EXTENDS ConfigStorage

\* H7 and the 2 MB dual bank F7; the larger F4 and the other F7; the 512 KB
\* F4, which has no room for a second copy.
MCChips == {[dual |-> TRUE, second |-> TRUE],
            [dual |-> FALSE, second |-> TRUE],
            [dual |-> FALSE, second |-> FALSE]}
=============================================================================
