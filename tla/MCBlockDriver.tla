--------------------------- MODULE MCBlockDriver ---------------------------
(* Disks of at most four sectors of two bytes.                             *)
EXTENDS BlockDriver

\* A disk that ends within its second sector; without it there is no disk.
MCImages == {<<0, 1, 1>>}

=============================================================================
