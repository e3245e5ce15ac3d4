--------------------------- MODULE MCAlertOperands ---------------------------
(* Instances of AlertOperands for TLC: doubles of three bits, up to 14. *)
EXTENDS AlertOperands, Floats

MCUnknown == {"ema20"}

\* 0 and 8 are doubles, 9 reads as 8, and 31 is out of range.
MCNumbers == {0, 8, 9, 31}
MCDoubles == {0, 8}
MCDecode == [n \in MCNumbers |-> {Rounded(n, 3)} \cap MCDoubles]
MCEncode == [d \in MCDoubles |-> d]
=============================================================================
