------------------------------ MODULE Erasing ------------------------------
(***************************************************************************)
(* The loops that go through a container and erase some of its elements:   *)
(* `it = c.erase(it)` or `++it`, and std::list::remove_if.                 *)
(***************************************************************************)
EXTENDS Naturals, Sequences

(* What is left of s without the elements at the positions in gone.        *)
Erased(s, gone) ==
  LET left[i \in 0 .. Len(s)] ==
        IF i = 0 THEN <<>>
        ELSE IF i \in gone THEN left[i - 1] ELSE Append(left[i - 1], s[i])
  IN  left[Len(s)]
=============================================================================
