----------------------------- MODULE MCDataPath -----------------------------
(***************************************************************************)
(* Value sets for model checking DataPath: words of two bytes.             *)
(***************************************************************************)
EXTENDS DataPath

Words == {"w1"}
\* Two of the four words; sb and lb make the others.
TwoWords == {[p \in {2, 3} |-> 0], [p \in {2, 3} |-> p - 2]}
OneRam == [w \in Words |-> "ram"]

=============================================================================
