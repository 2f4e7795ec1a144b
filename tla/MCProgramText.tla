--------------------------- MODULE MCProgramText ---------------------------
(***************************************************************************)
(* Lines for model checking ProgramText: every mnemonic with up to three   *)
(* operands out of a set with registers by number and by name, the first   *)
(* and the last of each range and the first beyond it.                     *)
(***************************************************************************)
EXTENDS ProgramText

Registers == {<<"$", "0">>, <<"$", "3", "1">>, <<"$", "t1">>}
NoRegisters == {<<"$", "3", "2">>, <<"$">>, <<"$", "?">>}
Small == {<<"5">>, <<"-", "1">>}
Edges == {<<"3", "2">>, <<"3", "2", "7", "6", "8">>, <<"-", "3", "2", "7", "6", "8">>,
          <<"0", "x", "f", "f", "f", "f">>, <<"6", "5", "5", "3", "6">>}
Targets == {<<"6", "7", "1", "0", "8", "8", "6", "3">>, <<"0", "x", "4", "0", "0", "0", "0", "0", "0">>}

Typical == Registers \cup Small
All == Typical \cup NoRegisters \cup Edges \cup Targets

Lines ==
  {[name |-> n, args |-> <<>>] : n \in Mnemonic \cup {"?"}}
  \cup [name : Mnemonic, args : {<<a>> : a \in All}]
  \cup [name : Mnemonic, args : {<<a, b>> : a \in Typical, b \in All}]
  \cup [name : Mnemonic, args : {<<a, b, c>> : a \in Registers, b \in Typical, c \in All}]
  \cup [name : Mnemonic, args : {<<a, b, c>> : a \in Registers, b \in All, c \in Registers}]

=============================================================================
