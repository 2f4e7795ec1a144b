----------------------------- MODULE MCSession -----------------------------
EXTENDS Session

\* The words at 0x1000 (0x80001000 for the kernel) and 0x5000.
Phys(lo) == WordOf(lo)
K(lo) == [hi |-> 32768, lo |-> lo]
MCContents ==
  4096 :> 513 @@ 4100 :> 770 @@ 4104 :> 0 @@ 20480 :> 1284
MCMemory == [w \in {Phys(4096), Phys(4100), Phys(4104), Phys(20480)} |->
               [hi |-> 4660, lo |-> MCContents[w.lo]]]

Addiu == [hi |-> 9224, lo |-> 1]
MCInstructions == {NOP, JrRa, Addiu}
MCLines == {<<65>>, <<66, 67, 68, 69>>}
MCIntegers == {[hi |-> 65535, lo |-> 65534]}
MCCalls == {[v0 |-> 1, a0 |-> 4], [v0 |-> 1, a0 |-> 524288], [v0 |-> 2, a0 |-> 0],
            [v0 |-> 3, a0 |-> 0], [v0 |-> 4, a0 |-> 0], [v0 |-> 5, a0 |-> 258],
            [v0 |-> 6, a0 |-> 4096], [v0 |-> 7, a0 |-> 1], [v0 |-> 8, a0 |-> 0]}
MCPrints == {33}
MCFaults == {0, 2, 3}
MCFaultAddress == Phys(8196)
MCLeftovers == [n \in {RegisterOrder[i] : i \in 1 .. 10} |->
                  WordOf(CHOOSE i \in 1 .. 10 : RegisterOrder[i] = n)]

D(addr0, n) == [name |-> "D", addr |-> addr0, num |-> n]
U(addr0, n) == [name |-> "U", addr |-> addr0, num |-> n]
Adds(page, frame) == [name |-> "ADDTLB", addr |-> page, target |-> Phys(frame)]
Bad == [name |-> "?"]
MCKits ==
  [writing |-> [most |-> 2, typed |-> {[name |-> "A", addr |-> K(4096)], [name |-> "A", addr |-> Phys(8192)],
                [name |-> "LOAD", addr |-> K(4096), file |-> <<<<60, 8, 1, 2>>>>],
                [name |-> "LOAD", addr |-> K(4096),
                 file |-> <<<<60, 8, 1, 0>>, <<60, 9, 1, 5>>>>],
                [name |-> "LOAD", addr |-> K(4096), file |-> <<<<60, 9, 2, 0>>>>],
                [name |-> "LOAD", addr |-> K(4096), file |-> <<>>],
                D(K(4096), 2), U(K(4100), 1), D(Phys(8192), 1), Bad, Quit}],
   running |-> [most |-> 2, typed |-> {[name |-> "G", addr |-> K(4104)], [name |-> "R"]}],
   mapping |-> [most |-> 4, typed |-> {Adds(Phys(8192), 4096), Adds(Phys(12300), 20480),
                Adds(Phys(16384), 20480), Adds(Phys(24576), 4096),
                Adds(K(4096), 4096), Adds(Phys(8192), 4098),
                [name |-> "DELTLB", index |-> 0], [name |-> "DELTLB", index |-> 1],
                [name |-> "DELTLB", index |-> 2], [name |-> "VIEWTLB"],
                [name |-> "R"], D(Phys(8192), 1), D(Phys(12288), 1)}]]
MCDataStart == K(4096)
MCDataEnd == K(4112)
MCMaxData == K(4104)

=============================================================================
