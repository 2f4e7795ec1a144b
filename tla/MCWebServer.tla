---------------------------- MODULE MCWebServer ----------------------------
EXTENDS WebServer

MCPage == <<10, 20, 30, 40, 50>>

\* Two pings, of an even and an odd length; the sum of the first one carries
\* twice.
Message(bytes) ==
  LET sum == int2mem2(Folded(SumOfWords(bytes)))
  IN [bytes EXCEPT ![3] = sum[1], ![4] = sum[2]]
MCPings == {Message(<<8, 0, 0, 0, 255, 255, 247, 255, 8, 0, 0, 1>>),
            Message(<<8, 0, 0, 0, 0, 1, 0, 2, 200>>)}

Kit(hosts, probes, attempts, faults) ==
  [hosts |-> hosts, probes |-> probes, attempts |-> attempts,
   losses |-> faults[1], duplicates |-> faults[2], errors |-> faults[3]]
MCKits == {Kit({1}, FALSE, 2, <<1, 1, 1>>), Kit({1, 2}, FALSE, 1, <<0, 0, 1>>),
           Kit({1, 2}, TRUE, 0, <<0, 0, 1>>), Kit({1}, TRUE, 0, <<0, 1, 1>>)}

=============================================================================
