------------------------------- MODULE MCNeDriver -------------------------------
(* Instances of NeDriver for TLC: cores of two threads, core 0 of the parent.   *)
EXTENDS NeDriver, TLC

CONSTANTS e1, e2

SymEnclaves == Permutations(Enclave)

SixCpus == 0..5
PairSiblings == [c \in SixCpus |-> {d \in SixCpus : d \div 2 = c \div 2}]
OneNode == [c \in SixCpus |-> 0]
TwoCores == {2, 3, 4, 5}
SomeLists == {{2, 3}, {4, 5}, {2, 3, 4, 5}, {3}, {0, 1, 2, 3}, {}}
NoLists == {}
================================================================================
