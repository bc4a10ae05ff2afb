---------------------------- MODULE MCEnclaveProc ----------------------------
(* Instances of EnclaveProc for TLC: values for its constants.               *)
EXTENDS EnclaveProc, TLC

CONSTANTS a, b

SymClients == Permutations(Client)

(* Each client sends Terminate or Describe. *)
TerminateOrDescribe == [c \in Client |-> {"Terminate", "Describe"}]

(* Any command. *)
AnyCommand == [c \in Client |-> CliCommand]
==============================================================================
