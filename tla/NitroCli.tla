------------------------------- MODULE NitroCli -------------------------------
(***************************************************************************)
(* The commands of the CLI (src/main.rs), run side by side by several      *)
(* processes: build-enclave, run-enclave, console and terminate-enclave.   *)
(* describe-eif, pcr and explain change nothing; describe-enclaves and     *)
(* terminate-enclave --all are in CliBroadcast.                            *)
(***************************************************************************)
EXTENDS ImageBuild, EnclaveConsole

CONSTANTS
  Builders,   \* which of the processes may be builds
  Running     \* enclaves that are up at the beginning

ASSUME CliAssumption == Process = Cli /\ Builders \subseteq SUBSET Cli

(* A name is a word, which is a number here, and the indices put after it.       *)
Name == Seq(Nat)

ASSUME NameAssumption == Stem \in Name /\ NoName \in Name

ASSUME CommandAssumption ==
  /\ Commands \subseteq [kind : {"run", "console", "terminate"}, name : Name, cid : Nat,
                         debug : BOOLEAN, attach : BOOLEAN, timer : BOOLEAN]
  /\ AutoCid \subseteq Nat

(* The hypervisor gives a CID to one enclave at a time.                         *)
ASSUME RunningAssumption ==
  \A r \in Running :
    /\ r \in Seq([up : BOOLEAN, name : Name, cid : Nat, debug : BOOLEAN, out : Nat, known : {{}}])
    /\ \A a, b \in DOMAIN r : r[a].cid = r[b].cid => a = b

vars == <<buildVars, cliVars>>

(* What no process uses is left out.                                            *)
Init ==
  \E builders \in Builders :
    /\ BuildInit(builders, IF builders = {} THEN {NoImage} ELSE Image \cup {NoImage})
    /\ CliInit(Cli \ builders, IF builders = Cli THEN {<<>>} ELSE Running)

Over(p) == /\ bpc[p] \in {"idle", "failed", "done"}
           /\ cpc[p] \in {"idle", "failed", "done", "closed", "timed_out"}

(* All commands are over, or wait for what an enclave prints.                   *)
Rest == (\A p \in Cli : Over(p) \/ cpc[p] = "read") /\ UNCHANGED vars

(* The world goes on while a command does.                                      *)
World ==
  \/ (\E p \in DOMAIN bargs : ~Over(p)) /\ Retag /\ UNCHANGED cliVars
  \/ /\ \E p \in DOMAIN cmd : ~Over(p)
     /\ \E e \in DOMAIN enc : (EnclavePrints(e) \/ EnclaveEnds(e)) /\ UNCHANGED buildVars

Next ==
  \/ \E p \in DOMAIN bargs : BuildStep(p) /\ UNCHANGED cliVars
  \/ \E p \in DOMAIN cmd : CliStep(p) /\ UNCHANGED buildVars
  \/ World
  \/ Rest

(* epoll hands out ready descriptors in turn, so neither the console nor the    *)
(* timer waits for ever behind the other.                                       *)
Spec ==
  /\ Init /\ [][Next]_vars
  /\ \A p \in Cli : /\ WF_vars(ReadConsole(p) /\ UNCHANGED buildVars)
                    /\ WF_vars(TimerEvent(p) /\ UNCHANGED buildVars)
================================================================================
