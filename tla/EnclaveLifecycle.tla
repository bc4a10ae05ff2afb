--------------------------- MODULE EnclaveLifecycle ---------------------------
(***************************************************************************)
(* What an enclave process promises its clients: the enclave boots at most *)
(* once and stops for good, a client is told that it was terminated only   *)
(* after it stopped, and no enclave outlives its process.                  *)
(***************************************************************************)
CONSTANT Conn

VARIABLES
  life,   \* "none", "running" or "stopped"
  told,   \* the clients that received the termination record
  gone    \* the process has exited

lifecycleVars == <<life, told, gone>>

Init == life = "none" /\ told = {} /\ gone = FALSE

Boot ==
  /\ ~gone /\ life = "none"
  /\ life' = "running"
  /\ UNCHANGED <<told, gone>>

Stop ==
  /\ ~gone /\ life = "running"
  /\ life' = "stopped"
  /\ UNCHANGED <<told, gone>>

Confirm(c) ==
  /\ ~gone /\ life = "stopped"
  /\ told' = told \cup {c}
  /\ UNCHANGED <<life, gone>>

Exit ==
  /\ ~gone
  /\ gone' = TRUE
  /\ life' = IF life = "none" THEN "none" ELSE "stopped"
  /\ UNCHANGED told

Next == Boot \/ Stop \/ Exit \/ \E c \in Conn : Confirm(c)

Spec == Init /\ [][Next]_lifecycleVars
===============================================================================
