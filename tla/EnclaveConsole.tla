---------------------------- MODULE EnclaveConsole ----------------------------
(***************************************************************************)
(* run-enclave, console and terminate-enclave as CLI processes run them    *)
(* (src/main.rs, src/lib.rs, src/utils.rs): an enclave gets a name, is     *)
(* found by it, and its console is read until it ends or a timer fires.    *)
(* What an enclave process does inside is in EnclaveProc and EnclaveHandle;*)
(* here it is an enclave that appears, answers while it is up, and ends.   *)
(***************************************************************************)
EXTENDS Naturals, Sequences, FiniteSets, FiniteSetsExt

CONSTANTS
  Process,     \* CLI processes
  Commands,    \* [kind, name, cid, debug, attach, timer]
  NoName,      \* enclave-name was not given
  Stem,        \* the name of the EIF file without its extension
  AutoCid,     \* CIDs the hypervisor hands out
  BufferSize,  \* BUFFER_SIZE
  MaxOutput    \* characters an enclave prints to its consoles

ASSUME ConsoleAssumption == BufferSize \in Nat \ {0}

VARIABLES
  cpc, cmd,
  enc,         \* enclaves by slot: [up, name, cid, debug, out, known]
  own,         \* what each process found out: [heard, name, slot, cid]
  con          \* its console: [on, pipe, from, printed, cut, expired]

cliVars == <<cpc, cmd, enc, own, con>>

Up == {e \in DOMAIN enc : enc[e].up}

(* heard: slots that answered; name: the name of a new enclave; slot: the enclave  *)
(* the command is about; cid: its CID, as reported.                                *)
NoOwn == [heard |-> {}, name |-> NoName, slot |-> 0, cid |-> 0]

(* on: slot whose console is read; pipe: characters on their way; from: characters *)
(* printed before; printed: characters written to the output; cut: a write took    *)
(* fewer characters than it was given.                                             *)
NoCon == [on |-> 0, pipe |-> <<>>, from |-> 0, printed |-> <<>>, cut |-> FALSE, expired |-> FALSE]

CliInit(processes, running) ==
  /\ cmd \in [processes -> Commands]
  /\ cpc = [p \in Process |-> IF p \notin processes THEN "idle"
                              ELSE IF cmd[p].kind = "run" THEN "spawn" ELSE "find"]
  /\ enc \in running
  /\ own = [p \in Process |-> NoOwn] /\ con = [p \in Process |-> NoCon]

Move(p, src, dst) == cpc[p] = src /\ cpc' = [cpc EXCEPT ![p] = dst] /\ UNCHANGED cmd

(* ok_or_exit_with_errno: the process exits.                                       *)
Exit(p, src, dst) ==
  /\ Move(p, src, dst)
  /\ own' = [own EXCEPT ![p] = NoOwn] /\ con' = [con EXCEPT ![p] = NoCon]

CommandFails(p) ==
  /\ \E s \in {"spawn", "names", "send", "find", "cid", "flags", "connect", "read"} : Exit(p, s, "failed")
  /\ UNCHANGED enc

--------------------------------------------------------------------------------
(* run-enclave *)

(* enclave_proc_spawn forks the enclave process.                                *)
SpawnProcess(p) == Move(p, "spawn", "names") /\ UNCHANGED <<enc, own, con>>

(* get_all_enclave_names: processes that cannot be reached, or fail to answer,   *)
(* are passed over; an enclave being launched has no socket yet.                 *)
GetAllEnclaveNames(p) ==
  /\ Move(p, "names", "name")
  /\ \E answers \in SUBSET Up : own' = [own EXCEPT ![p].heard = answers]
  /\ UNCHANGED <<enc, con>>

(* Mutant: one index is tried. *)
FirstIndex(name, names) == IF name \in names THEN Append(name, 1) ELSE name

(* The name itself, or the first one made from it with _1, _2 ... that is free.   *)
FirstFree(name, names) ==
  IF name \notin names THEN name
  ELSE Append(name, Min({i \in 1..Cardinality(names) + 1 : Append(name, i) \notin names}))

NewEnclaveName(p) ==
  LET wanted == IF cmd[p].name = NoName THEN Stem ELSE cmd[p].name
  IN  /\ Move(p, "name", "send")
      /\ own' = [own EXCEPT ![p].name = FirstFree(wanted, {enc[e].name : e \in own[p].heard})]
      /\ UNCHANGED <<enc, con>>

(* Mutant: attach-console leaves debug-mode as it is. *)
DebugAsGiven(c) == c.debug

(* debug_mode of commands_parser.rs: attaching the console implies it.            *)
DebugMode(c) == c.debug \/ c.attach

(* The Run command is served: the enclave boots, with the CID asked for if that    *)
(* is free, and can be reached from now on.                                        *)
EnclaveRuns(p) ==
  \E c \in (IF cmd[p].cid = 0 THEN AutoCid ELSE {cmd[p].cid}) \ {enc[e].cid : e \in Up} :
    /\ enc' = Append(enc, [up |-> TRUE, name |-> own[p].name, cid |-> c, debug |-> DebugMode(cmd[p]),
                           out |-> 0, known |-> own[p].heard])
    /\ \/ /\ cmd[p].attach
          /\ Move(p, "send", "connect")
          /\ own' = [own EXCEPT ![p].slot = Len(enc) + 1, ![p].cid = c]
          /\ UNCHANGED con
       \/ ~cmd[p].attach /\ Exit(p, "send", "done")

--------------------------------------------------------------------------------
(* console and terminate-enclave *)

Found(c) == IF c.kind = "console" THEN "cid" ELSE "terminate"

(* ConsoleArgs, TerminateEnclavesArgs: an ID is taken as it is given, also that of  *)
(* an enclave that has ended; ...                                                   *)
ParseEnclaveId(p) ==
  /\ cmd[p].name = NoName
  /\ Move(p, "find", Found(cmd[p]))
  /\ \E e \in DOMAIN enc : own' = [own EXCEPT ![p].slot = e]
  /\ UNCHANGED <<enc, con>>

(* ... for a name exactly one process has to answer get_id_by_name.                 *)
GetIdByName(p) ==
  /\ cmd[p].name # NoName
  /\ \E answers \in SUBSET {e \in Up : enc[e].name = cmd[p].name} :
       \/ /\ Cardinality(answers) = 1
          /\ Move(p, "find", Found(cmd[p]))
          /\ \E e \in answers : own' = [own EXCEPT ![p].slot = e]
          /\ UNCHANGED con
       \/ Cardinality(answers) # 1 /\ Exit(p, "find", "failed")
  /\ UNCHANGED enc

(* enclave_proc_connect_to_single fails once the process is gone.                   *)
ProcessGone(p) ==
  /\ \E s \in {"terminate", "cid", "flags"} : Exit(p, s, "failed")
  /\ own[p].slot \notin Up
  /\ UNCHANGED enc

Terminate(p) ==
  /\ Exit(p, "terminate", "done")
  /\ own[p].slot \in Up
  /\ enc' = [enc EXCEPT ![own[p].slot].up = FALSE]

EnclaveProcGetCid(p) ==
  /\ Move(p, "cid", "flags")
  /\ own[p].slot \in Up
  /\ own' = [own EXCEPT ![p].cid = enc[own[p].slot].cid]
  /\ UNCHANGED <<enc, con>>

(* Without the debug flag there is no console.                                      *)
EnclaveProcGetFlags(p) ==
  /\ \/ Move(p, "flags", "connect") /\ enc[own[p].slot].debug /\ UNCHANGED <<own, con>>
     \/ Exit(p, "flags", "failed") /\ ~enc[own[p].slot].debug
  /\ own[p].slot \in Up
  /\ UNCHANGED enc

(* Console::new: the hypervisor offers the console of the enclave that now has the  *)
(* CID, if it is in debug mode; the attempt is given up after 20 seconds.           *)
Offered(cid) == {e \in Up : enc[e].cid = cid /\ enc[e].debug}

ConnectConsole(p) ==
  /\ \/ /\ Move(p, "connect", "read")
        /\ \E e \in Offered(own[p].cid) :
             con' = [con EXCEPT ![p].on = e, ![p].from = enc[e].out]
        /\ UNCHANGED own
     \/ Exit(p, "connect", "failed") /\ Offered(own[p].cid) = {}
  /\ UNCHANGED enc

(* Mutant: a chunk that does not fill the buffer is taken for the last one. *)
LastChunk(chunk) == Len(chunk) < BufferSize

(* read returns nothing once the enclave has ended and everything was read.         *)
EndOfConsole(chunk) == chunk = <<>>

(* read_to, an event on the console: a chunk is read and handed to one write, which *)
(* need not take all of it.                                                         *)
ReadConsole(p) ==
  LET chunk == SubSeq(con[p].pipe, 1, Min({BufferSize, Len(con[p].pipe)}))
  IN  /\ Move(p, "read", IF EndOfConsole(chunk) THEN "closed" ELSE "read")
      /\ con[p].pipe # <<>> \/ ~enc[con[p].on].up
      /\ \E n \in Min({1, Len(chunk)})..Len(chunk) :
           con' = [con EXCEPT ![p].pipe = SubSeq(@, Len(chunk) + 1, Len(@)),
                              ![p].printed = @ \o SubSeq(chunk, 1, n),
                              ![p].cut = @ \/ n < Len(chunk)]
      /\ UNCHANGED <<enc, own>>

TimerExpires(p) ==
  /\ cmd[p].timer /\ ~con[p].expired
  /\ Move(p, "read", "read")
  /\ con' = [con EXCEPT ![p].expired = TRUE]
  /\ UNCHANGED <<enc, own>>

(* Mutant: any event that is not the console's is passed over. *)
IgnoreTimer(p) == Move(p, "read", "read") /\ con[p].expired /\ UNCHANGED <<enc, own, con>>

(* read_to, an event on the timer: the console is closed.                            *)
TimerEvent(p) == Exit(p, "read", "timed_out") /\ con[p].expired /\ UNCHANGED enc

--------------------------------------------------------------------------------
(* The enclaves *)

Readers(e) == {p \in Process : cpc[p] = "read" /\ con[p].on = e}

(* What nobody reads is lost.                                                        *)
EnclavePrints(e) ==
  /\ enc[e].up /\ enc[e].out < MaxOutput /\ Readers(e) # {}
  /\ enc' = [enc EXCEPT ![e].out = @ + 1]
  /\ con' = [p \in Process |->
               IF p \in Readers(e) THEN [con[p] EXCEPT !.pipe = Append(@, enc[e].out + 1)] ELSE con[p]]
  /\ UNCHANGED <<cpc, cmd, own>>

EnclaveEnds(e) ==
  /\ enc[e].up
  /\ enc' = [enc EXCEPT ![e].up = FALSE]
  /\ UNCHANGED <<cpc, cmd, own, con>>

CliStep(p) ==
  \/ CommandFails(p) \/ SpawnProcess(p) \/ GetAllEnclaveNames(p) \/ NewEnclaveName(p)
  \/ EnclaveRuns(p) \/ ParseEnclaveId(p) \/ GetIdByName(p) \/ ProcessGone(p) \/ Terminate(p)
  \/ EnclaveProcGetCid(p) \/ EnclaveProcGetFlags(p) \/ ConnectConsole(p) \/ ReadConsole(p)
  \/ TimerExpires(p) \/ TimerEvent(p)

--------------------------------------------------------------------------------
(* Properties *)

(* Two enclaves that are up have the same name only if the later one's launch did   *)
(* not hear of the other: both were being launched at once, or a process did not    *)
(* answer.                                                                          *)
SameNameMeansRace ==
  \A a, b \in Up : a < b /\ enc[a].name = enc[b].name => a \notin enc[b].known

(* A console that was closed by the end of its enclave has shown everything the     *)
(* enclave printed meanwhile, in order, if every write took all it was given.       *)
ConsoleIsComplete ==
  \A p \in Process :
    cpc[p] = "closed" /\ ~con[p].cut
      => con[p].printed = [i \in 1..enc[con[p].on].out - con[p].from |-> con[p].from + i]

(* A console shows the enclave that was named or launched as long as that enclave   *)
(* is up, and attach-console never finds one without a console. Once it has ended,  *)
(* an enclave that took over its CID may be shown instead.                          *)
ConsoleIsOwn ==
  \A p \in Process :
    /\ cpc[p] = "read" /\ enc[own[p].slot].up => con[p].on = own[p].slot
    /\ cpc[p] = "connect" => enc[own[p].slot].debug

(* A console whose enclave has ended, or whose timer ran out, is left.              *)
ConsoleEnds ==
  \A p \in Process : []<>~(cpc[p] = "read" /\ (con[p].expired \/ ~enc[con[p].on].up))
================================================================================
