------------------------------ MODULE CliBroadcast ------------------------------
(***************************************************************************)
(* The commands a CLI instance sends to every enclave process: describe-   *)
(* enclaves (enclave_proc_command_send_all) and terminate-enclave --all    *)
(* (terminate_all_enclaves). CLI instances and processes share the         *)
(* directory of the sockets: a process creates its socket, listens, and    *)
(* removes it at its end; a killed one leaves it; a CLI instance deletes   *)
(* those it cannot connect to. The life of a process between its start and *)
(* its end is in EnclaveProc.                                              *)
(***************************************************************************)
EXTENDS Naturals, FiniteSets

CONSTANTS
  Proc,        \* enclave processes
  Describe,    \* CLI instances that run describe-enclaves
  TerminateAll,\* CLI instances that run terminate-enclave --all
  MaxInstances,\* bound on the CLI instances that are run
  Others       \* processes that another user may have started

Cli == Describe \cup TerminateAll

ASSUME BroadcastAssumption ==
  /\ Describe \cap TerminateAll = {} /\ MaxInstances \in Nat
  /\ IsFiniteSet(Proc) /\ Others \subseteq Proc

VARIABLES
  denied,      \* processes whose sockets the user of the CLI may not connect to
  proc,        \* each process: "none", "bound", "listening", "up" or "gone"
  file,        \* its socket is in the directory
  pc,          \* where each CLI instance is
  present,     \* processes that were up when it started
  todo,        \* entries of the directory it has still to try
  bad,         \* sockets it takes for stale
  conns,       \* its connections
  expected,    \* num_replies_expected
  replies,     \* connections that go on to be read
  listed,      \* connections that gave an object and a status
  srv,         \* the other end of each connection
  code         \* the exit code

cliVars == <<pc, present, todo, bad, conns, expected, replies, listed, code>>
vars == <<denied, proc, file, srv, cliVars>>

Init ==
  /\ denied \in SUBSET Others
  /\ proc = [p \in Proc |-> "none"] /\ file = [p \in Proc |-> FALSE]
  /\ pc = [c \in Cli |-> "idle"] /\ code = [c \in Cli |-> "none"]
  /\ present = [c \in Cli |-> {}] /\ todo = [c \in Cli |-> {}] /\ bad = [c \in Cli |-> {}]
  /\ conns = [c \in Cli |-> {}] /\ replies = [c \in Cli |-> {}] /\ listed = [c \in Cli |-> {}]
  /\ expected = [c \in Cli |-> 0]
  /\ srv = [c \in Cli |-> [p \in Proc |-> "none"]]

--------------------------------------------------------------------------------
(* Enclave processes *)

Move(p, from, to) == proc[p] = from /\ proc' = [proc EXCEPT ![p] = to]

(* UnixListener::bind binds, then listens.                                      *)
Bind(p) == Move(p, "none", "bound") /\ file' = [file EXCEPT ![p] = TRUE] /\ UNCHANGED <<denied, srv, cliVars>>

Listen(p) == Move(p, "bound", "listening") /\ UNCHANGED <<denied, file, srv, cliVars>>

(* The streams of a process that ends: what it has written can still be read.   *)
Closed(p) == [c \in Cli |-> [srv[c] EXCEPT ![p] = CASE @ \in {"open", "queued"} -> "eof"
                                              [] @ = "confirmed" -> "unanswered"
                                              [] OTHER -> @]]

(* start_monitoring fails when the socket is gone already.                      *)
StartMonitoring(p) ==
  /\ IF file[p] THEN Move(p, "listening", "up") /\ UNCHANGED srv
     ELSE Move(p, "listening", "gone") /\ srv' = Closed(p)
  /\ UNCHANGED <<denied, file, cliVars>>

(* The monitor sees the socket disappear and ends the process.                  *)
SocketRemoved(p) ==
  /\ ~file[p] /\ Move(p, "up", "gone")
  /\ srv' = Closed(p)
  /\ UNCHANGED <<denied, file, cliVars>>

(* Somebody else deletes the socket: an instance that did not find the process  *)
(* listening yet, or a user.                                                    *)
DeleteSocket(p) ==
  /\ file[p] /\ file' = [file EXCEPT ![p] = FALSE]
  /\ UNCHANGED <<denied, proc, srv, cliVars>>

(* The process ends and removes its socket, or is killed and leaves it.         *)
EndProcess(p) ==
  /\ Move(p, "up", "gone")
  /\ srv' = Closed(p)
  /\ file' \in {file, [file EXCEPT ![p] = FALSE]}
  /\ UNCHANGED <<denied, cliVars>>

(* The process accepts a describe command, or drops the connection ...          *)
Confirm(p, c) ==
  /\ proc[p] = "up" /\ c \in Describe /\ srv[c][p] = "queued"
  /\ \E reply \in {"confirmed", "eof"} : srv' = [srv EXCEPT ![c][p] = reply]
  /\ UNCHANGED <<denied, proc, file, cliVars>>

(* ... and writes its object and status, which a terminate command gets without *)
(* a confirmation. A refused or failing command gets no object.                 *)
Answer(p, c) ==
  /\ proc[p] = "up"
  /\ srv[c][p] = IF c \in Describe THEN "confirmed" ELSE "queued"
  /\ \E result \in {"answered", "unanswered"} : srv' = [srv EXCEPT ![c][p] = result]
  /\ UNCHANGED <<denied, proc, file, cliVars>>

--------------------------------------------------------------------------------
(* CLI instances *)

Goto(c, from, to) == pc[c] = from /\ pc' = [pc EXCEPT ![c] = to]

Run == {c \in Cli : pc[c] # "idle"}

(* The directory is read.                                                       *)
ReadDir(c) ==
  /\ Cardinality(Run) < MaxInstances /\ Goto(c, "idle", "connect")
  /\ todo' = [todo EXCEPT ![c] = {p \in Proc : file[p]}]
  /\ present' = [present EXCEPT ![c] = {p \in Proc : proc[p] = "up" /\ file[p]}]
  /\ UNCHANGED <<denied, proc, file, srv, bad, conns, expected, replies, listed, code>>

(* Entries and connections are taken one after the other, in the order of the   *)
(* directory.                                                                   *)
IsNext(c, p) == todo[c] # {} /\ p = CHOOSE q \in todo[c] : TRUE

Connects(p) == proc[p] \in {"listening", "up"} /\ file[p] /\ p \notin denied

(* Mutant: every socket that cannot be connected to is stale. *)
AllFailuresStale(c, p) == ~Connects(p)

(* describe-enclaves leaves a socket alone that it may not connect to.          *)
Stale(c, p) == ~Connects(p) /\ ~(c \in Describe /\ p \in denied /\ file[p])

(* describe-enclaves deals with a stale socket, terminate-enclave with the      *)
(* command, before the next connection.                                         *)
Connect(c, p) ==
  /\ pc[c] = "connect" /\ IsNext(c, p)
  /\ IF c \in Describe THEN bad[c] = {} ELSE conns[c] = {}
  /\ todo' = [todo EXCEPT ![c] = @ \ {p}]
  /\ conns' = IF Connects(p) THEN [conns EXCEPT ![c] = @ \cup {p}] ELSE conns
  /\ srv' = IF Connects(p) THEN [srv EXCEPT ![c][p] = "open"] ELSE srv
  /\ bad' = IF Stale(c, p) THEN [bad EXCEPT ![c] = @ \cup {p}] ELSE bad
  /\ UNCHANGED <<denied, proc, file, pc, present, expected, replies, listed, code>>

RemoveStale(c, p) ==
  /\ pc[c] = IF c \in Describe THEN "connect" ELSE "remove"
  /\ p \in bad[c]
  /\ file' = [file EXCEPT ![p] = FALSE]
  /\ bad' = [bad EXCEPT ![c] = @ \ {p}]
  /\ UNCHANGED <<denied, proc, srv, pc, present, todo, conns, expected, replies, listed, code>>

(* enclave_proc_command_send_all: the command goes out on every connection; one *)
(* whose process has ended is dropped.                                          *)
StartSending(c) ==
  /\ c \in Describe /\ todo[c] = {} /\ bad[c] = {}
  /\ Goto(c, "connect", IF conns[c] = {} THEN "wait" ELSE "send")
  /\ todo' = [todo EXCEPT ![c] = conns[c]]
  /\ UNCHANGED <<denied, proc, file, srv, present, bad, conns, expected, replies, listed, code>>

SendDescribe(c, p) ==
  /\ IsNext(c, p)
  /\ Goto(c, "send", IF todo[c] = {p} THEN "wait" ELSE "send")
  /\ todo' = [todo EXCEPT ![c] = @ \ {p}]
  /\ IF srv[c][p] = "open"
     THEN srv' = [srv EXCEPT ![c][p] = "queued"] /\ expected' = [expected EXCEPT ![c] = @ + 1]
     ELSE srv' = [srv EXCEPT ![c][p] = "none"] /\ UNCHANGED expected
  /\ UNCHANGED <<denied, proc, file, present, bad, conns, replies, listed, code>>

Readable(c) == {p \in Proc \ replies[c] : srv[c][p] \in {"confirmed", "answered", "unanswered", "eof"}}

(* A confirmed connection is kept, one that ended is dropped.                   *)
TakeReply(c, p) ==
  /\ pc[c] = "wait" /\ expected[c] > 0 /\ p \in Readable(c)
  /\ expected' = [expected EXCEPT ![c] = @ - 1]
  /\ IF srv[c][p] = "eof"
     THEN srv' = [srv EXCEPT ![c][p] = "none"] /\ UNCHANGED replies
     ELSE replies' = [replies EXCEPT ![c] = @ \cup {p}] /\ UNCHANGED srv
  /\ UNCHANGED <<denied, proc, file, pc, present, todo, bad, conns, listed, code>>

(* Mutant: a time-out does not count. *)
WaitAgain(c) ==
  /\ pc[c] = "wait" /\ expected[c] > 0 /\ Readable(c) = {}
  /\ UNCHANGED vars

(* Nothing arrives for ENCLAVE_PROC_WAIT_TIMEOUT_MSEC: one reply less is        *)
(* expected, whoever it was that did not answer.                                *)
TimeOut(c) ==
  /\ pc[c] = "wait" /\ expected[c] > 0 /\ Readable(c) = {}
  /\ expected' = [expected EXCEPT ![c] = @ - 1]
  /\ UNCHANGED <<denied, proc, file, srv, pc, present, todo, bad, conns, replies, listed, code>>

(* terminate_all_enclaves: a connection on which sending fails is taken for     *)
(* stale.                                                                       *)
SendTerminate(c, p) ==
  /\ c \in TerminateAll /\ pc[c] = "connect" /\ p \in conns[c]
  /\ conns' = [conns EXCEPT ![c] = {}]
  /\ IF srv[c][p] = "open"
     THEN /\ srv' = [srv EXCEPT ![c][p] = "queued"]
          /\ replies' = [replies EXCEPT ![c] = @ \cup {p}] /\ UNCHANGED <<bad, expected>>
     ELSE /\ srv' = [srv EXCEPT ![c][p] = "none"]
          /\ bad' = [bad EXCEPT ![c] = @ \cup {p}] /\ UNCHANGED <<replies, expected>>
  /\ UNCHANGED <<denied, proc, file, pc, present, todo, listed, code>>

(* The failed connections are counted, then their sockets removed.              *)
StartRemoving(c) ==
  /\ c \in TerminateAll /\ todo[c] = {} /\ conns[c] = {}
  /\ Goto(c, "connect", "remove")
  /\ expected' = [expected EXCEPT ![c] = Cardinality(bad[c])]
  /\ UNCHANGED <<denied, proc, file, srv, present, todo, bad, conns, replies, listed, code>>

(* enclave_proc_handle_outputs reads every connection to its end.               *)
StartReading(c) ==
  /\ \/ c \in Describe /\ expected[c] = 0 /\ Goto(c, "wait", "read")
     \/ bad[c] = {} /\ Goto(c, "remove", "read")
  /\ todo' = [todo EXCEPT ![c] = replies[c]]
  /\ UNCHANGED <<denied, proc, file, srv, present, bad, conns, expected, replies, listed, code>>

HandleOutput(c, p) ==
  /\ pc[c] = "read" /\ IsNext(c, p) /\ srv[c][p] \in {"answered", "unanswered", "eof"}
  /\ todo' = [todo EXCEPT ![c] = @ \ {p}]
  /\ listed' = IF srv[c][p] = "answered" THEN [listed EXCEPT ![c] = @ \cup {p}] ELSE listed
  /\ UNCHANGED <<denied, proc, file, srv, pc, present, bad, conns, expected, replies, code>>

(* Mutant: only connections that were confirmed are counted. *)
FailedReplies(c) == Cardinality(replies[c] \ listed[c])

(* failed_conns of enclave_process_handle_all_replies, with the errors of the   *)
(* broadcast: connections without a reply, or sockets without a connection.     *)
FailedConns(c) ==
  Cardinality(replies[c] \ listed[c])
    + IF c \in Describe THEN Cardinality(conns[c]) - Cardinality(replies[c]) ELSE expected[c]

(* The instance reports and ends; its connections are closed.                   *)
Exit(c) ==
  /\ todo[c] = {} /\ Goto(c, "read", "exit")
  /\ code' = [code EXCEPT ![c] = IF FailedConns(c) > 0 THEN "error" ELSE "ok"]
  /\ srv' = [srv EXCEPT ![c] = [p \in Proc |-> "none"]]
  /\ conns' = [conns EXCEPT ![c] = {}] /\ replies' = [replies EXCEPT ![c] = {}]
  /\ expected' = [expected EXCEPT ![c] = 0]
  /\ UNCHANGED <<denied, proc, file, present, todo, bad, listed>>

Process(p) ==
  \/ Bind(p) \/ Listen(p) \/ StartMonitoring(p) \/ DeleteSocket(p) \/ SocketRemoved(p) \/ EndProcess(p)
  \/ \E c \in Cli : Confirm(p, c) \/ Answer(p, c)

Instance(c) ==
  \/ StartSending(c) \/ TimeOut(c) \/ StartRemoving(c) \/ StartReading(c) \/ Exit(c)
  \/ \E p \in Proc : \/ Connect(c, p) \/ RemoveStale(c, p) \/ SendDescribe(c, p) \/ TakeReply(c, p)
                      \/ SendTerminate(c, p) \/ HandleOutput(c, p)

(* All instances have exited.                                                   *)
Rest ==
  /\ Cardinality(Run) = MaxInstances /\ \A c \in Run : pc[c] = "exit"
  /\ UNCHANGED vars

Next ==
  \/ \E p \in Proc : Process(p)
  \/ \E c \in Cli : ReadDir(c) \/ Instance(c)
  \/ Rest

Spec == Init /\ [][Next]_vars

(* CLI instances run, and a process starts and deals with the commands it has   *)
(* confirmed and with terminate commands. Nothing makes it confirm in time.     *)
FairSpec ==
  /\ Spec
  /\ \A c \in Cli : WF_vars(Instance(c))
  /\ \A p \in Proc : WF_vars(Listen(p) \/ StartMonitoring(p) \/ \E c \in Cli : Answer(p, c))

--------------------------------------------------------------------------------
(* Properties *)

(* An instance that exits successfully leaves nobody out: describe-enclaves     *)
(* lists every process that was up before it started, has kept its socket and   *)
(* may be connected to; terminate-enclave --all has the answer of every process *)
(* that was up. A time-out, a late reply taken in another one's place, a        *)
(* process that ends or a socket that disappears makes it fail instead.         *)
SuccessIsComplete ==
  \A c \in Cli : \A p \in present[c] \ listed[c] :
    code[c] = "ok" => c \in Describe /\ (~file[p] \/ proc[p] = "gone" \/ p \in denied)

(* The socket of a process that was up before an instance started is not taken  *)
(* for a stale one while the process is there, unless terminate-enclave --all   *)
(* may not connect to it.                                                       *)
LiveSocketsKept ==
  \A c \in Cli : \A p \in bad[c] \cap present[c] :
    proc[p] = "gone" \/ ~file[p] \/ (c \in TerminateAll /\ p \in denied)

(* Every instance exits, whatever the processes do.                             *)
InstanceExits == \A c \in Cli : pc[c] # "idle" ~> pc[c] = "exit"

================================================================================
